------------------------- MODULE ProgressHubProofs --------------------------
(***************************************************************************)
(* Theorems about ProgressHub, for any number of emitters, events, sinks   *)
(* and closers and for every size of channel, batch and time-out.          *)
(***************************************************************************)
EXTENDS ProgressHub, SequenceTheorems, TLAPS

-----------------------------------------------------------------------------
(* What moving an event does to a concatenation.                           *)

\* Receiving moves the border between batch and channel, not an event.
LEMMA ReceiveMovesBorder ==
  ASSUME NEW o \in Seq(Event), NEW b \in Seq(Event), NEW ch \in Seq(Event), ch # <<>>
  PROVE  o \o Append(b, Head(ch)) \o Tail(ch) = o \o b \o ch
  <1>1. Head(ch) \in Event /\ Tail(ch) \in Seq(Event) /\ Len(Tail(ch)) = Len(ch) - 1
    BY HeadTailProperties
  <1>2. <<Head(ch)>> \in Seq(Event) /\ <<Head(ch)>> \o Tail(ch) = ch
    <2>1. <<Head(ch)>> \in Seq(Event) /\ Len(<<Head(ch)>>) = 1 /\ <<Head(ch)>>[1] = ch[1]
      BY <1>1
    <2>2. <<Head(ch)>> \o Tail(ch) \in Seq(Event) /\ Len(<<Head(ch)>> \o Tail(ch)) = Len(ch)
      BY <1>1, <2>1, ConcatProperties, LenProperties
    <2>3. \A i \in 1..Len(ch) : (<<Head(ch)>> \o Tail(ch))[i] = ch[i]
      BY <1>1, <2>1, ConcatProperties, HeadTailProperties, LenProperties
    <2> QED BY <2>1, <2>2, <2>3, SeqEqual
  <1>3. o \o Append(b, Head(ch)) = (o \o b) \o <<Head(ch)>>
    BY <1>1, <1>2, AppendIsConcat, ConcatAssociative
  <1>4. ((o \o b) \o <<Head(ch)>>) \o Tail(ch) = (o \o b) \o ch
    BY <1>1, <1>2, ConcatAssociative, ConcatProperties
  <1> QED BY <1>3, <1>4

\* Sending appends to the channel what is appended to the whole.
LEMMA SendAppends ==
  ASSUME NEW o \in Seq(Event), NEW ch \in Seq(Event), NEW v \in Event
  PROVE  /\ Append(ch, v) \in Seq(Event) /\ Len(Append(ch, v)) = Len(ch) + 1
         /\ o \o Append(ch, v) = Append(o \o ch, v)
  <1>1. Append(ch, v) \in Seq(Event) /\ Len(Append(ch, v)) = Len(ch) + 1
    BY AppendProperties
  <1>2. o \o ch \in Seq(Event) BY ConcatProperties
  <1>3. Append(ch, v) = ch \o <<v>> /\ Append(o \o ch, v) = (o \o ch) \o <<v>>
    BY <1>2, AppendIsConcat
  <1>4. <<v>> \in Seq(Event) OBVIOUS
  <1>5. (o \o ch) \o <<v>> = o \o (ch \o <<v>>)
    BY <1>4, ConcatAssociative
  <1> QED BY <1>1, <1>3, <1>5

-----------------------------------------------------------------------------
(* The inductive invariant.                                                *)

\* A batch at rest has room for one more event, a batch that is being flushed
\* is not empty, and the goroutine ends with an empty one.
BatchInv ==
  /\ at = 0 => Len(batch) < MaxBatchEvents
  /\ at > 0 => batch # <<>>
  /\ hpc \in {"final", "done"} /\ at = 0 => batch = <<>>
  /\ hpc = "done" => at = 0

\* The timer runs only for a batch that waits.
TimerInv ==
  /\ WaitingBatchHasTimer
  /\ at > 0 \/ hpc # "run" => timer = Off

\* What is left on the timer counts as age already.
AgeInv ==
  hpc = "run" /\ at = 0 =>
    IF batch = <<>> THEN age = 0 ELSE age + timer <= Len(batch) * MaxBatchWait

\* Once the drain has found the channel empty, what it took before Close is out
\* of it; only then does Close return nil.
CloseInv ==
  /\ hpc # "run" => closed
  /\ atClose <= Len(accepted)
  /\ hpc \in {"final", "done"} => atClose + Len(events) <= Len(accepted)
  /\ \A c \in Closers : cpc[c] = "nil" => hpc = "done"

\* An emitter that is about to send has an event left to send.
EmitInv == \A e \in Emitters : epc[e] = "send" => sent[e] < MaxEmits

IInv ==
  /\ TypeOK /\ EmitInv /\ BatchInv /\ TimerInv /\ AgeInv
  /\ NothingLostOrReordered /\ CloseInv

\* What Receive does to the batch, the channel and the two together.
LEMMA Received ==
  ASSUME TypeOK, Receive
  PROVE  /\ batch' \in Seq(Event) /\ Len(batch') = Len(batch) + 1 /\ batch' # <<>>
         /\ events' \in Seq(Event) /\ Len(events') = Len(events) - 1
         /\ \A o \in Seq(Event) : o \o batch' \o events' = o \o batch \o events
  <1>1. batch \in Seq(Event) /\ events \in Seq(Event) /\ events # <<>>
    BY DEF TypeOK, Receive
  <1>2. batch' = Append(batch, Head(events)) /\ events' = Tail(events)
    BY DEF Receive
  <1>3. Head(events) \in Event /\ events' \in Seq(Event) /\ Len(events') = Len(events) - 1
    BY <1>1, <1>2, HeadTailProperties
  <1>4. batch' \in Seq(Event) /\ Len(batch') = Len(batch) + 1 /\ batch' # <<>>
    BY <1>1, <1>2, <1>3, AppendProperties
  <1>5. ASSUME NEW o \in Seq(Event)
        PROVE  o \o batch' \o events' = o \o batch \o events
    <2>1. o \o Append(batch, Head(events)) \o Tail(events) = o \o batch \o events
      BY <1>1, ReceiveMovesBorder
    <2> QED BY <1>2, <2>1
  <1> QED BY <1>3, <1>4, <1>5

\* What Consume does to the sink it calls.
LEMMA Consumed ==
  ASSUME TypeOK, Consume
  PROVE  /\ at \in Sinks /\ offered[at] \o batch \in Seq(Event)
         /\ offered' \in [Sinks -> Seq(Event)]
         /\ \A s \in Sinks : offered'[s] = IF s = at THEN offered[at] \o batch ELSE offered[s]
  <1>1. at \in Sinks BY ConfigAssumption DEF TypeOK, Consume, Sinks
  <1>2. offered[at] \in Seq(Event) /\ batch \in Seq(Event) BY <1>1 DEF TypeOK
  <1>3. offered[at] \o batch \in Seq(Event) BY <1>2, ConcatProperties
  <1> QED BY <1>1, <1>3 DEF TypeOK, Consume

\* Emitters and closers leave the goroutine and the sinks alone.
LEMMA OthersLeaveHub ==
  ASSUME NEW e, NEW c
  PROVE  EmitStep(e) \/ Close(c) \/ CloseReturns(c) \/ CloseTimesOut(c) \/ UNCHANGED vars
           => UNCHANGED <<hpc, batch, at, timer, age, offered>>
  BY DEF EmitStep, EmitCheck, EmitSend, EmitDrop, Close, CloseReturns, CloseTimesOut,
         hubVars, vars

-----------------------------------------------------------------------------
(* One lemma per conjunct, with one case per action that can disturb it.   *)

\* Types are kept: a full channel drops, a full batch is flushed at once.
LEMMA TypeStep ==
  ASSUME TypeOK, EmitInv, BatchInv, [Next]_vars
  PROVE  TypeOK'
  <1> USE ConfigAssumption, BoundAssumption
  <1>1. ASSUME NEW e \in Emitters, EmitCheck(e) PROVE TypeOK'
    BY <1>1 DEF EmitCheck, TypeOK, hubVars
  <1>2. ASSUME NEW e \in Emitters, EmitSend(e) PROVE TypeOK'
    <2>1. <<e, sent[e] + 1>> \in Event /\ sent[e] + 1 \in 0..MaxEmits
      BY <1>2 DEF EmitSend, TypeOK, EmitInv, Event
    <2>2. events' \in Seq(Event) /\ Len(events') = Len(events) + 1 /\ accepted' \in Seq(Event)
      BY <1>2, <2>1, AppendProperties DEF EmitSend, TypeOK
    <2> QED BY <1>2, <2>1, <2>2, LenProperties DEF EmitSend, EmitReturns, TypeOK, hubVars
  <1>3. ASSUME NEW e \in Emitters, EmitDrop(e) PROVE TypeOK'
    BY <1>3 DEF EmitDrop, EmitReturns, TypeOK, EmitInv, hubVars
  <1>4. CASE EnqueueEvent
    <2>1. /\ batch' \in Seq(Event) /\ Len(batch') <= MaxBatchEvents
          /\ events' \in Seq(Event) /\ Len(events') <= BufferSize
      BY <1>4, Received, LenProperties DEF EnqueueEvent, TypeOK, BatchInv
    <2>2. at' \in 0..NumSinks /\ timer' \in 0..Off /\ age' \in Nat
      BY <1>4 DEF EnqueueEvent, TypeOK, Off
    <2> QED BY <1>4, <2>1, <2>2 DEF EnqueueEvent, TypeOK
  <1>5. CASE TimerFires
    BY <1>5 DEF TimerFires, TypeOK, Off
  <1>6. CASE Consume
    BY <1>6, Consumed, EmptySeq DEF Consume, TypeOK, Sinks
  <1>7. CASE HandleStop
    BY <1>7 DEF HandleStop, TypeOK, Off
  <1>8. CASE DrainEvent
    BY <1>8, Received DEF DrainEvent, TypeOK, BatchInv
  <1>9. CASE DrainEmpty
    BY <1>9 DEF DrainEmpty, TypeOK
  <1>10. CASE CloseSinks
    BY <1>10 DEF CloseSinks, TypeOK
  <1>11. CASE Tick
    BY <1>11 DEF Tick, TypeOK, Off
  <1>12. ASSUME NEW c \in Closers, Close(c) \/ CloseReturns(c) \/ CloseTimesOut(c) PROVE TypeOK'
    BY <1>12, LenProperties DEF Close, CloseReturns, CloseTimesOut, TypeOK, hubVars
  <1>13. CASE UNCHANGED vars
    BY <1>13 DEF vars, TypeOK
  <1> QED BY <1>1, <1>2, <1>3, <1>4, <1>5, <1>6, <1>7, <1>8, <1>9, <1>10, <1>11, <1>12, <1>13
          DEF Next, EmitStep, HubStep

\* Only emitters move their own counters.
LEMMA EmitInvStep ==
  ASSUME TypeOK, EmitInv, [Next]_vars
  PROVE  EmitInv'
  <1>1. ASSUME NEW e \in Emitters, EmitStep(e) PROVE EmitInv'
    BY <1>1 DEF EmitStep, EmitCheck, EmitSend, EmitDrop, EmitReturns, TypeOK, EmitInv
  <1>2. ASSUME UNCHANGED <<epc, sent>> PROVE EmitInv'
    BY <1>2 DEF EmitInv
  <1>3. HubStep \/ Tick \/ UNCHANGED vars => UNCHANGED <<epc, sent>>
    BY DEF HubStep, EnqueueEvent, TimerFires, Consume, HandleStop, DrainEvent, DrainEmpty,
           CloseSinks, Tick, vars
  <1>4. \A c \in Closers :
          Close(c) \/ CloseReturns(c) \/ CloseTimesOut(c) => UNCHANGED <<epc, sent>>
    BY DEF Close, CloseReturns, CloseTimesOut
  <1> QED BY <1>1, <1>2, <1>3, <1>4 DEF Next

\* A batch is flushed when it is full, by the timer, or at the end.
LEMMA BatchStep ==
  ASSUME TypeOK, BatchInv, [Next]_vars
  PROVE  BatchInv'
  <1> USE ConfigAssumption
  <1>1. CASE EnqueueEvent
    BY <1>1, Received DEF EnqueueEvent, TypeOK, BatchInv
  <1>2. CASE TimerFires
    BY <1>2 DEF TimerFires, TypeOK, BatchInv
  <1>3. CASE Consume
    BY <1>3, EmptySeq DEF Consume, TypeOK, BatchInv
  <1>4. CASE HandleStop
    BY <1>4 DEF HandleStop, BatchInv
  <1>5. CASE DrainEvent
    BY <1>5, Received DEF DrainEvent, TypeOK, BatchInv
  <1>6. CASE DrainEmpty
    BY <1>6 DEF DrainEmpty, BatchInv
  <1>7. CASE CloseSinks
    BY <1>7 DEF CloseSinks, BatchInv
  <1>8. CASE Tick
    BY <1>8 DEF Tick, BatchInv
  <1>9. ASSUME UNCHANGED <<hpc, batch, at, timer, age, offered>> PROVE BatchInv'
    BY <1>9 DEF BatchInv
  <1> QED BY <1>1, <1>2, <1>3, <1>4, <1>5, <1>6, <1>7, <1>8, <1>9, OthersLeaveHub
          DEF Next, HubStep

\* Every event arms the timer, every flush and the stop turn it off.
LEMMA TimerStep ==
  ASSUME TypeOK, BatchInv, TimerInv, [Next]_vars
  PROVE  TimerInv'
  <1> USE ConfigAssumption DEF TimerInv, WaitingBatchHasTimer, Off
  <1>1. CASE EnqueueEvent
    BY <1>1, Received DEF EnqueueEvent, TypeOK
  <1>2. CASE TimerFires
    BY <1>2 DEF TimerFires, TypeOK
  <1>3. CASE Consume
    BY <1>3 DEF Consume, TypeOK
  <1>4. CASE HandleStop
    BY <1>4 DEF HandleStop, TypeOK
  <1>5. CASE DrainEvent \/ DrainEmpty \/ CloseSinks
    BY <1>5 DEF DrainEvent, DrainEmpty, CloseSinks, TypeOK
  <1>6. CASE Tick
    BY <1>6 DEF Tick, TypeOK
  <1>7. ASSUME UNCHANGED <<hpc, batch, at, timer, age, offered>> PROVE TimerInv'
    BY <1>7
  <1> QED BY <1>1, <1>2, <1>3, <1>4, <1>5, <1>6, <1>7, OthersLeaveHub DEF Next, HubStep

\* An event adds MaxBatchWait to the bound, and at most that to the timer.
LEMMA AgeStep ==
  ASSUME TypeOK, BatchInv, TimerInv, AgeInv, [Next]_vars
  PROVE  AgeInv'
  <1> USE ConfigAssumption DEF AgeInv
  <1>1. CASE EnqueueEvent
    <2>1. Len(batch) \in Nat /\ batch' # <<>> /\ Len(batch') = Len(batch) + 1
      BY <1>1, Received, LenProperties DEF EnqueueEvent, TypeOK
    <2>2. Len(batch') * MaxBatchWait = Len(batch) * MaxBatchWait + MaxBatchWait
      BY <2>1
    <2>3. Len(batch) * MaxBatchWait \in Nat BY <2>1
    <2>4. age' <= Len(batch) * MaxBatchWait /\ age' \in Nat
      BY <1>1, <2>1, <2>3 DEF EnqueueEvent, TypeOK
    <2>5. at' = 0 => timer' = MaxBatchWait BY <1>1 DEF EnqueueEvent
    <2> HIDE DEF AgeInv
    <2> QED BY <2>1, <2>2, <2>3, <2>4, <2>5 DEF AgeInv
  <1>2. CASE TimerFires
    BY <1>2 DEF TimerFires, TypeOK, TimerInv, WaitingBatchHasTimer, Off
  <1>3. CASE Consume
    BY <1>3 DEF Consume, TypeOK
  <1>4. CASE HandleStop \/ DrainEvent \/ DrainEmpty \/ CloseSinks
    BY <1>4 DEF HandleStop, DrainEvent, DrainEmpty, CloseSinks
  <1>5. CASE Tick
    BY <1>5 DEF Tick, TypeOK, TimerInv, WaitingBatchHasTimer, Off
  <1>6. ASSUME UNCHANGED <<hpc, batch, at, timer, age, offered>> PROVE AgeInv'
    BY <1>6
  <1> QED BY <1>1, <1>2, <1>3, <1>4, <1>5, <1>6, OthersLeaveHub DEF Next, HubStep

\* Events move from the channel to the batch to the sinks, in order.
LEMMA DeliveryStep ==
  ASSUME TypeOK, EmitInv, NothingLostOrReordered, [Next]_vars
  PROVE  NothingLostOrReordered'
  <1> USE ConfigAssumption
  <1> SUFFICES ASSUME NEW s \in Sinks
               PROVE  (offered[s] \o Unflushed(s) \o events = accepted)'
    BY DEF NothingLostOrReordered, Sinks
  <1> DEFINE flow == offered[s] \o Unflushed(s)
  <1>0. /\ s \in Nat /\ s >= 1 /\ s <= NumSinks
        /\ offered[s] \in Seq(Event) /\ Unflushed(s) \in Seq(Event)
        /\ batch \in Seq(Event) /\ events \in Seq(Event) /\ flow \in Seq(Event)
        /\ flow \o events = accepted
    <2>1. s \in Nat /\ s >= 1 /\ s <= NumSinks BY DEF Sinks
    <2>2. offered[s] \in Seq(Event) /\ batch \in Seq(Event) /\ events \in Seq(Event)
      BY DEF TypeOK
    <2>3. Unflushed(s) \in Seq(Event) BY <2>2, EmptySeq DEF Unflushed
    <2>4. flow \in Seq(Event) BY <2>2, <2>3, ConcatProperties
    <2> QED BY <2>1, <2>2, <2>3, <2>4 DEF NothingLostOrReordered
  <1>1. ASSUME NEW e \in Emitters, EmitSend(e)
        PROVE  (offered[s] \o Unflushed(s) \o events = accepted)'
    <2>1. <<e, sent[e] + 1>> \in Event
      BY <1>1, BoundAssumption DEF EmitSend, TypeOK, EmitInv, Event
    <2>2. flow \o Append(events, <<e, sent[e] + 1>>) = Append(flow \o events, <<e, sent[e] + 1>>)
      BY <1>0, <2>1, SendAppends
    <2>3. offered' = offered /\ Unflushed(s)' = Unflushed(s)
      BY <1>1 DEF EmitSend, Unflushed, hubVars
    <2> QED BY <1>0, <1>1, <2>2, <2>3 DEF EmitSend
  <1>2. ASSUME EnqueueEvent \/ DrainEvent
        PROVE  (offered[s] \o Unflushed(s) \o events = accepted)'
    <2>1. Receive /\ offered' = offered /\ accepted' = accepted /\ at = 0 /\ at' \in {0, 1}
      BY <1>2 DEF EnqueueEvent, DrainEvent
    <2>2. Unflushed(s) = batch /\ Unflushed(s)' = batch'
      BY <1>0, <2>1 DEF Unflushed
    <2>3. offered[s] \o batch' \o events' = offered[s] \o batch \o events
      BY <1>0, <2>1, Received
    <2> QED BY <1>0, <2>1, <2>2, <2>3
  <1>3. ASSUME Consume
        PROVE  (offered[s] \o Unflushed(s) \o events = accepted)'
    <2>1. events' = events /\ accepted' = accepted BY <1>3 DEF Consume
    <2>2. at \in Nat /\ at > 0 /\ at <= NumSinks BY <1>3 DEF Consume, TypeOK
    <2>3. CASE s = at
      <3>1. offered'[s] = flow /\ Unflushed(s)' = <<>>
        BY <1>0, <1>3, <2>2, <2>3, Consumed DEF Consume, Unflushed
      <3>2. flow \o <<>> = flow BY <1>0, ConcatEmptySeq
      <3> QED BY <1>0, <2>1, <3>1, <3>2
    <2>4. CASE s # at
      <3>1. offered'[s] = offered[s] BY <1>3, <2>4, Consumed
      <3>2. Unflushed(s)' = Unflushed(s)
        BY <1>0, <1>3, <2>2, <2>4 DEF Consume, Unflushed
      <3> QED BY <1>0, <2>1, <3>1, <3>2
    <2> QED BY <2>3, <2>4
  <1>4. ASSUME TimerFires \/ HandleStop \/ DrainEmpty \/ CloseSinks \/ Tick
        PROVE  (offered[s] \o Unflushed(s) \o events = accepted)'
    <2>1. UNCHANGED <<offered, batch, events, accepted>> /\ at = 0 /\ at' \in {0, 1}
      BY <1>4 DEF TimerFires, HandleStop, DrainEmpty, CloseSinks, Tick
    <2>2. Unflushed(s)' = Unflushed(s) BY <1>0, <2>1 DEF Unflushed
    <2> QED BY <1>0, <2>1, <2>2
  <1>5. ASSUME UNCHANGED <<offered, batch, at, events, accepted>>
        PROVE  (offered[s] \o Unflushed(s) \o events = accepted)'
    <2>1. Unflushed(s)' = Unflushed(s) BY <1>5 DEF Unflushed
    <2> QED BY <1>0, <1>5, <2>1
  <1>6. /\ \A e \in Emitters : EmitCheck(e) \/ EmitDrop(e) =>
             UNCHANGED <<offered, batch, at, events, accepted>>
        /\ \A c \in Closers : Close(c) \/ CloseReturns(c) \/ CloseTimesOut(c) =>
             UNCHANGED <<offered, batch, at, events, accepted>>
        /\ UNCHANGED vars => UNCHANGED <<offered, batch, at, events, accepted>>
    BY DEF EmitCheck, EmitDrop, Close, CloseReturns, CloseTimesOut, hubVars, vars
  <1> HIDE DEF flow
  <1> QED BY <1>1, <1>2, <1>3, <1>4, <1>5, <1>6 DEF Next, EmitStep, HubStep

\* After the drain the channel gains only events sent after Close.
LEMMA CloseInvStep ==
  ASSUME TypeOK, EmitInv, BatchInv, CloseInv, TypeOK', [Next]_vars
  PROVE  CloseInv'
  <1>0. Len(events) \in Nat /\ Len(accepted) \in Nat /\ atClose \in Nat
    BY LenProperties DEF TypeOK
  <1> USE DEF CloseInv
  <1>1. ASSUME NEW e \in Emitters, EmitSend(e) PROVE CloseInv'
    <2>1. <<e, sent[e] + 1>> \in Event
      BY <1>1, BoundAssumption DEF EmitSend, TypeOK, EmitInv, Event
    <2>2. Len(events') = Len(events) + 1 /\ Len(accepted') = Len(accepted) + 1
      BY <1>1, <2>1, AppendProperties DEF EmitSend, TypeOK
    <2> QED BY <1>0, <1>1, <2>2 DEF EmitSend, hubVars
  <1>2. ASSUME NEW e \in Emitters, EmitCheck(e) \/ EmitDrop(e) PROVE CloseInv'
    BY <1>2 DEF EmitCheck, EmitDrop, hubVars
  <1>3. CASE EnqueueEvent \/ DrainEvent
    BY <1>3 DEF EnqueueEvent, DrainEvent
  <1>4. CASE TimerFires \/ Consume \/ Tick
    BY <1>4 DEF TimerFires, Consume, Tick
  <1>5. CASE HandleStop
    BY <1>5 DEF HandleStop
  <1>6. CASE DrainEmpty
    <2>1. Len(events) = 0 BY <1>6, EmptySeq DEF DrainEmpty
    <2> QED BY <1>0, <1>6, <2>1 DEF DrainEmpty
  <1>7. CASE CloseSinks
    BY <1>7 DEF CloseSinks
  <1>8. ASSUME NEW c \in Closers, Close(c) PROVE CloseInv'
    BY <1>0, <1>8 DEF Close, hubVars, TypeOK
  <1>9. ASSUME NEW c \in Closers, CloseReturns(c) \/ CloseTimesOut(c) PROVE CloseInv'
    BY <1>9 DEF CloseReturns, CloseTimesOut, hubVars, TypeOK
  <1>10. CASE UNCHANGED vars
    BY <1>10 DEF vars
  <1> QED BY <1>1, <1>2, <1>3, <1>4, <1>5, <1>6, <1>7, <1>8, <1>9, <1>10
          DEF Next, EmitStep, HubStep

-----------------------------------------------------------------------------
(* The theorems.                                                           *)

\* NewHub starts in the invariant.
LEMMA InvInit == Init => IInv
  <1> SUFFICES ASSUME Init PROVE IInv OBVIOUS
  <1> USE ConfigAssumption, BoundAssumption DEF Init
  <1>0. <<>> \in Seq(Event) /\ Len(<<>>) = 0 BY EmptySeq
  <1>1. TypeOK
    <2>1. /\ events \in Seq(Event) /\ Len(events) <= BufferSize
          /\ batch \in Seq(Event) /\ Len(batch) <= MaxBatchEvents /\ accepted \in Seq(Event)
      BY <1>0
    <2>2. /\ dropped \in Nat /\ age \in Nat /\ atClose \in Nat
          /\ at \in 0..NumSinks /\ timer \in 0..Off
      BY DEF Off
    <2>3. /\ sent \in [Emitters -> 0..MaxEmits] /\ epc \in [Emitters -> {"idle", "send"}]
          /\ cpc \in [Closers -> {"idle", "waiting", "nil", "error"}]
      OBVIOUS
    <2>4. offered \in [Sinks -> Seq(Event)] BY <1>0
    <2>5. closed \in BOOLEAN /\ hpc \in {"run", "drain", "final", "done"} BY Zenon
    <2> QED BY <2>1, <2>2, <2>3, <2>4, <2>5, Zenon DEF TypeOK
  <1>2. EmitInv BY DEF EmitInv
  <1>3. BatchInv BY <1>0 DEF BatchInv
  <1>4. TimerInv BY DEF TimerInv, WaitingBatchHasTimer
  <1>5. AgeInv BY DEF AgeInv
  <1>6. NothingLostOrReordered
    <2>1. <<>> \o <<>> \o <<>> = <<>> BY <1>0, ConcatEmptySeq
    <2> QED BY <2>1 DEF NothingLostOrReordered, Unflushed
  <1>7. CloseInv BY <1>0 DEF CloseInv
  <1> QED BY <1>1, <1>2, <1>3, <1>4, <1>5, <1>6, <1>7 DEF IInv

\* Every step of an emitter, the goroutine, a closer or time keeps it.
LEMMA InvStep == IInv /\ [Next]_vars => IInv'
  <1> SUFFICES ASSUME IInv, [Next]_vars PROVE IInv' OBVIOUS
  <1>1. TypeOK' BY TypeStep DEF IInv
  <1>2. EmitInv' /\ BatchInv' BY EmitInvStep, BatchStep DEF IInv
  <1>3. TimerInv' /\ AgeInv' BY TimerStep, AgeStep DEF IInv
  <1>4. NothingLostOrReordered' BY DeliveryStep DEF IInv
  <1>5. CloseInv' BY <1>1, CloseInvStep DEF IInv
  <1> QED BY <1>1, <1>2, <1>3, <1>4, <1>5 DEF IInv

\* The inductive invariant holds in every reachable state.
THEOREM Invariance == Spec => []IInv
  BY InvInit, InvStep, PTL DEF Spec

\* Channel and batch never exceed BufferSize and MaxBatchEvents (Emit,
\* enqueueEvent, handleStop).
THEOREM TypeCorrectness == Spec => []TypeOK
  <1>1. IInv => TypeOK BY DEF IInv
  <1> QED BY <1>1, Invariance, PTL

\* Between the channel and the sinks nothing is lost, duplicated or reordered.
THEOREM Delivery == Spec => []NothingLostOrReordered
  <1>1. IInv => NothingLostOrReordered BY DEF IInv
  <1> QED BY <1>1, Invariance, PTL

\* A batch that waits is never forgotten by the timer.
THEOREM TimerArmed == Spec => []WaitingBatchHasTimer
  <1>1. IInv => WaitingBatchHasTimer BY DEF IInv, TimerInv
  <1> QED BY <1>1, Invariance, PTL

\* An event waits in the batch at most MaxBatchWait for each event in it.
THEOREM AgeBound == Spec => []BatchAgeBounded
  <1>1. ASSUME IInv PROVE BatchAgeBounded
    <2> USE ConfigAssumption
    <2>1. Len(batch) \in Nat /\ timer \in Nat /\ age \in Nat
      BY <1>1, LenProperties DEF IInv, TypeOK, Off
    <2>2. Len(batch) * MaxBatchWait \in Nat BY <2>1
    <2> QED BY <1>1, <2>1, <2>2 DEF IInv, AgeInv, BatchAgeBounded
  <1> QED BY <1>1, Invariance, PTL

\* When Close returns nil, what was accepted before it was called has reached
\* every sink.
THEOREM CloseFlushes == Spec => []CloseFlushesEarlierEvents
  <1>1. ASSUME IInv PROVE CloseFlushesEarlierEvents
    <2> SUFFICES ASSUME NEW c \in Closers, cpc[c] = "nil", NEW s \in Sinks
                 PROVE  Len(offered[s]) >= atClose
      BY DEF CloseFlushesEarlierEvents
    <2>1. hpc = "done" /\ atClose + Len(events) <= Len(accepted)
      BY <1>1 DEF IInv, CloseInv
    <2>2. batch = <<>> BY <1>1, <2>1 DEF IInv, BatchInv
    <2>3. offered[s] \in Seq(Event) /\ events \in Seq(Event) /\ atClose \in Nat
      BY <1>1 DEF IInv, TypeOK
    <2>4. offered[s] \o Unflushed(s) = offered[s]
      BY <2>2, <2>3, ConcatEmptySeq DEF Unflushed
    <2>5. offered[s] \o events = accepted
      BY <1>1, <2>4 DEF IInv, NothingLostOrReordered
    <2>6. Len(accepted) = Len(offered[s]) + Len(events)
      BY <2>3, <2>5, ConcatProperties
    <2>7. Len(offered[s]) \in Nat /\ Len(events) \in Nat BY <2>3, LenProperties
    <2> QED BY <2>1, <2>3, <2>6, <2>7
  <1> QED BY <1>1, Invariance, PTL
=============================================================================
