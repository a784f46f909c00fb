---------------------------- MODULE ProgressHub -----------------------------
(***************************************************************************)
(* The progress hub (internal/progress/hub.go): a bounded channel that any *)
(* goroutine may Emit to without blocking, and one goroutine that batches  *)
(* the events and hands each batch to every sink, until Close.             *)
(*                                                                         *)
(* Emit is two steps, because Close may run between its test of the closed *)
(* flag and its send.  A flush is one step per sink: Emit, Close and time  *)
(* go on while a sink works.  An error of a sink is logged and ignored, so *)
(* it changes nothing here.  Events are told apart by emitter and number;  *)
(* invalid ones are discarded by Emit before the send and are left out.    *)
(***************************************************************************)
EXTENDS Naturals, Sequences, FiniteSets

CONSTANTS
  Emitters,        \* goroutines that call Emit
  MaxEmits,        \* bound: events each of them emits
  NumSinks,        \* sinks registered with NewHub
  BufferSize,      \* Config.BufferSize
  MaxBatchEvents,  \* Config.MaxBatchEvents
  MaxBatchWait,    \* Config.MaxBatchWait, in ticks
  Closers          \* goroutines that call Close; the application has one

ASSUME BoundAssumption == MaxEmits \in Nat
ASSUME ConfigAssumption ==
  /\ NumSinks \in Nat \ {0} /\ BufferSize \in Nat \ {0}
  /\ MaxBatchEvents \in Nat \ {0} /\ MaxBatchWait \in Nat \ {0}

VARIABLES
  events,    \* the channel's contents
  sent,      \* sent[e]: calls of Emit that emitter e has finished
  epc,       \* epc[e] = "send" after the closed test, before the send
  dropped,   \* events dropped because the channel was full
  closed,    \* the closed flag; stopCh is closed together with it
  hpc,       \* the goroutine: "run", "drain", "final" (last flush) or "done"
  batch,     \* the batch being collected, or being flushed
  at,        \* 0, or the sink that the flush under way calls next
  timer,     \* ticks until the timer fires, or Off
  age,       \* ticks since the oldest event of the batch was taken
  cpc,       \* the calls of Close
  offered,   \* history: offered[s] is what sink s was given, in order
  accepted,  \* history: the events the channel took, in order
  atClose    \* history: how many it had taken when the flag was set

hubVars == <<hpc, batch, at, timer, age>>
vars == <<events, sent, epc, dropped, closed, hpc, batch, at, timer, age, cpc,
          offered, accepted, atClose>>

Sinks == 1..NumSinks
Event == Emitters \X (1..MaxEmits)
Off == MaxBatchWait + 1     \* a stopped timer

TypeOK ==
  /\ events \in Seq(Event) /\ Len(events) <= BufferSize
  /\ sent \in [Emitters -> 0..MaxEmits]
  /\ epc \in [Emitters -> {"idle", "send"}]
  /\ dropped \in Nat
  /\ closed \in BOOLEAN
  /\ hpc \in {"run", "drain", "final", "done"}
  /\ batch \in Seq(Event) /\ Len(batch) <= MaxBatchEvents
  /\ at \in 0..NumSinks
  /\ timer \in 0..Off
  /\ age \in Nat
  /\ cpc \in [Closers -> {"idle", "waiting", "nil", "error"}]
  /\ offered \in [Sinks -> Seq(Event)]
  /\ accepted \in Seq(Event)
  /\ atClose \in Nat

Init ==
  /\ events = <<>>
  /\ sent = [e \in Emitters |-> 0]
  /\ epc = [e \in Emitters |-> "idle"]
  /\ dropped = 0
  /\ closed = FALSE
  /\ hpc = "run" /\ batch = <<>> /\ at = 0 /\ timer = Off /\ age = 0
  /\ cpc = [c \in Closers |-> "idle"]
  /\ offered = [s \in Sinks |-> <<>>]
  /\ accepted = <<>>
  /\ atClose = 0

-----------------------------------------------------------------------------
(* Emit.                                                                   *)

\* The flag is not set.  (A call that finds it set returns and does nothing.)
EmitCheck(e) ==
  /\ epc[e] = "idle"
  /\ sent[e] < MaxEmits
  /\ ~closed
  /\ epc' = [epc EXCEPT ![e] = "send"]
  /\ UNCHANGED <<events, sent, dropped, closed, hubVars, cpc, offered, accepted, atClose>>

EmitReturns(e) ==
  /\ epc' = [epc EXCEPT ![e] = "idle"]
  /\ sent' = [sent EXCEPT ![e] = @ + 1]

EmitSend(e) ==
  /\ epc[e] = "send"
  /\ Len(events) < BufferSize
  /\ EmitReturns(e)
  /\ events' = Append(events, <<e, sent[e] + 1>>)
  /\ accepted' = Append(accepted, <<e, sent[e] + 1>>)
  /\ UNCHANGED <<dropped, closed, hubVars, cpc, offered, atClose>>

\* The default branch: the channel is full and the event is dropped.
EmitDrop(e) ==
  /\ epc[e] = "send"
  /\ Len(events) = BufferSize
  /\ EmitReturns(e)
  /\ dropped' = dropped + 1
  /\ UNCHANGED <<events, closed, hubVars, cpc, offered, accepted, atClose>>

EmitStep(e) == EmitCheck(e) \/ EmitSend(e) \/ EmitDrop(e)

-----------------------------------------------------------------------------
(* The goroutine: run, enqueueEvent, flush and handleStop.                 *)

\* Receive the next event into the batch.
Receive ==
  /\ events # <<>>
  /\ events' = Tail(events)
  /\ batch' = Append(batch, Head(events))

(* A version that leaves the timer alone when the batch grows. *)
EnqueueEventKeepsTimerOff ==
  /\ hpc = "run" /\ at = 0
  /\ Receive
  /\ age' = IF batch = <<>> THEN 0 ELSE age
  /\ IF Len(batch') >= MaxBatchEvents
     THEN at' = 1 /\ timer' = Off
     ELSE at' = 0 /\ UNCHANGED timer
  /\ UNCHANGED <<sent, epc, dropped, closed, hpc, cpc, offered, accepted, atClose>>

(* A version that lets a full batch grow by one more event. *)
EnqueueEventOffByOne ==
  /\ hpc = "run" /\ at = 0
  /\ Receive
  /\ age' = IF batch = <<>> THEN 0 ELSE age
  /\ IF Len(batch') > MaxBatchEvents
     THEN at' = 1 /\ timer' = Off
     ELSE at' = 0 /\ timer' = MaxBatchWait
  /\ UNCHANGED <<sent, epc, dropped, closed, hpc, cpc, offered, accepted, atClose>>

\* enqueueEvent: a full batch is flushed and the timer stopped; otherwise the
\* timer is re-armed, by every event.
EnqueueEvent ==
  /\ hpc = "run" /\ at = 0
  /\ Receive
  /\ age' = IF batch = <<>> THEN 0 ELSE age
  /\ IF Len(batch') >= MaxBatchEvents
     THEN at' = 1 /\ timer' = Off
     ELSE at' = 0 /\ timer' = MaxBatchWait
  /\ UNCHANGED <<sent, epc, dropped, closed, hpc, cpc, offered, accepted, atClose>>

(* A version that waits once more while the batch has a single event. *)
TimerFiresSkipsSmall ==
  /\ hpc = "run" /\ at = 0
  /\ timer = 0
  /\ timer' = IF Len(batch) = 1 THEN MaxBatchWait ELSE Off
  /\ at' = IF Len(batch) < 2 THEN 0 ELSE 1
  /\ UNCHANGED <<events, sent, epc, dropped, closed, hpc, batch, age, cpc, offered,
                 accepted, atClose>>

\* The timer's channel is ready.
TimerFires ==
  /\ hpc = "run" /\ at = 0
  /\ timer = 0
  /\ timer' = Off
  /\ at' = IF batch = <<>> THEN 0 ELSE 1
  /\ UNCHANGED <<events, sent, epc, dropped, closed, hpc, batch, age, cpc, offered,
                 accepted, atClose>>

(* A version that empties the batch after the first sink. *)
ConsumeFirstOnly ==
  /\ at > 0
  /\ offered' = [offered EXCEPT ![at] = @ \o batch]
  /\ at' = IF at < NumSinks THEN at + 1 ELSE 0
  /\ batch' = <<>>
  /\ age' = IF at < NumSinks THEN age ELSE 0
  /\ UNCHANGED <<events, sent, epc, dropped, closed, hpc, timer, cpc, accepted, atClose>>

\* flush calls the sinks one after the other; after the last one the batch is
\* emptied.
Consume ==
  /\ at > 0
  /\ offered' = [offered EXCEPT ![at] = @ \o batch]
  /\ at' = IF at < NumSinks THEN at + 1 ELSE 0
  /\ batch' = IF at < NumSinks THEN batch ELSE <<>>
  /\ age' = IF at < NumSinks THEN age ELSE 0
  /\ UNCHANGED <<events, sent, epc, dropped, closed, hpc, timer, cpc, accepted, atClose>>

(* A version that stops without draining the channel. *)
HandleStopSkipsDrain ==
  /\ hpc = "run" /\ at = 0
  /\ closed
  /\ hpc' = "final"
  /\ timer' = Off
  /\ at' = IF batch = <<>> THEN 0 ELSE 1
  /\ UNCHANGED <<events, sent, epc, dropped, closed, batch, age, cpc, offered,
                 accepted, atClose>>

\* stopCh is closed: handleStop stops the timer and drains the channel.
HandleStop ==
  /\ hpc = "run" /\ at = 0
  /\ closed
  /\ hpc' = "drain"
  /\ timer' = Off
  /\ UNCHANGED <<events, sent, epc, dropped, closed, batch, at, age, cpc, offered,
                 accepted, atClose>>

DrainEvent ==
  /\ hpc = "drain" /\ at = 0
  /\ Receive
  /\ at' = IF Len(batch') >= MaxBatchEvents THEN 1 ELSE 0
  /\ UNCHANGED <<sent, epc, dropped, closed, hpc, timer, age, cpc, offered, accepted, atClose>>

(* A version that waits until no emitter will send any more. *)
DrainEmptyAwaitsEmitters ==
  /\ hpc = "drain" /\ at = 0
  /\ events = <<>> /\ \A e \in Emitters : sent[e] = MaxEmits
  /\ hpc' = "final"
  /\ at' = IF batch = <<>> THEN 0 ELSE 1
  /\ UNCHANGED <<events, sent, epc, dropped, closed, batch, timer, age, cpc, offered,
                 accepted, atClose>>

\* The channel is empty: flush what is left.
DrainEmpty ==
  /\ hpc = "drain" /\ at = 0
  /\ events = <<>>
  /\ hpc' = "final"
  /\ at' = IF batch = <<>> THEN 0 ELSE 1
  /\ UNCHANGED <<events, sent, epc, dropped, closed, batch, timer, age, cpc, offered,
                 accepted, atClose>>

\* closeSinks; run returns and doneCh is closed.
CloseSinks ==
  /\ hpc = "final" /\ at = 0
  /\ hpc' = "done"
  /\ UNCHANGED <<events, sent, epc, dropped, closed, batch, at, timer, age, cpc, offered,
                 accepted, atClose>>

HubStep ==
  \/ EnqueueEvent \/ TimerFires \/ Consume
  \/ HandleStop \/ DrainEvent \/ DrainEmpty \/ CloseSinks

-----------------------------------------------------------------------------
(* Close and time.                                                         *)

\* closeOnce: only the first call sets the flag and closes stopCh.
Close(c) ==
  /\ cpc[c] = "idle"
  /\ cpc' = [cpc EXCEPT ![c] = "waiting"]
  /\ closed' = TRUE
  /\ atClose' = IF closed THEN atClose ELSE Len(accepted)
  /\ UNCHANGED <<events, sent, epc, dropped, hubVars, offered, accepted>>

\* doneCh is closed: Close returns nil.
CloseReturns(c) ==
  /\ cpc[c] = "waiting"
  /\ hpc = "done"
  /\ cpc' = [cpc EXCEPT ![c] = "nil"]
  /\ UNCHANGED <<events, sent, epc, dropped, closed, hubVars, offered, accepted, atClose>>

\* Its context ends first, or is chosen by the select when both are ready.
CloseTimesOut(c) ==
  /\ cpc[c] = "waiting"
  /\ cpc' = [cpc EXCEPT ![c] = "error"]
  /\ UNCHANGED <<events, sent, epc, dropped, closed, hubVars, offered, accepted, atClose>>

\* Time passes.  An idle goroutine takes a timer that has fired before the next
\* tick, so time stops for it at 0.
Tick ==
  /\ hpc = "run" /\ at = 0
  /\ timer \in 1..MaxBatchWait
  /\ timer' = timer - 1
  /\ age' = age + 1
  /\ UNCHANGED <<events, sent, epc, dropped, closed, hpc, batch, at, cpc, offered,
                 accepted, atClose>>

Next ==
  \/ \E e \in Emitters : EmitStep(e)
  \/ HubStep \/ Tick
  \/ \E c \in Closers : Close(c) \/ CloseReturns(c) \/ CloseTimesOut(c)

Spec == Init /\ [][Next]_vars

-----------------------------------------------------------------------------
(* Properties.                                                             *)

\* The part of the batch that sink s has not been given yet.
Unflushed(s) == IF at > s THEN <<>> ELSE batch

\* Between the channel and the sinks nothing is lost, duplicated or reordered:
\* for every sink, what it was given, then the batch, then the channel are
\* exactly the events accepted, in order (enqueueEvent, flush, handleStop).
NothingLostOrReordered ==
  \A s \in Sinks : offered[s] \o Unflushed(s) \o events = accepted

\* When Close returns nil, every event the channel had taken before Close was
\* called has been given to every sink (Close, handleStop).
CloseFlushesEarlierEvents ==
  \A c \in Closers : cpc[c] = "nil" => \A s \in Sinks : Len(offered[s]) >= atClose

\* A batch that waits in the running goroutine always has an armed timer, so it
\* cannot be forgotten, and no timer runs for an empty batch (resetTimer,
\* stopTimer).
WaitingBatchHasTimer ==
  hpc = "run" /\ at = 0 => (timer # Off <=> batch # <<>>)

\* How long an event can wait in the batch.  Every event re-arms the timer, so
\* the bound is MaxBatchWait for each event of the batch (enqueueEvent).
BatchAgeBounded ==
  hpc = "run" /\ at = 0 => age <= Len(batch) * MaxBatchWait

\* Every event that the channel takes reaches every sink, unless Close is
\* called, even if no further event comes (the timer in run).
AcceptedIsOffered ==
  \A n \in 1..(MaxEmits * Cardinality(Emitters)) : Len(accepted) >= n ~>
    closed \/ \A s \in Sinks : Len(offered[s]) >= n

\* hub.go:113 says that "Close drains remaining events": when it has returned
\* nil no accepted event is left in the channel.  An Emit that passed its test
\* of the flag before Close breaks this; see the violation run.
CloseDrains == \A c \in Closers : cpc[c] = "nil" => events = <<>>

\* hub.go:16 says of MaxBatchWait "flush after this duration even if the batch
\* is small": no event waits longer in the batch.  The timer is re-armed by
\* every event, so this does not hold; see the violation run.
FlushedWithinMaxBatchWait == hpc = "run" /\ at = 0 => age <= MaxBatchWait
=============================================================================
