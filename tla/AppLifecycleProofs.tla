------------------------- MODULE AppLifecycleProofs -------------------------
(***************************************************************************)
(* Theorems about AppLifecycle: the hub in it is the one of ProgressHub,   *)
(* so its theorems hold until the process exits, and the pool that the     *)
(* store sink writes through outlives every call of the sink.  For any     *)
(* configuration files, values of PORT, emitters and sizes.                *)
(***************************************************************************)
EXTENDS AppLifecycle, ProgressHubProofs, TLAPS

-----------------------------------------------------------------------------
(* The inductive invariant.                                                *)

\* What Build leaves of a part.
Built(p) == IF p \in Configured(cfg) THEN "open" ELSE "nil"

\* Build is about to make the k-th part.
BuildPos(k) ==
  /\ todo = SubSeq(BuildOrder, k, 8)
  /\ part["progressRepo"] = IF k > 4 THEN Built("progressRepo") ELSE "nil"
  /\ part["progressHub"] = IF k > 6 THEN Built("progressHub") ELSE "nil"

\* The hub will call no sink any more, or Close has given up waiting for that.
HubIsOver ==
  part["progressHub"] = "nil" \/ hpc = "done" \/ \E c \in Closers : cpc[c] = "error"

\* Close is about to close the k-th part.
ClosePos(k) ==
  /\ todo = SubSeq(CloseOrder, k, 8)
  /\ k <= 7 => part["progressRepo"] = Built("progressRepo")
  /\ IF k <= 3 THEN part["progressHub"] = Built("progressHub") ELSE HubIsOver

LifeInv ==
  /\ phase \in {"start", "refused"} =>
       part["progressRepo"] = "nil" /\ part["progressHub"] = "nil"
  /\ phase \in {"build", "failed"} => \E k \in 1..9 : BuildPos(k)
  /\ phase \in {"run", "stop"} =>
       part["progressRepo"] = Built("progressRepo") /\ part["progressHub"] = Built("progressHub")
  /\ phase \in {"close", "exit"} => \E k \in 1..9 : ClosePos(k)

AInv == AppTypeOK /\ LifeInv

-----------------------------------------------------------------------------
(* The operators of the configuration and the two orders.                  *)

\* Without a repository the first sink, if there is one, is the log sink.
LEMMA LogOnly ==
  ASSUME NEW q, NEW sinks, sinks = <<>> \o (IF q THEN <<"log">> ELSE <<>>), sinks # <<>>
  PROVE  sinks[1] # "store"
  <1>1. CASE q BY <1>1
  <1>2. CASE ~q BY <1>2
  <1> QED BY <1>1, <1>2

\* A hub whose first sink is the store sink has a repository (setupProgress,
\* setupDatabase).
LEMMA StoreSinkHasRepo ==
  ASSUME NEW c, "progressHub" \in Configured(c), HubSinks(c)[1] = "store"
  PROVE  "progressRepo" \in Configured(c)
  <1>1. CASE c.database_dsn # "" BY <1>1, Zenon DEF Configured
  <1>2. CASE ~(c.database_dsn # "")
    <2>1. HubSinks(c) # <<>> BY Zenon DEF Configured
    <2>2. HubSinks(c) = <<>> \o (IF c.progress_log_enabled THEN <<"log">> ELSE <<>>)
      BY <1>2, Zenon DEF HubSinks
    <2> QED BY <2>1, <2>2, LogOnly, Zenon
  <1> QED BY <1>1, <1>2

\* The orders name parts, eight of them; the repository is built before the hub
\* and closed after it.
LEMMA Orders ==
  /\ BuildOrder \in Seq(Parts) /\ Len(BuildOrder) = 8
  /\ BuildOrder[4] = "progressRepo" /\ BuildOrder[6] = "progressHub"
  /\ \A k \in 1..8 : /\ BuildOrder[k] = "progressRepo" => k = 4
                     /\ BuildOrder[k] = "progressHub" => k = 6
  /\ CloseOrder \in Seq(Parts) /\ Len(CloseOrder) = 8
  /\ CloseOrder[3] = "progressHub" /\ CloseOrder[7] = "progressRepo"
  /\ \A k \in 1..8 : /\ CloseOrder[k] = "progressHub" => k = 3
                     /\ CloseOrder[k] = "progressRepo" => k = 7
  <1>1. BuildOrder \in Seq(Parts) /\ Len(BuildOrder) = 8 BY DEF BuildOrder, Parts
  <1>2. BuildOrder[4] = "progressRepo" /\ BuildOrder[6] = "progressHub" BY DEF BuildOrder
  <1>3. ASSUME NEW k \in 1..8
        PROVE  /\ BuildOrder[k] = "progressRepo" => k = 4
               /\ BuildOrder[k] = "progressHub" => k = 6
    BY DEF BuildOrder
  <1>4. CloseOrder \in Seq(Parts) /\ Len(CloseOrder) = 8 BY DEF CloseOrder, Parts
  <1>5. CloseOrder[3] = "progressHub" /\ CloseOrder[7] = "progressRepo" BY DEF CloseOrder
  <1>6. ASSUME NEW k \in 1..8
        PROVE  /\ CloseOrder[k] = "progressHub" => k = 3
               /\ CloseOrder[k] = "progressRepo" => k = 7
    BY DEF CloseOrder
  <1> QED BY <1>1, <1>2, <1>3, <1>4, <1>5, <1>6

\* What is left of a list of eight from its k-th element on.
LEMMA Rest ==
  ASSUME NEW S, NEW order \in Seq(S), Len(order) = 8, NEW k \in 1..9
  PROVE  /\ SubSeq(order, k, 8) = <<>> <=> k = 9
         /\ k # 9 => /\ Head(SubSeq(order, k, 8)) = order[k]
                     /\ Tail(SubSeq(order, k, 8)) = SubSeq(order, k + 1, 8)
  <1>1. SubSeq(order, k, 8) \in Seq(S)
    <2>1. \A i \in k..8 : i \in 1..Len(order) OBVIOUS
    <2>2. \A i \in k..8 : order[i] \in S BY <2>1, ElementOfSeq
    <2> QED BY <2>2, SubSeqProperties
  <1>2. (SubSeq(order, k, 8) = <<>>) <=> (k = 9)
    <2>1. Len(SubSeq(order, k, 8)) = 9 - k OBVIOUS
    <2>2. (SubSeq(order, k, 8) = <<>>) <=> (Len(SubSeq(order, k, 8)) = 0) BY <1>1, EmptySeq
    <2> QED BY <2>1, <2>2
  <1>3. ASSUME k # 9 PROVE Head(SubSeq(order, k, 8)) = order[k] BY <1>3
  <1>4. ASSUME k # 9 PROVE Tail(SubSeq(order, k, 8)) = SubSeq(order, k + 1, 8) BY <1>4
  <1> QED BY <1>2, <1>3, <1>4

\* All of it, before the first.
LEMMA Whole ==
  ASSUME NEW S, NEW order \in Seq(S), Len(order) = 8
  PROVE  SubSeq(order, 1, 8) = order
  OBVIOUS

-----------------------------------------------------------------------------
(* Steps.                                                                  *)

\* Every step of the process is a step of the hub or leaves the hub alone.
LEMMA HubStepOrNot == [AppNext]_allVars => [Next]_vars
  <1> SUFFICES ASSUME [AppNext]_allVars PROVE [Next]_vars OBVIOUS
  <1>1. CASE Load \/ LoadFails \/ BuildPart \/ BuildFails \/ Run \/ Stop
    BY <1>1 DEF Load, LoadFails, BuildPart, BuildFails, Run, Stop
  <1>2. CASE ServerShutdown \/ (\E p \in Parts : ClosePart(p)) \/ Exit
    BY <1>2 DEF ServerShutdown, ClosePart, Exit
  <1>3. CASE CloseHub \/ HubClosed \/ HubCloseFails
    BY <1>3 DEF CloseHub, HubClosed, HubCloseFails, Next
  <1>4. CASE HubGoroutine \/ TimePasses \/ \E e \in Emitters : WorkerEmits(e)
    BY <1>4 DEF HubGoroutine, TimePasses, WorkerEmits, Next
  <1>5. CASE UNCHANGED allVars BY <1>5 DEF allVars
  <1> QED BY <1>1, <1>2, <1>3, <1>4, <1>5 DEF AppNext, CloseStep

\* The configuration is read once, and what Build makes of it is settled then.
LEMMA ConfigurationStays ==
  ASSUME [AppNext]_allVars
  PROVE  /\ file' = file /\ portEnv' = portEnv
         /\ \A p : Built(p)' = Built(p)
  <1>1. file' = file /\ portEnv' = portEnv
    BY DEF AppNext, CloseStep, Load, LoadFails, BuildPart, BuildFails, Run, Stop,
           ServerShutdown, ClosePart, Closed, Exit, CloseHub, HubClosed, HubCloseFails,
           HubGoroutine, TimePasses, WorkerEmits, appVars, allVars
  <1>2. \A p : Built(p)' = Built(p) BY <1>1 DEF Built, cfg
  <1> QED BY <1>1, <1>2

\* A hub that is over stays over while its part is not touched.
LEMMA OverStays ==
  ASSUME TypeOK, BatchInv, [Next]_vars, part'["progressHub"] = part["progressHub"], HubIsOver
  PROVE  HubIsOver'
  <1>1. CASE part["progressHub"] = "nil" BY <1>1 DEF HubIsOver
  <1>2. CASE hpc = "done"
    <2>1. at = 0 BY <1>2 DEF BatchInv
    <2>2. hpc' = "done"
      BY <1>2, <2>1 DEF Next, EmitStep, EmitCheck, EmitSend, EmitDrop, HubStep, EnqueueEvent,
         TimerFires, Consume, HandleStop, DrainEvent, DrainEmpty, CloseSinks, Tick, Close,
         CloseReturns, CloseTimesOut, hubVars, vars
    <2> QED BY <2>2 DEF HubIsOver
  <1>3. ASSUME NEW c \in Closers, cpc[c] = "error" PROVE HubIsOver'
    <2>1. ASSUME NEW d \in Closers, Close(d) \/ CloseReturns(d) \/ CloseTimesOut(d)
          PROVE  cpc'[c] = "error"
      BY <1>3, <2>1 DEF TypeOK, Close, CloseReturns, CloseTimesOut
    <2>2. ASSUME UNCHANGED cpc PROVE cpc'[c] = "error" BY <1>3, <2>2
    <2>3. cpc'[c] = "error"
      BY <2>1, <2>2 DEF Next, EmitStep, EmitCheck, EmitSend, EmitDrop, HubStep, EnqueueEvent,
         TimerFires, Consume, HandleStop, DrainEvent, DrainEmpty, CloseSinks, Tick, hubVars, vars
    <2> QED BY <2>3 DEF HubIsOver
  <1> QED BY <1>1, <1>2, <1>3 DEF HubIsOver

\* The types: a list that is worked off stays a list of parts.
LEMMA AppTypeStep ==
  ASSUME AppTypeOK, TypeOK', [AppNext]_allVars
  PROVE  AppTypeOK'
  <1>1. CASE Load
    <2>1. BuildOrder \in Seq(Parts) /\ Len(BuildOrder) <= Len(BuildOrder) BY Orders
    <2>2. todo' = BuildOrder BY <1>1 DEF Load
    <2>3. todo' \in Seq(Parts) /\ Len(todo') <= Len(BuildOrder) BY <2>1, <2>2, Zenon
    <2> QED BY <1>1, <2>3 DEF Load, AppTypeOK
  <1>2. CASE LoadFails \/ BuildFails \/ Run \/ Stop \/ Exit
    BY <1>2 DEF LoadFails, BuildFails, Run, Stop, Exit, AppTypeOK
  <1>3. CASE ServerShutdown
    <2>1. CloseOrder \in Seq(Parts) /\ Len(CloseOrder) <= Len(BuildOrder) BY Orders
    <2>2. todo' = CloseOrder BY <1>3 DEF ServerShutdown
    <2>3. todo' \in Seq(Parts) /\ Len(todo') <= Len(BuildOrder) BY <2>1, <2>2, Zenon
    <2> QED BY <1>3, <2>3 DEF ServerShutdown, AppTypeOK
  <1>4. ASSUME todo # <<>>
        PROVE  Tail(todo) \in Seq(Parts) /\ Len(Tail(todo)) <= Len(BuildOrder) /\ Head(todo) \in Parts
    BY <1>4, Orders DEF AppTypeOK
  <1>5. CASE BuildPart
    <2>1. part' \in [Parts -> {"nil", "open", "closed"}] BY <1>4, <1>5 DEF BuildPart, AppTypeOK
    <2> QED BY <1>4, <1>5, <2>1 DEF BuildPart, AppTypeOK
  <1>6. ASSUME NEW p \in Parts, Closing(p), Closed(p) PROVE AppTypeOK'
    <2>1. part' \in [Parts -> {"nil", "open", "closed"}] BY <1>6 DEF Closed, AppTypeOK
    <2>2. todo' \in Seq(Parts) /\ Len(todo') <= Len(BuildOrder)
      BY <1>4, <1>6 DEF Closing, Closed
    <2> QED BY <1>6, <2>1, <2>2 DEF Closed, AppTypeOK
  <1>7. "progressHub" \in Parts BY DEF Parts
  <1>8. CASE UNCHANGED appVars BY <1>8 DEF appVars, AppTypeOK
  <1> QED BY <1>1, <1>2, <1>3, <1>5, <1>6, <1>7, <1>8
          DEF AppNext, CloseStep, ClosePart, CloseHub, HubClosed, HubCloseFails, HubGoroutine,
              TimePasses, WorkerEmits, allVars

\* Build makes its parts from first to last.
LEMMA BuildStep ==
  ASSUME AppTypeOK, LifeInv, BuildPart, \A p : Built(p)' = Built(p)
  PROVE  LifeInv'
  <1>1. PICK k \in 1..9 : BuildPos(k) BY DEF LifeInv, BuildPart
  <1>2. k # 9 /\ Head(todo) = BuildOrder[k] /\ Tail(todo) = SubSeq(BuildOrder, k + 1, 8)
    BY <1>1, Rest, Orders DEF BuildPos, BuildPart
  <1>3. "progressRepo" \in Parts /\ "progressHub" \in Parts BY DEF Parts
  <1>4. \A p \in Parts : part'[p] = IF p = BuildOrder[k] THEN Built(p) ELSE part[p]
    BY <1>2 DEF BuildPart, Built, AppTypeOK
  <1>5. BuildPos(k + 1)'
    <2>1. todo' = SubSeq(BuildOrder, k + 1, 8) BY <1>2 DEF BuildPart
    <2>2. part'["progressRepo"] = IF k + 1 > 4 THEN Built("progressRepo") ELSE "nil"
      BY <1>1, <1>2, <1>3, <1>4, Orders DEF BuildPos
    <2>3. part'["progressHub"] = IF k + 1 > 6 THEN Built("progressHub") ELSE "nil"
      BY <1>1, <1>2, <1>3, <1>4, Orders DEF BuildPos
    <2> QED BY <2>1, <2>2, <2>3 DEF BuildPos
  <1>6. k + 1 \in 1..9 BY <1>2
  <1>7. phase' = "build" BY DEF BuildPart
  <1> QED BY <1>5, <1>6, <1>7 DEF LifeInv

\* Close passes one part: the repository after the hub, which by then is over.
LEMMA CloseStepKeeps ==
  ASSUME AppTypeOK, LifeInv, NEW p \in Parts, Closing(p), Closed(p), \A q : Built(q)' = Built(q),
         p = "progressHub" => HubIsOver',
         p # "progressHub" /\ HubIsOver => HubIsOver'
  PROVE  LifeInv'
  <1>1. PICK k \in 1..9 : ClosePos(k) BY DEF LifeInv, Closing
  <1>2. k # 9 /\ p = CloseOrder[k] /\ Tail(todo) = SubSeq(CloseOrder, k + 1, 8)
    BY <1>1, Rest, Orders DEF ClosePos, Closing
  <1>3. "progressRepo" \in Parts /\ "progressHub" \in Parts BY DEF Parts
  <1>4. \A q \in Parts : q # p => part'[q] = part[q] BY DEF Closed, AppTypeOK
  <1>5. ClosePos(k + 1)'
    <2>1. todo' = SubSeq(CloseOrder, k + 1, 8) BY <1>2 DEF Closed
    <2>2. ASSUME k + 1 <= 7 PROVE part'["progressRepo"] = Built("progressRepo")
      <3>1. k <= 7 /\ k # 7 BY <2>2
      <3>2. p # "progressRepo" BY <1>2, <3>1, Orders
      <3> QED BY <1>1, <1>3, <1>4, <3>1, <3>2 DEF ClosePos
    <2>3. ASSUME k + 1 <= 3 PROVE part'["progressHub"] = Built("progressHub")
      <3>1. k <= 3 /\ k # 3 BY <2>3
      <3>2. p # "progressHub" BY <1>2, <3>1, Orders
      <3> QED BY <1>1, <1>3, <1>4, <3>1, <3>2 DEF ClosePos
    <2>4. ~(k + 1 <= 3) => HubIsOver'
      BY <1>1, <1>2, Orders DEF ClosePos
    <2> QED BY <2>1, <2>2, <2>3, <2>4 DEF ClosePos
  <1>6. k + 1 \in 1..9 BY <1>2
  <1>7. phase' = "close" BY DEF Closing, Closed
  <1> QED BY <1>5, <1>6, <1>7 DEF LifeInv

\* What the hub does by itself leaves the parts alone.
LEMMA HubLeavesParts ==
  ASSUME LifeInv, UNCHANGED appVars, HubIsOver => HubIsOver', \A p : Built(p)' = Built(p)
  PROVE  LifeInv'
  <1>1. phase' = phase /\ todo' = todo /\ part' = part BY DEF appVars
  <1>2. \A k \in 1..9 : BuildPos(k) => BuildPos(k)' BY <1>1 DEF BuildPos
  <1>3. \A k \in 1..9 : ClosePos(k) => ClosePos(k)' BY <1>1 DEF ClosePos
  <1> QED BY <1>1, <1>2, <1>3 DEF LifeInv

\* Every step of main, of the hub and of the workers.
LEMMA LifeStep ==
  ASSUME AppTypeOK, BatchInv, LifeInv, [AppNext]_allVars
  PROVE  LifeInv'
  <1>1. \A p : Built(p)' = Built(p) BY ConfigurationStays
  <1>2. part'["progressHub"] = part["progressHub"] /\ HubIsOver => HubIsOver'
    BY HubStepOrNot, OverStays DEF AppTypeOK
  <1>3. CASE Load
    <2>1. BuildPos(1)'
      BY <1>3, Orders, Whole DEF Load, LifeInv, BuildPos
    <2> QED BY <1>3, <2>1 DEF Load, LifeInv
  <1>4. CASE LoadFails BY <1>4 DEF LoadFails, LifeInv
  <1>5. CASE BuildPart BY <1>1, <1>5, BuildStep
  <1>6. CASE BuildFails
    <2>1. PICK k \in 1..9 : BuildPos(k) BY <1>6 DEF LifeInv, BuildFails
    <2>2. BuildPos(k)' BY <1>1, <1>6, <2>1 DEF BuildFails, BuildPos
    <2> QED BY <1>6, <2>2 DEF BuildFails, LifeInv
  <1>7. CASE Run
    <2>1. PICK k \in 1..9 : BuildPos(k) BY <1>7 DEF LifeInv, Run
    <2>2. k = 9 BY <1>7, <2>1, Rest, Orders DEF Run, BuildPos
    <2>3. /\ part["progressRepo"] = Built("progressRepo")
          /\ part["progressHub"] = Built("progressHub")
      BY <2>1, <2>2 DEF BuildPos
    <2> QED BY <1>1, <1>7, <2>3 DEF Run, LifeInv
  <1>8. CASE Stop BY <1>1, <1>8 DEF Stop, LifeInv
  <1>9. CASE ServerShutdown
    <2>1. ClosePos(1)'
      BY <1>1, <1>9, Orders, Whole DEF ServerShutdown, LifeInv, ClosePos
    <2> QED BY <1>9, <2>1 DEF ServerShutdown, LifeInv
  <1>10. ASSUME NEW p \in Parts, ClosePart(p) PROVE LifeInv'
    <2>1. p # "progressHub" => part'["progressHub"] = part["progressHub"]
      BY <1>10 DEF ClosePart, Closed, AppTypeOK, Parts
    <2>2. p = "progressHub" => part'["progressHub"] = "nil"
      BY <1>10 DEF ClosePart, Closed, AppTypeOK
    <2>3. p = "progressHub" => HubIsOver' BY <2>2 DEF HubIsOver
    <2>4. p # "progressHub" /\ HubIsOver => HubIsOver' BY <1>2, <2>1
    <2>5. Closing(p) /\ Closed(p) BY <1>10 DEF ClosePart
    <2> QED BY <1>1, <2>3, <2>4, <2>5, CloseStepKeeps
  <1>11. CASE HubClosed \/ HubCloseFails
    <2>1. Closing("progressHub") /\ Closed("progressHub") /\ "progressHub" \in Parts
      BY <1>11 DEF HubClosed, HubCloseFails, Parts
    <2>2. HubIsOver'
      <3>1. ASSUME NEW c \in Closers, CloseReturns(c) PROVE HubIsOver'
        BY <3>1 DEF CloseReturns, hubVars, HubIsOver
      <3>2. ASSUME NEW c \in Closers, CloseTimesOut(c) PROVE HubIsOver'
        <4>1. cpc'[c] = "error" BY <3>2 DEF CloseTimesOut, AppTypeOK, TypeOK
        <4> QED BY <4>1 DEF HubIsOver
      <3> QED BY <1>11, <3>1, <3>2 DEF HubClosed, HubCloseFails
    <2> QED BY <1>1, <2>1, <2>2, CloseStepKeeps
  <1>12. CASE Exit
    <2>1. PICK k \in 1..9 : ClosePos(k) BY <1>12 DEF LifeInv, Exit
    <2>2. UNCHANGED <<todo, part>> /\ (HubIsOver => HubIsOver') BY <1>2, <1>12 DEF Exit
    <2>3. ClosePos(k)' BY <1>1, <2>1, <2>2 DEF ClosePos
    <2> QED BY <1>12, <2>3 DEF Exit, LifeInv
  <1>13. CASE UNCHANGED appVars
    <2>1. HubIsOver => HubIsOver' BY <1>2, <1>13 DEF appVars
    <2> QED BY <1>1, <1>13, <2>1, HubLeavesParts
  <1> QED BY <1>3, <1>4, <1>5, <1>6, <1>7, <1>8, <1>9, <1>10, <1>11, <1>12, <1>13
          DEF AppNext, CloseStep, CloseHub, HubGoroutine, TimePasses, WorkerEmits, allVars

-----------------------------------------------------------------------------
(* The theorems.                                                           *)

\* Nothing is built yet.
LEMMA AInvInit == AppInit => IInv /\ AInv
  <1> SUFFICES ASSUME AppInit PROVE IInv /\ AInv OBVIOUS
  <1>1. IInv BY InvInit DEF AppInit
  <1>2. todo \in Seq(Parts) /\ Len(todo) <= Len(BuildOrder) BY Orders DEF AppInit
  <1>3. part \in [Parts -> {"nil", "open", "closed"}] BY DEF AppInit
  <1>4. AppTypeOK BY <1>1, <1>2, <1>3 DEF AppInit, AppTypeOK, IInv
  <1>5. "progressRepo" \in Parts /\ "progressHub" \in Parts BY DEF Parts
  <1>6. LifeInv BY <1>5 DEF AppInit, LifeInv
  <1> QED BY <1>1, <1>4, <1>6 DEF AInv

\* Every step keeps it.
LEMMA AInvStep == IInv /\ AInv /\ [AppNext]_allVars => IInv' /\ AInv'
  <1> SUFFICES ASSUME IInv, AInv, [AppNext]_allVars PROVE IInv' /\ AInv' OBVIOUS
  <1>1. IInv' BY HubStepOrNot, InvStep
  <1>2. AppTypeOK' BY <1>1, AppTypeStep DEF AInv, IInv
  <1>3. LifeInv' BY LifeStep DEF AInv, IInv
  <1> QED BY <1>1, <1>2, <1>3 DEF AInv

\* The hub of the process is the hub: what its theorems say of it alone holds of
\* it from Build to the exit (setupProgress, closeInfrastructure).
THEOREM HubInApp == AppSpec => Spec
  <1>1. AppInit => Init BY DEF AppInit
  <1> QED BY <1>1, HubStepOrNot, PTL DEF AppSpec, Spec

\* The inductive invariant holds in every reachable state.
THEOREM AppInvariance == AppSpec => [](IInv /\ AInv)
  BY AInvInit, AInvStep, PTL DEF AppSpec

\* Every variable of the process keeps its type.
THEOREM AppTypes == AppSpec => []AppTypeOK
  <1>1. AInv => AppTypeOK BY DEF AInv
  <1> QED BY <1>1, AppInvariance, PTL

\* No call of the store sink finds its pool closed, unless Close of the hub gave
\* up waiting.
THEOREM Pool == AppSpec => []PoolOpenWhileUsed
  <1>1. ASSUME IInv, AInv PROVE PoolOpenWhileUsed
    <2> SUFFICES ASSUME at = 1, HubRuns, HubSinks(cfg)[1] = "store",
                        ~\E c \in Closers : cpc[c] = "error"
                 PROVE  part["progressRepo"] = "open"
      BY DEF PoolOpenWhileUsed
    <2>1. ~HubIsOver BY <1>1 DEF IInv, BatchInv, HubIsOver, HubRuns
    <2>2. /\ part["progressRepo"] = Built("progressRepo")
          /\ part["progressHub"] = Built("progressHub")
      <3>1. phase \in {"start", "refused", "build", "run", "stop", "close"}
        BY <1>1 DEF AInv, AppTypeOK, HubRuns
      <3>2. CASE phase \in {"start", "refused", "run", "stop"}
        BY <1>1, <3>2 DEF AInv, LifeInv, HubRuns
      <3>3. CASE phase = "build"
        <4>1. PICK k \in 1..9 : BuildPos(k) BY <1>1, <3>3 DEF AInv, LifeInv
        <4> QED BY <4>1 DEF BuildPos, HubRuns
      <3>4. CASE phase = "close"
        <4>1. PICK k \in 1..9 : ClosePos(k) BY <1>1, <3>4 DEF AInv, LifeInv
        <4> QED BY <2>1, <4>1 DEF ClosePos
      <3> QED BY <3>1, <3>2, <3>3, <3>4
    <2>3. "progressHub" \in Configured(cfg) BY <2>2 DEF Built, HubRuns
    <2>4. "progressRepo" \in Configured(cfg) BY <2>3, StoreSinkHasRepo
    <2> QED BY <2>2, <2>4 DEF Built
  <1> QED BY <1>1, AppInvariance, PTL

\* Until the process exits, the hub keeps all that it promises: nothing accepted is
\* lost or reordered, Close flushes what came before it, a batch that waits has a
\* timer and does not grow older than its bound.
THEOREM HubKeepsItsPromises ==
  AppSpec => []( /\ NothingLostOrReordered /\ CloseFlushesEarlierEvents
                 /\ WaitingBatchHasTimer /\ BatchAgeBounded )
  BY HubInApp, Delivery, CloseFlushes, TimerArmed, AgeBound, PTL
=============================================================================
