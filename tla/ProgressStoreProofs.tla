------------------------ MODULE ProgressStoreProofs -------------------------
(***************************************************************************)
(* Theorems about ProgressStore, for any number of jobs, pages, sites and  *)
(* clock readings: what the three tables say, whatever order the worker's  *)
(* statements and the sink's are made in and whichever of them fail.       *)
(***************************************************************************)
EXTENDS ProgressStore, SequenceTheorems, FiniteSetTheorems, FunctionTheorems, TLAPS

-----------------------------------------------------------------------------
(* The inductive invariant.                                                *)

\* A job has its clock reading from the moment a worker takes it, its outcome
\* when the worker is done, and its run row while it stores a retrieval.
WorkerInv(j) ==
  /\ wpc[j] = "idle" <=> start[j] = 0
  /\ wpc[j] = "done" <=> outcome[j] # "none"
  /\ wpc[j] \in {"insert", "emit"} => start[j] # 0 /\ runs[j][start[j]] # "absent"

\* A finished row says what the worker reported.
RowInv(j) ==
  \A t \in Times : runs[j][t] \in Finished =>
    outcome[j] = (IF runs[j][t] = "success" THEN "JOB_DONE" ELSE "JOB_ERROR")

\* An event in the hub was emitted by a worker that has begun the job; it says
\* what the worker knows; and the run is not yet shown as finished.
EventInv(e) ==
  /\ wpc[e.job] \notin {"idle", "start"}
  /\ e.stage = "JOB_START" => e.ts = start[e.job]
  /\ e.stage \in Completions => outcome[e.job] = e.stage
  /\ \A t \in Times : runs[e.job][t] \notin Finished

\* The start of a job comes before its other events, its completion after them.
MayPrecede(e, f) == e.job = f.job => f.stage # "JOB_START" /\ e.stage \notin Completions

OrderInv ==
  /\ \A i, k \in 1..Len(batch) : i < k => MayPrecede(batch[i], batch[k])
  /\ \A i, k \in 1..Len(channel) : i < k => MayPrecede(channel[i], channel[k])
  /\ \A i \in 1..Len(batch), k \in 1..Len(channel) : MayPrecede(batch[i], channel[k])

\* Between batches Consume holds nothing.
SinkInv ==
  /\ spc # "events" => batch = <<>>
  /\ spc = "idle" => delta = NoDelta

\* Events wait in the batch and behind it in the channel.
FlightInv ==
  /\ \A i \in 1..Len(batch) : EventInv(batch[i])
  /\ \A i \in 1..Len(channel) : EventInv(channel[i])

IInv ==
  /\ TypeOK /\ SinkInv /\ OneRunPerJob /\ RetrievalHasRun
  /\ \A j \in Jobs : WorkerInv(j) /\ RowInv(j)
  /\ FlightInv /\ OrderInv

-----------------------------------------------------------------------------
(* The balance of visits.                                                  *)

IsVisit(e, js) == e.stage = "FETCH_DONE" /\ e.job = js[1] /\ e.site = js[2]
VisitsAt(q, js) == {i \in 1..Len(q) : IsVisit(q[i], js)}
Visits(q, js) == Cardinality(VisitsAt(q, js))

\* What Consume has collected for a site, over the classes there are.
OfClass(js, c) == IF c \in Classes THEN delta[<<js[1], js[2], c>>] ELSE 0
Collected(js) ==
  OfClass(js, "2xx") + OfClass(js, "3xx") + OfClass(js, "4xx") + OfClass(js, "5xx")
    + OfClass(js, "other")

\* Every visit is in the table, collected, in the batch or in the channel; no
\* visit is in two of these places, and none is missing unless one was lost.
Accounted(js) ==
  stats[js].visits + Collected(js) + Visits(batch, js) + Visits(channel, js)

ColumnsAdd(row) ==
  row.visits = row.fetch["2xx"] + row.fetch["3xx"] + row.fetch["4xx"] + row.fetch["5xx"]

BalanceInv ==
  \A js \in Jobs \X Sites :
    /\ ColumnsAdd(stats[js])
    /\ Accounted(js) <= fetched[js]
    /\ ~lossy => Accounted(js) = fetched[js]

-----------------------------------------------------------------------------
(* Types.                                                                  *)

\* What an event is, by its stage.
LEMMA EventFields ==
  ASSUME NEW e \in Event
  PROVE  /\ e.job \in Jobs
         /\ e.stage \in {"JOB_START", "FETCH_DONE"} \cup Completions
         /\ e.stage = "JOB_START" => e.ts \in Times
         /\ e.stage = "FETCH_DONE" => e.site \in Sites /\ e.class \in Classes
  BY DEF Event, StartEvent, FetchEvent, CompletionEvent, Completions

\* The events a worker makes are events.
LEMMA EventsMade ==
  ASSUME NEW j \in Jobs
  PROVE  /\ \A t \in Times : [stage |-> "JOB_START", job |-> j, ts |-> t] \in Event
         /\ \A s \in Sites, c \in Classes :
              [stage |-> "FETCH_DONE", job |-> j, site |-> s, class |-> c] \in Event
         /\ \A st \in Completions : [stage |-> st, job |-> j] \in Event
  BY DEF Event, StartEvent, FetchEvent, CompletionEvent

\* The channel after Emit: as it was, or with the event at its end.
LEMMA Emitted ==
  ASSUME TypeOK, NEW e \in Event, Emit(e)
  PROVE  /\ channel' \in Seq(Event) /\ lossy' \in BOOLEAN
         /\ \/ channel' = channel
            \/ /\ Len(channel') = Len(channel) + 1
               /\ channel'[Len(channel) + 1] = e
               /\ \A i \in 1..Len(channel) : channel'[i] = channel[i]
  <1>1. channel \in Seq(Event) /\ lossy \in BOOLEAN BY DEF TypeOK
  <1>2. CASE channel' = Append(channel, e) /\ UNCHANGED lossy
    <2>1. Append(channel, e) \in Seq(Event) /\ Len(Append(channel, e)) = Len(channel) + 1
      BY <1>1, AppendProperties
    <2>2. Append(channel, e)[Len(channel) + 1] = e
      BY <1>1, AppendProperties
    <2>3. \A i \in 1..Len(channel) : Append(channel, e)[i] = channel[i]
      BY <1>1, AppendProperties
    <2> QED BY <1>1, <1>2, <2>1, <2>2, <2>3
  <1>3. CASE lossy' = TRUE /\ UNCHANGED channel
    BY <1>1, <1>3
  <1> QED BY <1>2, <1>3 DEF Emit

\* The first event of the batch is an event, and so is every later one.
LEMMA BatchHead ==
  ASSUME TypeOK, batch # <<>>
  PROVE  /\ Head(batch) = batch[1] /\ Head(batch) \in Event /\ Len(batch) >= 1
         /\ Tail(batch) \in Seq(Event) /\ Len(Tail(batch)) = Len(batch) - 1
         /\ \A i \in 1..Len(Tail(batch)) : Tail(batch)[i] = batch[i + 1]
  <1>1. batch \in Seq(Event) BY DEF TypeOK
  <1>2. Len(batch) \in Nat /\ Len(batch) >= 1
    BY <1>1, EmptySeq, LenProperties
  <1>3. Head(batch) = batch[1] /\ Head(batch) \in Event BY <1>1, <1>2, ElementOfSeq
  <1> QED BY <1>1, <1>2, <1>3, HeadTailProperties

\* BeginConsume cuts the channel in two.
LEMMA Cut ==
  ASSUME TypeOK, BeginConsume
  PROVE  /\ batch' \in Seq(Event) /\ channel' \in Seq(Event)
         /\ Len(batch') + Len(channel') = Len(channel)
         /\ \A i \in 1..Len(batch') : batch'[i] = channel[i]
         /\ \A i \in 1..Len(channel') : channel'[i] = channel[i + Len(batch')]
  <1>1. channel \in Seq(Event) /\ Len(channel) \in Nat BY LenProperties DEF TypeOK
  <1>2. PICK n \in 1..Len(channel) :
          batch' = SubSeq(channel, 1, n) /\ channel' = SubSeq(channel, n + 1, Len(channel))
    BY DEF BeginConsume
  <1>3. /\ SubSeq(channel, 1, n) \in Seq(Event) /\ Len(SubSeq(channel, 1, n)) = n
        /\ \A i \in 1..n : SubSeq(channel, 1, n)[i] = channel[i]
    <2>1. \A i \in 1..n : i \in 1..Len(channel) BY <1>1
    <2> QED BY <1>1, <2>1, SubSeqProperties
  <1>4. /\ SubSeq(channel, n + 1, Len(channel)) \in Seq(Event)
        /\ Len(SubSeq(channel, n + 1, Len(channel))) = Len(channel) - n
        /\ \A i \in 1..(Len(channel) - n) :
             SubSeq(channel, n + 1, Len(channel))[i] = channel[i + n]
    <2>1. \A i \in (n + 1)..Len(channel) : i \in 1..Len(channel) BY <1>1
    <2> QED BY <1>1, <2>1, SubSeqProperties
  <1> QED BY <1>1, <1>2, <1>3, <1>4

\* The run table after each statement that writes it.
LEMMA RunsType ==
  ASSUME TypeOK, NEW j \in Jobs
  PROVE  /\ \A t \in Times : InsertRun(j, t) \in [Jobs -> [Times -> RunStatuses]]
         /\ \A t \in Times : UpsertJobStart(j, t) \in [Jobs -> [Times -> RunStatuses]]
         /\ \A st \in Finished : CompleteJob(j, st) \in [Jobs -> [Times -> RunStatuses]]
  <1>1. runs \in [Jobs -> [Times -> RunStatuses]] BY DEF TypeOK
  <1> QED BY <1>1 DEF InsertRun, UpsertJobStart, CompleteJob, RunStatuses, Finished

\* Handling an event writes a row of its own job only.
LEMMA HandleType ==
  ASSUME TypeOK, NEW e \in Event, e.stage # "FETCH_DONE"
  PROVE  handleJobEvent(e) \in [Jobs -> [Times -> RunStatuses]]
  <1>1. CASE e.stage = "JOB_START"
    BY <1>1, EventFields, RunsType DEF handleJobEvent
  <1>2. CASE e.stage = "JOB_DONE"
    BY <1>2, EventFields, RunsType DEF handleJobEvent, Finished
  <1>3. CASE e.stage = "JOB_ERROR"
    BY <1>3, EventFields, RunsType DEF handleJobEvent, Finished
  <1> QED BY <1>1, <1>2, <1>3, EventFields DEF Completions

\* The row of a site after UpsertSiteStats, and the others.
LEMMA StatsType ==
  ASSUME TypeOK, NEW j \in Jobs, NEW s \in Sites, NEW c \in Columns, NEW n \in Nat
  PROVE  LET new == UpsertSiteStats(j, s, c, n) IN
         /\ new \in [Jobs \X Sites -> Rows]
         /\ \A js \in Jobs \X Sites : js # <<j, s>> => new[js] = stats[js]
         /\ new[<<j, s>>].visits = stats[<<j, s>>].visits + n
         /\ ColumnsAdd(stats[<<j, s>>]) => ColumnsAdd(new[<<j, s>>])
  <1>1. stats \in [Jobs \X Sites -> Rows] /\ <<j, s>> \in Jobs \X Sites BY DEF TypeOK
  <1>2. stats[<<j, s>>] \in Rows BY <1>1
  <1> DEFINE row == stats[<<j, s>>]
             up == UpdateStats(row, c, n)
             in == InsertStats(c, n)
  <1>3. /\ row.visits \in Nat /\ row.fetch \in [Columns -> Nat]
        /\ row.fetch["2xx"] \in Nat /\ row.fetch["3xx"] \in Nat
        /\ row.fetch["4xx"] \in Nat /\ row.fetch["5xx"] \in Nat
    BY <1>2 DEF Rows, Columns
  <1>4. up \in Rows /\ up.visits = row.visits + n
    BY <1>3 DEF UpdateStats, Rows
  <1>5. ColumnsAdd(row) => ColumnsAdd(up)
    <2>1. /\ up.visits = row.visits + n
          /\ \A d \in Columns : up.fetch[d] = IF d = c THEN row.fetch[d] + n ELSE row.fetch[d]
      BY <1>3 DEF UpdateStats
    <2> QED BY <1>3, <2>1 DEF ColumnsAdd, Columns
  <1>6. in \in Rows /\ in.visits = n BY DEF InsertStats, Rows
  <1>7. ColumnsAdd(in)
    BY DEF ColumnsAdd, InsertStats, Columns
  <1> DEFINE new == UpsertSiteStats(j, s, c, n)
  <1>8. new = [stats EXCEPT ![<<j, s>>] = IF row.visits > 0 THEN up ELSE in]
    BY DEF UpsertSiteStats
  <1> HIDE DEF up, in, new
  <1>9. /\ new \in [Jobs \X Sites -> Rows]
        /\ \A js \in Jobs \X Sites : js # <<j, s>> => new[js] = stats[js]
        /\ new[<<j, s>>] = IF row.visits > 0 THEN up ELSE in
    BY <1>1, <1>4, <1>6, <1>8
  <1>10. new[<<j, s>>].visits = stats[<<j, s>>].visits + n
    BY <1>3, <1>4, <1>6, <1>9
  <1>11. ColumnsAdd(row) => ColumnsAdd(new[<<j, s>>])
    BY <1>5, <1>7, <1>9
  <1> QED BY <1>9, <1>10, <1>11 DEF new

\* Every step keeps the types: a page is counted only while there are pages.
LEMMA TypeStep ==
  ASSUME TypeOK, \A j \in Jobs : WorkerInv(j), [Next]_vars
  PROVE  TypeOK'
  <1> USE TimesAssumption, MaxPagesAssumption
  <1>1. ASSUME NEW j \in Jobs, TakeJob(j) PROVE TypeOK'
    BY <1>1 DEF TakeJob, TypeOK, sinkVars
  <1>2. ASSUME NEW j \in Jobs, EmitJobStart(j) PROVE TypeOK'
    <2>1. start[j] \in Times BY <1>2 DEF EmitJobStart, WorkerInv, TypeOK
    <2>2. channel' \in Seq(Event) /\ lossy' \in BOOLEAN
      BY <1>2, <2>1, EventsMade, Emitted DEF EmitJobStart
    <2> QED BY <1>2, <2>2 DEF EmitJobStart, TypeOK, sinkVars
  <1>3. ASSUME NEW j \in Jobs, NextPage(j)
        PROVE  start[j] \in Times /\ npages' \in [Jobs -> 0..MaxPages]
    <2>1. npages \in [Jobs -> 0..MaxPages] /\ start[j] \in Times \cup {0}
      BY DEF TypeOK
    <2>2. start[j] # 0 BY <1>3 DEF NextPage, WorkerInv
    <2>3. npages[j] + 1 \in 0..MaxPages BY <1>3, <2>1 DEF NextPage
    <2> QED BY <1>3, <2>1, <2>2, <2>3 DEF NextPage
  <1>4. ASSUME NEW j \in Jobs, EnsureJobRun(j) PROVE TypeOK'
    <2>1. NextPage(j) /\ runs' = InsertRun(j, start[j]) BY <1>4 DEF EnsureJobRun
    <2>2. runs' \in [Jobs -> [Times -> RunStatuses]] /\ npages' \in [Jobs -> 0..MaxPages]
      BY <1>3, <2>1, RunsType
    <2> QED BY <1>4, <2>2 DEF EnsureJobRun, TypeOK, sinkVars
  <1>5. ASSUME NEW j \in Jobs, PageFails(j) PROVE TypeOK'
    <2>1. NextPage(j) /\ runs' \in {runs, InsertRun(j, start[j])} BY <1>5 DEF PageFails
    <2>2. runs \in [Jobs -> [Times -> RunStatuses]] BY DEF TypeOK
    <2>3. start[j] \in Times /\ npages' \in [Jobs -> 0..MaxPages] BY <1>3, <2>1
    <2>4. InsertRun(j, start[j]) \in [Jobs -> [Times -> RunStatuses]] BY <2>3, RunsType
    <2>5. runs' \in [Jobs -> [Times -> RunStatuses]] BY <2>1, <2>2, <2>4
    <2> QED BY <1>5, <2>3, <2>5 DEF PageFails, TypeOK, sinkVars
  <1>6. ASSUME NEW j \in Jobs, InsertRetrieval(j) PROVE TypeOK'
    BY <1>6 DEF InsertRetrieval, TypeOK, sinkVars
  <1>7. ASSUME NEW j \in Jobs, InsertOrPublishFails(j) PROVE TypeOK'
    BY <1>7 DEF InsertOrPublishFails, TypeOK, sinkVars
  <1>8. ASSUME NEW j \in Jobs, NEW s \in Sites, NEW c \in Classes, EmitFetchEvent(j, s, c)
        PROVE  TypeOK'
    <2>1. channel' \in Seq(Event) /\ lossy' \in BOOLEAN
      BY <1>8, EventsMade, Emitted DEF EmitFetchEvent
    <2>2. fetched' \in [Jobs \X Sites -> Nat]
      <3>1. <<j, s>> \in Jobs \X Sites OBVIOUS
      <3> QED BY <1>8, <3>1 DEF EmitFetchEvent, TypeOK
    <2> QED BY <1>8, <2>1, <2>2 DEF EmitFetchEvent, TypeOK, sinkVars
  <1>9. ASSUME NEW j \in Jobs, NEW st \in Completions, EmitJobCompletion(j, st)
        PROVE  TypeOK'
    <2>1. channel' \in Seq(Event) /\ lossy' \in BOOLEAN
      BY <1>9, EventsMade, Emitted DEF EmitJobCompletion
    <2> QED BY <1>9, <2>1 DEF EmitJobCompletion, TypeOK, sinkVars
  <1>10. CASE BeginConsume
    <2>1. NoDelta \in [Keys -> Nat] BY DEF NoDelta
    <2> QED BY <1>10, <2>1, Cut DEF BeginConsume, TypeOK, workerVars
  <1>11. CASE ConsumeEvent
    <2>1. batch' \in Seq(Event) BY <1>11, BatchHead DEF ConsumeEvent
    <2>2. delta' \in [Keys -> Nat] /\ runs' \in [Jobs -> [Times -> RunStatuses]]
      <3>1. CASE Head(batch).stage = "FETCH_DONE"
        <4>1. Head(batch) \in Event BY <1>11, BatchHead DEF ConsumeEvent
        <4> DEFINE k == <<Head(batch).job, Head(batch).site, Head(batch).class>>
        <4>2. k \in Keys BY <3>1, <4>1, EventFields DEF Keys
        <4>3. delta' = [delta EXCEPT ![k] = @ + 1] /\ runs' = runs
          BY <1>11, <3>1 DEF ConsumeEvent, recordSiteStats
        <4> QED BY <4>2, <4>3 DEF TypeOK
      <3>2. CASE Head(batch).stage # "FETCH_DONE"
        BY <1>11, <3>2, BatchHead, HandleType DEF ConsumeEvent, TypeOK
      <3> QED BY <3>1, <3>2
    <2> QED BY <1>11, <2>1, <2>2 DEF ConsumeEvent, TypeOK, workerVars
  <1>12. CASE ConsumeEventFails
    <2>1. runs' \in [Jobs -> [Times -> RunStatuses]]
      BY <1>12, BatchHead, HandleType DEF ConsumeEventFails, TypeOK
    <2>2. NoDelta \in [Keys -> Nat] BY DEF NoDelta
    <2>3. <<>> \in Seq(Event) OBVIOUS
    <2> QED BY <1>12, <2>1, <2>2, <2>3 DEF ConsumeEventFails, GiveUp, TypeOK, workerVars
  <1>13. CASE EventsDone
    BY <1>13 DEF EventsDone, TypeOK, workerVars
  <1>14. ASSUME NEW k \in Keys, FlushStats(k) PROVE TypeOK'
    <2>1. k = <<k[1], k[2], k[3]>> /\ k[1] \in Jobs /\ k[2] \in Sites BY DEF Keys
    <2>2. stats' \in [Jobs \X Sites -> Rows]
      BY <1>14, <2>1, StatsType DEF FlushStats, TypeOK
    <2> QED BY <1>14, <2>2 DEF FlushStats, TypeOK, workerVars
  <1>15. ASSUME NEW k \in Keys, FlushStatsFails(k) PROVE TypeOK'
    <2>1. k = <<k[1], k[2], k[3]>> /\ k[1] \in Jobs /\ k[2] \in Sites BY DEF Keys
    <2>2. stats' \in [Jobs \X Sites -> Rows]
      <3>1. CASE stats' = stats BY <3>1 DEF TypeOK
      <3>2. CASE k[3] \in Columns /\ stats' = UpsertSiteStats(k[1], k[2], k[3], delta[k])
        BY <2>1, <3>2, StatsType DEF TypeOK
      <3> QED BY <1>15, <3>1, <3>2 DEF FlushStatsFails
    <2>3. NoDelta \in [Keys -> Nat] BY DEF NoDelta
    <2>4. <<>> \in Seq(Event) OBVIOUS
    <2> QED BY <1>15, <2>2, <2>3, <2>4 DEF FlushStatsFails, GiveUp, TypeOK, workerVars
  <1>16. CASE ConsumeReturns
    BY <1>16 DEF ConsumeReturns, TypeOK, workerVars
  <1>17. CASE UNCHANGED vars
    BY <1>17 DEF vars, workerVars, sinkVars, TypeOK
  <1> QED
    BY <1>1, <1>2, <1>4, <1>5, <1>6, <1>7, <1>8, <1>9, <1>10, <1>11, <1>12, <1>13, <1>14,
       <1>15, <1>16, <1>17
    DEF Next, WorkerStep, SinkStep

-----------------------------------------------------------------------------
(* What a step does to a job's rows and to what its worker knows.          *)

\* A worker's step is about its own job, and from a job's own step the others
\* see nothing of their worker, of their rows or of their retrievals.
LEMMA WorkerStepIsLocal ==
  ASSUME TypeOK, NEW j \in Jobs, WorkerStep(j)
  PROVE  /\ \A i \in Jobs : i # j =>
              /\ wpc'[i] = wpc[i] /\ start'[i] = start[i] /\ outcome'[i] = outcome[i]
              /\ runs'[i] = runs[i] /\ retrievals'[i] = retrievals[i]
         /\ UNCHANGED <<batch, delta, spc, stats>>
  <1>1. ASSUME NEW f, f \in {InsertRun(j, start[j]), runs}
        PROVE  \A i \in Jobs : i # j => f[i] = runs[i]
    BY <1>1 DEF InsertRun, TypeOK
  <1>2. CASE TakeJob(j) BY <1>2 DEF TakeJob, TypeOK, sinkVars
  <1>3. CASE EmitJobStart(j) BY <1>3 DEF EmitJobStart, TypeOK, sinkVars
  <1>4. CASE EnsureJobRun(j)
    <2>1. \A i \in Jobs : i # j => runs'[i] = runs[i] BY <1>1, <1>4 DEF EnsureJobRun
    <2> QED BY <1>4, <2>1 DEF EnsureJobRun, TypeOK, sinkVars
  <1>5. CASE PageFails(j)
    <2>1. \A i \in Jobs : i # j => runs'[i] = runs[i] BY <1>1, <1>5 DEF PageFails
    <2> QED BY <1>5, <2>1 DEF PageFails, TypeOK, sinkVars
  <1>6. CASE InsertRetrieval(j) BY <1>6 DEF InsertRetrieval, TypeOK, sinkVars
  <1>7. CASE InsertOrPublishFails(j) BY <1>7 DEF InsertOrPublishFails, TypeOK, sinkVars
  <1>8. ASSUME NEW s \in Sites, NEW c \in Classes, EmitFetchEvent(j, s, c)
        PROVE  /\ UNCHANGED <<start, outcome, runs, retrievals, batch, delta, spc, stats>>
               /\ \A i \in Jobs : i # j => wpc'[i] = wpc[i]
    BY <1>8 DEF EmitFetchEvent, TypeOK, sinkVars
  <1>9. ASSUME NEW st \in Completions, EmitJobCompletion(j, st)
        PROVE  /\ UNCHANGED <<start, runs, retrievals, batch, delta, spc, stats>>
               /\ \A i \in Jobs : i # j => wpc'[i] = wpc[i] /\ outcome'[i] = outcome[i]
    BY <1>9 DEF EmitJobCompletion, TypeOK, sinkVars
  <1> QED BY <1>2, <1>3, <1>4, <1>5, <1>6, <1>7, <1>8, <1>9 DEF WorkerStep

\* Only handling an event writes a row from the sink, and it reads the head of
\* the batch.
LEMMA SinkStepKinds ==
  ASSUME SinkStep
  PROVE  /\ UNCHANGED <<workerVars, retrievals>>
         /\ \/ runs' = runs
            \/ /\ spc = "events" /\ batch # <<>> /\ Head(batch).stage # "FETCH_DONE"
               /\ runs' = handleJobEvent(Head(batch))
               /\ UNCHANGED channel
               /\ batch' \in {<<>>, Tail(batch)}
  BY DEF SinkStep, BeginConsume, ConsumeEvent, ConsumeEventFails, EventsDone, FlushStats,
         FlushStatsFails, ConsumeReturns, GiveUp

\* The rows after an event is handled.
LEMMA Handled ==
  ASSUME TypeOK, NEW e \in Event, e.stage # "FETCH_DONE",
         NEW j \in Jobs, NEW t \in Times
  PROVE  handleJobEvent(e)[j][t] =
           IF j # e.job THEN runs[j][t]
           ELSE IF e.stage = "JOB_START"
             THEN IF t = e.ts THEN "running" ELSE runs[j][t]
           ELSE IF runs[j][t] = "absent" THEN "absent"
           ELSE IF e.stage = "JOB_DONE" THEN "success" ELSE "error"
  <1>1. e.job \in Jobs /\ (e.stage = "JOB_START" => e.ts \in Times) BY EventFields
  <1>2. runs \in [Jobs -> [Times -> RunStatuses]] BY DEF TypeOK
  <1>3. CASE e.stage = "JOB_START"
    BY <1>1, <1>2, <1>3 DEF handleJobEvent, UpsertJobStart
  <1>4. CASE e.stage # "JOB_START"
    BY <1>1, <1>2, <1>4 DEF handleJobEvent, CompleteJob
  <1> QED BY <1>3, <1>4

\* The row a worker makes sure of.
LEMMA Inserted ==
  ASSUME TypeOK, NEW j \in Jobs, NEW u \in Times, NEW t \in Times
  PROVE  InsertRun(j, u)[j][t] =
           IF t = u /\ runs[j][t] = "absent" THEN "running" ELSE runs[j][t]
  BY DEF InsertRun, TypeOK

\* The one event the sink handles at the head of the batch says the truth.
LEMMA HeadTruth ==
  ASSUME TypeOK, FlightInv, batch # <<>>
  PROVE  Head(batch) \in Event /\ Head(batch) = batch[1] /\ EventInv(Head(batch))
  <1>1. Head(batch) = batch[1] /\ Head(batch) \in Event /\ Len(batch) >= 1 BY BatchHead
  <1>2. Len(batch) \in Nat BY LenProperties DEF TypeOK
  <1> QED BY <1>1, <1>2 DEF FlightInv

\* Rows do not disappear, and no step makes a second one.
LEMMA RowsStep ==
  ASSUME TypeOK, TypeOK', OneRunPerJob, FlightInv, \A j \in Jobs : WorkerInv(j), [Next]_vars
  PROVE  /\ OneRunPerJob'
         /\ \A j \in Jobs, t \in Times : runs[j][t] # "absent" => runs'[j][t] # "absent"
  <1> USE TimesAssumption
  <1>1. CASE UNCHANGED <<runs, start>> BY <1>1 DEF OneRunPerJob
  <1>2. ASSUME NEW j \in Jobs, TakeJob(j)
        PROVE  OneRunPerJob' /\ runs' = runs
    <2>1. start[j] = 0 BY <1>2 DEF TakeJob, WorkerInv
    <2>2. \A t \in Times : runs[j][t] = "absent" BY <2>1 DEF OneRunPerJob
    <2>3. runs' = runs BY <1>2 DEF TakeJob
    <2>4. \A i \in Jobs : i # j => start'[i] = start[i] BY <1>2 DEF TakeJob, TypeOK
    <2> QED BY <2>2, <2>3, <2>4 DEF OneRunPerJob
  <1>3. ASSUME NEW j \in Jobs, NextPage(j), runs' \in {runs, InsertRun(j, start[j])},
               start' = start
        PROVE  /\ OneRunPerJob'
               /\ \A i \in Jobs, t \in Times : runs[i][t] # "absent" => runs'[i][t] # "absent"
    <2>1. CASE runs' = runs BY <1>3, <2>1 DEF OneRunPerJob
    <2>2. CASE runs' = InsertRun(j, start[j])
      <3>1. start[j] \in Times BY <1>3 DEF NextPage, WorkerInv, TypeOK
      <3>2. \A t \in Times : runs'[j][t] = IF t = start[j] /\ runs[j][t] = "absent"
                                           THEN "running" ELSE runs[j][t]
        BY <2>2, <3>1, Inserted
      <3>3. \A i \in Jobs : i # j => runs'[i] = runs[i] BY <2>2 DEF InsertRun, TypeOK
      <3> QED BY <1>3, <3>2, <3>3 DEF OneRunPerJob
    <2> QED BY <1>3, <2>1, <2>2
  <1>4. CASE SinkStep
    <2>1. start' = start BY <1>4, SinkStepKinds DEF workerVars
    <2>2. CASE runs' = runs BY <2>1, <2>2 DEF OneRunPerJob
    <2>3. CASE /\ batch # <<>> /\ Head(batch).stage # "FETCH_DONE"
               /\ runs' = handleJobEvent(Head(batch))
      <3> DEFINE e == Head(batch)
      <3>1. e \in Event /\ EventInv(e) BY <2>3, HeadTruth
      <3>2. e.stage # "FETCH_DONE" /\ runs' = handleJobEvent(e) BY <2>3
      <3> HIDE DEF e
      <3>3. e.job \in Jobs BY <3>1, EventFields
      <3>4. ASSUME NEW j \in Jobs, NEW t \in Times
            PROVE  /\ runs[j][t] # "absent" => runs'[j][t] # "absent"
                   /\ runs'[j][t] # "absent" => t = start[j]
        BY <3>1, <3>2, <3>3, Handled DEF OneRunPerJob, EventInv
      <3> QED BY <2>1, <3>4 DEF OneRunPerJob
    <2> QED BY <1>4, <2>2, <2>3, SinkStepKinds
  <1>5. ASSUME NEW j \in Jobs, WorkerStep(j)
        PROVE  \/ TakeJob(j)
               \/ NextPage(j) /\ runs' \in {runs, InsertRun(j, start[j])} /\ start' = start
               \/ UNCHANGED <<runs, start>>
    BY <1>5 DEF WorkerStep, TakeJob, EmitJobStart, EnsureJobRun, PageFails, InsertRetrieval,
                InsertOrPublishFails, EmitFetchEvent, EmitJobCompletion
  <1>6. CASE UNCHANGED vars BY <1>1, <1>6 DEF vars, workerVars
  <1> QED BY <1>1, <1>2, <1>3, <1>4, <1>5, <1>6 DEF Next

\* A worker keeps its part of the invariant: the row it made sure of stays.
LEMMA WorkerInvStep ==
  ASSUME IInv, TypeOK', [Next]_vars
  PROVE  \A j \in Jobs : WorkerInv(j)'
  <1> SUFFICES ASSUME NEW j \in Jobs PROVE WorkerInv(j)'
    OBVIOUS
  <1> USE TimesAssumption
  <1>1. /\ TypeOK /\ OneRunPerJob /\ FlightInv /\ \A i \in Jobs : WorkerInv(i)
        /\ WorkerInv(j)
    BY DEF IInv
  <1>2. \A t \in Times : runs[j][t] # "absent" => runs'[j][t] # "absent"
    BY <1>1, RowsStep
  <1>3. start[j] \in Times \cup {0} /\ start'[j] \in Times \cup {0}
    BY <1>1 DEF TypeOK
  <1>4. CASE wpc'[j] = wpc[j] /\ start'[j] = start[j] /\ outcome'[j] = outcome[j]
    BY <1>1, <1>2, <1>3, <1>4 DEF WorkerInv
  <1>5. CASE SinkStep \/ UNCHANGED vars
    BY <1>4, <1>5, SinkStepKinds DEF workerVars, vars
  <1>6. ASSUME NEW i \in Jobs, WorkerStep(i), i # j PROVE WorkerInv(j)'
    BY <1>1, <1>4, <1>6, WorkerStepIsLocal
  <1>7. CASE TakeJob(j) BY <1>1, <1>7 DEF TakeJob, TypeOK, WorkerInv
  <1>8. CASE EmitJobStart(j) BY <1>1, <1>8 DEF EmitJobStart, TypeOK, WorkerInv
  <1>9. CASE EnsureJobRun(j)
    <2>1. wpc[j] = "page" /\ start' = start /\ outcome' = outcome /\ wpc'[j] = "insert"
      BY <1>1, <1>9 DEF EnsureJobRun, NextPage, TypeOK
    <2>2. start[j] # 0 /\ start[j] \in Times BY <1>1, <1>3, <2>1 DEF WorkerInv
    <2>3. runs'[j][start[j]] # "absent"
      <3>1. runs' = InsertRun(j, start[j]) BY <1>9 DEF EnsureJobRun
      <3> QED BY <1>1, <2>2, <3>1, Inserted
    <2> QED BY <1>1, <2>1, <2>2, <2>3 DEF WorkerInv
  <1>10. CASE PageFails(j) BY <1>1, <1>4, <1>10 DEF PageFails
  <1>11. CASE InsertRetrieval(j) BY <1>1, <1>11 DEF InsertRetrieval, TypeOK, WorkerInv
  <1>12. CASE InsertOrPublishFails(j)
    BY <1>1, <1>12 DEF InsertOrPublishFails, TypeOK, WorkerInv
  <1>13. ASSUME NEW s \in Sites, NEW c \in Classes, EmitFetchEvent(j, s, c)
         PROVE  WorkerInv(j)'
    BY <1>1, <1>13 DEF EmitFetchEvent, TypeOK, WorkerInv
  <1>14. ASSUME NEW st \in Completions, EmitJobCompletion(j, st) PROVE WorkerInv(j)'
    BY <1>1, <1>14 DEF EmitJobCompletion, TypeOK, WorkerInv, Completions
  <1> QED
    BY <1>5, <1>6, <1>7, <1>8, <1>9, <1>10, <1>11, <1>12, <1>13, <1>14 DEF Next, WorkerStep

\* A retrieval is stored only while the run row is there.
LEMMA RetrievalStep ==
  ASSUME IInv, TypeOK', [Next]_vars
  PROVE  RetrievalHasRun'
  <1> SUFFICES ASSUME NEW j \in Jobs, retrievals'[j] > 0
               PROVE  start'[j] \in Times /\ runs'[j][start'[j]] # "absent"
    BY DEF RetrievalHasRun
  <1> USE TimesAssumption
  <1>1. /\ TypeOK /\ OneRunPerJob /\ FlightInv /\ \A i \in Jobs : WorkerInv(i)
        /\ WorkerInv(j) /\ RetrievalHasRun
    BY DEF IInv
  <1>2. \A t \in Times : runs[j][t] # "absent" => runs'[j][t] # "absent"
    BY <1>1, RowsStep
  <1>3. start[j] \in Times \cup {0} BY <1>1 DEF TypeOK
  <1>4. retrievals[j] > 0 => start[j] \in Times /\ runs[j][start[j]] # "absent"
    BY <1>1 DEF RetrievalHasRun
  <1>5. CASE retrievals'[j] = retrievals[j] /\ start'[j] = start[j]
    BY <1>2, <1>4, <1>5
  <1>6. CASE SinkStep \/ UNCHANGED vars
    BY <1>5, <1>6, SinkStepKinds DEF workerVars, vars
  <1>7. ASSUME NEW i \in Jobs, WorkerStep(i), i # j
        PROVE  retrievals'[j] = retrievals[j] /\ start'[j] = start[j]
    BY <1>1, <1>7, WorkerStepIsLocal
  <1>8. CASE TakeJob(j)
    <2>1. start[j] = 0 /\ retrievals' = retrievals BY <1>1, <1>8 DEF TakeJob, WorkerInv
    <2> QED BY <1>4, <2>1
  <1>9. CASE wpc[j] = "insert" /\ start' = start
    BY <1>1, <1>2, <1>3, <1>9 DEF WorkerInv
  <1>10. CASE WorkerStep(j) /\ ~TakeJob(j)
    <2>1. \/ UNCHANGED <<start, retrievals>>
          \/ wpc[j] = "insert" /\ start' = start
      BY <1>10 DEF WorkerStep, EmitJobStart, EnsureJobRun, PageFails, InsertRetrieval,
                   InsertOrPublishFails, EmitFetchEvent, EmitJobCompletion
    <2> QED BY <1>5, <1>9, <2>1
  <1> QED BY <1>5, <1>6, <1>7, <1>8, <1>10 DEF Next

\* A row is finished by the completion event of its job, which tells the truth.
LEMMA RowInvStep ==
  ASSUME IInv, TypeOK', [Next]_vars
  PROVE  \A j \in Jobs : RowInv(j)'
  <1> SUFFICES ASSUME NEW j \in Jobs PROVE RowInv(j)'
    OBVIOUS
  <1>1. TypeOK /\ FlightInv /\ WorkerInv(j) /\ RowInv(j) BY DEF IInv
  <1>2. CASE runs'[j] = runs[j] /\ outcome'[j] = outcome[j]
    BY <1>1, <1>2 DEF RowInv
  <1>3. CASE UNCHANGED vars BY <1>2, <1>3 DEF vars, workerVars
  <1>4. CASE SinkStep
    <2>1. outcome' = outcome BY <1>4, SinkStepKinds DEF workerVars
    <2>2. CASE runs' = runs BY <1>2, <2>1, <2>2
    <2>3. CASE /\ batch # <<>> /\ Head(batch).stage # "FETCH_DONE"
               /\ runs' = handleJobEvent(Head(batch))
      <3> DEFINE e == Head(batch)
      <3>1. e \in Event /\ EventInv(e) BY <1>1, <2>3, HeadTruth
      <3>2. e.stage # "FETCH_DONE" /\ runs' = handleJobEvent(e) BY <2>3
      <3> HIDE DEF e
      <3>3. e.stage \in {"JOB_START", "JOB_DONE", "JOB_ERROR"}
        BY <3>1, <3>2, EventFields DEF Completions
      <3>4. e.stage \in Completions => outcome[e.job] = e.stage BY <3>1 DEF EventInv
      <3> QED BY <1>1, <2>1, <3>1, <3>2, <3>3, <3>4, Handled DEF RowInv, Finished, Completions
    <2> QED BY <1>4, <2>2, <2>3, SinkStepKinds
  <1>5. ASSUME NEW i \in Jobs, WorkerStep(i), i # j PROVE RowInv(j)'
    BY <1>1, <1>2, <1>5, WorkerStepIsLocal
  <1>6. ASSUME NextPage(j), runs' \in {runs, InsertRun(j, start[j])}, outcome' = outcome
        PROVE  RowInv(j)'
    <2>1. start[j] \in Times BY <1>1, <1>6, TimesAssumption DEF NextPage, WorkerInv, TypeOK
    <2>2. \A t \in Times : runs'[j][t] = runs[j][t] \/ runs'[j][t] = "running"
      BY <1>1, <1>6, <2>1, Inserted
    <2> QED BY <1>1, <1>6, <2>2 DEF RowInv, Finished
  <1>7. ASSUME NEW st \in Completions, EmitJobCompletion(j, st) PROVE RowInv(j)'
    <2>1. outcome[j] = "none" /\ runs' = runs BY <1>1, <1>7 DEF EmitJobCompletion, WorkerInv
    <2>2. \A t \in Times : runs[j][t] \notin Finished BY <1>1, <2>1 DEF RowInv
    <2> QED BY <2>1, <2>2 DEF RowInv
  <1>8. CASE WorkerStep(j)
    <2>1. \/ UNCHANGED <<runs, outcome>>
          \/ NextPage(j) /\ runs' \in {runs, InsertRun(j, start[j])} /\ outcome' = outcome
          \/ \E st \in Completions : EmitJobCompletion(j, st)
      BY <1>8 DEF WorkerStep, TakeJob, EmitJobStart, EnsureJobRun, PageFails, InsertRetrieval,
                  InsertOrPublishFails, EmitFetchEvent
    <2> QED BY <1>2, <1>6, <1>7, <2>1
  <1> QED BY <1>3, <1>4, <1>5, <1>8 DEF Next

-----------------------------------------------------------------------------
(* The events in the hub.                                                  *)

\* What is true of an event in the hub stays true when a worker moves.
LEMMA EventsKept ==
  ASSUME IInv, NEW j \in Jobs, WorkerStep(j), NEW e \in Event, EventInv(e)
  PROVE  EventInv(e)'
  <1>1. TypeOK /\ WorkerInv(j) BY DEF IInv
  <1>2. e.job \in Jobs BY EventFields
  <1>3. CASE e.job # j
    BY <1>1, <1>2, <1>3, WorkerStepIsLocal DEF EventInv
  <1>4. CASE e.job = j
    <2>1. /\ wpc[j] \notin {"idle", "start"}
          /\ e.stage = "JOB_START" => e.ts = start[j]
          /\ e.stage \in Completions => outcome[j] = e.stage
          /\ \A t \in Times : runs[j][t] \notin Finished
      BY <1>4 DEF EventInv
    <2>2. ~TakeJob(j) /\ ~EmitJobStart(j) BY <2>1 DEF TakeJob, EmitJobStart
    <2>3. start' = start /\ wpc[j] # "done"
      BY <2>2 DEF WorkerStep, EnsureJobRun, PageFails, InsertRetrieval, NextPage,
                  InsertOrPublishFails, EmitFetchEvent, EmitJobCompletion
    <2>4. e.stage \notin Completions
      BY <1>1, <2>1, <2>3 DEF WorkerInv, Completions
    <2>5. wpc'[j] \notin {"idle", "start"}
      BY <1>1, <2>1, <2>2 DEF TypeOK, WorkerStep, EnsureJobRun, PageFails, InsertRetrieval,
                  InsertOrPublishFails, EmitFetchEvent, EmitJobCompletion
    <2>6. \A t \in Times : runs'[j][t] \notin Finished
      <3>1. runs' = runs \/ (NextPage(j) /\ runs' \in {runs, InsertRun(j, start[j])})
        BY <2>2 DEF WorkerStep, EnsureJobRun, PageFails, InsertRetrieval,
                    InsertOrPublishFails, EmitFetchEvent, EmitJobCompletion
      <3>2. CASE runs' = runs BY <2>1, <3>2
      <3>3. CASE NextPage(j) /\ runs' \in {runs, InsertRun(j, start[j])}
        <4>1. start[j] \in Times
          BY <1>1, <3>3, TimesAssumption DEF NextPage, WorkerInv, TypeOK
        <4>2. \A t \in Times : runs'[j][t] = runs[j][t] \/ runs'[j][t] = "running"
          BY <1>1, <3>3, <4>1, Inserted
        <4> QED BY <2>1, <4>2 DEF Finished
      <3> QED BY <3>1, <3>2, <3>3
    <2> QED BY <1>4, <2>1, <2>3, <2>4, <2>5, <2>6 DEF EventInv
  <1> QED BY <1>3, <1>4

\* What a worker adds to the channel is true, and comes in order: a start event
\* when no event of the job is there yet, no event after the completion.
LEMMA EventAdded ==
  ASSUME IInv, TypeOK', NEW j \in Jobs, WorkerStep(j)
  PROVE  \/ channel' = channel
         \/ \E f \in Event :
              /\ Len(channel') = Len(channel) + 1
              /\ channel'[Len(channel) + 1] = f
              /\ \A i \in 1..Len(channel) : channel'[i] = channel[i]
              /\ EventInv(f)'
              /\ \A e \in Event : EventInv(e) => MayPrecede(e, f)
  <1>1. TypeOK /\ WorkerInv(j) /\ RowInv(j) BY DEF IInv
  <1>2. ASSUME NEW f \in Event, f.job = j, Emit(f), EventInv(f)', wpc[j] # "done",
               f.stage = "JOB_START" => wpc[j] = "start"
        PROVE  \/ channel' = channel
               \/ /\ Len(channel') = Len(channel) + 1
                  /\ channel'[Len(channel) + 1] = f
                  /\ \A i \in 1..Len(channel) : channel'[i] = channel[i]
                  /\ \A e \in Event : EventInv(e) => MayPrecede(e, f)
    <2>1. ASSUME NEW e \in Event, EventInv(e) PROVE MayPrecede(e, f)
      BY <1>1, <1>2, <2>1 DEF MayPrecede, EventInv, WorkerInv, Completions
    <2> QED BY <1>1, <1>2, <2>1, Emitted
  <1>3. wpc[j] # "done" => \A t \in Times : runs[j][t] \notin Finished
    BY <1>1 DEF RowInv, WorkerInv
  <1>4. CASE EmitJobStart(j)
    <2> DEFINE f == [stage |-> "JOB_START", job |-> j, ts |-> start[j]]
    <2>1. start[j] \in Times BY <1>1, <1>4, TimesAssumption DEF EmitJobStart, WorkerInv, TypeOK
    <2>2. f \in Event BY <2>1, EventsMade
    <2>3. /\ wpc[j] = "start" /\ wpc'[j] = "page" /\ start' = start /\ runs' = runs /\ Emit(f)
      BY <1>1, <1>4 DEF EmitJobStart, TypeOK
    <2>4. PICK g \in Event : g = f BY <2>2
    <2>5. /\ g.job = j /\ g.stage = "JOB_START" /\ g.ts = start[j] /\ Emit(g)
      BY <2>3, <2>4
    <2>6. EventInv(g)' BY <1>3, <2>3, <2>5 DEF EventInv, Completions
    <2> QED BY <1>2, <2>3, <2>5, <2>6
  <1>5. ASSUME NEW s \in Sites, NEW c \in Classes, EmitFetchEvent(j, s, c)
        PROVE  \/ channel' = channel
               \/ \E f \in Event :
                    /\ Len(channel') = Len(channel) + 1
                    /\ channel'[Len(channel) + 1] = f
                    /\ \A i \in 1..Len(channel) : channel'[i] = channel[i]
                    /\ EventInv(f)'
                    /\ \A e \in Event : EventInv(e) => MayPrecede(e, f)
    <2> DEFINE f == [stage |-> "FETCH_DONE", job |-> j, site |-> s, class |-> c]
    <2>1. f \in Event BY EventsMade
    <2>2. wpc[j] = "emit" /\ wpc'[j] = "page" /\ runs' = runs /\ Emit(f)
      BY <1>1, <1>5 DEF EmitFetchEvent, TypeOK
    <2>3. f.job = j /\ f.stage = "FETCH_DONE" OBVIOUS
    <2>4. EventInv(f)' BY <1>3, <2>2 DEF EventInv, Completions
    <2> QED BY <1>2, <2>1, <2>2, <2>3, <2>4
  <1>6. ASSUME NEW st \in Completions, EmitJobCompletion(j, st)
        PROVE  \/ channel' = channel
               \/ \E f \in Event :
                    /\ Len(channel') = Len(channel) + 1
                    /\ channel'[Len(channel) + 1] = f
                    /\ \A i \in 1..Len(channel) : channel'[i] = channel[i]
                    /\ EventInv(f)'
                    /\ \A e \in Event : EventInv(e) => MayPrecede(e, f)
    <2> DEFINE f == [stage |-> st, job |-> j]
    <2>1. f \in Event BY EventsMade
    <2>2. /\ wpc[j] = "page" /\ wpc'[j] = "done" /\ outcome'[j] = st /\ runs' = runs
          /\ Emit(f) /\ st # "JOB_START"
      BY <1>1, <1>6 DEF EmitJobCompletion, TypeOK, Completions
    <2>3. f.job = j /\ f.stage = st OBVIOUS
    <2>4. EventInv(f)' BY <1>3, <2>2 DEF EventInv
    <2> QED BY <1>2, <2>1, <2>2, <2>3, <2>4
  <1>7. CASE UNCHANGED channel BY <1>7
  <1> QED
    BY <1>4, <1>5, <1>6, <1>7
    DEF WorkerStep, TakeJob, EnsureJobRun, PageFails, InsertRetrieval, InsertOrPublishFails

\* A worker's step keeps the events in the hub true and in order.
LEMMA FlightWorkerStep ==
  ASSUME IInv, TypeOK', NEW j \in Jobs, WorkerStep(j)
  PROVE  FlightInv' /\ OrderInv'
  <1>1. TypeOK /\ FlightInv /\ OrderInv BY DEF IInv
  <1>2. /\ batch' = batch /\ batch \in Seq(Event) /\ channel \in Seq(Event)
        /\ Len(channel) \in Nat /\ Len(batch) \in Nat
    BY <1>1, WorkerStepIsLocal, LenProperties DEF TypeOK
  <1>3. /\ \A i \in 1..Len(batch) : batch[i] \in Event
        /\ \A i \in 1..Len(channel) : channel[i] \in Event
    BY <1>2, ElementOfSeq
  <1>4. \A e \in Event : EventInv(e) => EventInv(e)' BY EventsKept
  <1>5. CASE channel' = channel
    <2>1. FlightInv'
      BY <1>1, <1>2, <1>3, <1>4, <1>5 DEF FlightInv, EventInv
    <2>2. OrderInv' BY <1>1, <1>2, <1>5 DEF OrderInv, MayPrecede
    <2> QED BY <2>1, <2>2
  <1>6. ASSUME NEW f \in Event,
               Len(channel') = Len(channel) + 1,
               channel'[Len(channel) + 1] = f,
               \A i \in 1..Len(channel) : channel'[i] = channel[i],
               EventInv(f)',
               \A e \in Event : EventInv(e) => MayPrecede(e, f)
        PROVE  FlightInv' /\ OrderInv'
    <2>1. \A i \in 1..Len(channel') : i \in 1..Len(channel) \/ i = Len(channel) + 1
      BY <1>2, <1>6
    <2>2. FlightInv'
      <3>1. ASSUME NEW i \in 1..Len(batch') PROVE EventInv(batch[i])'
        BY <1>1, <1>2, <1>3, <1>4, <3>1 DEF FlightInv, EventInv
      <3>2. ASSUME NEW i \in 1..Len(channel) PROVE EventInv(channel[i])'
        <4>1. PICK e \in Event : e = channel[i] BY <1>3
        <4>2. EventInv(e)' /\ channel'[i] = e BY <1>1, <1>4, <1>6, <4>1 DEF FlightInv
        <4> QED BY <4>2 DEF EventInv
      <3>3. ASSUME NEW i \in Nat, i = Len(channel) + 1 PROVE EventInv(channel[i])'
        BY <1>6, <3>3 DEF EventInv
      <3> QED BY <1>2, <2>1, <3>1, <3>2, <3>3 DEF FlightInv
    <2>3. OrderInv'
      <3>1. \A i \in 1..Len(batch) : MayPrecede(batch[i], f)
        BY <1>1, <1>3, <1>6 DEF FlightInv
      <3>2. \A i \in 1..Len(channel) : MayPrecede(channel[i], f)
        BY <1>1, <1>3, <1>6 DEF FlightInv
      <3>3. \A i, k \in 1..Len(channel') : i < k => MayPrecede(channel'[i], channel'[k])
        BY <1>1, <1>2, <1>6, <2>1, <3>2 DEF OrderInv
      <3>4. \A i \in 1..Len(batch), k \in 1..Len(channel') : MayPrecede(batch[i], channel'[k])
        BY <1>1, <1>6, <2>1, <3>1 DEF OrderInv
      <3> QED BY <1>1, <1>2, <3>3, <3>4 DEF OrderInv, MayPrecede
    <2> QED BY <2>2, <2>3
  <1> QED BY <1>5, <1>6, EventAdded

\* A step of the sink keeps the events in the hub true and in order: the only
\* event after which a row is finished has no other of its job behind it.
LEMMA FlightSinkStep ==
  ASSUME IInv, TypeOK', SinkStep
  PROVE  FlightInv' /\ OrderInv'
  <1>1. TypeOK /\ FlightInv /\ OrderInv /\ SinkInv BY DEF IInv
  <1>2. UNCHANGED <<wpc, start, outcome>> BY SinkStepKinds DEF workerVars
  <1>3. /\ batch \in Seq(Event) /\ channel \in Seq(Event)
        /\ Len(channel) \in Nat /\ Len(batch) \in Nat
    BY <1>1, LenProperties DEF TypeOK
  <1>4. /\ \A i \in 1..Len(batch) : batch[i] \in Event
        /\ \A i \in 1..Len(channel) : channel[i] \in Event
    BY <1>3, ElementOfSeq
  <1>5. CASE BeginConsume
    <2>1. runs' = runs BY <1>5 DEF BeginConsume
    <2>2. \A e \in Event : EventInv(e) => EventInv(e)' BY <1>2, <2>1 DEF EventInv
    <2>3. /\ batch' \in Seq(Event) /\ channel' \in Seq(Event)
          /\ Len(batch') + Len(channel') = Len(channel)
          /\ \A i \in 1..Len(batch') : batch'[i] = channel[i]
          /\ \A i \in 1..Len(channel') : channel'[i] = channel[i + Len(batch')]
      BY <1>1, <1>5, Cut
    <2>4. Len(batch') \in Nat /\ Len(channel') \in Nat BY <2>3, LenProperties
    <2>5. /\ \A i \in 1..Len(batch') : i \in 1..Len(channel)
          /\ \A i \in 1..Len(channel') : i + Len(batch') \in 1..Len(channel)
      BY <1>3, <2>3, <2>4
    <2>6. FlightInv'
      <3>1. ASSUME NEW i \in 1..Len(batch') PROVE EventInv(batch[i])'
        <4>1. PICK e \in Event : e = channel[i] BY <1>4, <2>5
        <4>2. EventInv(e)' /\ batch'[i] = e BY <1>1, <2>2, <2>3, <2>5, <4>1 DEF FlightInv
        <4> QED BY <4>2 DEF EventInv
      <3>2. ASSUME NEW i \in 1..Len(channel') PROVE EventInv(channel[i])'
        <4>1. PICK k \in 1..Len(channel) : k = i + Len(batch') BY <2>5
        <4>2. PICK e \in Event : e = channel[k] BY <1>4
        <4>3. EventInv(e)' /\ channel'[i] = e BY <1>1, <2>2, <2>3, <4>1, <4>2 DEF FlightInv
        <4> QED BY <4>3 DEF EventInv
      <3> QED BY <3>1, <3>2 DEF FlightInv
    <2>7. OrderInv'
      <3>1. \A i, k \in 1..Len(channel) : i < k => MayPrecede(channel[i], channel[k])
        BY <1>1 DEF OrderInv
      <3>2. \A i, k \in 1..Len(batch') : i < k => MayPrecede(batch'[i], batch'[k])
        BY <2>3, <2>5, <3>1
      <3>3. \A i, k \in 1..Len(channel') : i < k => MayPrecede(channel'[i], channel'[k])
        BY <2>3, <2>4, <2>5, <3>1
      <3>4. \A i \in 1..Len(batch'), k \in 1..Len(channel') : MayPrecede(batch'[i], channel'[k])
        BY <2>3, <2>4, <2>5, <3>1
      <3> QED BY <3>2, <3>3, <3>4 DEF OrderInv, MayPrecede
    <2> QED BY <2>6, <2>7
  <1>6. ASSUME channel' = channel, batch' \in {batch, <<>>}, runs' = runs
        PROVE  FlightInv' /\ OrderInv'
    BY <1>1, <1>2, <1>6 DEF FlightInv, OrderInv, EventInv, MayPrecede
  <1>7. ASSUME channel' = channel, batch # <<>>, batch' = Tail(batch), runs' = runs
        PROVE  FlightInv' /\ OrderInv'
    <2>1. /\ Len(batch') = Len(batch) - 1 /\ Len(batch) >= 1
          /\ \A i \in 1..Len(batch') : batch'[i] = batch[i + 1]
      BY <1>1, <1>7, BatchHead
    <2>2. \A i \in 1..Len(batch') : i + 1 \in 1..Len(batch) BY <1>3, <2>1
    <2>3. FlightInv'
      BY <1>1, <1>2, <1>7, <2>1, <2>2 DEF FlightInv, EventInv
    <2>4. OrderInv'
      BY <1>1, <1>3, <1>7, <2>1, <2>2 DEF OrderInv, MayPrecede
    <2> QED BY <2>3, <2>4
  <1>8. ASSUME channel' = channel, spc = "events", batch # <<>>,
               batch' \in {<<>>, Tail(batch)},
               Head(batch).stage # "FETCH_DONE", runs' = handleJobEvent(Head(batch))
        PROVE  FlightInv' /\ OrderInv'
    <2>1. /\ Head(batch) = batch[1] /\ Len(batch) >= 1
          /\ Len(Tail(batch)) = Len(batch) - 1
          /\ \A i \in 1..Len(Tail(batch)) : Tail(batch)[i] = batch[i + 1]
      BY <1>1, <1>8, BatchHead
    <2>2. /\ Len(batch') \in Nat /\ Len(batch') < Len(batch)
          /\ \A i \in 1..Len(batch') : batch'[i] = batch[i + 1]
      BY <1>3, <1>8, <2>1
    <2>3. \A i \in 1..Len(batch') : i + 1 \in 2..Len(batch) BY <1>3, <2>2
    <2>4. PICK e \in Event : e = Head(batch) BY <1>1, <1>8, BatchHead
    <2>5. e.stage # "FETCH_DONE" /\ runs' = handleJobEvent(e) /\ e = batch[1]
      BY <1>8, <2>1, <2>4
    <2>6. e.job \in Jobs /\ e.stage \in {"JOB_START"} \cup Completions
      BY <2>5, EventFields
    <2>7. ASSUME NEW f \in Event, EventInv(f), MayPrecede(e, f) PROVE EventInv(f)'
      <3>1. f.job \in Jobs BY EventFields
      <3>2. f.job = e.job => e.stage = "JOB_START" BY <2>6, <2>7 DEF MayPrecede
      <3>3. \A t \in Times : runs'[f.job][t] \notin Finished
        BY <1>1, <2>5, <2>7, <3>1, <3>2, Handled DEF EventInv, Finished
      <3> QED BY <1>2, <2>7, <3>3 DEF EventInv
    <2>8. /\ \A i \in 2..Len(batch) : MayPrecede(e, batch[i])
          /\ \A i \in 1..Len(channel) : MayPrecede(e, channel[i])
      BY <1>1, <1>3, <2>1, <2>5 DEF OrderInv
    <2>9. FlightInv'
      <3>1. ASSUME NEW i \in 1..Len(batch') PROVE EventInv(batch[i])'
        <4>1. PICK k \in 2..Len(batch) : k = i + 1 BY <2>3
        <4>2. PICK f \in Event : f = batch[k] BY <1>3, <1>4
        <4>3. EventInv(f) /\ batch'[i] = f BY <1>1, <1>3, <2>2, <4>1, <4>2 DEF FlightInv
        <4>4. EventInv(f)' BY <2>7, <2>8, <4>2, <4>3
        <4> QED BY <4>3, <4>4 DEF EventInv
      <3>2. ASSUME NEW i \in 1..Len(channel') PROVE EventInv(channel[i])'
        <4>1. PICK f \in Event : f = channel[i] BY <1>4, <1>8
        <4>2. EventInv(f) /\ MayPrecede(e, f) /\ channel'[i] = f
          BY <1>1, <1>8, <2>8, <4>1 DEF FlightInv
        <4> QED BY <2>7, <4>2 DEF EventInv
      <3> QED BY <3>1, <3>2 DEF FlightInv
    <2>10. OrderInv'
      <3>1. ASSUME NEW i \in 1..Len(batch'), NEW k \in 1..Len(batch'), i < k
            PROVE  MayPrecede(batch'[i], batch'[k])
        <4>1. i + 1 \in 1..Len(batch) /\ k + 1 \in 1..Len(batch) /\ i + 1 < k + 1
          BY <1>3, <2>2, <2>3, <3>1
        <4>2. MayPrecede(batch[i + 1], batch[k + 1]) BY <1>1, <4>1 DEF OrderInv
        <4> QED BY <2>2, <4>2
      <3>2. \A i \in 1..Len(batch'), k \in 1..Len(channel) : MayPrecede(batch'[i], channel[k])
        BY <1>1, <1>3, <2>2, <2>3 DEF OrderInv
      <3> QED BY <1>1, <1>8, <3>1, <3>2 DEF OrderInv, MayPrecede
    <2> QED BY <2>9, <2>10
  <1>9. CASE ConsumeEvent \/ ConsumeEventFails
    BY <1>6, <1>7, <1>8, <1>9 DEF ConsumeEvent, ConsumeEventFails, GiveUp
  <1>10. CASE EventsDone \/ ConsumeReturns \/ \E k \in Keys : FlushStats(k) \/ FlushStatsFails(k)
    BY <1>6, <1>10 DEF EventsDone, ConsumeReturns, FlushStats, FlushStatsFails, GiveUp
  <1> QED BY <1>5, <1>9, <1>10 DEF SinkStep

-----------------------------------------------------------------------------
(* The theorems about the run rows and the retrievals.                     *)

\* Consume holds a batch only between BeginConsume and its last event.
LEMMA SinkInvStep ==
  ASSUME TypeOK, SinkInv, [Next]_vars
  PROVE  SinkInv'
  <1>1. CASE SinkStep
    BY <1>1 DEF SinkInv, TypeOK, SinkStep, BeginConsume, ConsumeEvent, ConsumeEventFails,
                EventsDone, FlushStats, FlushStatsFails, ConsumeReturns, GiveUp, NoDelta
  <1>2. ASSUME NEW j \in Jobs, WorkerStep(j) PROVE SinkInv'
    <2>1. UNCHANGED <<batch, delta, spc>> BY <1>2, WorkerStepIsLocal
    <2> QED BY <2>1 DEF SinkInv, NoDelta
  <1>3. CASE UNCHANGED vars
    BY <1>3 DEF SinkInv, vars, sinkVars, NoDelta
  <1> QED BY <1>1, <1>2, <1>3 DEF Next

\* The tables and the hub are empty at first.
LEMMA InvInit == Init => IInv
  <1> SUFFICES ASSUME Init PROVE IInv
    OBVIOUS
  <1> USE TimesAssumption
  <1>1. TypeOK
    <2>1. <<>> \in Seq(Event) OBVIOUS
    <2>2. stats \in [Jobs \X Sites -> Rows]
      BY DEF Init, NoRow, Rows, Columns
    <2>3. lossy \in BOOLEAN BY DEF Init
    <2> QED
      BY <2>1, <2>2, <2>3, MaxPagesAssumption DEF Init, TypeOK, NoDelta, RunStatuses
  <1>2. SinkInv BY DEF Init, SinkInv
  <1>3. OneRunPerJob /\ RetrievalHasRun BY DEF Init, OneRunPerJob, RetrievalHasRun
  <1>4. \A j \in Jobs : WorkerInv(j) /\ RowInv(j) BY DEF Init, WorkerInv, RowInv, Finished
  <1>5. FlightInv /\ OrderInv
    <2>1. batch = <<>> /\ channel = <<>> BY DEF Init
    <2>2. Len(batch) = 0 /\ Len(channel) = 0 BY <2>1
    <2> QED BY <2>2 DEF FlightInv, OrderInv
  <1> QED BY <1>1, <1>2, <1>3, <1>4, <1>5 DEF IInv

\* Every step of the workers and of the sink keeps the invariant.
LEMMA InvStep == IInv /\ [Next]_vars => IInv'
  <1> SUFFICES ASSUME IInv, [Next]_vars PROVE IInv'
    OBVIOUS
  <1>1. TypeOK /\ SinkInv /\ OneRunPerJob /\ FlightInv /\ OrderInv /\ \A j \in Jobs : WorkerInv(j)
    BY DEF IInv
  <1>2. TypeOK' BY <1>1, TypeStep
  <1>3. SinkInv' BY <1>1, SinkInvStep
  <1>4. OneRunPerJob' BY <1>1, <1>2, RowsStep
  <1>5. RetrievalHasRun' BY <1>2, RetrievalStep
  <1>6. \A j \in Jobs : WorkerInv(j)' /\ RowInv(j)' BY <1>2, WorkerInvStep, RowInvStep
  <1>7. FlightInv' /\ OrderInv'
    <2>1. CASE SinkStep BY <1>2, <2>1, FlightSinkStep
    <2>2. ASSUME NEW j \in Jobs, WorkerStep(j) PROVE FlightInv' /\ OrderInv'
      BY <1>2, <2>2, FlightWorkerStep
    <2>3. CASE UNCHANGED vars
      BY <1>1, <2>3
      DEF vars, workerVars, sinkVars, FlightInv, OrderInv, EventInv, MayPrecede
    <2> QED BY <2>1, <2>2, <2>3 DEF Next
  <1> QED BY <1>2, <1>3, <1>4, <1>5, <1>6, <1>7 DEF IInv

\* The invariant holds in every state.
LEMMA Invariance == Spec => []IInv
  BY InvInit, InvStep, PTL DEF Spec

\* Type correctness, for every number of jobs, pages, sites and clock readings.
THEOREM TypeCorrectness == Spec => []TypeOK
  <1>1. IInv => TypeOK BY DEF IInv
  <1> QED BY <1>1, Invariance, PTL

\* A job never has two run rows: ensureJobRun and UpsertJobStart write under the
\* same clock reading.
THEOREM OneRun == Spec => []OneRunPerJob
  <1>1. IInv => OneRunPerJob BY DEF IInv
  <1> QED BY <1>1, Invariance, PTL

\* A retrieval row never lacks its run row, whatever the hub drops or delays.
THEOREM RetrievalRun == Spec => []RetrievalHasRun
  <1>1. IInv => RetrievalHasRun BY DEF IInv
  <1> QED BY <1>1, Invariance, PTL

\* A run is shown as finished only with the worker's result and when no event of
\* the job is left in the hub.
THEOREM Truthful == Spec => []FinishedRunIsTruthful
  <1>1. IInv => FinishedRunIsTruthful
    BY DEF IInv, FinishedRunIsTruthful, RowInv, FlightInv, EventInv
  <1> QED BY <1>1, Invariance, PTL

\* A finished run stays as it is: no start event can come late or twice, and a
\* completion is handled once.
THEOREM Final == Spec => FinishedRunIsFinal
  <1> DEFINE Kept == \A j \in Jobs, t \in Times :
                       runs[j][t] \in Finished => runs'[j][t] = runs[j][t]
  <1>1. IInv /\ [Next]_vars => [Kept]_vars
    <2> SUFFICES ASSUME IInv, Next PROVE Kept
      BY DEF vars
    <2>1. TypeOK /\ FlightInv /\ \A j \in Jobs : WorkerInv(j) BY DEF IInv
    <2>2. CASE runs' = runs BY <2>2
    <2>3. CASE /\ batch # <<>> /\ Head(batch).stage # "FETCH_DONE"
               /\ runs' = handleJobEvent(Head(batch))
      <3>1. PICK e \in Event : e = Head(batch) /\ EventInv(e) BY <2>1, <2>3, HeadTruth
      <3>2. e.stage # "FETCH_DONE" /\ runs' = handleJobEvent(e) BY <2>3, <3>1
      <3> QED BY <2>1, <3>1, <3>2, Handled DEF EventInv
    <2>4. ASSUME NEW j \in Jobs, WorkerStep(j) PROVE Kept
      <3>1. CASE runs' = runs BY <3>1
      <3>2. CASE NextPage(j) /\ runs' \in {runs, InsertRun(j, start[j])}
        <4>1. start[j] \in Times
          BY <2>1, <3>2, TimesAssumption DEF NextPage, WorkerInv, TypeOK
        <4>2. \A t \in Times : runs[j][t] \in Finished => runs'[j][t] = runs[j][t]
          BY <2>1, <3>2, <4>1, Inserted DEF Finished
        <4> QED BY <2>1, <2>4, <4>2, WorkerStepIsLocal
      <3> QED
        BY <2>4, <3>1, <3>2
        DEF WorkerStep, TakeJob, EmitJobStart, EnsureJobRun, PageFails, InsertRetrieval,
            InsertOrPublishFails, EmitFetchEvent, EmitJobCompletion
    <2> QED BY <2>2, <2>3, <2>4, SinkStepKinds DEF Next
  <1> QED BY <1>1, Invariance, PTL DEF Spec, FinishedRunIsFinal

-----------------------------------------------------------------------------
(* Counting the visits in a sequence of events.                            *)

\* The places are finitely many; there is none in the empty sequence.
LEMMA VisitsFinite ==
  ASSUME NEW q \in Seq(Event), NEW js
  PROVE  /\ IsFiniteSet(VisitsAt(q, js)) /\ Visits(q, js) \in Nat
         /\ q = <<>> => Visits(q, js) = 0
  <1>1. Len(q) \in Nat BY LenProperties
  <1>2. IsFiniteSet(1..Len(q)) BY <1>1, FS_Interval
  <1>3. VisitsAt(q, js) \in SUBSET (1..Len(q)) BY DEF VisitsAt
  <1>4. IsFiniteSet(VisitsAt(q, js)) BY <1>2, <1>3, FS_Subset
  <1>5. Visits(q, js) \in Nat BY <1>4, FS_CardinalityType DEF Visits
  <1>6. q = <<>> => VisitsAt(q, js) = {} BY DEF VisitsAt
  <1> QED BY <1>4, <1>5, <1>6, FS_EmptySet DEF Visits

\* One more event is one more visit, if it is a visit.
LEMMA VisitsLonger ==
  ASSUME NEW q \in Seq(Event), NEW r \in Seq(Event), NEW js, NEW e,
         Len(r) = Len(q) + 1, r[Len(q) + 1] = e,
         \A i \in 1..Len(q) : r[i] = q[i]
  PROVE  Visits(r, js) = Visits(q, js) + (IF IsVisit(e, js) THEN 1 ELSE 0)
  <1>1. Len(q) \in Nat BY LenProperties
  <1>2. \A i : i \in 1..Len(r) <=> i \in 1..Len(q) \/ i = Len(q) + 1 BY <1>1
  <1>3. IsFiniteSet(VisitsAt(q, js)) /\ Visits(q, js) \in Nat BY VisitsFinite
  <1>4. Len(q) + 1 \notin VisitsAt(q, js) BY <1>1 DEF VisitsAt
  <1>5. CASE IsVisit(e, js)
    <2>1. VisitsAt(r, js) = VisitsAt(q, js) \cup {Len(q) + 1}
      BY <1>2, <1>5 DEF VisitsAt
    <2> QED BY <1>3, <1>4, <1>5, <2>1, FS_AddElement DEF Visits
  <1>6. CASE ~IsVisit(e, js)
    <2>1. VisitsAt(r, js) = VisitsAt(q, js)
      BY <1>2, <1>6 DEF VisitsAt
    <2> QED BY <1>3, <1>6, <2>1 DEF Visits
  <1> QED BY <1>5, <1>6

\* q is b followed by c.
IsCut(q, b, c) ==
  /\ Len(b) + Len(c) = Len(q)
  /\ \A i \in 1..Len(b) : b[i] = q[i]
  /\ \A i \in 1..Len(c) : c[i] = q[i + Len(b)]

\* Cutting a sequence in two neither loses nor makes a visit.
LEMMA VisitsCut ==
  ASSUME NEW q \in Seq(Event), NEW b \in Seq(Event), NEW c \in Seq(Event), NEW js,
         IsCut(q, b, c)
  PROVE  Visits(q, js) = Visits(b, js) + Visits(c, js)
  <1>1. Len(q) \in Nat /\ Len(b) \in Nat /\ Len(c) \in Nat BY LenProperties
  <1> DEFINE Q == VisitsAt(q, js)
             B == VisitsAt(b, js)
             C == VisitsAt(c, js)
             shift == [i \in C |-> i + Len(b)]
  <1>2. /\ IsFiniteSet(Q) /\ IsFiniteSet(B) /\ IsFiniteSet(C)
        /\ Cardinality(Q) \in Nat /\ Cardinality(B) \in Nat /\ Cardinality(C) \in Nat
    BY VisitsFinite DEF Visits
  <1>3. \A i : i \in B <=> i \in Q /\ i <= Len(b)
    BY <1>1 DEF VisitsAt, IsCut
  <1>4. \A i \in C : i \in Nat /\ i + Len(b) \in Q \ B
    BY <1>1 DEF VisitsAt, IsCut
  <1>5. ASSUME NEW i \in Q \ B PROVE i - Len(b) \in C /\ (i - Len(b)) + Len(b) = i
    <2>1. i \in 1..Len(q) /\ i > Len(b) BY <1>1, <1>3 DEF VisitsAt
    <2>2. i - Len(b) \in 1..Len(c) /\ (i - Len(b)) + Len(b) = i BY <1>1, <2>1 DEF IsCut
    <2>3. c[i - Len(b)] = q[i] BY <2>2 DEF IsCut
    <2> QED BY <2>2, <2>3 DEF VisitsAt
  <1> HIDE DEF Q, B, C
  <1>6. shift \in [C -> Q \ B] BY <1>4
  <1>7. \A x, y \in C : shift[x] = shift[y] => x = y BY <1>1, <1>4
  <1>8. \A t \in Q \ B : \E s \in C : shift[s] = t BY <1>5
  <1>9. shift \in Bijection(C, Q \ B) BY <1>6, <1>7, <1>8, Fun_IsBij
  <1>10. Cardinality(Q \ B) = Cardinality(C) BY <1>2, <1>9, Fun_ExistsBij, FS_Bijection
  <1>11. Cardinality(Q \cap B) = Cardinality(B)
    <2>1. Q \cap B = B BY <1>3
    <2> QED BY <2>1, Zenon
  <1>12. Cardinality(Q \ B) = Cardinality(Q) - Cardinality(Q \cap B) BY <1>2, FS_Difference
  <1>13. Cardinality(Q) = Cardinality(B) + Cardinality(C) BY <1>2, <1>10, <1>11, <1>12
  <1> QED BY <1>13 DEF Visits, Q, B, C

\* Taking the first event takes its visit.
LEMMA VisitsTail ==
  ASSUME TypeOK, batch # <<>>, NEW js
  PROVE  Visits(batch, js) = Visits(Tail(batch), js)
                               + (IF IsVisit(Head(batch), js) THEN 1 ELSE 0)
  <1>1. /\ batch \in Seq(Event) /\ Head(batch) = batch[1] /\ Head(batch) \in Event
        /\ Len(batch) >= 1 /\ Len(batch) \in Nat
        /\ Tail(batch) \in Seq(Event) /\ Len(Tail(batch)) = Len(batch) - 1
        /\ \A i \in 1..Len(Tail(batch)) : Tail(batch)[i] = batch[i + 1]
    BY BatchHead, LenProperties DEF TypeOK
  <1> DEFINE q == batch
             e == Head(batch)
             b == <<e>>
             c == Tail(batch)
             z == <<>>
  <1>2. b \in Seq(Event) /\ Len(b) = 1 /\ b[1] = e /\ z \in Seq(Event) /\ Len(z) = 0
    BY <1>1
  <1>3. q \in Seq(Event) /\ c \in Seq(Event) /\ IsCut(q, b, c) BY <1>1, <1>2 DEF IsCut
  <1>4. Visits(z, js) = 0 /\ Visits(c, js) \in Nat BY <1>1, <1>2, VisitsFinite
  <1> HIDE DEF q, b, c, z, e
  <1>5. Visits(q, js) = Visits(b, js) + Visits(c, js) BY <1>2, <1>3, VisitsCut
  <1>6. Len(b) = Len(z) + 1 /\ b[Len(z) + 1] = e /\ \A i \in 1..Len(z) : b[i] = z[i]
    BY <1>2
  <1>7. Visits(b, js) = Visits(z, js) + (IF IsVisit(e, js) THEN 1 ELSE 0)
    BY <1>2, <1>6, VisitsLonger
  <1> QED BY <1>4, <1>5, <1>7 DEF q, c, e

\* What Consume has collected is a number, and nothing at first.
LEMMA CollectedType ==
  ASSUME TypeOK, NEW js \in Jobs \X Sites
  PROVE  /\ Collected(js) \in Nat
         /\ \A c \in {"2xx", "3xx", "4xx", "5xx", "other"} : OfClass(js, c) \in Nat
         /\ delta = NoDelta => Collected(js) = 0
  <1>1. delta \in [Keys -> Nat] BY DEF TypeOK
  <1>2. \A c \in Classes : <<js[1], js[2], c>> \in Keys BY DEF Keys
  <1>3. \A c \in {"2xx", "3xx", "4xx", "5xx", "other"} : OfClass(js, c) \in Nat
    BY <1>1, <1>2 DEF OfClass
  <1>4. ASSUME delta = NoDelta
        PROVE  \A c \in {"2xx", "3xx", "4xx", "5xx", "other"} : OfClass(js, c) = 0
    BY <1>2, <1>4 DEF OfClass, NoDelta
  <1> QED BY <1>3, <1>4 DEF Collected

\* Changing one key of the map changes the sum of its site by as much.
LEMMA CollectedChange ==
  ASSUME TypeOK, TypeOK', NEW js \in Jobs \X Sites, NEW k \in Keys, NEW n \in Nat,
         delta' = [delta EXCEPT ![k] = n]
  PROVE  /\ Collected(js)' \in Nat
         /\ js # <<k[1], k[2]>> => Collected(js)' = Collected(js)
         /\ js = <<k[1], k[2]>> =>
              /\ Collected(js)' + delta[k] = Collected(js) + n
              /\ delta[k] <= Collected(js)
  <1> DEFINE Five == {"2xx", "3xx", "4xx", "5xx", "other"}
  <1>1. delta \in [Keys -> Nat] /\ delta[k] \in Nat BY DEF TypeOK
  <1>2. \A c \in Classes : <<js[1], js[2], c>> \in Keys BY DEF Keys
  <1>3. k = <<k[1], k[2], k[3]>> /\ k[3] \in Classes BY DEF Keys
  <1>4. \A c \in Five : OfClass(js, c) \in Nat /\ OfClass(js, c)' \in Nat
    BY <1>1, <1>2, CollectedType DEF OfClass
  <1>5. Collected(js)' \in Nat BY <1>4 DEF Collected
  <1>6. CASE js # <<k[1], k[2]>>
    <2>1. \A c \in Five : OfClass(js, c)' = OfClass(js, c)
      BY <1>1, <1>2, <1>3, <1>6 DEF OfClass
    <2> QED BY <1>5, <1>6, <2>1 DEF Collected
  <1>7. CASE js = <<k[1], k[2]>>
    <2>1. \A c \in Five : OfClass(js, c)' = IF c = k[3] THEN n ELSE OfClass(js, c)
      BY <1>1, <1>2, <1>3, <1>7 DEF OfClass
    <2>2. k[3] \in Five /\ OfClass(js, k[3]) = delta[k]
      BY <1>3, <1>7, ClassesAssumption DEF OfClass
    <2> QED BY <1>1, <1>4, <1>5, <1>7, <2>1, <2>2 DEF Collected
  <1> QED BY <1>6, <1>7

-----------------------------------------------------------------------------
(* The theorems about the counters.                                        *)

\* What a site's balance is made of are numbers.
LEMMA BalanceType ==
  ASSUME TypeOK, NEW js \in Jobs \X Sites
  PROVE  /\ stats[js].visits \in Nat /\ Collected(js) \in Nat /\ fetched[js] \in Nat
         /\ Visits(batch, js) \in Nat /\ Visits(channel, js) \in Nat
  <1>1. stats[js] \in Rows /\ fetched[js] \in Nat BY DEF TypeOK
  <1>2. batch \in Seq(Event) /\ channel \in Seq(Event) BY DEF TypeOK
  <1> QED BY <1>1, <1>2, CollectedType, VisitsFinite DEF Rows

\* An emitted event is added to the channel's visits, or it is lost.
LEMMA EmitBalance ==
  ASSUME TypeOK, TypeOK', NEW js \in Jobs \X Sites, NEW e \in Event, Emit(e)
  PROVE  \/ /\ Visits(channel, js)' = Visits(channel, js) + (IF IsVisit(e, js) THEN 1 ELSE 0)
            /\ lossy' = lossy
         \/ Visits(channel, js)' = Visits(channel, js) /\ lossy' = TRUE
  <1>1. channel \in Seq(Event) /\ channel' \in Seq(Event) BY DEF TypeOK
  <1>2. CASE lossy' = TRUE /\ UNCHANGED channel
    BY <1>2 DEF Visits, VisitsAt
  <1>3. CASE channel' = Append(channel, e) /\ UNCHANGED lossy
    <2>1. /\ Len(channel') = Len(channel) + 1 /\ channel'[Len(channel) + 1] = e
          /\ \A i \in 1..Len(channel) : channel'[i] = channel[i]
      BY <1>1, <1>3, AppendProperties
    <2>2. Visits(channel', js) = Visits(channel, js) + (IF IsVisit(e, js) THEN 1 ELSE 0)
      BY <1>1, <2>1, VisitsLonger
    <2> QED BY <1>3, <2>2 DEF Visits, VisitsAt
  <1> QED BY <1>2, <1>3 DEF Emit

\* Every step keeps the balance of every site.
LEMMA BalanceStep ==
  ASSUME IInv, TypeOK', BalanceInv, [Next]_vars
  PROVE  BalanceInv'
  <1> SUFFICES ASSUME NEW js \in Jobs \X Sites
               PROVE  /\ ColumnsAdd(stats[js])'
                      /\ Accounted(js)' <= fetched'[js]
                      /\ ~lossy' => Accounted(js)' = fetched'[js]
    BY DEF BalanceInv
  <1> DEFINE Goal == /\ ColumnsAdd(stats[js])'
                     /\ Accounted(js)' <= fetched'[js]
                     /\ ~lossy' => Accounted(js)' = fetched'[js]
  <1>1. /\ TypeOK /\ SinkInv /\ ColumnsAdd(stats[js])
        /\ Accounted(js) <= fetched[js] /\ (~lossy => Accounted(js) = fetched[js])
    BY DEF IInv, BalanceInv
  <1>2. /\ stats[js].visits \in Nat /\ Collected(js) \in Nat /\ fetched[js] \in Nat
        /\ Visits(batch, js) \in Nat /\ Visits(channel, js) \in Nat
    BY <1>1, BalanceType
  <1>3. /\ batch \in Seq(Event) /\ channel \in Seq(Event) /\ delta \in [Keys -> Nat]
        /\ js = <<js[1], js[2]>>
    BY <1>1 DEF TypeOK
  <1>4. /\ delta' = delta => Collected(js)' = Collected(js)
        /\ batch' = batch => Visits(batch, js)' = Visits(batch, js)
        /\ channel' = channel => Visits(channel, js)' = Visits(channel, js)
        /\ stats' = stats => ColumnsAdd(stats[js])' /\ stats'[js].visits = stats[js].visits
    BY <1>1 DEF Collected, OfClass, Visits, VisitsAt, ColumnsAdd
  <1>5. ASSUME UNCHANGED <<stats, delta, batch, channel, fetched, lossy>> PROVE Goal
    BY <1>1, <1>4, <1>5 DEF Accounted
  <1>6. ASSUME NEW e \in Event, Emit(e), UNCHANGED <<stats, delta, batch>>,
               fetched'[js] = fetched[js] + (IF IsVisit(e, js) THEN 1 ELSE 0)
        PROVE  Goal
    <2>1. \/ /\ Visits(channel, js)' = Visits(channel, js) + (IF IsVisit(e, js) THEN 1 ELSE 0)
             /\ lossy' = lossy
          \/ Visits(channel, js)' = Visits(channel, js) /\ lossy' = TRUE
      BY <1>1, <1>6, EmitBalance
    <2> QED BY <1>1, <1>2, <1>4, <1>6, <2>1 DEF Accounted
  <1>7. ASSUME NEW j \in Jobs, EmitJobStart(j) PROVE Goal
    <2>1. start[j] \in Times
      BY <1>7, TimesAssumption DEF IInv, EmitJobStart, WorkerInv, TypeOK
    <2>2. PICK e \in Event : e = [stage |-> "JOB_START", job |-> j, ts |-> start[j]]
      BY <2>1, EventsMade
    <2>3. Emit(e) /\ UNCHANGED <<stats, delta, batch, fetched>>
      BY <1>7, <2>2 DEF EmitJobStart, sinkVars
    <2>4. ~IsVisit(e, js) BY <2>2 DEF IsVisit
    <2> QED BY <1>2, <1>6, <2>3, <2>4
  <1>8. ASSUME NEW j \in Jobs, NEW st \in Completions, EmitJobCompletion(j, st) PROVE Goal
    <2>1. PICK e \in Event : e = [stage |-> st, job |-> j] BY EventsMade
    <2>2. Emit(e) /\ UNCHANGED <<stats, delta, batch, fetched>>
      BY <1>8, <2>1 DEF EmitJobCompletion, sinkVars
    <2>3. ~IsVisit(e, js) BY <2>1 DEF IsVisit, Completions
    <2> QED BY <1>2, <1>6, <2>2, <2>3
  <1>9. ASSUME NEW j \in Jobs, NEW s \in Sites, NEW c \in Classes, EmitFetchEvent(j, s, c)
        PROVE  Goal
    <2>1. PICK e \in Event : e = [stage |-> "FETCH_DONE", job |-> j, site |-> s, class |-> c]
      BY EventsMade
    <2>2. /\ Emit(e) /\ UNCHANGED <<stats, delta, batch>>
          /\ fetched' = [fetched EXCEPT ![<<j, s>>] = @ + 1]
      BY <1>9, <2>1 DEF EmitFetchEvent, sinkVars
    <2>3. IsVisit(e, js) <=> js = <<j, s>> BY <1>3, <2>1 DEF IsVisit
    <2>4. fetched'[js] = fetched[js] + (IF IsVisit(e, js) THEN 1 ELSE 0)
      <3>1. fetched \in [Jobs \X Sites -> Nat] /\ <<j, s>> \in Jobs \X Sites
        BY <1>1 DEF TypeOK
      <3>2. CASE js = <<j, s>> BY <2>2, <2>3, <3>1, <3>2
      <3>3. CASE js # <<j, s>> BY <1>2, <2>2, <2>3, <3>1, <3>3
      <3> QED BY <3>2, <3>3
    <2> QED BY <1>6, <2>2, <2>4
  <1>10. ASSUME NEW j \in Jobs, WorkerStep(j) PROVE Goal
    <2>1. CASE UNCHANGED <<stats, delta, batch, channel, fetched, lossy>> BY <1>5, <2>1
    <2> QED
      BY <1>7, <1>8, <1>9, <1>10, <2>1
      DEF WorkerStep, TakeJob, EnsureJobRun, PageFails, InsertRetrieval,
          InsertOrPublishFails, sinkVars
  <1>11. CASE BeginConsume
    <2>1. batch = <<>> /\ delta = NoDelta /\ delta' = NoDelta
      BY <1>1, <1>11 DEF BeginConsume, SinkInv
    <2>2. UNCHANGED <<stats, fetched, lossy>> BY <1>11 DEF BeginConsume, workerVars
    <2>3. /\ batch' \in Seq(Event) /\ channel' \in Seq(Event)
          /\ IsCut(channel, batch', channel')
      BY <1>1, <1>11, Cut DEF IsCut
    <2>4. Visits(channel, js) = Visits(batch', js) + Visits(channel', js)
      BY <1>3, <2>3, VisitsCut
    <2>5. Visits(batch, js) = 0 BY <1>3, <2>1, VisitsFinite
    <2>6. Visits(batch', js) \in Nat /\ Visits(channel', js) \in Nat BY <2>3, VisitsFinite
    <2>7. Accounted(js)' = stats[js].visits + Collected(js) + Visits(batch', js)
                             + Visits(channel', js)
      BY <1>4, <2>1, <2>2 DEF Accounted, Visits, VisitsAt
    <2>8. Accounted(js)' = Accounted(js)
      BY <1>2, <2>4, <2>5, <2>6, <2>7 DEF Accounted
    <2> QED BY <1>1, <1>4, <2>2, <2>8
  <1>12. CASE ConsumeEvent
    <2> DEFINE e == Head(batch)
    <2>1. batch # <<>> /\ batch' = Tail(batch) /\ UNCHANGED <<stats, fetched, lossy, channel>>
      BY <1>12 DEF ConsumeEvent, workerVars
    <2>2. Visits(batch, js) = Visits(Tail(batch), js) + (IF IsVisit(e, js) THEN 1 ELSE 0)
      BY <1>1, <2>1, VisitsTail
    <2>3. e \in Event /\ Tail(batch) \in Seq(Event) BY <1>1, <2>1, BatchHead
    <2>4. Visits(Tail(batch), js) \in Nat BY <2>3, VisitsFinite
    <2>5. Visits(batch, js)' = Visits(Tail(batch), js) BY <2>1 DEF Visits, VisitsAt
    <2>6. Collected(js)' = Collected(js) + (IF IsVisit(e, js) THEN 1 ELSE 0)
      <3>1. CASE e.stage # "FETCH_DONE"
        <4>1. delta' = delta BY <1>12, <3>1 DEF ConsumeEvent
        <4> QED BY <1>2, <1>4, <3>1, <4>1 DEF IsVisit
      <3>2. CASE e.stage = "FETCH_DONE"
        <4>1. PICK k \in Keys : k = <<e.job, e.site, e.class>>
          BY <2>3, <3>2, EventFields DEF Keys
        <4>2. delta' = [delta EXCEPT ![k] = delta[k] + 1] /\ delta[k] \in Nat
          BY <1>3, <1>12, <3>2, <4>1 DEF ConsumeEvent, recordSiteStats
        <4>3. IsVisit(e, js) <=> js = <<k[1], k[2]>> BY <1>3, <3>2, <4>1 DEF IsVisit
        <4>4. PICK n \in Nat : n = delta[k] + 1 BY <4>2
        <4>5. /\ js # <<k[1], k[2]>> => Collected(js)' = Collected(js)
              /\ js = <<k[1], k[2]>> => Collected(js)' + delta[k] = Collected(js) + n
              /\ Collected(js)' \in Nat
          BY <1>1, <4>2, <4>4, CollectedChange
        <4> QED BY <1>2, <4>2, <4>3, <4>4, <4>5
      <3> QED BY <3>1, <3>2
    <2> HIDE DEF e
    <2>7. Accounted(js)' = Accounted(js)
      <3>1. CASE IsVisit(e, js)
        <4>1. /\ Collected(js)' = Collected(js) + 1
              /\ Visits(batch, js) = Visits(batch, js)' + 1 /\ Visits(batch, js)' \in Nat
          BY <2>2, <2>4, <2>5, <2>6, <3>1
        <4>2. PICK v \in Nat, n \in Nat, b \in Nat, h \in Nat :
                /\ v = stats[js].visits /\ n = Collected(js)
                /\ b = Visits(batch, js)' /\ h = Visits(channel, js)
          BY <1>2, <4>1
        <4>3. Accounted(js)' = v + (n + 1) + b + h /\ Accounted(js) = v + n + (b + 1) + h
          BY <1>4, <2>1, <4>1, <4>2 DEF Accounted
        <4> QED BY <4>3
      <3>2. CASE ~IsVisit(e, js)
        BY <1>2, <1>4, <2>1, <2>2, <2>4, <2>5, <2>6, <3>2 DEF Accounted
      <3> QED BY <3>1, <3>2
    <2> QED BY <1>1, <1>4, <2>1, <2>7
  <1>13. ASSUME batch' = <<>>, delta' = NoDelta, channel' = channel, lossy' = TRUE,
                fetched' = fetched, ColumnsAdd(stats[js])', stats'[js].visits \in Nat,
                stats'[js].visits <= stats[js].visits + Collected(js)
         PROVE  Goal
    <2>1. Collected(js)' = 0
      BY <1>13, ClassesAssumption DEF Collected, OfClass, NoDelta, Keys
    <2>2. Visits(batch, js)' = 0
      <3>1. <<>> \in Seq(Event) OBVIOUS
      <3>2. Visits(<<>>, js) = 0 BY <3>1, VisitsFinite
      <3> QED BY <1>13, <3>2 DEF Visits, VisitsAt
    <2>3. Accounted(js)' = stats'[js].visits + 0 + 0 + Visits(channel, js)
      BY <1>4, <1>13, <2>1, <2>2 DEF Accounted
    <2>4. Accounted(js) = stats[js].visits + Collected(js) + Visits(batch, js)
                            + Visits(channel, js)
      BY DEF Accounted
    <2>5. /\ Accounted(js)' <= Accounted(js)
          /\ Accounted(js) \in Nat /\ Accounted(js)' \in Nat
      <3>1. PICK v \in Nat, w \in Nat, n \in Nat, b \in Nat, h \in Nat :
              /\ v = stats[js].visits /\ w = stats'[js].visits /\ n = Collected(js)
              /\ b = Visits(batch, js) /\ h = Visits(channel, js)
        BY <1>2, <1>13
      <3>2. w <= v + n /\ Accounted(js)' = w + 0 + 0 + h /\ Accounted(js) = v + n + b + h
        BY <1>13, <2>3, <2>4, <3>1
      <3> QED BY <3>2
    <2> QED BY <1>1, <1>2, <1>13, <2>5
  <1>14. CASE ConsumeEventFails
    BY <1>1, <1>2, <1>4, <1>13, <1>14 DEF ConsumeEventFails, GiveUp, workerVars
  <1>15. ASSUME NEW k \in Keys, k[3] \in Columns,
                stats' = UpsertSiteStats(k[1], k[2], k[3], delta[k])
         PROVE  /\ ColumnsAdd(stats[js])'
                /\ js # <<k[1], k[2]>> => stats'[js].visits = stats[js].visits
                /\ js = <<k[1], k[2]>> => stats'[js].visits = stats[js].visits + delta[k]
    <2>1. k[1] \in Jobs /\ k[2] \in Sites /\ delta[k] \in Nat BY <1>3 DEF Keys
    <2>2. /\ \A x \in Jobs \X Sites : x # <<k[1], k[2]>> => stats'[x] = stats[x]
          /\ stats'[<<k[1], k[2]>>].visits = stats[<<k[1], k[2]>>].visits + delta[k]
          /\ ColumnsAdd(stats[<<k[1], k[2]>>]) => ColumnsAdd(stats'[<<k[1], k[2]>>])
      BY <1>1, <1>15, <2>1, StatsType
    <2>3. ColumnsAdd(stats'[js]) BY <1>1, <2>2
    <2> QED BY <2>2, <2>3 DEF ColumnsAdd
  <1>16. ASSUME NEW k \in Keys, FlushStats(k) PROVE Goal
    <2>1. /\ k[3] \in Columns /\ stats' = UpsertSiteStats(k[1], k[2], k[3], delta[k])
          /\ delta' = [delta EXCEPT ![k] = 0] /\ UNCHANGED <<fetched, channel, batch, lossy>>
      BY <1>16 DEF FlushStats, workerVars
    <2>2. /\ js # <<k[1], k[2]>> => Collected(js)' = Collected(js)
          /\ js = <<k[1], k[2]>> => Collected(js)' + delta[k] = Collected(js) + 0
          /\ Collected(js)' \in Nat
      BY <1>1, <2>1, CollectedChange
    <2>3. delta[k] \in Nat BY <1>3
    <2>4. Accounted(js)' = Accounted(js)
      BY <1>2, <1>4, <1>15, <2>1, <2>2, <2>3 DEF Accounted
    <2> QED BY <1>1, <1>15, <2>1, <2>4
  <1>17. ASSUME NEW k \in Keys, FlushStatsFails(k) PROVE Goal
    <2>1. /\ UNCHANGED stats \/ (k[3] \in Columns
                                  /\ stats' = UpsertSiteStats(k[1], k[2], k[3], delta[k]))
          /\ batch' = <<>> /\ delta' = NoDelta /\ channel' = channel /\ lossy' = TRUE
          /\ fetched' = fetched
      BY <1>17 DEF FlushStatsFails, GiveUp, workerVars
    <2>2. js = <<k[1], k[2]>> => delta[k] <= Collected(js)
      <3> SUFFICES ASSUME js = <<k[1], k[2]>> PROVE delta[k] <= Collected(js)
        OBVIOUS
      <3>1. k = <<k[1], k[2], k[3]>> /\ k[3] \in Classes BY DEF Keys
      <3>2. OfClass(js, k[3]) = delta[k] BY <3>1 DEF OfClass
      <3>3. \A c \in {"2xx", "3xx", "4xx", "5xx", "other"} : OfClass(js, c) \in Nat
        BY <1>1, CollectedType
      <3> QED BY <3>1, <3>2, <3>3, ClassesAssumption DEF Collected
    <2>3. stats'[js].visits \in Nat BY DEF TypeOK, Rows
    <2> QED BY <1>2, <1>3, <1>4, <1>13, <1>15, <2>1, <2>2, <2>3
  <1>18. CASE EventsDone \/ ConsumeReturns \/ UNCHANGED vars
    BY <1>5, <1>18 DEF EventsDone, ConsumeReturns, vars, workerVars, sinkVars
  <1> QED
    BY <1>10, <1>11, <1>12, <1>14, <1>16, <1>17, <1>18 DEF Next, SinkStep

\* The balance holds in every state.
LEMMA Balance == Spec => []BalanceInv
  <1>1. Init => BalanceInv
    <2> SUFFICES ASSUME Init, NEW js \in Jobs \X Sites
                 PROVE  ColumnsAdd(stats[js]) /\ Accounted(js) = fetched[js] /\ fetched[js] = 0
      BY DEF BalanceInv
    <2>1. TypeOK BY InvInit DEF IInv
    <2>2. stats[js] = NoRow /\ fetched[js] = 0 BY DEF Init
    <2>3. Collected(js) = 0 BY <2>1, CollectedType DEF Init
    <2>4. Visits(batch, js) = 0 /\ Visits(channel, js) = 0
      BY <2>1, VisitsFinite DEF Init, TypeOK
    <2>5. ColumnsAdd(stats[js]) /\ stats[js].visits = 0
      BY <2>2 DEF ColumnsAdd, NoRow, Columns
    <2> QED BY <2>2, <2>3, <2>4, <2>5 DEF Accounted
  <1>2. IInv /\ BalanceInv /\ [Next]_vars => BalanceInv'
    <2> SUFFICES ASSUME IInv, BalanceInv, [Next]_vars PROVE BalanceInv'
      OBVIOUS
    <2>1. TypeOK' BY InvStep DEF IInv
    <2> QED BY <2>1, BalanceStep
  <1> QED BY <1>1, <1>2, Invariance, PTL DEF Spec

\* The counters of a site add up and never exceed the pages fetched from it,
\* whichever events are dropped and whichever batches are given up halfway.
THEOREM Stats == Spec => []StatsSound
  <1>1. IInv /\ BalanceInv => StatsSound
    <2> SUFFICES ASSUME IInv, BalanceInv, NEW js \in Jobs \X Sites
                 PROVE  ColumnsAdd(stats[js]) /\ stats[js].visits <= fetched[js]
      BY DEF StatsSound, ColumnsAdd
    <2>1. TypeOK BY DEF IInv
    <2>2. PICK v \in Nat, n \in Nat, b \in Nat, h \in Nat, f \in Nat :
            /\ v = stats[js].visits /\ n = Collected(js) /\ f = fetched[js]
            /\ b = Visits(batch, js) /\ h = Visits(channel, js)
      BY <2>1, BalanceType
    <2>3. v + n + b + h <= f BY <2>2 DEF BalanceInv, Accounted
    <2>4. ColumnsAdd(stats[js]) BY DEF BalanceInv
    <2> QED BY <2>2, <2>3, <2>4
  <1> QED BY <1>1, Invariance, Balance, PTL

\* As long as no event was dropped and no batch given up, the counters are exact
\* whenever the hub is empty.
THEOREM ExactStats == Spec => []StatsExact
  <1>1. IInv /\ BalanceInv => StatsExact
    <2> SUFFICES ASSUME IInv, BalanceInv, ~lossy, channel = <<>>, spc = "idle",
                        NEW js \in Jobs \X Sites
                 PROVE  stats[js].visits = fetched[js]
      BY DEF StatsExact
    <2>1. TypeOK /\ batch = <<>> /\ delta = NoDelta BY DEF IInv, SinkInv
    <2>2. Visits(batch, js) = 0 /\ Visits(channel, js) = 0
      BY <2>1, VisitsFinite DEF TypeOK
    <2>3. Collected(js) = 0 BY <2>1, CollectedType
    <2>4. stats[js].visits \in Nat BY <2>1, BalanceType
    <2> QED BY <2>2, <2>3, <2>4 DEF BalanceInv, Accounted
  <1> QED BY <1>1, Invariance, Balance, PTL
=============================================================================
