---------------------------- MODULE ProgressStore ---------------------------
(***************************************************************************)
(* What reaches the database about a job: the rows of job_runs, retrievals *)
(* and site_stats (internal/storage/postgres).  Two goroutines write them  *)
(* without a common transaction.  The job's worker stores retrievals, each *)
(* after making sure that the run row exists (RetrievalStore).  The hub's  *)
(* goroutine gives batches of progress events to the store sink            *)
(* (internal/progress/sinks/store.go), which writes the run's status and   *)
(* the per-site counters (ProgressStore).                                  *)
(*                                                                         *)
(* The hub is abstracted to what module ProgressHub shows of it: a FIFO    *)
(* that may drop an event when it is emitted and is cut into batches       *)
(* anywhere.  A statement is atomic; one that reports an error may have    *)
(* taken effect.  A page counts one visit; its bytes go the same way.      *)
(***************************************************************************)
EXTENDS Naturals, Sequences, FiniteSets

CONSTANTS
  Jobs,      \* job ids, which are also the ids of their runs
  Times,     \* the values a reading of the worker's clock can have; 0 is no time
  Sites,     \* hosts
  Classes,   \* the values progress.ClassifyStatus can have
  MaxPages   \* bound: URLs of a job

ASSUME ClassesAssumption == Classes \subseteq {"2xx", "3xx", "4xx", "5xx", "other"}
ASSUME TimesAssumption == Times \subseteq Nat \ {0}
ASSUME MaxPagesAssumption == MaxPages \in Nat

VARIABLES
  wpc,         \* where job j's worker is: "idle", "start", "page", "insert", "emit", "done"
  start,       \* item.JobStartedAt
  npages,      \* URLs handled
  fetched,     \* history: FETCH_DONE events emitted for each job and site
  outcome,     \* the completion stage emitted for the job, or "none"
  runs,        \* job_runs: runs[j][t] is the status of the row (j, t) or "absent"
  retrievals,  \* retrievals[j]: rows of the retrieval table that refer to job j
  stats,       \* site_stats: the counters of each job and site
  channel,     \* the events inside the hub
  batch,       \* the rest of the batch that Consume works on
  delta,       \* Consume's stats map: visits for each job, site and class
  spc,         \* Consume: "idle", "events" or "stats"
  lossy        \* history: an event was dropped or a batch given up

workerVars == <<wpc, start, npages, fetched, outcome>>
sinkVars == <<batch, delta, spc>>
vars == <<workerVars, runs, retrievals, stats, channel, sinkVars, lossy>>

Columns == {"2xx", "3xx", "4xx", "5xx"}
Keys == Jobs \X Sites \X Classes
RunStatuses == {"absent", "running", "success", "error"}
Finished == {"success", "error"}
Rows == [visits : Nat, fetch : [Columns -> Nat]]
NoRow == [visits |-> 0, fetch |-> [c \in Columns |-> 0]]

Completions == {"JOB_DONE", "JOB_ERROR"}

\* An event, with the fields the sink makes a difference by.
StartEvent == [stage : {"JOB_START"}, job : Jobs, ts : Times]
FetchEvent == [stage : {"FETCH_DONE"}, job : Jobs, site : Sites, class : Classes]
CompletionEvent == [stage : Completions, job : Jobs]
Event == StartEvent \cup FetchEvent \cup CompletionEvent

TypeOK ==
  /\ wpc \in [Jobs -> {"idle", "start", "page", "insert", "emit", "done"}]
  /\ start \in [Jobs -> Times \cup {0}]
  /\ npages \in [Jobs -> 0..MaxPages]
  /\ fetched \in [Jobs \X Sites -> Nat]
  /\ outcome \in [Jobs -> {"none"} \cup Completions]
  /\ runs \in [Jobs -> [Times -> RunStatuses]]
  /\ retrievals \in [Jobs -> Nat]
  /\ stats \in [Jobs \X Sites -> Rows]
  /\ channel \in Seq(Event) /\ batch \in Seq(Event)
  /\ delta \in [Keys -> Nat]
  /\ spc \in {"idle", "events", "stats"}
  /\ lossy \in BOOLEAN

NoDelta == [k \in Keys |-> 0]

Init ==
  /\ wpc = [j \in Jobs |-> "idle"]
  /\ start = [j \in Jobs |-> 0]
  /\ npages = [j \in Jobs |-> 0]
  /\ fetched = [js \in Jobs \X Sites |-> 0]
  /\ outcome = [j \in Jobs |-> "none"]
  /\ runs = [j \in Jobs |-> [t \in Times |-> "absent"]]
  /\ retrievals = [j \in Jobs |-> 0]
  /\ stats = [js \in Jobs \X Sites |-> NoRow]
  /\ channel = <<>> /\ batch = <<>> /\ delta = NoDelta /\ spc = "idle"
  /\ lossy = FALSE

-----------------------------------------------------------------------------
(* The worker: processJob and storeRetrieval.                              *)

\* emitEvent: the hub takes the event, or drops it because its channel is full.
Emit(event) ==
  \/ channel' = Append(channel, event) /\ UNCHANGED lossy
  \/ lossy' = TRUE /\ UNCHANGED channel

\* processJob reads the clock once.
TakeJob(j) ==
  /\ wpc[j] = "idle"
  /\ wpc' = [wpc EXCEPT ![j] = "start"]
  /\ \E t \in Times : start' = [start EXCEPT ![j] = t]
  /\ UNCHANGED <<npages, fetched, outcome, runs, retrievals, stats, channel, sinkVars, lossy>>

(* A version whose start event keeps the time at which it is made. *)
EmitJobStartNow(j) ==
  /\ wpc[j] = "start"
  /\ \E t \in Times : Emit([stage |-> "JOB_START", job |-> j, ts |-> t])
  /\ wpc' = [wpc EXCEPT ![j] = "page"]
  /\ UNCHANGED <<start, npages, fetched, outcome, runs, retrievals, stats, sinkVars>>

\* The start event carries that reading, not the time at which it is made.
EmitJobStart(j) ==
  /\ wpc[j] = "start"
  /\ Emit([stage |-> "JOB_START", job |-> j, ts |-> start[j]])
  /\ wpc' = [wpc EXCEPT ![j] = "page"]
  /\ UNCHANGED <<start, npages, fetched, outcome, runs, retrievals, stats, sinkVars>>

\* INSERT ... ON CONFLICT DO NOTHING.
InsertRun(j, t) ==
  IF runs[j][t] = "absent" THEN [runs EXCEPT ![j][t] = "running"] ELSE runs

\* The loop over the job's URLs.
NextPage(j) ==
  /\ wpc[j] = "page"
  /\ npages[j] < MaxPages
  /\ npages' = [npages EXCEPT ![j] = @ + 1]

(* A version without ensureJobRun. *)
EnsureJobRunSkipped(j) ==
  /\ NextPage(j)
  /\ wpc' = [wpc EXCEPT ![j] = "insert"]
  /\ UNCHANGED <<start, fetched, outcome, runs, retrievals, stats, channel, sinkVars, lossy>>

\* It writes the table that database.progress_table names, the sink always writes
\* job_runs: one table as long as the setting says job_runs, which is taken here.
EnsureJobRun(j) ==
  /\ NextPage(j)
  /\ runs' = InsertRun(j, start[j])
  /\ wpc' = [wpc EXCEPT ![j] = "insert"]
  /\ UNCHANGED <<start, fetched, outcome, retrievals, stats, channel, sinkVars, lossy>>

\* The page fails before its retrieval is stored, or ensureJobRun reports an error.
PageFails(j) ==
  /\ NextPage(j)
  /\ runs' \in {runs, InsertRun(j, start[j])}
  /\ UNCHANGED <<wpc, start, fetched, outcome, retrievals, stats, channel, sinkVars, lossy>>

InsertRetrieval(j) ==
  /\ wpc[j] = "insert"
  /\ retrievals' = [retrievals EXCEPT ![j] = @ + 1]
  /\ wpc' = [wpc EXCEPT ![j] = "emit"]
  /\ UNCHANGED <<start, npages, fetched, outcome, runs, stats, channel, sinkVars, lossy>>

\* The INSERT reports an error, or the page is not published: no event.
InsertOrPublishFails(j) ==
  /\ wpc[j] \in {"insert", "emit"}
  /\ \/ UNCHANGED retrievals
     \/ wpc[j] = "insert" /\ retrievals' = [retrievals EXCEPT ![j] = @ + 1]
  /\ wpc' = [wpc EXCEPT ![j] = "page"]
  /\ UNCHANGED <<start, npages, fetched, outcome, runs, stats, channel, sinkVars, lossy>>

\* emitFetchEvent: one visit of a site, with the class of its HTTP status.
EmitFetchEvent(j, site, class) ==
  /\ wpc[j] = "emit"
  /\ Emit([stage |-> "FETCH_DONE", job |-> j, site |-> site, class |-> class])
  /\ fetched' = [fetched EXCEPT ![<<j, site>>] = @ + 1]
  /\ wpc' = [wpc EXCEPT ![j] = "page"]
  /\ UNCHANGED <<start, npages, outcome, runs, retrievals, stats, sinkVars>>

\* emitJobCompletion, after the last URL or once the context is done.  A job
\* with no successful page is never JOB_DONE.
EmitJobCompletion(j, stage) ==
  /\ wpc[j] = "page"
  /\ stage = "JOB_DONE" => \E s \in Sites : fetched[<<j, s>>] > 0
  /\ Emit([stage |-> stage, job |-> j])
  /\ outcome' = [outcome EXCEPT ![j] = stage]
  /\ wpc' = [wpc EXCEPT ![j] = "done"]
  /\ UNCHANGED <<start, npages, fetched, runs, retrievals, stats, sinkVars>>

-----------------------------------------------------------------------------
(* StoreSink.Consume and the statements it makes.                          *)

(* A version that relies on CompleteJob to make the row. *)
UpsertJobStartSkipped(j, t) == runs

\* INSERT ... ON CONFLICT DO UPDATE: the row is running, whatever it was.
UpsertJobStart(j, t) == [runs EXCEPT ![j][t] = "running"]

(* A version that marks the run a success whatever the stage. *)
CompleteJobAlwaysSuccess(j, status) ==
  [runs EXCEPT ![j] = [t \in Times |-> IF @[t] = "absent" THEN "absent" ELSE "success"]]

\* UPDATE ... WHERE id: every row of the job, and none if there is none.
CompleteJob(j, status) ==
  [runs EXCEPT ![j] = [t \in Times |-> IF @[t] = "absent" THEN "absent" ELSE status]]

(* A version that writes the stage of the event as the status of the run. *)
handleJobEventStage(e) ==
  IF e.stage = "JOB_START"
  THEN UpsertJobStart(e.job, e.ts)
  ELSE CompleteJob(e.job, e.stage)

handleJobEvent(e) ==
  IF e.stage = "JOB_START"
  THEN UpsertJobStart(e.job, e.ts)
  ELSE CompleteJob(e.job, IF e.stage = "JOB_DONE" THEN "success" ELSE "error")

(* A version that keeps only the last event of a key. *)
recordSiteStatsOverwrites(e) == [delta EXCEPT ![<<e.job, e.site, e.class>>] = 1]

recordSiteStats(e) == [delta EXCEPT ![<<e.job, e.site, e.class>>] = @ + 1]

(* A version that gives the newest event first. *)
BeginConsumeNewestFirst ==
  /\ spc = "idle"
  /\ \E n \in 1..Len(channel) :
       /\ batch' = [i \in 1..n |-> channel[n + 1 - i]]
       /\ channel' = SubSeq(channel, n + 1, Len(channel))
  /\ delta' = NoDelta
  /\ spc' = "events"
  /\ UNCHANGED <<workerVars, runs, retrievals, stats, lossy>>

\* The hub flushes: any prefix of what it holds is the next batch.
BeginConsume ==
  /\ spc = "idle"
  /\ \E n \in 1..Len(channel) :
       /\ batch' = SubSeq(channel, 1, n)
       /\ channel' = SubSeq(channel, n + 1, Len(channel))
  /\ delta' = NoDelta
  /\ spc' = "events"
  /\ UNCHANGED <<workerVars, runs, retrievals, stats, lossy>>

\* One turn of the first loop.
ConsumeEvent ==
  /\ spc = "events" /\ batch # <<>>
  /\ batch' = Tail(batch)
  /\ IF Head(batch).stage = "FETCH_DONE"
     THEN delta' = recordSiteStats(Head(batch)) /\ UNCHANGED runs
     ELSE runs' = handleJobEvent(Head(batch)) /\ UNCHANGED delta
  /\ UNCHANGED <<workerVars, retrievals, stats, channel, spc, lossy>>

\* Consume returns at the first error; the hub logs it and the rest of the
\* batch is gone, whichever jobs it belongs to.
GiveUp ==
  /\ lossy' = TRUE
  /\ batch' = <<>> /\ delta' = NoDelta /\ spc' = "idle"
  /\ UNCHANGED channel

ConsumeEventFails ==
  /\ spc = "events" /\ batch # <<>>
  /\ Head(batch).stage # "FETCH_DONE"
  /\ runs' \in {runs, handleJobEvent(Head(batch))}
  /\ GiveUp
  /\ UNCHANGED <<workerVars, retrievals, stats>>

EventsDone ==
  /\ spc = "events" /\ batch = <<>>
  /\ spc' = "stats"
  /\ UNCHANGED <<workerVars, runs, retrievals, stats, channel, batch, delta, lossy>>

\* UPDATE adds the visits to the total and to the column of the class.
UpdateStats(row, class, n) ==
  [visits |-> row.visits + n, fetch |-> [row.fetch EXCEPT ![class] = @ + n]]

(* A version whose INSERT leaves the columns at their default. *)
InsertStatsDefaults(class, n) == [visits |-> n, fetch |-> NoRow.fetch]

\* The UPDATE found no row.
InsertStats(class, n) ==
  [visits |-> n, fetch |-> [c \in Columns |-> IF c = class THEN n ELSE 0]]

\* UPDATE and, if that found nothing, INSERT: two statements, which are one step
\* because nobody else writes these rows.
UpsertSiteStats(j, site, class, n) ==
  LET row == stats[<<j, site>>]
  IN [stats EXCEPT ![<<j, site>>] =
        IF row.visits > 0 THEN UpdateStats(row, class, n) ELSE InsertStats(class, n)]

\* One turn of the loop over the stats map, whose order is arbitrary.
FlushStats(k) ==
  /\ spc = "stats" /\ delta[k] > 0
  /\ k[3] \in Columns
  /\ stats' = UpsertSiteStats(k[1], k[2], k[3], delta[k])
  /\ delta' = [delta EXCEPT ![k] = 0]
  /\ UNCHANGED <<workerVars, runs, retrievals, channel, batch, spc, lossy>>

\* A statement fails, or the class has no column.
FlushStatsFails(k) ==
  /\ spc = "stats" /\ delta[k] > 0
  /\ \/ UNCHANGED stats
     \/ k[3] \in Columns /\ stats' = UpsertSiteStats(k[1], k[2], k[3], delta[k])
  /\ GiveUp
  /\ UNCHANGED <<workerVars, runs, retrievals>>

ConsumeReturns ==
  /\ spc = "stats" /\ delta = NoDelta
  /\ spc' = "idle"
  /\ UNCHANGED <<workerVars, runs, retrievals, stats, channel, batch, delta, lossy>>

WorkerStep(j) ==
  \/ TakeJob(j) \/ EmitJobStart(j)
  \/ EnsureJobRun(j) \/ PageFails(j) \/ InsertRetrieval(j) \/ InsertOrPublishFails(j)
  \/ \E site \in Sites, class \in Classes : EmitFetchEvent(j, site, class)
  \/ \E stage \in Completions : EmitJobCompletion(j, stage)

SinkStep ==
  \/ BeginConsume \/ ConsumeEvent \/ ConsumeEventFails \/ EventsDone
  \/ \E k \in Keys : FlushStats(k) \/ FlushStatsFails(k)
  \/ ConsumeReturns

Next == SinkStep \/ \E j \in Jobs : WorkerStep(j)

\* The hub's goroutine is scheduled and every statement ends by SinkTimeout.
Fairness == WF_vars(SinkStep)

Spec == Init /\ [][Next]_vars
FairSpec == Spec /\ Fairness

-----------------------------------------------------------------------------
(* Properties.                                                             *)

\* A job never has two run rows, although the worker and the hub both insert
\* one under the key (id, started_at): both use the one clock reading of
\* processJob (ensureJobRun, UpsertJobStart).
OneRunPerJob ==
  \A j \in Jobs, t \in Times : runs[j][t] # "absent" => t = start[j]

\* A retrieval row never lacks the run row it refers to, even when the hub has
\* dropped the job's start event or not delivered it yet (StoreRetrieval).
RetrievalHasRun ==
  \A j \in Jobs : retrievals[j] > 0 => \E t \in Times : t = start[j] /\ runs[j][t] # "absent"

\* A run is shown as finished only after its worker has finished, with the
\* result the worker reported, and no event of the job is left in the hub
\* (handleJobEvent, CompleteJob, the hub's order).
FinishedRunIsTruthful ==
  \A j \in Jobs, t \in Times : runs[j][t] \in Finished =>
    /\ outcome[j] = (IF runs[j][t] = "success" THEN "JOB_DONE" ELSE "JOB_ERROR")
    /\ \A i \in 1..Len(channel) : channel[i].job # j

\* A finished run is never running again, whatever fails (UpsertJobStart would
\* reset it if a start event came late or twice).
FinishedRunIsFinal ==
  [][\A j \in Jobs, t \in Times : runs[j][t] \in Finished => runs'[j][t] = runs[j][t]]_vars

\* The counters of a site add up and never exceed the pages fetched from it,
\* whichever batches are given up halfway (UpsertSiteStats).
StatsSound ==
  \A js \in Jobs \X Sites : LET row == stats[js] IN
    /\ row.visits = row.fetch["2xx"] + row.fetch["3xx"] + row.fetch["4xx"] + row.fetch["5xx"]
    /\ row.visits <= fetched[js]

\* If nothing was dropped and no batch given up, the counters are exact as soon
\* as the hub is empty (recordSiteStats, UpsertSiteStats).
StatsExact ==
  ~lossy /\ channel = <<>> /\ spc = "idle" =>
    \A js \in Jobs \X Sites : stats[js].visits = fetched[js]

\* A job that was completed is eventually shown as finished, unless an event
\* was dropped or a batch given up (Consume).
CompletedIsShown ==
  \A j \in Jobs : outcome[j] # "none" ~> lossy \/ \E t \in Times : runs[j][t] \in Finished
=============================================================================
