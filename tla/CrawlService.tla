---------------------------- MODULE CrawlService ----------------------------
(***************************************************************************)
(* The job path of the crawler: the HTTP handlers that submit, cancel and  *)
(* read jobs (internal/api/server.go), the bounded in-memory queue and the *)
(* dispatcher (internal/queue/memory, internal/dispatcher), the workers'   *)
(* job loop (internal/worker/worker.go) and the process shutdown           *)
(* (internal/server/fx.go), over the job store of module JobStore.         *)
(*                                                                         *)
(* Every HTTP request and every worker is a goroutine.  A step is what one *)
(* of them does up to its next access to shared state: the job store, the  *)
(* queue, the progress emitter or a context.  What handleURL does inside   *)
(* is in module PagePipeline; here it is one step with the outcomes that   *)
(* module shows it can have.                                               *)
(***************************************************************************)
EXTENDS JobStore, Sequences

CONSTANTS
  Workers,        \* the worker goroutines, crawler.concurrency of them
  ProbeWorkers,   \* those constructed with a probe fetcher; Build gives one to all
  QueueCapacity,  \* crawler.queue_depth
  NumURLs,        \* NumURLs[j]: how many URLs job j asks for
  AllowFetch,     \* the answers policy.AllowFetch can give; {TRUE} as deployed
  Readers,        \* concurrent GET /v1/jobs/{id}/result requests
  NoJob           \* a worker's job when it has none

ASSUME WorkersAssumption == ProbeWorkers \subseteq Workers
ASSUME CapacityAssumption == QueueCapacity \in Nat \ {0}
ASSUME URLsAssumption == NumURLs \in [Jobs -> Nat \ {0}]
ASSUME AllowFetchAssumption == AllowFetch \in SUBSET BOOLEAN
ASSUME NoJobAssumption == NoJob \notin Jobs

VARIABLES
  phase,       \* "serving", "draining" (signal received), "closed" (App.Close
               \* closed the queue), "exited" (main returned)
  jobs,        \* the job store's map
  pages,       \* pages[j]: page rows the job store holds for job j
  req,         \* req[j]: the POST request that submits job j, and its answer
  apiCanceled, \* history: jobs a cancel request has been answered 200 for
  queue,       \* the items in the queue's channel
  wpc,         \* where each worker is in Run and processJob
  wjob,        \* the job each worker holds
  local,       \* processJob's local variables, per worker
  emitted,     \* history: the stages passed to the progress emitter, per job
  reader       \* the getJobResult requests

storeVars == <<jobs, pages>>
workerVars == <<wpc, wjob, local>>
vars == <<phase, jobs, pages, req, apiCanceled, queue, wpc, wjob, local,
          emitted, reader>>

Answers == {"202", "408", "500", "client_gone"}
Stages == {"JOB_START", "FETCH_DONE", "JOB_DONE", "JOB_ERROR"}
Completions == {"JOB_DONE", "JOB_ERROR"}
WorkerPCs == {"dequeue", "start", "update", "loop", "final", "complete", "stopped"}

\* processJob's locals: the index of the next URL, counters, errText, status
\* and whether the deadline of jobCtx has passed.  Between jobs they are fresh.
Locals == [next : Nat, counters : Counters, errText : ErrTexts,
           status : Terminal, expired : BOOLEAN]
FreshLocals == [next |-> 1, counters |-> ZeroCounters, errText |-> "none",
                status |-> "failed", expired |-> FALSE]

Reads == [pc : {"idle", "listing", "done"}, of : Jobs \cup {NoJob},
          job : JobRecord, pages : Nat]
NoRead == [pc |-> "idle", of |-> NoJob, job |-> NoRecord, pages |-> 0]

TypeOK ==
  /\ phase \in {"serving", "draining", "closed", "exited"}
  /\ jobs \in [Jobs -> JobRecord]
  /\ pages \in [Jobs -> Nat]
  /\ req \in [Jobs -> {"none", "enqueueing"} \cup Answers]
  /\ apiCanceled \in SUBSET Jobs
  /\ queue \in Seq(Jobs) /\ Len(queue) <= QueueCapacity
  /\ wpc \in [Workers -> WorkerPCs]
  /\ wjob \in [Workers -> Jobs \cup {NoJob}]
  /\ local \in [Workers -> Locals]
  /\ emitted \in [Jobs -> Seq(Stages)]
  /\ reader \in [Readers -> Reads]

Init ==
  /\ phase = "serving"
  /\ jobs = [j \in Jobs |-> NoRecord]
  /\ pages = [j \in Jobs |-> 0]
  /\ req = [j \in Jobs |-> "none"]
  /\ apiCanceled = {}
  /\ queue = <<>>
  /\ wpc = [w \in Workers |-> "dequeue"]
  /\ wjob = [w \in Workers |-> NoJob]
  /\ local = [w \in Workers |-> FreshLocals]
  /\ emitted = [j \in Jobs |-> <<>>]
  /\ reader = [r \in Readers |-> NoRead]

\* Goroutines, those of the workers and those of the requests, take steps until
\* main returns: Shutdown waits ten seconds for the requests under way, and the
\* ones that last longer go on.
Alive == phase # "exited"

\* App.Close has not closed the queue's channel yet.
QueueOpen == phase \in {"serving", "draining"}

-----------------------------------------------------------------------------
(* Submitting a job: enqueueJob behind submitCustomJob/submitStandardJob.  *)
(* Requests refused with 400 or 404 touch no state and are left out.       *)

\* CreateJob stores the record before anything is sent to the queue.
Submit(j) ==
  /\ Alive
  /\ req[j] = "none"
  /\ jobs' = CreateJob(jobs, j)
  /\ req' = [req EXCEPT ![j] = "enqueueing"]
  /\ UNCHANGED <<phase, pages, apiCanceled, queue, workerVars, emitted, reader>>

(* A version in which the send does not wait for room. *)
EnqueueUnbounded(j) ==
  /\ QueueOpen
  /\ req[j] = "enqueueing"
  /\ queue' = Append(queue, j)
  /\ req' = [req EXCEPT ![j] = "202"]
  /\ UNCHANGED <<phase, storeVars, apiCanceled, workerVars, emitted, reader>>

(* A version that tries again although the item was sent. *)
EnqueueRetried(j) ==
  /\ QueueOpen
  /\ req[j] = "enqueueing"
  /\ Len(queue) < QueueCapacity
  /\ queue' = Append(queue, j)
  /\ UNCHANGED <<phase, storeVars, req, apiCanceled, workerVars, emitted, reader>>

\* The channel send of Queue.Enqueue, which waits for room.
Enqueue(j) ==
  /\ QueueOpen
  /\ req[j] = "enqueueing"
  /\ Len(queue) < QueueCapacity
  /\ queue' = Append(queue, j)
  /\ req' = [req EXCEPT ![j] = "202"]
  /\ UNCHANGED <<phase, storeVars, apiCanceled, workerVars, emitted, reader>>

\* The request ends without an item in the queue; the record stays in the store.
\* The answer is what the handler writes, whether or not a client still reads it.
RejectSubmit(j, answer) ==
  /\ Alive
  /\ req[j] = "enqueueing"
  /\ req' = [req EXCEPT ![j] = answer]
  /\ UNCHANGED <<phase, storeVars, apiCanceled, queue, workerVars, emitted, reader>>

\* The 5 s deadline of queueCtx passes while the send is blocked.  A custom
\* submission is answered 408, a standard one 500.
EnqueueDeadline(j) ==
  /\ QueueOpen
  /\ Len(queue) = QueueCapacity
  /\ \E answer \in {"408", "500"} : RejectSubmit(j, answer)

\* The request's own context ends: the client has disconnected.
EnqueueCanceled(j) == RejectSubmit(j, "client_gone")

\* A send on the closed channel panics; recoverMiddleware answers 500.
EnqueuePanics(j) == phase = "closed" /\ RejectSubmit(j, "500")

AnswerSubmit(j) == Enqueue(j) \/ EnqueueDeadline(j) \/ EnqueueCanceled(j) \/ EnqueuePanics(j)

-----------------------------------------------------------------------------
(* Cancelling and reading a job.                                           *)

\* cancelJob overwrites the record, whatever its state, with zero counters.
\* Nothing tells the queue or the worker.
CancelJob(j) ==
  /\ Alive
  /\ JobExists(jobs, j)
  /\ jobs' = UpdateJobStatus(jobs, j, "canceled", "canceled_via_API", ZeroCounters)
  /\ apiCanceled' = apiCanceled \cup {j}
  /\ UNCHANGED <<phase, pages, req, queue, workerVars, emitted, reader>>

\* getJobResult reads the job and the pages in two separate calls of the store.
GetJobResultJob(r, j) ==
  /\ Alive
  /\ reader[r].pc = "idle"
  /\ JobExists(jobs, j)
  /\ reader' = [reader EXCEPT ![r] = [pc |-> "listing", of |-> j,
                                      job |-> jobs[j], pages |-> 0]]
  /\ UNCHANGED <<phase, storeVars, req, apiCanceled, queue, workerVars, emitted>>

(* A version whose list of pages is older than the record it is shown with. *)
GetJobResultPagesStale(r) ==
  /\ Alive
  /\ reader[r].pc = "listing"
  /\ \E n \in 0..pages[reader[r].of] :
       reader' = [reader EXCEPT ![r] = [pc |-> "done", of |-> @.of, job |-> @.job, pages |-> n]]
  /\ UNCHANGED <<phase, storeVars, req, apiCanceled, queue, workerVars, emitted>>

GetJobResultPages(r) ==
  /\ Alive
  /\ reader[r].pc = "listing"
  /\ reader' = [reader EXCEPT ![r] = [pc |-> "done", of |-> @.of, job |-> @.job,
                                      pages |-> pages[@.of]]]
  /\ UNCHANGED <<phase, storeVars, req, apiCanceled, queue, workerVars, emitted>>

-----------------------------------------------------------------------------
(* A worker: Run, processJob and the calls it makes.                       *)

\* Worker w is about to do what label names, in a process that still runs.
At(w, label) == Alive /\ wpc[w] = label

\* jobCtx is done once its deadline has passed or its parent was canceled.
JobCtxDone(w) == local[w].expired \/ phase # "serving"

(* A version that leaves the item in the queue. *)
DequeuePeeks(w) ==
  /\ At(w, "dequeue")
  /\ queue # <<>>
  /\ UNCHANGED queue
  /\ wjob' = [wjob EXCEPT ![w] = Head(queue)]
  /\ wpc' = [wpc EXCEPT ![w] = "start"]
  /\ UNCHANGED <<phase, storeVars, req, apiCanceled, local, emitted, reader>>

\* Queue.Dequeue receives an item.  When the context is done as well the select
\* may still choose the item, so jobs are also taken while draining, and after
\* Close the items left in the closed channel are still received.
Dequeue(w) ==
  /\ At(w, "dequeue")
  /\ queue # <<>>
  /\ queue' = Tail(queue)
  /\ wjob' = [wjob EXCEPT ![w] = Head(queue)]
  /\ wpc' = [wpc EXCEPT ![w] = "start"]
  /\ UNCHANGED <<phase, storeVars, req, apiCanceled, local, emitted, reader>>

(* A version whose Dequeue waits for the channel only. *)
StopWorkerAtClose(w) ==
  /\ At(w, "dequeue")
  /\ phase = "closed"
  /\ wpc' = [wpc EXCEPT ![w] = "stopped"]
  /\ UNCHANGED <<phase, storeVars, req, apiCanceled, queue, wjob, local, emitted, reader>>

\* Dequeue reports the canceled context, or the closed queue, and Run returns.
StopWorker(w) ==
  /\ At(w, "dequeue")
  /\ phase # "serving"
  /\ wpc' = [wpc EXCEPT ![w] = "stopped"]
  /\ UNCHANGED <<phase, storeVars, req, apiCanceled, queue, wjob, local, emitted, reader>>

Emit(j, stage) == emitted' = [emitted EXCEPT ![j] = Append(@, stage)]

EmitJobStart(w) ==
  /\ At(w, "start")
  /\ Emit(wjob[w], "JOB_START")
  /\ wpc' = [wpc EXCEPT ![w] = "update"]
  /\ UNCHANGED <<phase, storeVars, req, apiCanceled, queue, wjob, local, reader>>

\* Without a probe fetcher the job fails at once.
FailWithoutProbe(w) ==
  /\ At(w, "update")
  /\ w \notin ProbeWorkers
  /\ jobs' = UpdateJobStatus(jobs, wjob[w], "failed", "no_probe_fetcher",
                             ZeroCounters)
  /\ local' = [local EXCEPT ![w].status = "failed"]
  /\ wpc' = [wpc EXCEPT ![w] = "complete"]
  /\ UNCHANGED <<phase, pages, req, apiCanceled, queue, wjob, emitted, reader>>

\* The status update fails, and processJob returns, only for an unknown job.
MarkRunning(w) ==
  /\ At(w, "update")
  /\ w \in ProbeWorkers
  /\ jobs' = UpdateJobStatus(jobs, wjob[w], "running", "none", ZeroCounters)
  /\ wpc' = [wpc EXCEPT ![w] = IF JobExists(jobs, wjob[w]) THEN "loop" ELSE "dequeue"]
  /\ wjob' = [wjob EXCEPT ![w] = IF JobExists(jobs, wjob[w]) THEN @ ELSE NoJob]
  /\ local' = [local EXCEPT ![w] = IF JobExists(jobs, wjob[w]) THEN @ ELSE FreshLocals]
  /\ UNCHANGED <<phase, pages, req, apiCanceled, queue, emitted, reader>>

\* The deadline of jobCtx (budget_seconds, else JobTimeout) passes.
JobDeadline(w) ==
  /\ Alive
  /\ wpc[w] \in {"start", "update", "loop"}
  /\ ~local[w].expired
  /\ local' = [local EXCEPT ![w].expired = TRUE]
  /\ UNCHANGED <<phase, storeVars, req, apiCanceled, queue, wpc, wjob, emitted, reader>>

\* The locals after handleURL has returned, and after the loop is left early.
PageSkipped(l) == [l EXCEPT !.next = @ + 1]
PageUncounted(l) == [l EXCEPT !.next = @ + 1, !.errText = "page_error"]
PageFailed(l) == [l EXCEPT !.counters.failed = @ + 1, !.next = @ + 1, !.errText = "page_error"]
PageSucceeded(l) == [l EXCEPT !.counters.succeeded = @ + 1, !.next = @ + 1]
LoopBroken(l, n) == [l EXCEPT !.next = n + 1, !.errText = "context_done"]

\* The loop over the job's URLs goes on: there is a URL left and ctx is alive.
NextURL(w) ==
  /\ At(w, "loop")
  /\ local[w].next <= NumURLs[wjob[w]]
  /\ ~JobCtxDone(w)

\* The policy blocks the URL: nothing is counted and no error is kept.
HandleURLBlocked(w) ==
  /\ NextURL(w)
  /\ FALSE \in AllowFetch
  /\ local' = [local EXCEPT ![w] = PageSkipped(@)]
  /\ UNCHANGED <<phase, storeVars, req, apiCanceled, queue, wpc, wjob, emitted, reader>>

\* The rate limiter's wait fails: an error, but no page is counted as failed.
HandleURLWaitFailed(w) ==
  /\ NextURL(w)
  /\ TRUE \in AllowFetch
  /\ local' = [local EXCEPT ![w] = PageUncounted(@)]
  /\ UNCHANGED <<phase, storeVars, req, apiCanceled, queue, wpc, wjob, emitted, reader>>

\* The fetch or a later step fails.  The page row is in the store already when
\* the step that failed is storeRetrieval or publishResult.
HandleURLFailed(w) ==
  /\ NextURL(w)
  /\ TRUE \in AllowFetch
  /\ \E recorded \in BOOLEAN :
       pages' = IF recorded THEN RecordPage(pages, wjob[w]) ELSE pages
  /\ local' = [local EXCEPT ![w] = PageFailed(@)]
  /\ UNCHANGED <<phase, jobs, req, apiCanceled, queue, wpc, wjob, emitted, reader>>

(* A version that emits no event for the page. *)
HandleURLSucceededSilently(w) ==
  /\ NextURL(w)
  /\ TRUE \in AllowFetch
  /\ pages' = RecordPage(pages, wjob[w])
  /\ local' = [local EXCEPT ![w] = PageSucceeded(@)]
  /\ UNCHANGED <<phase, jobs, req, apiCanceled, queue, wpc, wjob, emitted, reader>>

\* The page is fetched, persisted and published.
HandleURLSucceeded(w) ==
  /\ NextURL(w)
  /\ TRUE \in AllowFetch
  /\ pages' = RecordPage(pages, wjob[w])
  /\ Emit(wjob[w], "FETCH_DONE")
  /\ local' = [local EXCEPT ![w] = PageSucceeded(@)]
  /\ UNCHANGED <<phase, jobs, req, apiCanceled, queue, wpc, wjob, reader>>

\* jobCtx is done before the next URL: the loop breaks.
BreakLoop(w) ==
  /\ At(w, "loop")
  /\ local[w].next <= NumURLs[wjob[w]]
  /\ JobCtxDone(w)
  /\ local' = [local EXCEPT ![w] = LoopBroken(@, NumURLs[wjob[w]])]
  /\ UNCHANGED <<phase, storeVars, req, apiCanceled, queue, wpc, wjob, emitted, reader>>

(* A version that calls a job successful when it ran through its URLs. *)
FinalStatusIgnoresCounters(ctxDone, counters) ==
  IF ctxDone THEN "canceled" ELSE "succeeded"

FinalStatus(ctxDone, counters) ==
  IF ctxDone THEN "canceled"
  ELSE IF counters.succeeded = 0 THEN "failed" ELSE "succeeded"

FinalErrText(counters, errText) ==
  IF counters.succeeded = 0 /\ errText = "none" THEN "no_pages_fetched" ELSE errText

\* The loop is over and the context is read one last time.
DeriveFinalStatus(w) ==
  /\ At(w, "loop")
  /\ local[w].next > NumURLs[wjob[w]]
  /\ local' = [local EXCEPT
       ![w].status  = FinalStatus(JobCtxDone(w), local[w].counters),
       ![w].errText = FinalErrText(local[w].counters, @)]
  /\ wpc' = [wpc EXCEPT ![w] = "final"]
  /\ UNCHANGED <<phase, storeVars, req, apiCanceled, queue, wjob, emitted, reader>>

FinishJob(w) ==
  /\ At(w, "final")
  /\ jobs' = UpdateJobStatus(jobs, wjob[w], local[w].status, local[w].errText,
                             local[w].counters)
  /\ wpc' = [wpc EXCEPT ![w] = "complete"]
  /\ UNCHANGED <<phase, pages, req, apiCanceled, queue, wjob, local, emitted, reader>>

(* A version in which only a failed job is an error. *)
stageFromStatusFailedOnly(status) == IF status = "failed" THEN "JOB_ERROR" ELSE "JOB_DONE"

stageFromStatus(status) == IF status = "succeeded" THEN "JOB_DONE" ELSE "JOB_ERROR"

(* A version that emits nothing for a job that did not succeed. *)
EmitOnlySuccess(w) ==
  /\ At(w, "complete")
  /\ IF local[w].status = "succeeded" THEN Emit(wjob[w], "JOB_DONE") ELSE UNCHANGED emitted
  /\ wpc' = [wpc EXCEPT ![w] = "dequeue"]
  /\ wjob' = [wjob EXCEPT ![w] = NoJob]
  /\ local' = [local EXCEPT ![w] = FreshLocals]
  /\ UNCHANGED <<phase, storeVars, req, apiCanceled, queue, reader>>

\* emitJobCompletion; processJob returns and Run loops.
EmitJobCompletion(w) ==
  /\ At(w, "complete")
  /\ Emit(wjob[w], stageFromStatus(local[w].status))
  /\ wpc' = [wpc EXCEPT ![w] = "dequeue"]
  /\ wjob' = [wjob EXCEPT ![w] = NoJob]
  /\ local' = [local EXCEPT ![w] = FreshLocals]
  /\ UNCHANGED <<phase, storeVars, req, apiCanceled, queue, reader>>

HandleURL(w) ==
  HandleURLBlocked(w) \/ HandleURLWaitFailed(w) \/ HandleURLFailed(w) \/ HandleURLSucceeded(w)

WorkerStep(w) ==
  \/ Dequeue(w) \/ StopWorker(w)
  \/ EmitJobStart(w) \/ FailWithoutProbe(w) \/ MarkRunning(w)
  \/ HandleURL(w) \/ BreakLoop(w)
  \/ DeriveFinalStatus(w) \/ FinishJob(w) \/ EmitJobCompletion(w)

-----------------------------------------------------------------------------
(* Shutdown: App.Run on SIGINT or SIGTERM, then App.Close.                 *)

\* The signal cancels the context of every worker.
Signal ==
  /\ phase = "serving"
  /\ phase' = "draining"
  /\ UNCHANGED <<storeVars, req, apiCanceled, queue, workerVars, emitted, reader>>

\* srv.Shutdown returns, after the open requests or after 10 s, and Close closes
\* the queue's channel.  Nobody waits for the workers.
CloseQueue ==
  /\ phase = "draining"
  /\ phase' = "closed"
  /\ UNCHANGED <<storeVars, req, apiCanceled, queue, workerVars, emitted, reader>>

\* Close is done and main returns: the queue is gone, and so is every worker with
\* the job it holds.  The store is gone too; jobs and pages keep what a client
\* could see last.
Exit ==
  /\ phase = "closed"
  /\ phase' = "exited"
  /\ queue' = <<>>
  /\ wpc' = [w \in Workers |-> "stopped"]
  /\ wjob' = [w \in Workers |-> NoJob]
  /\ local' = [w \in Workers |-> FreshLocals]
  /\ UNCHANGED <<storeVars, req, apiCanceled, emitted, reader>>

Next ==
  \/ \E j \in Jobs : Submit(j) \/ AnswerSubmit(j) \/ CancelJob(j)
  \/ \E r \in Readers : GetJobResultPages(r) \/ \E j \in Jobs : GetJobResultJob(r, j)
  \/ \E w \in Workers : WorkerStep(w) \/ JobDeadline(w)
  \/ Signal \/ CloseQueue \/ Exit

\* Goroutines are scheduled fairly; a page ends because every fetch is bounded
\* by RequestTimeout; a blocked submission ends at its 5 s deadline at the
\* latest.  Clients and signals may never come, a deadline need not pass, and the
\* shutdown may take as long as it likes.
Fairness ==
  /\ \A w \in Workers : WF_vars(WorkerStep(w))
  /\ \A j \in Jobs : WF_vars(AnswerSubmit(j))

Spec == Init /\ [][Next]_vars
FairSpec == Spec /\ Fairness

-----------------------------------------------------------------------------
(* Properties.                                                             *)

Queued(j) == \E i \in 1..Len(queue) : queue[i] = j
HeldBy(w, j) == wjob[w] = j
Completed(j) == emitted[j] # <<>> /\ emitted[j][Len(emitted[j])] \in Completions

\* A job is in at most one place: at most one item of the queue carries it, at
\* most one worker holds it, never both, and neither unless its submission was
\* answered 202.  So no job is crawled twice, however submissions, dequeues and
\* shutdown interleave (Queue.Enqueue, Queue.Dequeue, Worker.Run).
AtMostOneHolder ==
  /\ \A i, k \in 1..Len(queue) : queue[i] = queue[k] => i = k
  /\ \A w, v \in Workers : wjob[w] = wjob[v] /\ wjob[w] # NoJob => w = v
  /\ \A w \in Workers, j \in Jobs :
       HeldBy(w, j) => req[j] = "202" /\ ~Queued(j) /\ ~Completed(j)
  /\ \A j \in Jobs : Queued(j) => req[j] = "202" /\ emitted[j] = <<>>

\* The answer to a submission tells the fate of its job.  After 202 the job is
\* not lost as long as the process lives, through the drain and the closing of
\* the queue too: it is queued, held by a worker or completed (processJob has no
\* exit in between).  What is queued or held when main returns is lost; see
\* InFlightWorkEnds.  After any other answer no worker ever sees the job: its
\* record stays "queued" for good unless a client cancels it.
AnswerTellsFate ==
  \A j \in Jobs :
    /\ req[j] = "202" /\ phase # "exited" =>
         Queued(j) \/ Completed(j) \/ \E w \in Workers : HeldBy(w, j)
    /\ req[j] \in Answers \ {"202"} =>
         emitted[j] = <<>> /\ jobs[j].status \in {"queued", "canceled"}

\* The stages emitted for a job are a start, one event per page that succeeded
\* and one completion, in this order; JOB_DONE needs at least one page
\* (processJob, handleURL, emitJobCompletion).
EventsWellFormed ==
  \A j \in Jobs : LET e == emitted[j] IN
    /\ \A i \in 1..Len(e) : e[i] = "JOB_START" <=> i = 1
    /\ \A i \in 1..Len(e) : e[i] \in Completions => i = Len(e)
    /\ \A i \in 1..Len(e) : e[i] = "JOB_DONE" => i > 2

\* Unless the API canceled it, a job whose completion was emitted has the
\* record the event announces: JOB_DONE exactly for succeeded, a succeeded
\* counter equal to the number of FETCH_DONE events, and Finished set
\* (deriveFinalStatus, updateJobStatus, stageFromStatus).
CompletionMatchesRecord ==
  \A j \in Jobs : Completed(j) /\ j \notin apiCanceled =>
    LET e == emitted[j] IN
    /\ isTerminal(jobs[j].status) /\ jobs[j].finished
    /\ (jobs[j].status = "succeeded") <=> (e[Len(e)] = "JOB_DONE")
    /\ jobs[j].counters.succeeded = Len(e) - 2

\* The record and the page rows agree: never more pages counted than the job
\* has URLs, every page counted as succeeded has a row, and a succeeded job has
\* at least one page, whatever failed in between (handleURL, deriveFinalStatus).
CountersMatchPages ==
  \A j \in Jobs : LET c == jobs[j].counters IN
    /\ c.succeeded + c.failed <= NumURLs[j]
    /\ c.succeeded <= pages[j]
    /\ jobs[j].status = "succeeded" => c.succeeded > 0
    /\ jobs[j].status = "failed" => c.succeeded = 0 /\ jobs[j].errText # "none"

\* getJobResult never shows a record that counts more pages than the list next
\* to it holds, although it reads the two without a common lock: the pages are
\* read last and rows are only added.
ResultCoversCounters ==
  \A r \in Readers : reader[r].pc = "done" =>
    reader[r].job.counters.succeeded <= reader[r].pages

\* Unless the API cancels it, the record of a job that reached a terminal
\* status never changes again (UpdateJobStatus is called by one worker, once).
TerminalIsFinal ==
  [][\A j \in Jobs : isTerminal(jobs[j].status) /\ j \notin apiCanceled'
                     => jobs'[j] = jobs[j]]_vars

\* A job answered 202 is completed, unless the process is told to stop first
\* (Dispatcher.Run, Worker.Run).
AcceptedCompletes == \A j \in Jobs : req[j] = "202" ~> Completed(j) \/ phase # "serving"

\* After the signal every worker returns from Run, so Dispatcher.Run returns,
\* unless main returns first: nobody waits for the workers.
ShutdownStopsWorkers ==
  phase # "serving" ~> phase = "exited" \/ \A w \in Workers : wpc[w] = "stopped"

\* How far a job has got, for the abstract specification.
RunOf(j) ==
  IF phase = "exited" THEN "gone"
  ELSE IF ~JobExists(jobs, j) THEN "none"
  ELSE IF Completed(j) \/ \E w \in Workers : HeldBy(w, j) /\ wpc[w] = "complete" THEN "done"
  ELSE IF \E w \in Workers : HeldBy(w, j) /\ wpc[w] \in {"loop", "final"} THEN "running"
  ELSE "waiting"

Lifecycle == INSTANCE JobLifecycle
               WITH status <- [j \in Jobs |-> jobs[j].status], run <- [j \in Jobs |-> RunOf(j)]

\* The service implements JobLifecycle: whatever the workers, the queue and the
\* cancel requests do, a job is started and finished at most once.
ImplementsLifecycle == Lifecycle!Spec

\* INSTRUCTIONS.md:261 says of the cancel endpoint "sets status to canceled,
\* workers honor context cancellation": a job whose cancel request was answered
\* stays canceled.  The code does not do this; see the violation run.
CancelIsHonored == \A j \in apiCanceled : jobs[j].status = "canceled"

\* cmd/webcrawler/doc.go:28 says "the process reacts to SIGTERM for graceful drain
\* and shutdown of workers", and doc.go:35 that it "shuts down cleanly on SIGTERM
\* with in-flight work bounded by per-job timeouts": a job that a worker has begun
\* is brought to its end, be it as canceled, before the process ends.  The code
\* does not do this; see the violation run.
InFlightWorkEnds == phase = "exited" => \A j \in Jobs : emitted[j] # <<>> => Completed(j)
=============================================================================
