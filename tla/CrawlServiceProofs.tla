------------------------- MODULE CrawlServiceProofs -------------------------
(***************************************************************************)
(* Theorems about CrawlService, for any number of jobs, URLs, workers and  *)
(* places in the queue.                                                    *)
(***************************************************************************)
EXTENDS CrawlService, SequenceTheorems, TLAPS

-----------------------------------------------------------------------------
(* The inductive invariant.                                                *)

\* A worker holds a job exactly between taking it and emitting its completion.
WorkerInv(w) == wjob[w] = NoJob <=> wpc[w] \in {"dequeue", "stopped"}

\* A result request that has read the job knows which one.
ReaderInv(r) == reader[r].pc = "listing" => reader[r].of \in Jobs

\* What the state of a submission says of the job: until it is answered 202 no
\* worker has touched the job; once it is, the job is in the store.
RequestInv(j) ==
  /\ req[j] # "202" => emitted[j] = <<>>
  /\ req[j] \notin {"none", "202"} => jobs[j].status \in {"queued", "canceled"}
  /\ req[j] = "202" => jobs[j].status # "absent"

\* The part of AnswerTellsFate that is about accepted jobs.
AcceptedIsSomewhere(j) ==
  req[j] = "202" /\ phase # "exited" =>
    Queued(j) \/ Completed(j) \/ \E w \in Workers : HeldBy(w, j)

IInv ==
  /\ TypeOK
  /\ \A w \in Workers : WorkerInv(w)
  /\ \A r \in Readers : ReaderInv(r)
  /\ \A j \in Jobs : RequestInv(j)
  /\ AtMostOneHolder
  /\ \A j \in Jobs : AcceptedIsSomewhere(j)

-----------------------------------------------------------------------------
(* The job store.                                                          *)

\* UpdateJobStatus yields a map of records again.
LEMMA UpdateType ==
  ASSUME NEW f \in [Jobs -> JobRecord], NEW j \in Jobs, NEW s \in Statuses,
         NEW e \in ErrTexts, NEW c \in Counters
  PROVE  UpdateJobStatus(f, j, s, e, c) \in [Jobs -> JobRecord]
<1>1. [status |-> s, errText |-> e, counters |-> c,
       started |-> f[j].started \/ s = "running",
       finished |-> f[j].finished \/ isTerminal(s)] \in JobRecord
  BY DEF JobRecord
<1> QED
  BY <1>1 DEF UpdateJobStatus

\* It changes the status of that one job, if the job exists, and no other.
LEMMA UpdateStatus ==
  ASSUME NEW f \in [Jobs -> JobRecord], NEW j \in Jobs, NEW k \in Jobs, NEW s, NEW e, NEW c
  PROVE  UpdateJobStatus(f, j, s, e, c)[k].status =
           IF k = j /\ f[j].status # "absent" THEN s ELSE f[k].status
  BY DEF UpdateJobStatus, JobExists

\* The constants of the store are typed.
LEMMA StoreConstants ==
  /\ ZeroCounters \in Counters /\ NoRecord \in JobRecord
  /\ {"queued", "running"} \subseteq Statuses /\ Terminal \subseteq Statuses
  BY DEF ZeroCounters, Counters, NoRecord, JobRecord, Statuses, ErrTexts, Terminal

\* Between jobs the locals of processJob are typed.
LEMMA FreshType == FreshLocals \in Locals /\ NoRead \in Reads
  BY StoreConstants DEF FreshLocals, Locals, Terminal, ErrTexts, NoRead, Reads

-----------------------------------------------------------------------------
(* Types.                                                                  *)

\* The initial states are well typed.
LEMMA TypeInit == Init => TypeOK
<1> SUFFICES ASSUME Init PROVE TypeOK
  OBVIOUS
<1>1. phase \in {"serving", "draining", "closed", "exited"} /\ apiCanceled \in SUBSET Jobs
  BY DEF Init
<1>2. jobs \in [Jobs -> JobRecord] /\ local \in [Workers -> Locals] /\ reader \in [Readers -> Reads]
  BY StoreConstants, FreshType, Zenon DEF Init
<1>3. pages \in [Jobs -> Nat]
  BY DEF Init
<1>4. req \in [Jobs -> {"none", "enqueueing"} \cup Answers]
  BY DEF Init
<1>5. queue \in Seq(Jobs) /\ Len(queue) <= QueueCapacity
  BY EmptySeq, CapacityAssumption DEF Init
<1>6. wpc \in [Workers -> WorkerPCs]
  BY DEF Init, WorkerPCs
<1>7. wjob \in [Workers -> Jobs \cup {NoJob}]
  BY DEF Init
<1>8. emitted \in [Jobs -> Seq(Stages)]
  BY EmptySeq DEF Init
<1> QED
  BY <1>1, <1>2, <1>3, <1>4, <1>5, <1>6, <1>7, <1>8 DEF TypeOK

\* Labels, answers and stages an action can produce are typed.
LEMMA Labels ==
  /\ {"dequeue", "start", "update", "loop", "final", "complete", "stopped"} = WorkerPCs
  /\ {"202", "408", "500", "client_gone"} = Answers
  /\ {"JOB_START", "FETCH_DONE", "JOB_DONE", "JOB_ERROR"} = Stages
  /\ {"JOB_DONE", "JOB_ERROR"} = Completions
  BY DEF WorkerPCs, Answers, Stages, Completions

\* Emitting a stage keeps the type of the history.
LEMMA EmitType ==
  ASSUME emitted \in [Jobs -> Seq(Stages)], NEW j, NEW s \in Stages, Emit(j, s)
  PROVE  emitted' \in [Jobs -> Seq(Stages)]
  BY AppendProperties DEF Emit

\* The locals stay typed when fields are replaced by typed values.
LEMMA LocalsExcept ==
  ASSUME NEW l \in Locals, NEW n \in Nat, NEW e \in ErrTexts, NEW c \in Counters
  PROVE  /\ [l EXCEPT !.next = n] \in Locals
         /\ [l EXCEPT !.next = n, !.errText = e] \in Locals
         /\ [l EXCEPT !.counters = c, !.next = n, !.errText = e] \in Locals
         /\ [l EXCEPT !.counters = c, !.next = n] \in Locals
  BY DEF Locals

\* Whatever happens to a page, the locals it leaves behind are typed.
LEMMA PageLocals ==
  ASSUME NEW l \in Locals, NEW k \in Nat
  PROVE  /\ PageSkipped(l) \in Locals /\ PageUncounted(l) \in Locals
         /\ PageFailed(l) \in Locals /\ PageSucceeded(l) \in Locals
         /\ LoopBroken(l, k) \in Locals
<1>1. l.next + 1 \in Nat /\ l.counters \in Counters /\ k + 1 \in Nat
  BY DEF Locals
<1>2. /\ [l.counters EXCEPT !.failed = @ + 1] \in Counters
      /\ [l.counters EXCEPT !.succeeded = @ + 1] \in Counters
  BY <1>1 DEF Counters
<1>3. "page_error" \in ErrTexts /\ "context_done" \in ErrTexts /\ "none" \in ErrTexts
  BY DEF ErrTexts
<1>4. PageSkipped(l) \in Locals
  BY <1>1, <1>3, LocalsExcept, Zenon DEF PageSkipped
<1>5. PageUncounted(l) \in Locals
  BY <1>1, <1>3, LocalsExcept, Zenon DEF PageUncounted
<1>6. PageFailed(l) \in Locals
  BY <1>1, <1>2, <1>3, LocalsExcept, Zenon DEF PageFailed
<1>7. PageSucceeded(l) \in Locals
  BY <1>1, <1>2, <1>3, LocalsExcept, Zenon DEF PageSucceeded
<1>8. LoopBroken(l, k) \in Locals
  BY <1>1, <1>3, LocalsExcept, Zenon DEF LoopBroken
<1> QED
  BY <1>4, <1>5, <1>6, <1>7, <1>8

\* processJob's final status and error text are values the store can hold.
LEMMA FinalType ==
  ASSUME NEW b \in BOOLEAN, NEW c \in Counters, NEW e \in ErrTexts
  PROVE  FinalStatus(b, c) \in Terminal /\ FinalErrText(c, e) \in ErrTexts
  BY DEF FinalStatus, FinalErrText, Terminal, ErrTexts

\* Every step of a request, a reader, a worker or the process keeps the types.
\* That a worker in the loop holds a job needs WorkerInv.
LEMMA TypeStep ==
  ASSUME TypeOK, \A w \in Workers : WorkerInv(w), \A r \in Readers : ReaderInv(r),
         [Next]_vars
  PROVE  TypeOK'
<1> USE DEF TypeOK, storeVars, workerVars
<1>1. CASE UNCHANGED vars
  BY <1>1 DEF vars
<1>2. ASSUME NEW j \in Jobs, Submit(j) PROVE TypeOK'
  <2>1. jobs' \in [Jobs -> JobRecord]
    BY <1>2, StoreConstants DEF Submit, CreateJob, JobRecord
  <2> QED
    BY <1>2, <2>1 DEF Submit
<1>3. ASSUME NEW j \in Jobs, Enqueue(j) PROVE TypeOK'
  <2>1. queue' \in Seq(Jobs) /\ Len(queue') = Len(queue) + 1
    BY <1>3, AppendProperties DEF Enqueue
  <2>2. Len(queue') <= QueueCapacity
    BY <1>3, <2>1, CapacityAssumption, LenProperties DEF Enqueue
  <2> QED
    BY <1>3, <2>1, <2>2, Labels DEF Enqueue
<1>4. ASSUME NEW j \in Jobs, NEW answer \in Answers, RejectSubmit(j, answer) PROVE TypeOK'
  BY <1>4 DEF RejectSubmit
<1>5. ASSUME NEW j \in Jobs, CancelJob(j) PROVE TypeOK'
  <2>1. jobs' \in [Jobs -> JobRecord]
    BY <1>5, UpdateType, StoreConstants DEF CancelJob, Terminal, ErrTexts
  <2> QED
    BY <1>5, <2>1 DEF CancelJob
<1>6. ASSUME NEW r \in Readers, NEW j \in Jobs, GetJobResultJob(r, j) PROVE TypeOK'
  BY <1>6 DEF GetJobResultJob, Reads
<1>7. ASSUME NEW r \in Readers, GetJobResultPages(r) PROVE TypeOK'
  <2>1. pages[reader[r].of] \in Nat /\ reader[r] \in Reads
    BY <1>7 DEF GetJobResultPages, ReaderInv
  <2>2. reader' \in [Readers -> Reads]
    BY <1>7, <2>1 DEF GetJobResultPages, Reads
  <2> QED
    BY <1>7, <2>2 DEF GetJobResultPages
<1>8. ASSUME NEW w \in Workers, JobDeadline(w) PROVE TypeOK'
  <2>1. local' \in [Workers -> Locals]
    BY <1>8 DEF JobDeadline, Locals
  <2> QED
    BY <1>8, <2>1 DEF JobDeadline
<1>9. ASSUME NEW w \in Workers, WorkerStep(w) PROVE TypeOK'
  <2> USE Labels, FreshType
  <2>1. CASE Dequeue(w)
    <3>1. queue' \in Seq(Jobs) /\ Len(queue') = Len(queue) - 1 /\ Head(queue) \in Jobs
      BY <2>1, HeadTailProperties DEF Dequeue
    <3>2. Len(queue') <= QueueCapacity
      BY <2>1, <3>1, CapacityAssumption, LenProperties DEF Dequeue
    <3> QED
      BY <2>1, <3>1, <3>2 DEF Dequeue
  <2>2. CASE StopWorker(w)
    BY <2>2 DEF StopWorker
  <2>3. CASE EmitJobStart(w)
    <3>1. emitted' \in [Jobs -> Seq(Stages)]
      BY <2>3, EmitType DEF EmitJobStart
    <3> QED
      BY <2>3, <3>1 DEF EmitJobStart
  <2>4. CASE FailWithoutProbe(w)
    <3>1. wjob[w] \in Jobs
      BY <2>4 DEF FailWithoutProbe, WorkerInv, At
    <3>2. jobs' \in [Jobs -> JobRecord]
      BY <2>4, <3>1, UpdateType, StoreConstants DEF FailWithoutProbe, Terminal, ErrTexts
    <3>3. local' \in [Workers -> Locals]
      BY <2>4 DEF FailWithoutProbe, Locals, Terminal
    <3> QED
      BY <2>4, <3>2, <3>3 DEF FailWithoutProbe
  <2>5. CASE MarkRunning(w)
    <3>1. wjob[w] \in Jobs
      BY <2>5 DEF MarkRunning, WorkerInv, At
    <3>2. jobs' \in [Jobs -> JobRecord]
      BY <2>5, <3>1, UpdateType, StoreConstants DEF MarkRunning, ErrTexts
    <3>3. local' \in [Workers -> Locals]
      BY <2>5 DEF MarkRunning
    <3> QED
      BY <2>5, <3>2, <3>3 DEF MarkRunning
  <2>6. CASE HandleURL(w) \/ BreakLoop(w)
    <3>1. wjob[w] \in Jobs
      BY <2>6 DEF HandleURL, HandleURLBlocked, HandleURLWaitFailed, HandleURLFailed,
                  HandleURLSucceeded, NextURL, BreakLoop, WorkerInv, At
    <3>2. local' \in [Workers -> Locals]
      <4>1. local[w] \in Locals /\ NumURLs[wjob[w]] \in Nat
        BY <3>1, URLsAssumption
      <4>2. /\ {PageSkipped(local[w]), PageUncounted(local[w])} \subseteq Locals
            /\ {PageFailed(local[w]), PageSucceeded(local[w])} \subseteq Locals
            /\ LoopBroken(local[w], NumURLs[wjob[w]]) \in Locals
        BY <4>1, PageLocals
      <4>3. \E l \in Locals : local' = [local EXCEPT ![w] = l]
        BY <2>6, <4>2 DEF HandleURL, HandleURLBlocked, HandleURLWaitFailed,
                          HandleURLFailed, HandleURLSucceeded, BreakLoop
      <4> QED
        BY <4>3
    <3>3. CASE HandleURLFailed(w)
      <4>1. pages' \in [Jobs -> Nat]
        BY <3>1, <3>3 DEF HandleURLFailed, RecordPage
      <4> QED
        BY <3>2, <3>3, <4>1 DEF HandleURLFailed
    <3>4. CASE HandleURLSucceeded(w)
      <4>1. pages' \in [Jobs -> Nat]
        BY <3>1, <3>4 DEF HandleURLSucceeded, RecordPage
      <4>2. emitted' \in [Jobs -> Seq(Stages)]
        BY <3>4, EmitType DEF HandleURLSucceeded
      <4> QED
        BY <3>2, <3>4, <4>1, <4>2 DEF HandleURLSucceeded
    <3>5. CASE HandleURLBlocked(w) \/ HandleURLWaitFailed(w) \/ BreakLoop(w)
      BY <3>2, <3>5 DEF HandleURLBlocked, HandleURLWaitFailed, BreakLoop
    <3> QED
      BY <2>6, <3>3, <3>4, <3>5 DEF HandleURL
  <2>7. CASE DeriveFinalStatus(w)
    <3>1. JobCtxDone(w) \in BOOLEAN /\ local[w].counters \in Counters /\ local[w].errText \in ErrTexts
      BY DEF JobCtxDone, Locals
    <3>2. /\ FinalStatus(JobCtxDone(w), local[w].counters) \in Terminal
          /\ FinalErrText(local[w].counters, local[w].errText) \in ErrTexts
      BY <3>1, FinalType
    <3>3. local' \in [Workers -> Locals]
      BY <2>7, <3>2 DEF DeriveFinalStatus, Locals
    <3> QED
      BY <2>7, <3>3 DEF DeriveFinalStatus
  <2>8. CASE FinishJob(w)
    <3>1. wjob[w] \in Jobs
      BY <2>8 DEF FinishJob, WorkerInv, At
    <3>2. jobs' \in [Jobs -> JobRecord]
      BY <2>8, <3>1, UpdateType, StoreConstants DEF FinishJob, Locals
    <3> QED
      BY <2>8, <3>2 DEF FinishJob
  <2>9. CASE EmitJobCompletion(w)
    <3>1. emitted' \in [Jobs -> Seq(Stages)]
      BY <2>9, EmitType DEF EmitJobCompletion, stageFromStatus
    <3> QED
      BY <2>9, <3>1 DEF EmitJobCompletion
  <2> QED
    BY <1>9, <2>1, <2>2, <2>3, <2>4, <2>5, <2>6, <2>7, <2>8, <2>9 DEF WorkerStep
<1>10. CASE Signal \/ CloseQueue
  BY <1>10 DEF Signal, CloseQueue
<1>11. CASE Exit
  <2>1. queue' \in Seq(Jobs) /\ Len(queue') <= QueueCapacity
    BY <1>11, EmptySeq, CapacityAssumption DEF Exit
  <2>2. /\ wpc' \in [Workers -> WorkerPCs] /\ wjob' \in [Workers -> Jobs \cup {NoJob}]
        /\ local' \in [Workers -> Locals]
    BY <1>11, Labels, FreshType DEF Exit
  <2> QED
    BY <1>11, <2>1, <2>2 DEF Exit
<1> QED
  BY <1>1, <1>2, <1>3, <1>4, <1>5, <1>6, <1>7, <1>8, <1>9, <1>10, <1>11, Labels
     DEF Next, AnswerSubmit, EnqueueDeadline, EnqueueCanceled, EnqueuePanics

-----------------------------------------------------------------------------
(* Each part of the invariant is kept by every step.                       *)

\* A worker takes a job when it leaves Dequeue and drops it when it returns there.
LEMMA WorkerStepKeeps ==
  ASSUME TypeOK, TypeOK', \A w \in Workers : WorkerInv(w), [Next]_vars
  PROVE  \A w \in Workers : WorkerInv(w)'
<1> SUFFICES ASSUME NEW v \in Workers PROVE WorkerInv(v)'
  OBVIOUS
<1> USE NoJobAssumption DEF WorkerInv, storeVars, workerVars, At
<1>1. CASE UNCHANGED <<wpc, wjob>>
  BY <1>1
<1>2. ASSUME NEW w \in Workers, WorkerStep(w) PROVE WorkerInv(v)'
  <2>1. CASE Dequeue(w)
    <3>1. Head(queue) \in Jobs
      BY <2>1, HeadTailProperties DEF Dequeue, TypeOK
    <3> QED
      BY <2>1, <3>1 DEF Dequeue, TypeOK
  <2>2. CASE StopWorker(w)
    BY <2>2 DEF StopWorker, TypeOK
  <2>3. CASE EmitJobStart(w)
    BY <2>3 DEF EmitJobStart, TypeOK
  <2>4. CASE FailWithoutProbe(w)
    BY <2>4 DEF FailWithoutProbe, TypeOK
  <2>5. CASE MarkRunning(w)
    BY <2>5 DEF MarkRunning, TypeOK
  <2>6. CASE HandleURL(w) \/ BreakLoop(w)
    BY <2>6 DEF HandleURL, HandleURLBlocked, HandleURLWaitFailed, HandleURLFailed,
                HandleURLSucceeded, BreakLoop
  <2>7. CASE DeriveFinalStatus(w)
    BY <2>7 DEF DeriveFinalStatus, TypeOK
  <2>8. CASE FinishJob(w)
    BY <2>8 DEF FinishJob, TypeOK
  <2>9. CASE EmitJobCompletion(w)
    BY <2>9 DEF EmitJobCompletion, TypeOK
  <2> QED
    BY <1>2, <2>1, <2>2, <2>3, <2>4, <2>5, <2>6, <2>7, <2>8, <2>9 DEF WorkerStep
<1>3. CASE Exit
  BY <1>3 DEF Exit
<1>4. UNCHANGED <<wpc, wjob>> \/ Exit \/ \E w \in Workers : WorkerStep(w)
  BY DEF Next, vars, Submit, AnswerSubmit, Enqueue, EnqueueDeadline, EnqueueCanceled,
         EnqueuePanics, RejectSubmit, CancelJob, GetJobResultJob, GetJobResultPages,
         JobDeadline, Signal, CloseQueue
<1> QED
  BY <1>1, <1>2, <1>3, <1>4

\* A result request that lists pages has read a job.
LEMMA ReaderStepKeeps ==
  ASSUME TypeOK, \A r \in Readers : ReaderInv(r), [Next]_vars
  PROVE  \A r \in Readers : ReaderInv(r)'
<1> SUFFICES ASSUME NEW q \in Readers PROVE ReaderInv(q)'
  OBVIOUS
<1>1. CASE UNCHANGED reader
  BY <1>1 DEF ReaderInv
<1>2. ASSUME NEW r \in Readers, NEW j \in Jobs, GetJobResultJob(r, j) PROVE ReaderInv(q)'
  BY <1>2 DEF GetJobResultJob, ReaderInv, TypeOK
<1>3. ASSUME NEW r \in Readers, GetJobResultPages(r) PROVE ReaderInv(q)'
  BY <1>3 DEF GetJobResultPages, ReaderInv, TypeOK
<1>4. \/ UNCHANGED reader
      \/ \E r \in Readers : GetJobResultPages(r) \/ \E j \in Jobs : GetJobResultJob(r, j)
  BY DEF Next, vars, Submit, AnswerSubmit, Enqueue, EnqueueDeadline, EnqueueCanceled,
         EnqueuePanics, RejectSubmit, CancelJob, WorkerStep, Dequeue, StopWorker,
         EmitJobStart, FailWithoutProbe, MarkRunning, HandleURL, HandleURLBlocked,
         HandleURLWaitFailed, HandleURLFailed, HandleURLSucceeded, BreakLoop,
         DeriveFinalStatus, FinishJob, EmitJobCompletion, JobDeadline, Signal, CloseQueue, Exit
<1> QED
  BY <1>1, <1>2, <1>3, <1>4

-----------------------------------------------------------------------------
(* Where a job is.  Only seven kinds of step matter to the queue, to what   *)
(* the workers hold, to the answers and to the events.                      *)

\* The process exits once.
LEMMA ExitedStays ==
  ASSUME [Next]_vars
  PROVE  phase = "exited" => phase' = "exited"
<1>1. UNCHANGED phase \/ Signal \/ CloseQueue \/ Exit
  BY DEF Next, vars, Submit, AnswerSubmit, Enqueue, EnqueueDeadline, EnqueueCanceled,
         EnqueuePanics, RejectSubmit, CancelJob, GetJobResultJob, GetJobResultPages,
         WorkerStep, Dequeue, StopWorker, EmitJobStart, FailWithoutProbe, MarkRunning,
         HandleURL, HandleURLBlocked, HandleURLWaitFailed, HandleURLFailed,
         HandleURLSucceeded, BreakLoop, DeriveFinalStatus, FinishJob, EmitJobCompletion,
         JobDeadline
<1> QED
  BY <1>1 DEF Signal, CloseQueue, Exit

\* A submission is begun, or ends without its job in the queue.
Unsent(j) ==
  /\ req[j] # "202"
  /\ \E x \in {"enqueueing", "408", "500", "client_gone"} : req' = [req EXCEPT ![j] = x]
  /\ UNCHANGED <<queue, wjob, emitted>>

\* A worker emits an event in the middle of its job.
EmitsMidJob(w) ==
  /\ wpc[w] \in {"start", "loop"}
  /\ \E s \in {"JOB_START", "FETCH_DONE"} : Emit(wjob[w], s)
  /\ UNCHANGED <<queue, wjob, req>>

\* Every step of the service is of one of these kinds.
LEMMA Kinds ==
  ASSUME [Next]_vars
  PROVE  \/ UNCHANGED <<queue, wjob, req, emitted>>
         \/ Exit
         \/ \E j \in Jobs : Unsent(j) \/ Enqueue(j)
         \/ \E w \in Workers : Dequeue(w) \/ EmitsMidJob(w) \/ MarkRunning(w) \/ EmitJobCompletion(w)
<1> USE DEF storeVars, workerVars, At
<1>1. CASE UNCHANGED vars
  BY <1>1 DEF vars
<1>2. ASSUME NEW j \in Jobs, Submit(j) \/ AnswerSubmit(j) PROVE Unsent(j) \/ Enqueue(j)
  BY <1>2 DEF Submit, AnswerSubmit, EnqueueDeadline, EnqueueCanceled, EnqueuePanics,
              RejectSubmit, Unsent
<1>3. ASSUME NEW j \in Jobs, CancelJob(j) PROVE UNCHANGED <<queue, wjob, req, emitted>>
  BY <1>3 DEF CancelJob
<1>4. ASSUME NEW r \in Readers, GetJobResultPages(r) \/ \E j \in Jobs : GetJobResultJob(r, j)
      PROVE  UNCHANGED <<queue, wjob, req, emitted>>
  BY <1>4 DEF GetJobResultPages, GetJobResultJob
<1>5. ASSUME NEW w \in Workers, WorkerStep(w) \/ JobDeadline(w)
      PROVE  \/ UNCHANGED <<queue, wjob, req, emitted>>
             \/ Dequeue(w) \/ EmitsMidJob(w) \/ MarkRunning(w) \/ EmitJobCompletion(w)
  BY <1>5 DEF WorkerStep, StopWorker, EmitJobStart, FailWithoutProbe, HandleURL,
              HandleURLBlocked, HandleURLWaitFailed, HandleURLFailed, HandleURLSucceeded,
              NextURL, BreakLoop, DeriveFinalStatus, FinishJob, JobDeadline, EmitsMidJob
<1>6. CASE Signal \/ CloseQueue
  BY <1>6 DEF Signal, CloseQueue
<1> QED
  BY <1>1, <1>2, <1>3, <1>4, <1>5, <1>6 DEF Next

\* What emitting a stage for job j does to the events of every job.
LEMMA EmitFacts ==
  ASSUME emitted \in [Jobs -> Seq(Stages)], NEW j \in Jobs, NEW s \in Stages, Emit(j, s)
  PROVE  /\ emitted'[j] # <<>>
         /\ Completed(j)' <=> s \in Completions
         /\ \A k \in Jobs \ {j} : emitted'[k] = emitted[k] /\ (Completed(k)' <=> Completed(k))
<1>1. emitted'[j] = Append(emitted[j], s) /\ \A k \in Jobs \ {j} : emitted'[k] = emitted[k]
  BY DEF Emit
<1>2. /\ emitted'[j] # <<>>
      /\ emitted'[j][Len(emitted'[j])] = s
  BY <1>1, AppendProperties
<1>3. Completed(j)' <=> s \in Completions
  BY <1>2 DEF Completed
<1>4. \A k \in Jobs \ {j} : Completed(k)' <=> Completed(k)
  BY <1>1 DEF Completed
<1> QED
  BY <1>1, <1>2, <1>3, <1>4

\* No job is in the queue twice.
QueueDistinct == \A i, k \in 1..Len(queue) : queue[i] = queue[k] => i = k

\* The channel send adds exactly the job of the request.
LEMMA EnqueueFacts ==
  ASSUME queue \in Seq(Jobs), QueueDistinct, NEW j \in Jobs, ~Queued(j), Enqueue(j)
  PROVE  QueueDistinct' /\ \A k \in Jobs : Queued(k)' <=> Queued(k) \/ k = j
<1>1. queue' = Append(queue, j)
  BY DEF Enqueue
<1>2. /\ Len(queue) \in Nat /\ Len(queue') = Len(queue) + 1
      /\ \A i \in 1..Len(queue) : queue'[i] = queue[i]
      /\ queue'[Len(queue) + 1] = j
  BY <1>1, AppendProperties, LenProperties
<1>3. \A i \in 1..Len(queue) : queue[i] # j
  BY DEF Queued
<1>4. QueueDistinct'
  BY <1>2, <1>3 DEF QueueDistinct
<1>5. \A k \in Jobs : Queued(k)' <=> Queued(k) \/ k = j
  BY <1>2 DEF Queued
<1> QED
  BY <1>4, <1>5

\* The receive takes out exactly the job the worker gets.
LEMMA DequeueFacts ==
  ASSUME queue \in Seq(Jobs), QueueDistinct, NEW w \in Workers, Dequeue(w)
  PROVE  /\ Head(queue) \in Jobs /\ Queued(Head(queue))
         /\ QueueDistinct'
         /\ \A k \in Jobs : Queued(k)' <=> Queued(k) /\ k # Head(queue)
<1>1. queue # <<>> /\ queue' = Tail(queue) /\ Head(queue) = queue[1]
  BY DEF Dequeue
<1>2. /\ Head(queue) \in Jobs /\ Len(queue) \in Nat \ {0} /\ Len(queue') = Len(queue) - 1
      /\ \A i \in 1..Len(queue') : queue'[i] = queue[i + 1]
  BY <1>1, HeadTailProperties, EmptySeq
<1>3. QueueDistinct'
  BY <1>2 DEF QueueDistinct
<1>4. Queued(Head(queue))
  BY <1>1, <1>2 DEF Queued
<1>5. ASSUME NEW k \in Jobs PROVE Queued(k)' <=> Queued(k) /\ k # Head(queue)
  <2>1. ASSUME Queued(k)' PROVE Queued(k) /\ k # Head(queue)
    <3>1. PICK i \in 1..Len(queue') : queue'[i] = k
      BY <2>1 DEF Queued
    <3>2. i + 1 \in 1..Len(queue) /\ queue[i + 1] = k /\ i + 1 # 1 /\ 1 \in 1..Len(queue)
      BY <1>2, <3>1
    <3> QED
      BY <1>1, <3>2 DEF Queued, QueueDistinct
  <2>2. ASSUME Queued(k), k # Head(queue) PROVE Queued(k)'
    <3>1. PICK i \in 1..Len(queue) : queue[i] = k
      BY <2>2 DEF Queued
    <3>2. i - 1 \in 1..Len(queue') /\ queue'[i - 1] = k
      BY <1>1, <1>2, <2>2, <3>1
    <3> QED
      BY <3>2 DEF Queued
  <2> QED
    BY <2>1, <2>2
<1> QED
  BY <1>2, <1>3, <1>4, <1>5

\* The four parts of AtMostOneHolder, by name.
HeldOnce == \A w, v \in Workers : wjob[w] = wjob[v] /\ wjob[w] # NoJob => w = v
HeldOnly ==
  \A w \in Workers, j \in Jobs : HeldBy(w, j) => req[j] = "202" /\ ~Queued(j) /\ ~Completed(j)
QueuedOnly == \A j \in Jobs : Queued(j) => req[j] = "202" /\ emitted[j] = <<>>

\* They are what AtMostOneHolder says.
LEMMA HolderParts == AtMostOneHolder <=> QueueDistinct /\ HeldOnce /\ HeldOnly /\ QueuedOnly
  BY DEF AtMostOneHolder, QueueDistinct, HeldOnce, HeldOnly, QueuedOnly

\* No step puts a job in a second place.
LEMMA HolderStep ==
  ASSUME TypeOK, \A w \in Workers : WorkerInv(w), \A j \in Jobs : RequestInv(j),
         QueueDistinct, HeldOnce, HeldOnly, QueuedOnly, [Next]_vars
  PROVE  QueueDistinct' /\ HeldOnce' /\ HeldOnly' /\ QueuedOnly'
<1> USE NoJobAssumption
<1>0. /\ queue \in Seq(Jobs) /\ emitted \in [Jobs -> Seq(Stages)]
      /\ wjob \in [Workers -> Jobs \cup {NoJob}]
      /\ req \in [Jobs -> {"none", "enqueueing"} \cup Answers]
  BY DEF TypeOK
<1>1. CASE UNCHANGED <<queue, wjob, req, emitted>>
  BY <1>1 DEF QueueDistinct, HeldOnce, HeldOnly, QueuedOnly, HeldBy, Queued, Completed
<1>2. ASSUME NEW j \in Jobs, Unsent(j)
      PROVE  QueueDistinct' /\ HeldOnce' /\ HeldOnly' /\ QueuedOnly'
  BY <1>0, <1>2 DEF Unsent, QueueDistinct, HeldOnce, HeldOnly, QueuedOnly, HeldBy, Queued, Completed
<1>3. ASSUME NEW j \in Jobs, Enqueue(j)
      PROVE  QueueDistinct' /\ HeldOnce' /\ HeldOnly' /\ QueuedOnly'
  <2>1. req[j] = "enqueueing" /\ emitted[j] = <<>> /\ ~Queued(j) /\ \A w \in Workers : wjob[w] # j
    BY <1>3 DEF Enqueue, RequestInv, QueuedOnly, HeldOnly, HeldBy
  <2>2. QueueDistinct' /\ \A k \in Jobs : Queued(k)' <=> Queued(k) \/ k = j
    BY <1>0, <1>3, <2>1, EnqueueFacts
  <2>3. UNCHANGED <<wjob, emitted>> /\ req'[j] = "202" /\ \A k \in Jobs \ {j} : req'[k] = req[k]
    BY <1>0, <1>3 DEF Enqueue, workerVars
  <2> QED
    BY <2>1, <2>2, <2>3 DEF HeldOnce, HeldOnly, QueuedOnly, HeldBy, Completed
<1>4. ASSUME NEW w \in Workers, Dequeue(w)
      PROVE  QueueDistinct' /\ HeldOnce' /\ HeldOnly' /\ QueuedOnly'
  <2>1. /\ Head(queue) \in Jobs /\ Queued(Head(queue)) /\ QueueDistinct'
        /\ \A k \in Jobs : Queued(k)' <=> Queued(k) /\ k # Head(queue)
    BY <1>0, <1>4, DequeueFacts
  <2>2. /\ UNCHANGED <<req, emitted>> /\ wjob'[w] = Head(queue)
        /\ \A v \in Workers \ {w} : wjob'[v] = wjob[v]
    BY <1>0, <1>4 DEF Dequeue
  <2>3. \A v \in Workers : wjob[v] # Head(queue)
    BY <2>1 DEF HeldOnly, HeldBy
  <2>4. HeldOnce'
    BY <2>2, <2>3 DEF HeldOnce
  <2>5. HeldOnly'
    BY <2>1, <2>2 DEF HeldOnly, QueuedOnly, HeldBy, Completed
  <2>6. QueuedOnly'
    BY <2>1, <2>2 DEF QueuedOnly
  <2> QED
    BY <2>1, <2>4, <2>5, <2>6
<1>5. ASSUME NEW w \in Workers, EmitsMidJob(w)
      PROVE  QueueDistinct' /\ HeldOnce' /\ HeldOnly' /\ QueuedOnly'
  <2>1. PICK j \in Jobs : j = wjob[w]
    BY <1>0, <1>5 DEF EmitsMidJob, WorkerInv
  <2>2. /\ ~Completed(j)'
        /\ \A k \in Jobs \ {j} : emitted'[k] = emitted[k] /\ (Completed(k)' <=> Completed(k))
    <3>1. PICK s \in {"JOB_START", "FETCH_DONE"} : Emit(wjob[w], s)
      BY <1>5 DEF EmitsMidJob
    <3>2. s \in Stages /\ s \notin Completions
      BY <3>1, Labels
    <3> QED
      BY <1>0, <2>1, <3>1, <3>2, EmitFacts
  <2>3. UNCHANGED <<queue, wjob, req>>
    BY <1>5 DEF EmitsMidJob
  <2> QED
    BY <2>1, <2>2, <2>3 DEF QueueDistinct, HeldOnce, HeldOnly, QueuedOnly, HeldBy, Queued
<1>6. ASSUME NEW w \in Workers, MarkRunning(w)
      PROVE  QueueDistinct' /\ HeldOnce' /\ HeldOnly' /\ QueuedOnly'
  <2>1. /\ UNCHANGED <<queue, req, emitted>>
        /\ \A v \in Workers : wjob'[v] = wjob[v] \/ wjob'[v] = NoJob
    BY <1>0, <1>6 DEF MarkRunning
  <2> QED
    BY <1>0, <2>1 DEF QueueDistinct, HeldOnce, HeldOnly, QueuedOnly, HeldBy, Queued, Completed
<1>7. ASSUME NEW w \in Workers, EmitJobCompletion(w)
      PROVE  QueueDistinct' /\ HeldOnce' /\ HeldOnly' /\ QueuedOnly'
  <2>1. PICK j \in Jobs : j = wjob[w]
    BY <1>0, <1>7 DEF EmitJobCompletion, At, WorkerInv
  <2>2. \A k \in Jobs \ {j} : emitted'[k] = emitted[k] /\ (Completed(k)' <=> Completed(k))
    <3>1. stageFromStatus(local[w].status) \in Stages
      BY Labels DEF stageFromStatus
    <3> QED
      BY <1>0, <1>7, <2>1, <3>1, EmitFacts DEF EmitJobCompletion
  <2>3. /\ UNCHANGED <<queue, req>> /\ wjob'[w] = NoJob
        /\ \A v \in Workers \ {w} : wjob'[v] = wjob[v]
    BY <1>0, <1>7 DEF EmitJobCompletion
  <2> QED
    BY <2>1, <2>2, <2>3 DEF QueueDistinct, HeldOnce, HeldOnly, QueuedOnly, HeldBy, Queued
<1>8. CASE Exit
  <2>1. Len(queue') = 0 /\ \A w \in Workers : wjob'[w] = NoJob
    BY <1>8, EmptySeq DEF Exit
  <2> QED
    BY <2>1 DEF QueueDistinct, HeldOnce, HeldOnly, QueuedOnly, HeldBy, Queued
<1> QED
  BY <1>1, <1>2, <1>3, <1>4, <1>5, <1>6, <1>7, <1>8, Kinds

-----------------------------------------------------------------------------
(* What the answer to a submission says.                                    *)

\* No event is emitted for a job that is not accepted.
LEMMA SilentStep ==
  ASSUME TypeOK, \A w \in Workers : WorkerInv(w), HeldOnly,
         \A j \in Jobs : req[j] # "202" => emitted[j] = <<>>, [Next]_vars
  PROVE  \A j \in Jobs : req'[j] # "202" => emitted'[j] = <<>>
<1> USE NoJobAssumption
<1>0. /\ emitted \in [Jobs -> Seq(Stages)] /\ wjob \in [Workers -> Jobs \cup {NoJob}]
      /\ req \in [Jobs -> {"none", "enqueueing"} \cup Answers]
  BY DEF TypeOK
<1>1. CASE UNCHANGED <<queue, wjob, req, emitted>>
  BY <1>1
<1>2. ASSUME NEW j \in Jobs, Unsent(j) \/ Enqueue(j)
      PROVE  \A k \in Jobs : req'[k] # "202" => emitted'[k] = <<>>
  BY <1>0, <1>2 DEF Unsent, Enqueue
<1>3. ASSUME NEW w \in Workers, Dequeue(w) \/ MarkRunning(w)
      PROVE  \A k \in Jobs : req'[k] # "202" => emitted'[k] = <<>>
  BY <1>3 DEF Dequeue, MarkRunning
<1>4. ASSUME NEW w \in Workers, EmitsMidJob(w) \/ EmitJobCompletion(w)
      PROVE  \A k \in Jobs : req'[k] # "202" => emitted'[k] = <<>>
  <2>1. PICK j \in Jobs : j = wjob[w]
    BY <1>0, <1>4 DEF EmitsMidJob, EmitJobCompletion, At, WorkerInv
  <2>2. req[j] = "202" /\ UNCHANGED req
    BY <1>4, <2>1 DEF HeldOnly, HeldBy, EmitsMidJob, EmitJobCompletion
  <2>3. \A k \in Jobs \ {j} : emitted'[k] = emitted[k]
    BY <1>0, <1>4, <2>1 DEF EmitsMidJob, EmitJobCompletion, Emit
  <2> QED
    BY <2>2, <2>3
<1>5. CASE Exit
  BY <1>5 DEF Exit
<1> QED
  BY <1>1, <1>2, <1>3, <1>4, <1>5, Kinds

\* The status of a job that no worker may touch, and that of an accepted one.
StatusInv(j) ==
  /\ req[j] \notin {"none", "202"} => jobs[j].status \in {"queued", "canceled"}
  /\ req[j] = "202" => jobs[j].status # "absent"

\* The worker writes only to the job it holds, a client only "canceled".
LEMMA StatusStep ==
  ASSUME TypeOK, \A w \in Workers : WorkerInv(w), HeldOnly,
         \A j \in Jobs : StatusInv(j), [Next]_vars
  PROVE  \A j \in Jobs : StatusInv(j)'
<1> SUFFICES ASSUME NEW k \in Jobs PROVE StatusInv(k)'
  OBVIOUS
<1> USE NoJobAssumption DEF StatusInv, storeVars
<1>0. /\ jobs \in [Jobs -> JobRecord] /\ wjob \in [Workers -> Jobs \cup {NoJob}]
      /\ local \in [Workers -> Locals]
      /\ req \in [Jobs -> {"none", "enqueueing"} \cup Answers]
  BY DEF TypeOK
<1>1. CASE UNCHANGED <<jobs, req>>
  BY <1>1
<1>2. ASSUME NEW j \in Jobs, Submit(j) PROVE StatusInv(k)'
  <2>1. jobs'[k].status = IF k = j THEN "queued" ELSE jobs[k].status
    BY <1>0, <1>2 DEF Submit, CreateJob, NoRecord
  <2>2. req'[k] = IF k = j THEN "enqueueing" ELSE req[k]
    BY <1>0, <1>2 DEF Submit
  <2> QED
    BY <2>1, <2>2
<1>3. ASSUME NEW j \in Jobs, Enqueue(j) PROVE StatusInv(k)'
  BY <1>0, <1>3 DEF Enqueue
<1>4. ASSUME NEW j \in Jobs, NEW answer \in {"408", "500", "client_gone"}, RejectSubmit(j, answer)
      PROVE  StatusInv(k)'
  BY <1>0, <1>4 DEF RejectSubmit
<1>5. ASSUME NEW j \in Jobs, CancelJob(j) PROVE StatusInv(k)'
  <2>1. jobs'[k].status = IF k = j /\ jobs[j].status # "absent" THEN "canceled" ELSE jobs[k].status
    BY <1>0, <1>5, UpdateStatus DEF CancelJob
  <2> QED
    BY <1>5, <2>1 DEF CancelJob
<1>6. ASSUME NEW w \in Workers, FailWithoutProbe(w) \/ MarkRunning(w) \/ FinishJob(w)
      PROVE  StatusInv(k)'
  <2>1. PICK j \in Jobs : j = wjob[w]
    BY <1>0, <1>6 DEF FailWithoutProbe, MarkRunning, FinishJob, At, WorkerInv
  <2>2. req[j] = "202" /\ UNCHANGED req
    BY <1>6, <2>1 DEF FailWithoutProbe, MarkRunning, FinishJob, HeldOnly, HeldBy
  <2>3. local[w].status # "absent"
    BY <1>0 DEF Locals, Terminal
  <2> DEFINE Writes(s) ==
        jobs'[k].status = IF k = j /\ jobs[j].status # "absent" THEN s ELSE jobs[k].status
  <2>4. ASSUME NEW s, s # "absent", Writes(s) PROVE StatusInv(k)'
    BY <2>2, <2>4
  <2>5. CASE FailWithoutProbe(w)
    <3>1. jobs' = UpdateJobStatus(jobs, j, "failed", "no_probe_fetcher", ZeroCounters)
      BY <2>1, <2>5 DEF FailWithoutProbe
    <3>2. Writes("failed")
      BY <1>0, <3>1, UpdateStatus
    <3> QED
      BY <2>4, <3>2
  <2>6. CASE MarkRunning(w)
    <3>1. jobs' = UpdateJobStatus(jobs, j, "running", "none", ZeroCounters)
      BY <2>1, <2>6 DEF MarkRunning
    <3>2. Writes("running")
      BY <1>0, <3>1, UpdateStatus
    <3> QED
      BY <2>4, <3>2
  <2>7. CASE FinishJob(w)
    <3>1. jobs' = UpdateJobStatus(jobs, j, local[w].status, local[w].errText, local[w].counters)
      BY <2>1, <2>7 DEF FinishJob
    <3>2. Writes(local[w].status)
      BY <1>0, <3>1, UpdateStatus
    <3> QED
      BY <2>3, <2>4, <3>2
  <2> QED
    BY <1>6, <2>5, <2>6, <2>7
<1>7. \/ UNCHANGED <<jobs, req>>
      \/ \E j \in Jobs : Submit(j) \/ Enqueue(j) \/ CancelJob(j)
      \/ \E j \in Jobs, answer \in {"408", "500", "client_gone"} : RejectSubmit(j, answer)
      \/ \E w \in Workers : FailWithoutProbe(w) \/ MarkRunning(w) \/ FinishJob(w)
  BY DEF Next, vars, AnswerSubmit, EnqueueDeadline, EnqueueCanceled, EnqueuePanics,
         GetJobResultJob, GetJobResultPages, WorkerStep, Dequeue, StopWorker, EmitJobStart,
         HandleURL, HandleURLBlocked, HandleURLWaitFailed, HandleURLFailed,
         HandleURLSucceeded, BreakLoop, DeriveFinalStatus, EmitJobCompletion,
         JobDeadline, Signal, CloseQueue, Exit
<1> QED
  BY <1>1, <1>2, <1>3, <1>4, <1>5, <1>6, <1>7

\* An accepted job moves from the queue to a worker to its completion, and no
\* step but the exit lets go of it in between.
LEMMA AcceptedStep ==
  ASSUME TypeOK, \A w \in Workers : WorkerInv(w), \A j \in Jobs : StatusInv(j),
         QueueDistinct, HeldOnly, QueuedOnly, \A j \in Jobs : AcceptedIsSomewhere(j),
         [Next]_vars
  PROVE  \A j \in Jobs : AcceptedIsSomewhere(j)'
<1> SUFFICES ASSUME NEW k \in Jobs, req'[k] = "202", phase' # "exited"
             PROVE  Queued(k)' \/ Completed(k)' \/ \E v \in Workers : HeldBy(v, k)'
  BY DEF AcceptedIsSomewhere
<1> USE NoJobAssumption
<1>0. /\ queue \in Seq(Jobs) /\ emitted \in [Jobs -> Seq(Stages)]
      /\ wjob \in [Workers -> Jobs \cup {NoJob}]
      /\ req \in [Jobs -> {"none", "enqueueing"} \cup Answers]
  BY DEF TypeOK
<1>1. phase # "exited" /\ ~Exit
  BY ExitedStays DEF Exit
<1>2. CASE UNCHANGED <<queue, wjob, req, emitted>>
  BY <1>2, <1>1 DEF AcceptedIsSomewhere, HeldBy, Queued, Completed
<1>3. ASSUME NEW j \in Jobs, Unsent(j)
      PROVE  Queued(k)' \/ Completed(k)' \/ \E v \in Workers : HeldBy(v, k)'
  BY <1>0, <1>3, <1>1 DEF Unsent, AcceptedIsSomewhere, HeldBy, Queued, Completed
<1>4. ASSUME NEW j \in Jobs, Enqueue(j)
      PROVE  Queued(k)' \/ Completed(k)' \/ \E v \in Workers : HeldBy(v, k)'
  <2>1. ~Queued(j)
    BY <1>4 DEF Enqueue, QueuedOnly
  <2>2. \A i \in Jobs : Queued(i)' <=> Queued(i) \/ i = j
    BY <1>0, <1>4, <2>1, EnqueueFacts
  <2>3. UNCHANGED <<wjob, emitted>> /\ \A i \in Jobs \ {j} : req'[i] = req[i]
    BY <1>0, <1>4 DEF Enqueue, workerVars
  <2> QED
    BY <1>1, <2>2, <2>3 DEF AcceptedIsSomewhere, HeldBy, Completed
<1>5. ASSUME NEW w \in Workers, Dequeue(w)
      PROVE  Queued(k)' \/ Completed(k)' \/ \E v \in Workers : HeldBy(v, k)'
  <2>1. \A i \in Jobs : Queued(i)' <=> Queued(i) /\ i # Head(queue)
    BY <1>0, <1>5, DequeueFacts
  <2>2. /\ UNCHANGED <<req, emitted>> /\ wjob'[w] = Head(queue) /\ wjob[w] = NoJob
        /\ \A v \in Workers \ {w} : wjob'[v] = wjob[v]
    BY <1>0, <1>5 DEF Dequeue, At, WorkerInv
  <2> QED
    BY <1>1, <2>1, <2>2 DEF AcceptedIsSomewhere, HeldBy, Completed
<1>6. ASSUME NEW w \in Workers, EmitsMidJob(w)
      PROVE  Queued(k)' \/ Completed(k)' \/ \E v \in Workers : HeldBy(v, k)'
  <2>1. PICK j \in Jobs : j = wjob[w]
    BY <1>0, <1>6 DEF EmitsMidJob, WorkerInv
  <2>2. UNCHANGED <<queue, wjob, req>> /\ \A i \in Jobs \ {j} : emitted'[i] = emitted[i]
    BY <1>0, <1>6, <2>1 DEF EmitsMidJob, Emit
  <2> QED
    BY <1>1, <2>1, <2>2 DEF AcceptedIsSomewhere, HeldBy, Queued, Completed
<1>7. ASSUME NEW w \in Workers, MarkRunning(w)
      PROVE  Queued(k)' \/ Completed(k)' \/ \E v \in Workers : HeldBy(v, k)'
  <2>1. wjob[w] \in Jobs /\ req[wjob[w]] = "202"
    BY <1>0, <1>7 DEF MarkRunning, At, WorkerInv, HeldOnly, HeldBy
  <2>2. UNCHANGED <<queue, req, emitted>> /\ wjob' = wjob
    BY <1>0, <1>7, <2>1 DEF MarkRunning, JobExists, StatusInv
  <2> QED
    BY <1>1, <2>2 DEF AcceptedIsSomewhere, HeldBy, Queued, Completed
<1>8. ASSUME NEW w \in Workers, EmitJobCompletion(w)
      PROVE  Queued(k)' \/ Completed(k)' \/ \E v \in Workers : HeldBy(v, k)'
  <2>1. PICK j \in Jobs : j = wjob[w]
    BY <1>0, <1>8 DEF EmitJobCompletion, At, WorkerInv
  <2>2. Completed(j)' /\ \A i \in Jobs \ {j} : emitted'[i] = emitted[i]
    <3>1. stageFromStatus(local[w].status) \in Stages \cap Completions
      BY Labels DEF stageFromStatus
    <3> QED
      BY <1>0, <1>8, <2>1, <3>1, EmitFacts DEF EmitJobCompletion
  <2>3. /\ UNCHANGED <<queue, req>>
        /\ \A v \in Workers \ {w} : wjob'[v] = wjob[v]
    BY <1>0, <1>8 DEF EmitJobCompletion
  <2> QED
    BY <1>1, <2>1, <2>2, <2>3 DEF AcceptedIsSomewhere, HeldBy, Queued, Completed
<1> QED
  BY <1>2, <1>3, <1>4, <1>5, <1>6, <1>7, <1>8, <1>1, Kinds

-----------------------------------------------------------------------------
(* The theorems.                                                            *)

\* The inductive invariant holds before the first request.
LEMMA InvInit == Init => IInv
<1> SUFFICES ASSUME Init PROVE IInv
  OBVIOUS
<1>1. TypeOK
  BY TypeInit
<1>2. /\ queue = <<>>
      /\ \A w \in Workers : wjob[w] = NoJob /\ wpc[w] = "dequeue"
      /\ \A j \in Jobs : req[j] = "none" /\ emitted[j] = <<>>
  <2>1. /\ wjob = [w \in Workers |-> NoJob] /\ wpc = [w \in Workers |-> "dequeue"]
        /\ req = [j \in Jobs |-> "none"] /\ emitted = [j \in Jobs |-> <<>>] /\ queue = <<>>
    BY Zenon DEF Init
  <2> QED
    BY <2>1
<1>3. \A w \in Workers : WorkerInv(w)
  BY <1>2 DEF WorkerInv
<1>4. \A r \in Readers : ReaderInv(r)
  <2>1. NoRead.pc # "listing"
    BY DEF NoRead
  <2>2. \A r \in Readers : reader[r] = NoRead
    BY Zenon DEF Init
  <2> QED
    BY <2>1, <2>2, Zenon DEF ReaderInv
<1>5. \A j \in Jobs : RequestInv(j) /\ AcceptedIsSomewhere(j)
  BY <1>2 DEF RequestInv, AcceptedIsSomewhere
<1>6. AtMostOneHolder
  <2>1. Len(queue) = 0
    BY <1>2, EmptySeq
  <2> QED
    BY <1>2, <2>1, NoJobAssumption DEF AtMostOneHolder, HeldBy, Queued
<1> QED
  BY <1>1, <1>3, <1>4, <1>5, <1>6 DEF IInv

\* Every step of the service keeps it.
LEMMA InvStep == IInv /\ [Next]_vars => IInv'
<1> SUFFICES ASSUME IInv, [Next]_vars PROVE IInv'
  OBVIOUS
<1>0. /\ TypeOK /\ AtMostOneHolder
      /\ \A w \in Workers : WorkerInv(w)
      /\ \A r \in Readers : ReaderInv(r)
      /\ \A j \in Jobs : RequestInv(j)
      /\ \A j \in Jobs : AcceptedIsSomewhere(j)
  BY DEF IInv
<1>1. QueueDistinct /\ HeldOnce /\ HeldOnly /\ QueuedOnly
  BY <1>0, HolderParts
<1>2. \A j \in Jobs : StatusInv(j) /\ (req[j] # "202" => emitted[j] = <<>>)
  BY <1>0 DEF RequestInv, StatusInv
<1>3. TypeOK'
  BY <1>0, TypeStep
<1>4. \A w \in Workers : WorkerInv(w)'
  BY <1>0, <1>3, WorkerStepKeeps
<1>5. \A r \in Readers : ReaderInv(r)'
  BY <1>0, ReaderStepKeeps
<1>6. AtMostOneHolder'
  <2>1. QueueDistinct' /\ HeldOnce' /\ HeldOnly' /\ QueuedOnly'
    BY <1>0, <1>1, HolderStep
  <2> QED
    BY <2>1 DEF AtMostOneHolder, QueueDistinct, HeldOnce, HeldOnly, QueuedOnly
<1>7. \A j \in Jobs : RequestInv(j)'
  <2>1. \A j \in Jobs : StatusInv(j)'
    BY <1>0, <1>1, <1>2, StatusStep
  <2>2. \A j \in Jobs : req'[j] # "202" => emitted'[j] = <<>>
    BY <1>0, <1>1, <1>2, SilentStep
  <2> QED
    BY <2>1, <2>2 DEF RequestInv, StatusInv
<1>8. \A j \in Jobs : AcceptedIsSomewhere(j)'
  BY <1>0, <1>1, <1>2, AcceptedStep
<1> QED
  BY <1>3, <1>4, <1>5, <1>6, <1>7, <1>8 DEF IInv

\* The inductive invariant holds in every reachable state.
THEOREM Invariance == Spec => []IInv
  BY InvInit, InvStep, PTL DEF Spec

\* Types, for every number of jobs, workers, readers and places in the queue.
THEOREM TypeCorrectness == Spec => []TypeOK
<1>1. IInv => TypeOK
  BY DEF IInv
<1> QED
  BY Invariance, <1>1, PTL

\* No job is ever crawled twice or by two workers: Queue.Enqueue, Queue.Dequeue
\* and Worker.Run hand every job to at most one worker.
THEOREM OneHolder == Spec => []AtMostOneHolder
<1>1. IInv => AtMostOneHolder
  BY DEF IInv
<1> QED
  BY Invariance, <1>1, PTL

\* No accepted job is lost while the process lives, the drain and the closing of
\* the queue included, and no job that was refused is ever touched by a worker
\* (enqueueJob, processJob, App.Close).
THEOREM Fate == Spec => []AnswerTellsFate
<1>1. ASSUME IInv, NEW j \in Jobs
      PROVE  /\ req[j] = "202" /\ phase # "exited" =>
                  Queued(j) \/ Completed(j) \/ \E w \in Workers : HeldBy(w, j)
             /\ req[j] \in Answers \ {"202"} =>
                  emitted[j] = <<>> /\ jobs[j].status \in {"queued", "canceled"}
  <2>1. AcceptedIsSomewhere(j) /\ RequestInv(j)
    BY <1>1 DEF IInv
  <2> QED
    BY <2>1 DEF AcceptedIsSomewhere, RequestInv, Answers
<1>2. IInv => AnswerTellsFate
  BY <1>1, Zenon DEF AnswerTellsFate
<1> QED
  BY Invariance, <1>2, PTL
=============================================================================
