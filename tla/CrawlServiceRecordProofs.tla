---------------------- MODULE CrawlServiceRecordProofs ----------------------
(***************************************************************************)
(* What the record, the page rows and the events of a job say of each      *)
(* other, and that the service implements JobLifecycle: theorems for any   *)
(* number of jobs, URLs, workers, readers and places in the queue.         *)
(***************************************************************************)
EXTENDS CrawlServiceProofs

-----------------------------------------------------------------------------
(* The inductive invariant, on top of IInv.                                *)

\* Between jobs the locals are fresh; on the way to the loop they are as well,
\* except that the deadline may have passed already.
FreshInv(w) ==
  /\ wpc[w] \in {"dequeue", "stopped"} => local[w] = FreshLocals
  /\ wpc[w] \in {"start", "update"} =>
       local[w].next = 1 /\ local[w].counters = ZeroCounters

\* In the loop every URL passed is counted at most once.
LoopInv(w) ==
  wpc[w] = "loop" =>
    /\ local[w].counters.succeeded + local[w].counters.failed < local[w].next
    /\ local[w].next <= NumURLs[wjob[w]] + 1

\* The final status follows from what was counted.
FinalInv(w) ==
  wpc[w] \in {"final", "complete"} =>
    /\ local[w].counters.succeeded + local[w].counters.failed <= NumURLs[wjob[w]]
    /\ local[w].status = "succeeded" => local[w].counters.succeeded > 0
    /\ local[w].status = "failed" => local[w].counters.succeeded = 0
    /\ wpc[w] = "final" /\ local[w].counters.succeeded = 0 => local[w].errText # "none"

\* A worker has emitted the start and one event for each page it counted as
\* succeeded, and each of these has its row.
CountInv(w) ==
  /\ wpc[w] = "start" => emitted[wjob[w]] = <<>>
  /\ wpc[w] \in {"update", "loop", "final", "complete"} =>
       /\ Len(emitted[wjob[w]]) = 1 + local[w].counters.succeeded
       /\ local[w].counters.succeeded <= pages[wjob[w]]

\* The worker has written the final record and has only its event to emit.
WrittenInv(w) ==
  wpc[w] = "complete" /\ wjob[w] \notin apiCanceled =>
    /\ jobs[wjob[w]].status = local[w].status /\ jobs[wjob[w]].finished
    /\ jobs[wjob[w]].counters = local[w].counters

\* A worker has written the final record of job j, or none will any more.
Written(j) ==
  phase = "exited" \/ Completed(j) \/ \E w \in Workers : HeldBy(w, j) /\ wpc[w] = "complete"

\* Until then the record is not terminal, unless the API canceled the job; a job
\* nobody has submitted has no record.
OpenInv(j) ==
  /\ ~Written(j) /\ j \notin apiCanceled => ~isTerminal(jobs[j].status)
  /\ req[j] = "none" => jobs[j].status = "absent"

\* EventsWellFormed, CompletionMatchesRecord and CountersMatchPages, of one job.
Events(e) ==
  /\ \A i \in 1..Len(e) : e[i] = "JOB_START" <=> i = 1
  /\ \A i \in 1..Len(e) : e[i] \in Completions => i = Len(e)
  /\ \A i \in 1..Len(e) : e[i] = "JOB_DONE" => i > 2

CompletionOf(j) ==
  Completed(j) /\ j \notin apiCanceled =>
    /\ isTerminal(jobs[j].status) /\ jobs[j].finished
    /\ (jobs[j].status = "succeeded") <=> (emitted[j][Len(emitted[j])] = "JOB_DONE")
    /\ jobs[j].counters.succeeded = Len(emitted[j]) - 2

CountersOf(j) ==
  /\ jobs[j].counters.succeeded + jobs[j].counters.failed <= NumURLs[j]
  /\ jobs[j].counters.succeeded <= pages[j]
  /\ jobs[j].status = "succeeded" => jobs[j].counters.succeeded > 0
  /\ jobs[j].status = "failed" => jobs[j].counters.succeeded = 0 /\ jobs[j].errText # "none"

\* The record a reader has read counts no more pages than there are rows, and
\* no more than it has listed in the end.
ReadInv(r) ==
  /\ reader[r].pc = "listing" => reader[r].job.counters.succeeded <= pages[reader[r].of]
  /\ reader[r].pc = "done" => reader[r].job.counters.succeeded <= reader[r].pages

WorkerPart(w) == FreshInv(w) /\ LoopInv(w) /\ FinalInv(w) /\ CountInv(w) /\ WrittenInv(w)
JobPart(j) == OpenInv(j) /\ Events(emitted[j]) /\ CompletionOf(j) /\ CountersOf(j)

RInv ==
  /\ \A w \in Workers : WorkerPart(w)
  /\ \A j \in Jobs : JobPart(j)
  /\ \A r \in Readers : ReadInv(r)


-----------------------------------------------------------------------------
(* The operators the steps are made of.                                    *)

\* UpdateJobStatus replaces the record of its job and of no other.
LEMMA UpdateRecord ==
  ASSUME NEW f \in [Jobs -> JobRecord], NEW j \in Jobs, f[j].status # "absent",
         NEW s, NEW e, NEW c, NEW g, g = UpdateJobStatus(f, j, s, e, c)
  PROVE  /\ g[j].status = s /\ g[j].errText = e /\ g[j].counters = c
         /\ s \in Terminal => g[j].finished
         /\ \A k \in Jobs : k # j => g[k] = f[k]
  <1> DEFINE r == [status |-> s, errText |-> e, counters |-> c,
                   started |-> f[j].started \/ s = "running",
                   finished |-> f[j].finished \/ isTerminal(s)]
  <1>1. g = [f EXCEPT ![j] = r] BY DEF UpdateJobStatus, JobExists
  <1>2. g[j] = r /\ \A k \in Jobs : k # j => g[k] = f[k] BY <1>1
  <1>3. r.status = s /\ r.errText = e /\ r.counters = c OBVIOUS
  <1>4. s \in Terminal => r.finished BY DEF isTerminal
  <1> HIDE DEF r
  <1> QED BY <1>2, <1>3, <1>4, Zenon

\* The fields of a worker's locals are numbers and values of the store.
LEMMA LocalFields ==
  ASSUME NEW l \in Locals
  PROVE  /\ l.next \in Nat /\ l.counters \in Counters
         /\ l.counters.succeeded \in Nat /\ l.counters.failed \in Nat
         /\ l.errText \in ErrTexts /\ l.status \in Terminal
  <1>1. l.next \in Nat /\ l.counters \in Counters /\ l.errText \in ErrTexts /\ l.status \in Terminal
    BY DEF Locals
  <1>2. \A c \in Counters : c.succeeded \in Nat /\ c.failed \in Nat BY DEF Counters
  <1> QED BY <1>1, <1>2

\* What each outcome of a page leaves in them.
LEMMA PageFacts ==
  ASSUME NEW l \in Locals, NEW n \in Nat
  PROVE  /\ PageSkipped(l).next = l.next + 1 /\ PageSkipped(l).counters = l.counters
         /\ PageUncounted(l).next = l.next + 1 /\ PageUncounted(l).counters = l.counters
         /\ PageFailed(l).next = l.next + 1
         /\ PageFailed(l).counters.succeeded = l.counters.succeeded
         /\ PageFailed(l).counters.failed = l.counters.failed + 1
         /\ PageSucceeded(l).next = l.next + 1
         /\ PageSucceeded(l).counters.succeeded = l.counters.succeeded + 1
         /\ PageSucceeded(l).counters.failed = l.counters.failed
         /\ LoopBroken(l, n).next = n + 1 /\ LoopBroken(l, n).counters = l.counters
  <1>1. l.counters \in Counters BY LocalFields
  <1>2. /\ PageSkipped(l).next = l.next + 1 /\ PageSkipped(l).counters = l.counters
        /\ PageUncounted(l).next = l.next + 1 /\ PageUncounted(l).counters = l.counters
    BY DEF PageSkipped, PageUncounted, Locals
  <1>3. /\ PageFailed(l).next = l.next + 1
        /\ PageFailed(l).counters.succeeded = l.counters.succeeded
        /\ PageFailed(l).counters.failed = l.counters.failed + 1
    BY <1>1 DEF PageFailed, Locals, Counters
  <1>4. /\ PageSucceeded(l).next = l.next + 1
        /\ PageSucceeded(l).counters.succeeded = l.counters.succeeded + 1
        /\ PageSucceeded(l).counters.failed = l.counters.failed
    BY <1>1 DEF PageSucceeded, Locals, Counters
  <1>5. LoopBroken(l, n).next = n + 1 /\ LoopBroken(l, n).counters = l.counters
    BY DEF LoopBroken, Locals
  <1> QED BY <1>2, <1>3, <1>4, <1>5

\* A stage may follow the events of a job unless one of them is a completion; only
\* the first is a start, and JOB_DONE follows at least one page.
LEMMA EventsAppend ==
  ASSUME NEW e \in Seq(Stages), NEW s \in Stages, Events(e),
         s = "JOB_START" <=> Len(e) = 0,
         Len(e) > 0 => e[Len(e)] \notin Completions,
         s = "JOB_DONE" => Len(e) >= 2
  PROVE  Events(Append(e, s))
  <1>1. Len(e) \in Nat BY LenProperties
  <1> DEFINE a == Append(e, s)
  <1>2. /\ Len(a) = Len(e) + 1 /\ a[Len(e) + 1] = s
        /\ \A i \in 1..Len(e) : a[i] = e[i]
    BY AppendProperties
  <1> HIDE DEF a
  <1>3. \A i \in 1..Len(a) : i \in 1..Len(e) \/ i = Len(e) + 1 BY <1>1, <1>2
  <1>4. \A i \in 1..Len(e) : e[i] \notin Completions BY <1>1 DEF Events
  <1>5. \A i \in 1..Len(a) : a[i] = "JOB_START" <=> i = 1 BY <1>1, <1>2, <1>3 DEF Events
  <1>6. \A i \in 1..Len(a) : a[i] \in Completions => i = Len(a) BY <1>1, <1>2, <1>3, <1>4
  <1>7. \A i \in 1..Len(a) : a[i] = "JOB_DONE" => i > 2 BY <1>1, <1>2, <1>3 DEF Events
  <1> QED BY <1>5, <1>6, <1>7 DEF Events, a

-----------------------------------------------------------------------------
(* Who is touched by a step.                                               *)

\* What IInv says of a worker that holds a job.
LEMMA Holding ==
  ASSUME IInv, NEW w \in Workers, wpc[w] \notin {"dequeue", "stopped"}
  PROVE  /\ wjob[w] \in Jobs /\ req[wjob[w]] = "202" /\ jobs[wjob[w]].status # "absent"
         /\ ~Completed(wjob[w]) /\ ~Queued(wjob[w])
         /\ \A v \in Workers : v # w => wjob[v] # wjob[w]
  <1>1. TypeOK /\ WorkerInv(w) /\ HeldOnce /\ HeldOnly BY HolderParts DEF IInv
  <1>2. wjob[w] \in Jobs /\ wjob[w] # NoJob BY <1>1 DEF WorkerInv, TypeOK
  <1>3. req[wjob[w]] = "202" /\ ~Completed(wjob[w]) /\ ~Queued(wjob[w])
    BY <1>1, <1>2 DEF HeldOnly, HeldBy
  <1>4. RequestInv(wjob[w]) BY <1>2 DEF IInv
  <1> QED BY <1>1, <1>2, <1>3, <1>4 DEF HeldOnce, RequestInv

\* Workers take steps only in a process that runs, and do not end it.
LEMMA StepAlive ==
  ASSUME NEW w \in Workers, WorkerStep(w) \/ JobDeadline(w)
  PROVE  phase # "exited" /\ phase' # "exited"
  BY DEF WorkerStep, Dequeue, StopWorker, EmitJobStart, FailWithoutProbe, MarkRunning, HandleURL,
         HandleURLBlocked, HandleURLWaitFailed, HandleURLFailed, HandleURLSucceeded, NextURL,
         BreakLoop, DeriveFinalStatus, FinishJob, EmitJobCompletion, JobDeadline, At, Alive

\* A worker's step leaves the other workers and the other jobs alone.
LEMMA StepIsLocal ==
  ASSUME IInv, NEW w \in Workers, WorkerStep(w) \/ JobDeadline(w)
  PROVE  /\ \A v \in Workers : v # w =>
              wpc'[v] = wpc[v] /\ wjob'[v] = wjob[v] /\ local'[v] = local[v]
         /\ \A j \in Jobs : j # wjob[w] =>
              emitted'[j] = emitted[j] /\ pages'[j] = pages[j] /\ jobs'[j] = jobs[j]
         /\ UNCHANGED <<req, apiCanceled, reader>>
  <1>1. TypeOK BY DEF IInv
  <1>2. \A s, e, c : \A j \in Jobs : j # wjob[w] =>
          UpdateJobStatus(jobs, wjob[w], s, e, c)[j] = jobs[j]
    BY <1>1 DEF UpdateJobStatus, TypeOK
  <1>3. \A j \in Jobs : j # wjob[w] => RecordPage(pages, wjob[w])[j] = pages[j]
    BY <1>1 DEF RecordPage, TypeOK
  <1>4. ASSUME NEW s, Emit(wjob[w], s)
        PROVE  \A j \in Jobs : j # wjob[w] => emitted'[j] = emitted[j]
    BY <1>1, <1>4 DEF Emit, TypeOK
  <1>5. /\ wpc \in [Workers -> WorkerPCs] /\ wjob \in [Workers -> Jobs \cup {NoJob}]
        /\ local \in [Workers -> Locals]
    BY <1>1 DEF TypeOK
  <1> USE DEF storeVars
  <1>6. CASE Dequeue(w) \/ StopWorker(w) BY <1>5, <1>6 DEF Dequeue, StopWorker
  <1>7. CASE EmitJobStart(w) BY <1>4, <1>5, <1>7 DEF EmitJobStart
  <1>8. CASE FailWithoutProbe(w) BY <1>2, <1>5, <1>8 DEF FailWithoutProbe
  <1>9. CASE MarkRunning(w) BY <1>2, <1>5, <1>9 DEF MarkRunning
  <1>10. CASE HandleURLBlocked(w) \/ HandleURLWaitFailed(w) \/ BreakLoop(w)
    BY <1>5, <1>10 DEF HandleURLBlocked, HandleURLWaitFailed, BreakLoop
  <1>11. CASE HandleURLFailed(w) BY <1>3, <1>5, <1>11 DEF HandleURLFailed
  <1>12. CASE HandleURLSucceeded(w) BY <1>3, <1>4, <1>5, <1>12 DEF HandleURLSucceeded
  <1>13. CASE DeriveFinalStatus(w) BY <1>5, <1>13 DEF DeriveFinalStatus
  <1>14. CASE FinishJob(w) BY <1>2, <1>5, <1>14 DEF FinishJob
  <1>15. CASE EmitJobCompletion(w) BY <1>4, <1>5, <1>15 DEF EmitJobCompletion
  <1>16. CASE JobDeadline(w) BY <1>5, <1>16 DEF JobDeadline
  <1> QED
    BY <1>6, <1>7, <1>8, <1>9, <1>10, <1>11, <1>12, <1>13, <1>14, <1>15, <1>16
    DEF WorkerStep, HandleURL

-----------------------------------------------------------------------------
(* What a step that does not touch it leaves of an invariant.              *)

\* A worker keeps its part while it stays where it is, its job's events stay,
\* rows are only added and no one but the API writes the record.
LEMMA WorkerKept ==
  ASSUME NEW v \in Workers, WorkerPart(v), local[v] \in Locals,
         wpc'[v] = wpc[v], wjob'[v] = wjob[v], local'[v] = local[v],
         apiCanceled \subseteq apiCanceled',
         wpc[v] \notin {"dequeue", "stopped"} =>
           /\ emitted'[wjob[v]] = emitted[wjob[v]]
           /\ pages[wjob[v]] \in Nat /\ pages'[wjob[v]] \in Nat /\ pages'[wjob[v]] >= pages[wjob[v]]
           /\ jobs'[wjob[v]] = jobs[wjob[v]] \/ wjob[v] \in apiCanceled'
  PROVE  WorkerPart(v)'
  <1>1. FreshInv(v)' /\ LoopInv(v)' /\ FinalInv(v)'
    BY DEF WorkerPart, FreshInv, LoopInv, FinalInv
  <1>2. local[v].counters.succeeded \in Nat BY LocalFields
  <1>3. CountInv(v)' BY <1>2 DEF WorkerPart, CountInv
  <1>4. WrittenInv(v)' BY DEF WorkerPart, WrittenInv
  <1> QED BY <1>1, <1>3, <1>4 DEF WorkerPart

\* The fields of a record are numbers and values of the store.
LEMMA RecordFields ==
  ASSUME NEW r \in JobRecord
  PROVE  /\ r.status \in Statuses /\ r.counters.succeeded \in Nat /\ r.counters.failed \in Nat
         /\ r.finished \in BOOLEAN
  <1>1. r.status \in Statuses /\ r.counters \in Counters /\ r.finished \in BOOLEAN BY DEF JobRecord
  <1> QED BY <1>1 DEF Counters

\* So does a job whose record and events stay.
LEMMA JobKept ==
  ASSUME TypeOK, TypeOK', NEW j \in Jobs, JobPart(j),
         emitted'[j] = emitted[j], jobs'[j] = jobs[j], pages'[j] >= pages[j],
         req'[j] = "none" => req[j] = "none", Written(j)' <=> Written(j),
         apiCanceled \subseteq apiCanceled'
  PROVE  JobPart(j)'
  <1>1. pages[j] \in Nat /\ pages'[j] \in Nat /\ jobs[j].counters.succeeded \in Nat
    BY RecordFields DEF TypeOK
  <1>2. OpenInv(j)' BY DEF JobPart, OpenInv
  <1>3. Events(emitted[j])' BY DEF JobPart, Events
  <1>4. Completed(j)' <=> Completed(j) BY DEF Completed
  <1>5. CompletionOf(j)' BY <1>4 DEF JobPart, CompletionOf
  <1>6. CountersOf(j)' BY <1>1 DEF JobPart, CountersOf
  <1> QED BY <1>2, <1>3, <1>5, <1>6 DEF JobPart

\* The requests touch no worker, no event and no row, nor does the process before
\* it exits.  A record is created for a new submission, or overwritten by a cancel.
Outside ==
  /\ UNCHANGED <<wpc, wjob, local, emitted, pages>>
  /\ phase' = "exited" <=> phase = "exited"
  /\ \/ UNCHANGED <<jobs, apiCanceled>> /\ \A j \in Jobs : req'[j] = "none" => req[j] = "none"
     \/ \E j \in Jobs : Submit(j)
     \/ \E j \in Jobs : CancelJob(j)

\* Every step is of a worker or from outside, or is the exit.
LEMMA Inside ==
  ASSUME TypeOK, [Next]_vars
  PROVE  Outside \/ Exit \/ \E w \in Workers : WorkerStep(w) \/ JobDeadline(w)
  <1> USE DEF storeVars, workerVars, Outside
  <1>1. CASE UNCHANGED vars BY <1>1 DEF vars
  <1>2. ASSUME NEW j \in Jobs, Submit(j) PROVE Outside BY <1>2 DEF Submit
  <1>3. ASSUME NEW j \in Jobs, AnswerSubmit(j) PROVE Outside
    BY <1>3 DEF AnswerSubmit, Enqueue, EnqueueDeadline, EnqueueCanceled, EnqueuePanics,
                RejectSubmit, TypeOK
  <1>4. ASSUME NEW j \in Jobs, CancelJob(j) PROVE Outside BY <1>4 DEF CancelJob
  <1>5. ASSUME NEW r \in Readers, GetJobResultPages(r) \/ \E j \in Jobs : GetJobResultJob(r, j)
        PROVE  Outside
    BY <1>5 DEF GetJobResultPages, GetJobResultJob
  <1>6. CASE Signal \/ CloseQueue BY <1>6 DEF Signal, CloseQueue
  <1> QED BY <1>1, <1>2, <1>3, <1>4, <1>5, <1>6 DEF Next

\* What they leave of the invariant.
LEMMA OutsideStep ==
  ASSUME IInv, TypeOK', RInv, Outside
  PROVE  (\A w \in Workers : WorkerPart(w)') /\ (\A j \in Jobs : JobPart(j)')
  <1>1. TypeOK BY DEF IInv
  <1>2. UNCHANGED <<wpc, wjob, local, emitted, pages>> /\ (phase' = "exited" <=> phase = "exited")
    BY DEF Outside
  <1>3. \A j \in Jobs : pages[j] \in Nat BY <1>1 DEF TypeOK
  <1>4. \A j \in Jobs : Written(j)' <=> Written(j) BY <1>2 DEF Written, Completed, HeldBy
  <1>5. ASSUME apiCanceled \subseteq apiCanceled',
               \A w \in Workers : wpc[w] \notin {"dequeue", "stopped"} =>
                 jobs'[wjob[w]] = jobs[wjob[w]] \/ wjob[w] \in apiCanceled'
        PROVE  \A w \in Workers : WorkerPart(w)'
    <2> SUFFICES ASSUME NEW w \in Workers PROVE WorkerPart(w)' OBVIOUS
    <2>1. local[w] \in Locals /\ WorkerPart(w) BY <1>1 DEF TypeOK, RInv
    <2>2. wpc[w] \notin {"dequeue", "stopped"} => wjob[w] \in Jobs BY Holding
    <2>3. wpc[w] \notin {"dequeue", "stopped"} =>
            /\ emitted'[wjob[w]] = emitted[wjob[w]]
            /\ pages[wjob[w]] \in Nat /\ pages'[wjob[w]] \in Nat /\ pages'[wjob[w]] >= pages[wjob[w]]
            /\ jobs'[wjob[w]] = jobs[wjob[w]] \/ wjob[w] \in apiCanceled'
      BY <1>2, <1>3, <1>5, <2>2
    <2> QED BY <1>2, <1>5, <2>1, <2>3, WorkerKept
  <1>6. CASE UNCHANGED <<jobs, apiCanceled>> /\ \A j \in Jobs : req'[j] = "none" => req[j] = "none"
    <2>1. \A w \in Workers : WorkerPart(w)' BY <1>5, <1>6
    <2>2. ASSUME NEW j \in Jobs PROVE JobPart(j)'
      BY <1>1, <1>2, <1>3, <1>4, <1>6, JobKept DEF RInv
    <2> QED BY <2>1, <2>2
  <1>7. ASSUME NEW j \in Jobs, Submit(j)
        PROVE  (\A w \in Workers : WorkerPart(w)') /\ (\A k \in Jobs : JobPart(k)')
    <2>1. req[j] = "none" /\ UNCHANGED apiCanceled BY <1>7 DEF Submit
    <2>2. \A k \in Jobs \ {j} : jobs'[k] = jobs[k] /\ req'[k] = req[k]
      BY <1>1, <1>7 DEF Submit, CreateJob, TypeOK
    <2>3. jobs'[j] = [NoRecord EXCEPT !.status = "queued"] /\ req'[j] = "enqueueing"
      BY <1>1, <1>7 DEF Submit, CreateJob, TypeOK
    <2>4. jobs'[j].status = "queued" /\ jobs'[j].counters = ZeroCounters BY <2>3 DEF NoRecord
    <2>5. \A w \in Workers : wpc[w] \notin {"dequeue", "stopped"} => wjob[w] \in Jobs \ {j}
      BY <2>1, Holding
    <2>6. \A w \in Workers : WorkerPart(w)' BY <1>5, <2>1, <2>2, <2>5
    <2>7. ASSUME NEW k \in Jobs, k # j PROVE JobPart(k)'
      BY <1>1, <1>2, <1>3, <1>4, <2>1, <2>2, <2>7, JobKept DEF RInv
    <2>8. JobPart(j)'
      <3>1. emitted'[j] = <<>> /\ Len(emitted'[j]) = 0
        <4>1. RequestInv(j) BY DEF IInv
        <4> QED BY <1>2, <2>1, <4>1, EmptySeq DEF RequestInv
      <3>2. OpenInv(j)' BY <2>3, <2>4 DEF OpenInv, isTerminal, Terminal
      <3>3. Events(emitted[j])' BY <3>1 DEF Events
      <3>4. CompletionOf(j)' BY <3>1 DEF CompletionOf, Completed
      <3>5. CountersOf(j)'
        <4>1. ZeroCounters.succeeded = 0 /\ ZeroCounters.failed = 0 BY DEF ZeroCounters
        <4> QED BY <1>2, <1>3, <2>4, <4>1, URLsAssumption DEF CountersOf
      <3> QED BY <3>2, <3>3, <3>4, <3>5 DEF JobPart
    <2> QED BY <2>6, <2>7, <2>8
  <1>8. ASSUME NEW j \in Jobs, CancelJob(j)
        PROVE  (\A w \in Workers : WorkerPart(w)') /\ (\A k \in Jobs : JobPart(k)')
    <2>1. apiCanceled' = apiCanceled \cup {j} /\ UNCHANGED req /\ jobs[j].status # "absent"
      BY <1>8 DEF CancelJob, JobExists
    <2>2. jobs' = UpdateJobStatus(jobs, j, "canceled", "canceled_via_API", ZeroCounters)
      BY <1>8 DEF CancelJob
    <2>3. /\ jobs'[j].status = "canceled" /\ jobs'[j].counters = ZeroCounters
          /\ \A k \in Jobs : k # j => jobs'[k] = jobs[k]
      <3>1. jobs \in [Jobs -> JobRecord] BY <1>1 DEF TypeOK
      <3> QED BY <2>1, <2>2, <3>1, UpdateRecord, SMT
    <2>4. \A w \in Workers : WorkerPart(w)'
      <3>1. \A w \in Workers : wpc[w] \notin {"dequeue", "stopped"} =>
              jobs'[wjob[w]] = jobs[wjob[w]] \/ wjob[w] \in apiCanceled'
        BY <2>1, <2>3, Holding
      <3> QED BY <1>5, <2>1, <3>1
    <2>5. ASSUME NEW k \in Jobs, k # j PROVE JobPart(k)'
      BY <1>1, <1>2, <1>3, <1>4, <2>1, <2>3, <2>5, JobKept DEF RInv
    <2>6. JobPart(j)'
      <3>1. OpenInv(j)' BY <2>1 DEF OpenInv, RInv, JobPart
      <3>2. Events(emitted[j])' BY <1>2 DEF Events, RInv, JobPart
      <3>3. CompletionOf(j)' BY <2>1 DEF CompletionOf
      <3>4. CountersOf(j)'
        <4>1. ZeroCounters.succeeded = 0 /\ ZeroCounters.failed = 0 BY DEF ZeroCounters
        <4> QED BY <1>2, <1>3, <2>3, <4>1, URLsAssumption DEF CountersOf
      <3> QED BY <3>1, <3>2, <3>3, <3>4 DEF JobPart
    <2> QED BY <2>4, <2>5, <2>6
  <1> QED BY <1>6, <1>7, <1>8 DEF Outside

\* The exit leaves no worker at work, and records, rows and events as they are.
LEMMA ExitStep ==
  ASSUME IInv, RInv, Exit
  PROVE  (\A w \in Workers : WorkerPart(w)') /\ (\A j \in Jobs : JobPart(j)')
  <1>1. /\ UNCHANGED <<jobs, pages, req, apiCanceled, emitted>> /\ phase' = "exited"
        /\ \A w \in Workers : wpc'[w] = "stopped" /\ local'[w] = FreshLocals
    BY DEF Exit, storeVars
  <1>2. ASSUME NEW w \in Workers PROVE WorkerPart(w)'
    BY <1>1 DEF WorkerPart, FreshInv, LoopInv, FinalInv, CountInv, WrittenInv
  <1>3. ASSUME NEW j \in Jobs PROVE JobPart(j)'
    <2>1. JobPart(j) BY DEF RInv
    <2>2. OpenInv(j)' BY <1>1, <2>1 DEF JobPart, OpenInv, Written
    <2>3. Events(emitted[j])' BY <1>1, <2>1 DEF JobPart, Events
    <2>4. CompletionOf(j)' BY <1>1, <2>1 DEF JobPart, CompletionOf, Completed
    <2>5. CountersOf(j)' BY <1>1, <2>1 DEF JobPart, CountersOf
    <2> QED BY <2>2, <2>3, <2>4, <2>5 DEF JobPart
  <1> QED BY <1>2, <1>3

-----------------------------------------------------------------------------
(* A worker's own step.                                                    *)

\* Whether the record of the job a worker holds is final is up to this worker.
LEMMA OwnWritten ==
  ASSUME IInv, NEW w \in Workers, WorkerStep(w) \/ JobDeadline(w),
         wpc[w] \notin {"dequeue", "stopped"}, NEW j \in Jobs, j = wjob[w]
  PROVE  /\ Written(j) <=> wpc[w] = "complete"
         /\ Written(j)' <=> Completed(j)' \/ (wjob'[w] = j /\ wpc'[w] = "complete")
  <1>1. ~Completed(j) /\ \A v \in Workers : v # w => wjob[v] # j BY Holding
  <1>2. \A v \in Workers : v # w => wjob'[v] = wjob[v] /\ wpc'[v] = wpc[v] BY StepIsLocal
  <1> QED BY <1>1, <1>2, StepAlive DEF Written, HeldBy

\* Nor does it touch whether another job's record is.
LEMMA OthersWritten ==
  ASSUME IInv, NEW w \in Workers, WorkerStep(w) \/ JobDeadline(w), NEW k \in Jobs, k # wjob[w]
  PROVE  Written(k)' <=> Written(k)
  <1>1. emitted'[k] = emitted[k] BY StepIsLocal
  <1>2. Completed(k)' <=> Completed(k) BY <1>1 DEF Completed
  <1>3. \A v \in Workers : v # w => wjob'[v] = wjob[v] /\ wpc'[v] = wpc[v] BY StepIsLocal
  <1>4. wpc'[w] = "complete" => wjob'[w] = wjob[w]
    <2>1. wpc \in [Workers -> WorkerPCs] BY DEF IInv, TypeOK
    <2> QED
      BY <2>1 DEF WorkerStep, Dequeue, StopWorker, EmitJobStart, FailWithoutProbe, MarkRunning,
           HandleURL, HandleURLBlocked, HandleURLWaitFailed, HandleURLFailed, HandleURLSucceeded,
           BreakLoop, DeriveFinalStatus, FinishJob, EmitJobCompletion, JobDeadline, At
  <1> QED BY <1>2, <1>3, <1>4, StepAlive DEF Written, HeldBy

\* A job in a worker's hands that is not completed by the step: what is left to
\* show of it.
LEMMA JobOpen ==
  ASSUME NEW j \in Jobs, req'[j] # "none", ~Completed(j)', Events(emitted'[j]), CountersOf(j)',
         Written(j)' \/ ~isTerminal(jobs'[j].status) \/ j \in apiCanceled'
  PROVE  JobPart(j)'
  <1>1. OpenInv(j)' BY DEF OpenInv
  <1>2. CompletionOf(j)' BY DEF CompletionOf
  <1>3. Events(emitted[j])' BY DEF Events
  <1> QED BY <1>1, <1>2, <1>3 DEF JobPart

\* A worker's step keeps its own part and that of the job it holds.
OwnKept(w) == WorkerPart(w)' /\ \A j \in Jobs : j = wjob[w] => JobPart(j)'

\* Taking a job, or returning from Run.
LEMMA OwnTake ==
  ASSUME IInv, TypeOK', RInv, NEW w \in Workers, Dequeue(w) \/ StopWorker(w)
  PROVE  OwnKept(w)
  <1>1. TypeOK /\ WorkerPart(w) /\ wpc[w] = "dequeue" /\ wjob[w] \notin Jobs
    BY NoJobAssumption DEF IInv, RInv, Dequeue, StopWorker, At, WorkerInv
  <1>2. /\ wpc \in [Workers -> WorkerPCs] /\ wjob \in [Workers -> Jobs \cup {NoJob}]
        /\ queue \in Seq(Jobs) /\ UNCHANGED <<local, emitted>>
    BY <1>1 DEF TypeOK, Dequeue, StopWorker
  <1>3. local'[w] = FreshLocals /\ local'[w].next = 1 /\ local'[w].counters = ZeroCounters
    BY <1>1, <1>2 DEF WorkerPart, FreshInv, FreshLocals
  <1>4. CASE Dequeue(w)
    <2>1. QueueDistinct /\ QueuedOnly BY HolderParts DEF IInv
    <2>2. Head(queue) \in Jobs /\ Queued(Head(queue)) BY <1>2, <1>4, <2>1, DequeueFacts
    <2>3. wpc'[w] = "start" /\ wjob'[w] = Head(queue) /\ emitted'[Head(queue)] = <<>>
      BY <1>2, <1>4, <2>1, <2>2 DEF Dequeue, QueuedOnly
    <2> QED BY <1>1, <1>3, <2>3 DEF OwnKept, WorkerPart, FreshInv, LoopInv, FinalInv, CountInv, WrittenInv
  <1>5. CASE StopWorker(w)
    <2>1. wpc'[w] = "stopped" BY <1>2, <1>5 DEF StopWorker
    <2> QED BY <1>1, <1>3, <2>1 DEF OwnKept, WorkerPart, FreshInv, LoopInv, FinalInv, CountInv, WrittenInv
  <1> QED BY <1>4, <1>5

\* The start of the job is its first event.
LEMMA OwnStart ==
  ASSUME IInv, TypeOK', RInv, NEW w \in Workers, EmitJobStart(w)
  PROVE  OwnKept(w)
  <1>1. TypeOK /\ WorkerPart(w) /\ wpc[w] = "start" BY DEF IInv, RInv, EmitJobStart, At
  <1>2. PICK j \in Jobs : j = wjob[w] BY <1>1, Holding
  <1>3. JobPart(j) /\ emitted[j] = <<>> /\ req[j] = "202"
    BY <1>1, <1>2, Holding DEF RInv, WorkerPart, CountInv
  <1>4. /\ wpc'[w] = "update" /\ wjob'[w] = j /\ UNCHANGED <<local, jobs, pages, req, apiCanceled>>
        /\ emitted'[j] = Append(emitted[j], "JOB_START")
    BY <1>1, <1>2 DEF TypeOK, EmitJobStart, Emit, storeVars
  <1>5. emitted[j] \in Seq(Stages) /\ "JOB_START" \in Stages /\ "JOB_START" \notin Completions
    BY <1>1, Labels DEF TypeOK
  <1>6. Len(emitted[j]) = 0 BY <1>3, EmptySeq
  <1>7. Events(emitted'[j])
    <2>1. Events(emitted[j]) BY <1>3 DEF JobPart
    <2>2. Events(Append(emitted[j], "JOB_START")) BY <1>5, <1>6, <2>1, EventsAppend
    <2> QED BY <1>4, <2>2
  <1>8. Len(emitted'[j]) = 1 BY <1>4, <1>5, <1>6, AppendProperties
  <1>9. ~Completed(j)'
    BY <1>1, <1>2, <1>5, EmitFacts DEF EmitJobStart, TypeOK
  <1>10. local[w].next = 1 /\ local[w].counters = ZeroCounters /\ ZeroCounters.succeeded = 0
    BY <1>1 DEF WorkerPart, FreshInv, ZeroCounters
  <1>11. pages[j] \in Nat BY <1>1 DEF TypeOK
  <1>12. WorkerPart(w)'
    BY <1>4, <1>8, <1>10, <1>11 DEF WorkerPart, FreshInv, LoopInv, FinalInv, CountInv, WrittenInv
  <1>13. ~Written(j) BY <1>1, <1>2, OwnWritten DEF WorkerStep
  <1>14. CountersOf(j)' BY <1>3, <1>4 DEF JobPart, CountersOf
  <1>15. JobPart(j)'
    BY <1>3, <1>4, <1>7, <1>9, <1>13, <1>14, JobOpen DEF JobPart, OpenInv
  <1> QED BY <1>2, <1>12, <1>15 DEF OwnKept

\* Without a probe fetcher the record becomes "failed" and nothing is counted.
LEMMA OwnFail ==
  ASSUME IInv, TypeOK', RInv, NEW w \in Workers, FailWithoutProbe(w)
  PROVE  OwnKept(w)
  <1>1. TypeOK /\ WorkerPart(w) /\ wpc[w] = "update" BY DEF IInv, RInv, FailWithoutProbe, At
  <1>2. PICK j \in Jobs : j = wjob[w] BY <1>1, Holding
  <1>3. JobPart(j) /\ req[j] = "202" /\ jobs[j].status # "absent" /\ ~Completed(j)
    BY <1>1, <1>2, Holding DEF RInv
  <1>4. /\ wpc'[w] = "complete" /\ wjob'[w] = j /\ UNCHANGED <<emitted, pages, req, apiCanceled>>
        /\ jobs' = UpdateJobStatus(jobs, j, "failed", "no_probe_fetcher", ZeroCounters)
        /\ jobs \in [Jobs -> JobRecord]
    BY <1>1, <1>2 DEF TypeOK, FailWithoutProbe
  <1>5. /\ jobs'[j].status = "failed" /\ jobs'[j].errText = "no_probe_fetcher"
        /\ jobs'[j].counters = ZeroCounters /\ jobs'[j].finished
    BY <1>3, <1>4, UpdateRecord, SMT DEF Terminal
  <1>6. local'[w].status = "failed" /\ local'[w].counters = local[w].counters
    BY <1>1 DEF TypeOK, FailWithoutProbe, Locals
  <1>7. local[w].counters = ZeroCounters /\ ZeroCounters.succeeded = 0 /\ ZeroCounters.failed = 0
    BY <1>1 DEF WorkerPart, FreshInv, ZeroCounters
  <1>8. pages[j] \in Nat /\ NumURLs[j] \in Nat BY <1>1, URLsAssumption DEF TypeOK
  <1>9. Len(emitted'[j]) = 1 BY <1>1, <1>2, <1>4, <1>7 DEF WorkerPart, CountInv
  <1>10. FreshInv(w)' /\ LoopInv(w)' /\ CountInv(w)'
    BY <1>4, <1>6, <1>7, <1>8, <1>9 DEF FreshInv, LoopInv, CountInv
  <1>11. FinalInv(w)' /\ WrittenInv(w)'
    BY <1>4, <1>5, <1>6, <1>7, <1>8 DEF FinalInv, WrittenInv
  <1>12. CountersOf(j)' BY <1>4, <1>5, <1>7, <1>8 DEF CountersOf
  <1>13. Written(j)' BY <1>1, <1>2, <1>4, OwnWritten DEF WorkerStep
  <1>14. ~Completed(j)' /\ Events(emitted'[j]) BY <1>3, <1>4 DEF Completed, JobPart
  <1>15. JobPart(j)' BY <1>3, <1>4, <1>12, <1>13, <1>14, JobOpen
  <1> QED BY <1>2, <1>10, <1>11, <1>15 DEF OwnKept, WorkerPart

\* The record becomes "running" with zero counters.
LEMMA OwnRun ==
  ASSUME IInv, TypeOK', RInv, NEW w \in Workers, MarkRunning(w)
  PROVE  OwnKept(w)
  <1>1. TypeOK /\ WorkerPart(w) /\ wpc[w] = "update" BY DEF IInv, RInv, MarkRunning, At
  <1>2. PICK j \in Jobs : j = wjob[w] BY <1>1, Holding
  <1>3. JobPart(j) /\ req[j] = "202" /\ jobs[j].status # "absent" /\ ~Completed(j)
    BY <1>1, <1>2, Holding DEF RInv
  <1>4. /\ wpc'[w] = "loop" /\ wjob'[w] = j /\ local'[w] = local[w]
        /\ UNCHANGED <<emitted, pages, req, apiCanceled>>
        /\ jobs' = UpdateJobStatus(jobs, j, "running", "none", ZeroCounters)
        /\ jobs \in [Jobs -> JobRecord]
    BY <1>1, <1>2, <1>3 DEF TypeOK, MarkRunning, JobExists
  <1>5. jobs'[j].status = "running" /\ jobs'[j].counters = ZeroCounters
    BY <1>3, <1>4, UpdateRecord, SMT
  <1>6. /\ local[w].counters = ZeroCounters /\ local[w].next = 1
        /\ ZeroCounters.succeeded = 0 /\ ZeroCounters.failed = 0
    BY <1>1 DEF WorkerPart, FreshInv, ZeroCounters
  <1>7. pages[j] \in Nat /\ NumURLs[j] \in Nat BY <1>1, URLsAssumption DEF TypeOK
  <1>8. Len(emitted'[j]) = 1 BY <1>1, <1>2, <1>4, <1>6 DEF WorkerPart, CountInv
  <1>9. WorkerPart(w)'
    BY <1>4, <1>6, <1>7, <1>8 DEF WorkerPart, FreshInv, LoopInv, FinalInv, CountInv, WrittenInv
  <1>10. CountersOf(j)' BY <1>4, <1>5, <1>6, <1>7 DEF CountersOf
  <1>11. ~isTerminal(jobs'[j].status) BY <1>5 DEF isTerminal, Terminal
  <1>12. ~Completed(j)' /\ Events(emitted'[j]) BY <1>3, <1>4 DEF Completed, JobPart
  <1>13. JobPart(j)' BY <1>3, <1>4, <1>10, <1>11, <1>12, JobOpen
  <1> QED BY <1>2, <1>9, <1>13 DEF OwnKept

\* A step in the loop that emits nothing and counts no page as succeeded.
LEMMA OwnQuiet ==
  ASSUME IInv, TypeOK', RInv, NEW w \in Workers, WorkerStep(w) \/ JobDeadline(w),
         wpc[w] = "loop", wpc'[w] = "loop", wjob'[w] = wjob[w], UNCHANGED <<emitted, jobs>>,
         \A j \in Jobs : pages'[j] >= pages[j],
         local'[w].counters.succeeded = local[w].counters.succeeded,
         local'[w].counters.succeeded + local'[w].counters.failed < local'[w].next,
         local'[w].next <= NumURLs[wjob[w]] + 1
  PROVE  OwnKept(w)
  <1>1. TypeOK /\ WorkerPart(w) BY DEF IInv, RInv
  <1>2. PICK j \in Jobs : j = wjob[w] BY Holding
  <1>3. JobPart(j) /\ ~Completed(j) BY <1>2, Holding DEF RInv
  <1>4. UNCHANGED <<req, apiCanceled>> BY StepIsLocal
  <1>5. pages[j] \in Nat /\ pages'[j] \in Nat /\ pages'[j] >= pages[j] BY <1>1 DEF TypeOK
  <1>6. local[w].counters.succeeded \in Nat BY <1>1, LocalFields DEF TypeOK
  <1>7. WorkerPart(w)'
    BY <1>1, <1>2, <1>5, <1>6 DEF WorkerPart, FreshInv, LoopInv, FinalInv, CountInv, WrittenInv
  <1>8. ~Completed(j)' BY <1>3 DEF Completed
  <1>9. Written(j)' <=> Written(j) BY <1>2, <1>8, OwnWritten
  <1>10. JobPart(j)' BY <1>1, <1>3, <1>4, <1>5, <1>9, JobKept
  <1> QED BY <1>2, <1>7, <1>10 DEF OwnKept

\* A page that is not counted as succeeded, and the end of the context.
LEMMA OwnPage ==
  ASSUME IInv, TypeOK', RInv, NEW w \in Workers,
         HandleURLBlocked(w) \/ HandleURLWaitFailed(w) \/ HandleURLFailed(w) \/ BreakLoop(w)
  PROVE  OwnKept(w)
  <1>1. /\ TypeOK /\ WorkerPart(w) /\ wpc[w] = "loop" /\ local[w].next <= NumURLs[wjob[w]]
        /\ WorkerStep(w)
    BY DEF IInv, RInv, HandleURLBlocked, HandleURLWaitFailed, HandleURLFailed, BreakLoop,
           NextURL, At, WorkerStep, HandleURL
  <1>2. PICK j \in Jobs : j = wjob[w] BY <1>1, Holding
  <1>3. local[w] \in Locals /\ pages \in [Jobs -> Nat] /\ NumURLs[j] \in Nat
    BY <1>1, URLsAssumption DEF TypeOK
  <1>4. /\ local[w].next \in Nat /\ local[w].counters.succeeded \in Nat
        /\ local[w].counters.failed \in Nat
    BY <1>3, LocalFields
  <1>5. /\ local[w].counters.succeeded + local[w].counters.failed < local[w].next
        /\ local[w].next <= NumURLs[j]
    BY <1>1, <1>2 DEF WorkerPart, LoopInv
  <1>6. wpc' = wpc /\ wjob' = wjob /\ UNCHANGED <<emitted, jobs>>
    BY DEF HandleURLBlocked, HandleURLWaitFailed, HandleURLFailed, BreakLoop, storeVars
  <1>7. \A k \in Jobs : pages'[k] >= pages[k]
    <2>1. UNCHANGED pages \/ pages' = RecordPage(pages, j)
      BY <1>2 DEF HandleURLBlocked, HandleURLWaitFailed, HandleURLFailed, BreakLoop, storeVars
    <2>2. CASE UNCHANGED pages BY <1>3, <2>2
    <2>3. CASE pages' = RecordPage(pages, j) BY <1>3, <2>3 DEF RecordPage
    <2> QED BY <2>1, <2>2, <2>3
  <1>8. \/ local'[w] = PageSkipped(local[w]) \/ local'[w] = PageUncounted(local[w])
        \/ local'[w] = PageFailed(local[w]) \/ local'[w] = LoopBroken(local[w], NumURLs[j])
    BY <1>1, <1>2 DEF HandleURLBlocked, HandleURLWaitFailed, HandleURLFailed, BreakLoop, TypeOK
  <1>9. /\ local'[w].counters.succeeded = local[w].counters.succeeded
        /\ local'[w].counters.succeeded + local'[w].counters.failed < local'[w].next
        /\ local'[w].next <= NumURLs[j] + 1
    <2>1. CASE local'[w] = PageSkipped(local[w]) \/ local'[w] = PageUncounted(local[w])
      <3>1. local'[w].next = local[w].next + 1 /\ local'[w].counters = local[w].counters
        BY <1>3, <2>1, PageFacts
      <3> QED BY <1>3, <1>4, <1>5, <3>1
    <2>2. CASE local'[w] = PageFailed(local[w])
      <3>1. /\ local'[w].next = local[w].next + 1
            /\ local'[w].counters.succeeded = local[w].counters.succeeded
            /\ local'[w].counters.failed = local[w].counters.failed + 1
        BY <1>3, <2>2, PageFacts
      <3> QED BY <1>3, <1>4, <1>5, <3>1
    <2>3. CASE local'[w] = LoopBroken(local[w], NumURLs[j])
      <3>1. local'[w].next = NumURLs[j] + 1 /\ local'[w].counters = local[w].counters
        BY <1>3, <2>3, PageFacts
      <3> QED BY <1>3, <1>4, <1>5, <3>1
    <2> QED BY <1>8, <2>1, <2>2, <2>3
  <1> QED BY <1>1, <1>2, <1>6, <1>7, <1>9, OwnQuiet

\* The deadline of the job passes.
LEMMA OwnDeadline ==
  ASSUME IInv, TypeOK', RInv, NEW w \in Workers, JobDeadline(w)
  PROVE  OwnKept(w)
  <1>1. TypeOK /\ WorkerPart(w) /\ wpc[w] \in {"start", "update", "loop"}
    BY DEF IInv, RInv, JobDeadline
  <1>2. PICK j \in Jobs : j = wjob[w] BY <1>1, Holding
  <1>3. JobPart(j) BY DEF RInv
  <1>4. UNCHANGED <<jobs, pages, req, apiCanceled, wpc, wjob, emitted>> BY DEF JobDeadline, storeVars
  <1>5. local'[w].next = local[w].next /\ local'[w].counters = local[w].counters
    BY <1>1 DEF JobDeadline, TypeOK, Locals
  <1>6. WorkerPart(w)'
    BY <1>1, <1>4, <1>5 DEF WorkerPart, FreshInv, LoopInv, FinalInv, CountInv, WrittenInv
  <1>7. pages[j] \in Nat BY <1>1 DEF TypeOK
  <1>8. Written(j)' <=> Written(j) BY <1>4, StepAlive DEF Written, Completed, HeldBy
  <1>9. JobPart(j)' BY <1>1, <1>3, <1>4, <1>7, <1>8, JobKept
  <1> QED BY <1>2, <1>6, <1>9 DEF OwnKept

\* A page that succeeds adds a row, an event and one to the counter.
LEMMA OwnSuccess ==
  ASSUME IInv, TypeOK', RInv, NEW w \in Workers, HandleURLSucceeded(w)
  PROVE  OwnKept(w)
  <1>1. /\ TypeOK /\ WorkerPart(w) /\ wpc[w] = "loop" /\ local[w].next <= NumURLs[wjob[w]]
        /\ WorkerStep(w)
    BY DEF IInv, RInv, HandleURLSucceeded, NextURL, At, WorkerStep, HandleURL
  <1>2. PICK j \in Jobs : j = wjob[w] BY <1>1, Holding
  <1>3. JobPart(j) /\ ~Completed(j) /\ req[j] = "202" BY <1>1, <1>2, Holding DEF RInv
  <1>4. /\ wpc' = wpc /\ wjob' = wjob /\ UNCHANGED <<jobs, req, apiCanceled>>
        /\ pages'[j] = pages[j] + 1 /\ emitted'[j] = Append(emitted[j], "FETCH_DONE")
        /\ local'[w] = PageSucceeded(local[w])
    BY <1>1, <1>2 DEF HandleURLSucceeded, TypeOK, Emit, RecordPage
  <1>5. local[w] \in Locals /\ pages[j] \in Nat /\ NumURLs[j] \in Nat /\ jobs[j] \in JobRecord
    BY <1>1, URLsAssumption DEF TypeOK
  <1>6. /\ local[w].next \in Nat /\ local[w].counters.succeeded \in Nat
        /\ local[w].counters.failed \in Nat
    BY <1>5, LocalFields
  <1>7. /\ local'[w].next = local[w].next + 1
        /\ local'[w].counters.succeeded = local[w].counters.succeeded + 1
        /\ local'[w].counters.failed = local[w].counters.failed
    BY <1>4, <1>5, PageFacts
  <1>8. /\ emitted[j] \in Seq(Stages) /\ "FETCH_DONE" \in Stages /\ "FETCH_DONE" \notin Completions
        /\ Len(emitted[j]) = 1 + local[w].counters.succeeded
        /\ local[w].counters.succeeded <= pages[j]
    BY <1>1, <1>2, Labels DEF TypeOK, WorkerPart, CountInv
  <1>9. Len(emitted'[j]) = 2 + local[w].counters.succeeded
    BY <1>4, <1>6, <1>8, AppendProperties
  <1>10. WorkerPart(w)'
    <2>1. wpc'[w] = "loop" /\ wjob'[w] = j BY <1>1, <1>2, <1>4
    <2>2. LoopInv(w)' BY <1>1, <1>2, <1>5, <1>6, <1>7, <2>1 DEF WorkerPart, LoopInv
    <2>3. CountInv(w)'
      <3>1. /\ Len(emitted'[j]) = 1 + local'[w].counters.succeeded
            /\ local'[w].counters.succeeded <= pages'[j]
        <4>1. PICK n \in Nat : n = local[w].counters.succeeded BY <1>6
        <4>2. PICK p \in Nat : p = pages[j] BY <1>5
        <4>3. Len(emitted'[j]) = 2 + n /\ local'[w].counters.succeeded = n + 1 /\ pages'[j] = p + 1 /\ n <= p
          BY <1>4, <1>7, <1>8, <1>9, <4>1, <4>2
        <4> QED BY <4>3
      <3> QED BY <2>1, <3>1 DEF CountInv
    <2> QED BY <2>1, <2>2, <2>3 DEF WorkerPart, FreshInv, FinalInv, WrittenInv
  <1>11. Events(emitted'[j])
    <2>1. Events(emitted[j]) /\ emitted[j] # <<>> BY <1>3, <1>6, <1>8, EmptySeq DEF JobPart
    <2>2. emitted[j][Len(emitted[j])] \notin Completions BY <1>3, <2>1 DEF Completed
    <2>3. Len(emitted[j]) > 0 BY <1>6, <1>8
    <2>4. Events(Append(emitted[j], "FETCH_DONE"))
      BY <1>6, <1>8, <2>1, <2>2, <2>3, EventsAppend
    <2> QED BY <1>4, <2>4
  <1>12. ~Completed(j)' BY <1>1, <1>2, <1>8, EmitFacts DEF HandleURLSucceeded, TypeOK
  <1>13. CountersOf(j)'
    <2>1. jobs[j].counters.succeeded \in Nat BY <1>5, RecordFields
    <2> QED BY <1>3, <1>4, <1>5, <2>1 DEF JobPart, CountersOf
  <1>14. ~Written(j) BY <1>1, <1>2, OwnWritten
  <1>15. JobPart(j)' BY <1>3, <1>4, <1>11, <1>12, <1>13, <1>14, JobOpen DEF JobPart, OpenInv
  <1> QED BY <1>2, <1>10, <1>15 DEF OwnKept

\* The final status and error text follow from the counters.
LEMMA OwnDerive ==
  ASSUME IInv, TypeOK', RInv, NEW w \in Workers, DeriveFinalStatus(w)
  PROVE  OwnKept(w)
  <1>1. /\ TypeOK /\ WorkerPart(w) /\ wpc[w] = "loop" /\ local[w].next > NumURLs[wjob[w]]
        /\ WorkerStep(w)
    BY DEF IInv, RInv, DeriveFinalStatus, At, WorkerStep
  <1>2. PICK j \in Jobs : j = wjob[w] BY <1>1, Holding
  <1>3. JobPart(j) /\ ~Completed(j) BY <1>1, <1>2, Holding DEF RInv
  <1>4. wpc'[w] = "final" /\ wjob' = wjob /\ UNCHANGED <<jobs, pages, req, apiCanceled, emitted>>
    BY <1>1 DEF DeriveFinalStatus, TypeOK, storeVars
  <1>5. /\ local'[w].status = FinalStatus(JobCtxDone(w), local[w].counters)
        /\ local'[w].errText = FinalErrText(local[w].counters, local[w].errText)
        /\ local'[w].counters = local[w].counters
    BY <1>1 DEF DeriveFinalStatus, TypeOK, Locals
  <1>6. local[w] \in Locals /\ pages[j] \in Nat /\ NumURLs[j] \in Nat
    BY <1>1, URLsAssumption DEF TypeOK
  <1>7. /\ local[w].next \in Nat /\ local[w].counters.succeeded \in Nat
        /\ local[w].counters.failed \in Nat
    BY <1>6, LocalFields
  <1>8. FinalInv(w)'
    <2>1. local[w].counters.succeeded + local[w].counters.failed <= NumURLs[j]
      BY <1>1, <1>2, <1>6, <1>7 DEF WorkerPart, LoopInv
    <2>2. /\ local'[w].status = "succeeded" => local[w].counters.succeeded > 0
          /\ local'[w].status = "failed" => local[w].counters.succeeded = 0
      BY <1>5, <1>7 DEF FinalStatus
    <2>3. local[w].counters.succeeded = 0 => local'[w].errText # "none"
      BY <1>5 DEF FinalErrText
    <2> QED BY <1>2, <1>4, <1>5, <2>1, <2>2, <2>3 DEF FinalInv
  <1>9. FreshInv(w)' /\ LoopInv(w)' /\ WrittenInv(w)' BY <1>4 DEF FreshInv, LoopInv, WrittenInv
  <1>10. CountInv(w)' BY <1>1, <1>2, <1>4, <1>5 DEF WorkerPart, CountInv
  <1>11. ~Completed(j)' BY <1>3, <1>4 DEF Completed
  <1>12. Written(j)' <=> Written(j) BY <1>1, <1>2, <1>4, <1>11, OwnWritten
  <1>13. JobPart(j)' BY <1>1, <1>3, <1>4, <1>6, <1>12, JobKept
  <1> QED BY <1>2, <1>8, <1>9, <1>10, <1>13 DEF OwnKept, WorkerPart

\* The record gets the final status, error text and counters.
LEMMA OwnFinish ==
  ASSUME IInv, TypeOK', RInv, NEW w \in Workers, FinishJob(w)
  PROVE  OwnKept(w)
  <1>1. TypeOK /\ WorkerPart(w) /\ wpc[w] = "final" /\ WorkerStep(w)
    BY DEF IInv, RInv, FinishJob, At, WorkerStep
  <1>2. PICK j \in Jobs : j = wjob[w] BY <1>1, Holding
  <1>3. JobPart(j) /\ ~Completed(j) /\ req[j] = "202" /\ jobs[j].status # "absent"
    BY <1>1, <1>2, Holding DEF RInv
  <1>4. /\ wpc'[w] = "complete" /\ wjob' = wjob /\ UNCHANGED <<local, pages, req, apiCanceled, emitted>>
        /\ jobs' = UpdateJobStatus(jobs, j, local[w].status, local[w].errText, local[w].counters)
        /\ jobs \in [Jobs -> JobRecord] /\ local[w] \in Locals
    BY <1>1, <1>2 DEF FinishJob, TypeOK
  <1>5. local[w].status \in Terminal BY <1>4, LocalFields
  <1>6. /\ jobs'[j].status = local[w].status /\ jobs'[j].errText = local[w].errText
        /\ jobs'[j].counters = local[w].counters /\ jobs'[j].finished
    BY <1>3, <1>4, <1>5, UpdateRecord, SMT
  <1>7. FinalInv(w) /\ CountInv(w) BY <1>1 DEF WorkerPart
  <1>8. FreshInv(w)' /\ LoopInv(w)' BY <1>4 DEF FreshInv, LoopInv
  <1>9. FinalInv(w)' /\ CountInv(w)' BY <1>1, <1>4, <1>7 DEF FinalInv, CountInv
  <1>10. WrittenInv(w)' BY <1>2, <1>4, <1>6, Zenon DEF WrittenInv
  <1>11. CountersOf(j)' BY <1>1, <1>2, <1>4, <1>6, <1>7 DEF CountersOf, FinalInv, CountInv
  <1>12. Written(j)' BY <1>1, <1>2, <1>4, OwnWritten
  <1>13. ~Completed(j)' /\ Events(emitted'[j]) BY <1>3, <1>4 DEF Completed, JobPart
  <1>14. JobPart(j)' BY <1>3, <1>4, <1>11, <1>12, <1>13, JobOpen
  <1> QED BY <1>2, <1>8, <1>9, <1>10, <1>14 DEF OwnKept, WorkerPart

\* The completion is the last event, and announces what the record says.
LEMMA OwnComplete ==
  ASSUME IInv, TypeOK', RInv, NEW w \in Workers, EmitJobCompletion(w)
  PROVE  OwnKept(w)
  <1>1. TypeOK /\ WorkerPart(w) /\ wpc[w] = "complete" /\ WorkerStep(w)
    BY DEF IInv, RInv, EmitJobCompletion, At, WorkerStep
  <1>2. PICK j \in Jobs : j = wjob[w] BY <1>1, Holding
  <1>3. JobPart(j) /\ ~Completed(j) /\ req[j] = "202" BY <1>1, <1>2, Holding DEF RInv
  <1>4. PICK s : s = stageFromStatus(local[w].status) OBVIOUS
  <1>5. /\ wpc'[w] = "dequeue" /\ local'[w] = FreshLocals
        /\ UNCHANGED <<jobs, pages, req, apiCanceled>>
        /\ emitted'[j] = Append(emitted[j], s) /\ Emit(j, s)
        /\ emitted \in [Jobs -> Seq(Stages)]
    BY <1>1, <1>2, <1>4 DEF EmitJobCompletion, TypeOK, Emit, storeVars
  <1>6. s \in Stages /\ s \in Completions /\ s # "JOB_START" /\ (s = "JOB_DONE" <=> local[w].status = "succeeded")
    BY <1>4, Labels DEF stageFromStatus
  <1>7. /\ local[w].counters.succeeded \in Nat /\ local[w].status \in Terminal
    BY <1>1, LocalFields DEF TypeOK
  <1>8. /\ Len(emitted[j]) = 1 + local[w].counters.succeeded
        /\ local[w].status = "succeeded" => local[w].counters.succeeded > 0
    BY <1>1, <1>2 DEF WorkerPart, CountInv, FinalInv
  <1>9. WorkerPart(w)'
    BY <1>5 DEF WorkerPart, FreshInv, LoopInv, FinalInv, CountInv, WrittenInv
  <1>10. Events(emitted'[j])
    <2>1. Events(emitted[j]) /\ emitted[j] # <<>> BY <1>3, <1>7, <1>8, EmptySeq DEF JobPart
    <2>2. emitted[j][Len(emitted[j])] \notin Completions BY <1>3, <2>1 DEF Completed
    <2>3. Len(emitted[j]) > 0 /\ (s = "JOB_DONE" => Len(emitted[j]) >= 2) BY <1>6, <1>7, <1>8
    <2>4. emitted[j] \in Seq(Stages) BY <1>5
    <2>5. Events(Append(emitted[j], s)) BY <1>6, <2>1, <2>2, <2>3, <2>4, EventsAppend
    <2> QED BY <1>5, <2>5
  <1>11. Completed(j)' BY <1>5, <1>6, EmitFacts
  <1>12. OpenInv(j)' BY <1>3, <1>5, <1>11 DEF OpenInv, Written
  <1>13. CountersOf(j)' BY <1>3, <1>5 DEF JobPart, CountersOf
  <1>14. CompletionOf(j)'
    <2>1. Len(emitted'[j]) = 2 + local[w].counters.succeeded /\ emitted'[j][Len(emitted'[j])] = s
      BY <1>5, <1>6, <1>7, <1>8, AppendProperties
    <2>2. j \notin apiCanceled =>
            /\ jobs[j].status = local[w].status /\ jobs[j].finished
            /\ jobs[j].counters = local[w].counters
      BY <1>1, <1>2, Zenon DEF WorkerPart, WrittenInv
    <2>3. j \notin apiCanceled =>
            /\ isTerminal(jobs'[j].status)
            /\ (jobs'[j].status = "succeeded") <=> (emitted'[j][Len(emitted'[j])] = "JOB_DONE")
            /\ jobs'[j].counters.succeeded = Len(emitted'[j]) - 2
      BY <1>5, <1>6, <1>7, <2>1, <2>2 DEF isTerminal
    <2>4. jobs' = jobs /\ apiCanceled' = apiCanceled BY <1>5
    <2> QED BY <2>2, <2>3, <2>4, Zenon DEF CompletionOf
  <1>15. Events(emitted[j])' BY <1>10 DEF Events
  <1>16. JobPart(j)' BY <1>12, <1>13, <1>14, <1>15 DEF JobPart
  <1> QED BY <1>2, <1>9, <1>16 DEF OwnKept

-----------------------------------------------------------------------------
(* The invariant.                                                          *)

\* Every step of a worker keeps the parts of all workers and of all jobs.
LEMMA InsideStep ==
  ASSUME IInv, TypeOK', RInv, NEW w \in Workers, WorkerStep(w) \/ JobDeadline(w)
  PROVE  (\A v \in Workers : WorkerPart(v)') /\ (\A j \in Jobs : JobPart(j)')
  <1>1. TypeOK BY DEF IInv
  <1>2. OwnKept(w)
    BY OwnTake, OwnStart, OwnFail, OwnRun, OwnPage, OwnSuccess, OwnDerive, OwnFinish,
       OwnComplete, OwnDeadline
    DEF WorkerStep, HandleURL
  <1>3. ASSUME NEW v \in Workers, v # w PROVE WorkerPart(v)'
    <2>1. wpc'[v] = wpc[v] /\ wjob'[v] = wjob[v] /\ local'[v] = local[v] /\ UNCHANGED apiCanceled
      BY <1>3, StepIsLocal
    <2>2. WorkerPart(v) /\ local[v] \in Locals BY <1>1 DEF RInv, TypeOK
    <2>3. ASSUME wpc[v] \notin {"dequeue", "stopped"}
          PROVE  /\ emitted'[wjob[v]] = emitted[wjob[v]]
                 /\ pages[wjob[v]] \in Nat /\ pages'[wjob[v]] \in Nat /\ pages'[wjob[v]] >= pages[wjob[v]]
                 /\ jobs'[wjob[v]] = jobs[wjob[v]]
      <3>1. PICK j \in Jobs : j = wjob[v] BY <2>3, Holding
      <3>2. j # wjob[w] BY <1>3, <2>3, <3>1, Holding
      <3>3. emitted'[j] = emitted[j] /\ pages'[j] = pages[j] /\ jobs'[j] = jobs[j]
        BY <3>2, StepIsLocal
      <3>4. pages[j] \in Nat BY <1>1 DEF TypeOK
      <3> QED BY <3>1, <3>3, <3>4
    <2> QED BY <2>1, <2>2, <2>3, WorkerKept
  <1>4. ASSUME NEW j \in Jobs, j # wjob[w] PROVE JobPart(j)'
    <2>1. /\ emitted'[j] = emitted[j] /\ pages'[j] = pages[j] /\ jobs'[j] = jobs[j]
          /\ UNCHANGED <<req, apiCanceled>>
      BY <1>4, StepIsLocal
    <2>2. Written(j)' <=> Written(j) BY <1>4, OthersWritten
    <2>3. pages[j] \in Nat /\ JobPart(j) BY <1>1 DEF TypeOK, RInv
    <2> QED BY <1>1, <2>1, <2>2, <2>3, JobKept
  <1> QED BY <1>2, <1>3, <1>4 DEF OwnKept

\* Rows are only added.
LEMMA PagesGrow ==
  ASSUME TypeOK, \A w \in Workers : WorkerInv(w), [Next]_vars
  PROVE  \A j \in Jobs : pages'[j] >= pages[j]
  <1>1. pages \in [Jobs -> Nat] BY DEF TypeOK
  <1>2. UNCHANGED pages \/ \E w \in Workers : pages' = RecordPage(pages, wjob[w])
    BY DEF Next, vars, Submit, AnswerSubmit, Enqueue, EnqueueDeadline, EnqueueCanceled,
         EnqueuePanics, RejectSubmit, CancelJob, GetJobResultJob, GetJobResultPages, WorkerStep,
         Dequeue, StopWorker, EmitJobStart, FailWithoutProbe, MarkRunning, HandleURL,
         HandleURLBlocked, HandleURLWaitFailed, HandleURLFailed, HandleURLSucceeded, BreakLoop,
         DeriveFinalStatus, FinishJob, EmitJobCompletion, JobDeadline, Signal, CloseQueue, Exit,
         storeVars
  <1>3. CASE UNCHANGED pages BY <1>1, <1>3
  <1>4. ASSUME NEW w \in Workers, pages' = RecordPage(pages, wjob[w])
        PROVE  \A j \in Jobs : pages'[j] >= pages[j]
    BY <1>1, <1>4 DEF RecordPage
  <1> QED BY <1>2, <1>3, <1>4

\* A reader takes its record while the rows it counts are there, and the rows stay.
LEMMA ReaderStep ==
  ASSUME IInv, TypeOK', RInv, [Next]_vars, NEW q \in Readers
  PROVE  ReadInv(q)'
  <1>1. TypeOK /\ ReadInv(q) /\ ReaderInv(q) BY DEF IInv, RInv
  <1>2. \A j \in Jobs : pages'[j] >= pages[j] BY PagesGrow DEF IInv
  <1>3. reader \in [Readers -> Reads] /\ pages \in [Jobs -> Nat] /\ pages' \in [Jobs -> Nat]
        /\ jobs \in [Jobs -> JobRecord]
    BY <1>1 DEF TypeOK
  <1>4. reader[q].job.counters.succeeded \in Nat
    <2>1. reader[q].job \in JobRecord BY <1>3 DEF Reads
    <2> QED BY <2>1, RecordFields
  <1>5. CASE reader'[q] = reader[q]
    BY <1>1, <1>2, <1>3, <1>4, <1>5 DEF ReadInv, ReaderInv
  <1>6. ASSUME NEW j \in Jobs, GetJobResultJob(q, j) PROVE ReadInv(q)'
    <2>1. /\ reader'[q].pc = "listing" /\ reader'[q].of = j /\ reader'[q].job = jobs[j]
          /\ UNCHANGED pages
      BY <1>3, <1>6 DEF GetJobResultJob, storeVars
    <2>2. jobs[j].counters.succeeded <= pages[j] BY DEF RInv, JobPart, CountersOf
    <2> QED BY <2>1, <2>2 DEF ReadInv
  <1>7. CASE GetJobResultPages(q)
    <2>1. reader[q].pc = "listing" /\ reader[q].of \in Jobs
      BY <1>1, <1>7 DEF GetJobResultPages, ReaderInv
    <2>2. /\ reader'[q].pc = "done" /\ reader'[q].job = reader[q].job
          /\ reader'[q].pages = pages[reader[q].of]
      BY <1>3, <1>7 DEF GetJobResultPages
    <2> QED BY <1>1, <2>1, <2>2 DEF ReadInv
  <1>8. \/ UNCHANGED reader
        \/ \E r \in Readers : GetJobResultPages(r) \/ \E j \in Jobs : GetJobResultJob(r, j)
    <2>1. ASSUME NEW w \in Workers, WorkerStep(w) \/ JobDeadline(w) PROVE UNCHANGED reader
      BY <2>1, StepIsLocal
    <2> QED
      BY <2>1 DEF Next, vars, Submit, AnswerSubmit, Enqueue, EnqueueDeadline, EnqueueCanceled,
           EnqueuePanics, RejectSubmit, CancelJob, Signal, CloseQueue, Exit
  <1>9. \/ reader'[q] = reader[q] \/ GetJobResultPages(q)
        \/ \E j \in Jobs : GetJobResultJob(q, j)
    <2>1. ASSUME NEW r \in Readers, r # q,
                 GetJobResultPages(r) \/ \E j \in Jobs : GetJobResultJob(r, j)
          PROVE  reader'[q] = reader[q]
      BY <1>3, <2>1 DEF GetJobResultPages, GetJobResultJob
    <2> QED BY <1>8, <2>1
  <1> QED BY <1>5, <1>6, <1>7, <1>9

\* Nothing has been counted, emitted or read before the first request.
LEMMA RInvInit == Init => RInv
  <1> SUFFICES ASSUME Init PROVE RInv OBVIOUS
  <1>1. /\ jobs = [j \in Jobs |-> NoRecord] /\ pages = [j \in Jobs |-> 0]
        /\ wpc = [w \in Workers |-> "dequeue"] /\ local = [w \in Workers |-> FreshLocals]
        /\ emitted = [j \in Jobs |-> <<>>] /\ reader = [r \in Readers |-> NoRead]
    BY Zenon DEF Init
  <1>2. ASSUME NEW w \in Workers PROVE WorkerPart(w)
    <2>1. wpc[w] = "dequeue" /\ local[w] = FreshLocals BY <1>1, Zenon
    <2> QED BY <2>1 DEF WorkerPart, FreshInv, LoopInv, FinalInv, CountInv, WrittenInv
  <1>3. ASSUME NEW j \in Jobs PROVE JobPart(j)
    <2>1. jobs[j] = NoRecord /\ pages[j] = 0 /\ emitted[j] = <<>> BY <1>1, Zenon
    <2>2. /\ NoRecord.status = "absent" /\ NoRecord.counters.succeeded = 0
          /\ NoRecord.counters.failed = 0
      BY DEF NoRecord, ZeroCounters
    <2>3. Len(emitted[j]) = 0 BY <2>1, EmptySeq
    <2>4. OpenInv(j) BY <2>1, <2>2 DEF OpenInv, isTerminal, Terminal
    <2>5. Events(emitted[j]) BY <2>3 DEF Events
    <2>6. CompletionOf(j) BY <2>1 DEF CompletionOf, Completed
    <2>7. CountersOf(j) BY <2>1, <2>2, URLsAssumption DEF CountersOf
    <2> QED BY <2>4, <2>5, <2>6, <2>7 DEF JobPart
  <1>4. ASSUME NEW r \in Readers PROVE ReadInv(r)
    <2>1. NoRead.pc = "idle" BY DEF NoRead
    <2>2. reader[r] = NoRead BY <1>1, Zenon
    <2> QED BY <2>1, <2>2 DEF ReadInv
  <1> QED BY <1>2, <1>3, <1>4 DEF RInv

\* Every step of the service keeps the invariant.
LEMMA RInvStep == IInv /\ RInv /\ [Next]_vars => RInv'
  <1> SUFFICES ASSUME IInv, RInv, [Next]_vars PROVE RInv' OBVIOUS
  <1>1. IInv' BY InvStep
  <1>2. TypeOK /\ TypeOK' BY <1>1 DEF IInv
  <1>3. (\A w \in Workers : WorkerPart(w)') /\ (\A j \in Jobs : JobPart(j)')
    BY <1>2, Inside, OutsideStep, InsideStep, ExitStep
  <1>4. \A r \in Readers : ReadInv(r)' BY <1>2, ReaderStep
  <1> QED BY <1>3, <1>4 DEF RInv

\* It holds in every reachable state.
THEOREM RecordInvariance == Spec => [](IInv /\ RInv)
  BY Invariance, RInvInit, RInvStep, PTL DEF Spec

\* The stages passed to the progress emitter are a start, the pages and one
\* completion, whatever the workers, deadlines and the shutdown do (processJob,
\* handleURL, emitJobCompletion).
THEOREM EventOrder == Spec => []EventsWellFormed
  <1>1. RInv => EventsWellFormed BY DEF RInv, JobPart, Events, EventsWellFormed
  <1> QED BY RecordInvariance, <1>1, PTL

\* Unless the API canceled the job, its completion event announces what its
\* record says (deriveFinalStatus, updateJobStatus, stageFromStatus).
THEOREM CompletionRecord == Spec => []CompletionMatchesRecord
  <1>1. RInv => CompletionMatchesRecord
    BY Zenon DEF RInv, JobPart, CompletionOf, CompletionMatchesRecord
  <1> QED BY RecordInvariance, <1>1, PTL

\* The counters of a record never exceed the URLs of the job or its page rows, and
\* agree with its status (handleURL, deriveFinalStatus, cancelJob).
THEOREM RecordCounters == Spec => []CountersMatchPages
  <1>1. RInv => CountersMatchPages BY DEF RInv, JobPart, CountersOf, CountersMatchPages
  <1> QED BY RecordInvariance, <1>1, PTL

\* getJobResult never shows a record that counts more pages than it lists.
THEOREM ResultCounters == Spec => []ResultCoversCounters
  <1>1. RInv => ResultCoversCounters BY DEF RInv, ReadInv, ResultCoversCounters
  <1> QED BY RecordInvariance, <1>1, PTL

\* What happens to the record of a job in one step: nothing, unless the API
\* cancels it, its submission begins, or the worker that holds it has not yet
\* written its final record.
LEMMA TerminalKept ==
  ASSUME IInv, RInv, [Next]_vars, NEW j \in Jobs, isTerminal(jobs[j].status), j \notin apiCanceled'
  PROVE  jobs'[j] = jobs[j]
  <1>1. TypeOK BY DEF IInv
  <1>2. CASE Outside
    <2>1. ASSUME NEW k \in Jobs, Submit(k) PROVE jobs'[j] = jobs[j]
      <3>1. k # j BY <2>1 DEF Submit, RInv, JobPart, OpenInv, isTerminal, Terminal
      <3> QED BY <1>1, <2>1, <3>1 DEF Submit, CreateJob, TypeOK
    <2>2. ASSUME NEW k \in Jobs, CancelJob(k) PROVE jobs'[j] = jobs[j]
      <3>1. k # j BY <2>2 DEF CancelJob
      <3> QED BY <1>1, <2>2, <3>1 DEF CancelJob, UpdateJobStatus, TypeOK
    <2> QED BY <1>2, <2>1, <2>2 DEF Outside
  <1>3. ASSUME NEW w \in Workers, WorkerStep(w) \/ JobDeadline(w) PROVE jobs'[j] = jobs[j]
    <2>1. CASE j # wjob[w] BY <1>3, <2>1, StepIsLocal
    <2>2. CASE j = wjob[w] /\ wpc[w] # "complete"
      <3>1. wpc[w] \notin {"dequeue", "stopped"}
        BY <2>2, NoJobAssumption DEF IInv, WorkerInv
      <3>2. ~Written(j) BY <1>3, <2>2, <3>1, OwnWritten
      <3>3. j \notin apiCanceled BY <1>3, StepIsLocal
      <3> QED BY <3>2, <3>3 DEF RInv, JobPart, OpenInv
    <2>3. CASE wpc[w] = "complete"
      BY <1>3, <2>3
      DEF WorkerStep, Dequeue, StopWorker, EmitJobStart, FailWithoutProbe, MarkRunning, HandleURL,
          HandleURLBlocked, HandleURLWaitFailed, HandleURLFailed, HandleURLSucceeded, NextURL,
          BreakLoop, DeriveFinalStatus, FinishJob, EmitJobCompletion, JobDeadline, At, storeVars
    <2> QED BY <2>1, <2>2, <2>3
  <1>4. CASE Exit BY <1>4 DEF Exit, storeVars
  <1> QED BY <1>1, <1>2, <1>3, <1>4, Inside

\* Unless the API cancels the job, a terminal record never changes again
\* (UpdateJobStatus is called with a terminal status by one worker, once).
THEOREM TerminalRecord == Spec => TerminalIsFinal
  <1>1. IInv /\ RInv /\ [Next]_vars =>
          [\A j \in Jobs : isTerminal(jobs[j].status) /\ j \notin apiCanceled' => jobs'[j] = jobs[j]]_vars
    BY TerminalKept
  <1> QED BY RecordInvariance, <1>1, PTL DEF Spec, TerminalIsFinal

-----------------------------------------------------------------------------
(* The refinement.  The maps that stand for the variables of JobLifecycle   *)
(* change at the job a step is about and nowhere else.                      *)

\* A worker crawls job j.
Active(j) == \E w \in Workers : HeldBy(w, j) /\ wpc[w] \in {"loop", "final"}

\* How far the job of a worker has got, by the place the worker is at.
Place(pc) == IF pc = "complete" THEN "done" ELSE IF pc \in {"loop", "final"} THEN "running" ELSE "waiting"

\* While the process lives, RunOf looks at the record, at Written and at Active,
\* before and after a step.
LEMMA RunParts ==
  ASSUME NEW j \in Jobs, phase # "exited", phase' # "exited"
  PROVE  /\ jobs[j].status = "absent" => RunOf(j) = "none"
         /\ jobs[j].status # "absent" =>
              RunOf(j) = IF Written(j) THEN "done" ELSE IF Active(j) THEN "running" ELSE "waiting"
         /\ jobs'[j].status # "absent" =>
              RunOf(j)' = IF Written(j)' THEN "done" ELSE IF Active(j)' THEN "running" ELSE "waiting"
         /\ jobs'[j].status = "absent" => RunOf(j)' = "none"
  BY DEF RunOf, JobExists, Written, Active

\* What a step leaves of the job of another worker.
LEMMA OthersRun ==
  ASSUME IInv, NEW w \in Workers, WorkerStep(w) \/ JobDeadline(w), NEW k \in Jobs, k # wjob[w]
  PROVE  jobs'[k].status = jobs[k].status /\ RunOf(k)' = RunOf(k)
  <1>1. jobs'[k] = jobs[k] BY StepIsLocal
  <1>2. Written(k)' <=> Written(k) BY OthersWritten
  <1>3. \A v \in Workers : v # w => wjob'[v] = wjob[v] /\ wpc'[v] = wpc[v] BY StepIsLocal
  <1>4. wpc'[w] \in {"loop", "final"} => wjob'[w] = wjob[w]
    <2>1. /\ wpc \in [Workers -> WorkerPCs] /\ wjob \in [Workers -> Jobs \cup {NoJob}]
      BY DEF IInv, TypeOK
    <2>2. CASE MarkRunning(w) BY <2>1, <2>2 DEF MarkRunning
    <2>3. CASE ~MarkRunning(w)
      BY <2>1, <2>3 DEF WorkerStep, Dequeue, StopWorker, EmitJobStart, FailWithoutProbe,
           HandleURL, HandleURLBlocked, HandleURLWaitFailed, HandleURLFailed, HandleURLSucceeded,
           BreakLoop, DeriveFinalStatus, FinishJob, EmitJobCompletion, JobDeadline, At
    <2> QED BY <2>2, <2>3
  <1>5. Active(k)' <=> Active(k) BY <1>3, <1>4 DEF Active, HeldBy
  <1> QED BY <1>1, <1>2, <1>5, StepAlive, RunParts

\* And of its own job, while it holds it.
LEMMA OwnRunOf ==
  ASSUME IInv, IInv', NEW w \in Workers, WorkerStep(w) \/ JobDeadline(w),
         wpc[w] \notin {"dequeue", "stopped"}, NEW j \in Jobs, j = wjob[w]
  PROVE  RunOf(j) = Place(wpc[w]) /\ (wjob'[w] = j => RunOf(j)' = Place(wpc'[w]))
  <1>1. jobs[j].status # "absent" /\ \A v \in Workers : v # w => wjob[v] # j BY Holding
  <1>2. \A v \in Workers : v # w => wjob'[v] = wjob[v] BY StepIsLocal
  <1>3. (Active(j) <=> wpc[w] \in {"loop", "final"}) /\ (Written(j) <=> wpc[w] = "complete")
    BY <1>1, OwnWritten DEF Active, HeldBy
  <1>4. RunOf(j) = Place(wpc[w]) BY <1>1, <1>3, StepAlive, RunParts DEF Place
  <1>5. ASSUME wjob'[w] = j PROVE RunOf(j)' = Place(wpc'[w])
    <2>1. ~Completed(j)' /\ req'[j] = "202" BY <1>5 DEF IInv, AtMostOneHolder, HeldBy
    <2>2. jobs'[j].status # "absent" BY <2>1 DEF IInv, RequestInv
    <2>3. Active(j)' <=> wpc'[w] \in {"loop", "final"} BY <1>1, <1>2, <1>5 DEF Active, HeldBy
    <2>4. Written(j)' <=> wpc'[w] = "complete" BY <1>5, <2>1, OwnWritten
    <2> QED BY <2>2, <2>3, <2>4, StepAlive, RunParts DEF Place
  <1> QED BY <1>4, <1>5

\* A step that leaves every status and every run alone is a stutter of the
\* abstract specification.
LEMMA Stutter ==
  ASSUME \A k \in Jobs : jobs'[k].status = jobs[k].status /\ RunOf(k)' = RunOf(k)
  PROVE  [Lifecycle!Next]_<<[j \in Jobs |-> jobs[j].status], [j \in Jobs |-> RunOf(j)]>>
  <1>1. [j \in Jobs |-> jobs[j].status]' = [j \in Jobs |-> jobs[j].status] OBVIOUS
  <1>2. [j \in Jobs |-> RunOf(j)]' = [j \in Jobs |-> RunOf(j)] OBVIOUS
  <1> QED BY <1>1, <1>2

\* A step that changes them for one job changes the two maps at that job.
LEMMA MapStep ==
  ASSUME NEW j \in Jobs, NEW s, NEW x, jobs'[j].status = s, RunOf(j)' = x,
         \A k \in Jobs : k # j => jobs'[k].status = jobs[k].status /\ RunOf(k)' = RunOf(k)
  PROVE  /\ [k \in Jobs |-> jobs[k].status]' = [[k \in Jobs |-> jobs[k].status] EXCEPT ![j] = s]
         /\ [k \in Jobs |-> RunOf(k)]' = [[k \in Jobs |-> RunOf(k)] EXCEPT ![j] = x]
         /\ [k \in Jobs |-> RunOf(k)][j] = RunOf(j)
  OBVIOUS

\* A request's step is a submission, a cancel or nothing.
LEMMA OutsideRefines ==
  ASSUME IInv, IInv', RInv, Outside
  PROVE  [Lifecycle!Next]_<<[j \in Jobs |-> jobs[j].status], [j \in Jobs |-> RunOf(j)]>>
  <1>1. /\ TypeOK /\ UNCHANGED <<wpc, wjob, local, emitted, pages>>
        /\ phase' = "exited" <=> phase = "exited"
    BY DEF IInv, Outside
  <1>2. \A k \in Jobs : (Written(k)' <=> Written(k)) /\ (Active(k)' <=> Active(k))
    BY <1>1 DEF Written, Active, Completed, HeldBy
  <1>3. ASSUME NEW k \in Jobs, jobs'[k] = jobs[k]
        PROVE  jobs'[k].status = jobs[k].status /\ RunOf(k)' = RunOf(k)
    <2>1. CASE phase = "exited" BY <1>1, <1>3, <2>1 DEF RunOf
    <2>2. CASE phase # "exited" BY <1>1, <1>2, <1>3, <2>2, RunParts
    <2> QED BY <2>1, <2>2
  <1>4. CASE UNCHANGED jobs BY <1>3, <1>4, Stutter
  <1>5. ASSUME NEW j \in Jobs, Submit(j) PROVE Lifecycle!Submit(j)
    <2>1. \A k \in Jobs : k # j => jobs'[k] = jobs[k] BY <1>1, <1>5 DEF Submit, CreateJob, TypeOK
    <2>2. jobs'[j].status = "queued" BY <1>1, <1>5 DEF Submit, CreateJob, TypeOK, NoRecord
    <2>3. phase # "exited" /\ phase' # "exited" BY <1>1, <1>5 DEF Submit, Alive
    <2>4. req[j] = "none" /\ jobs[j].status = "absent" BY <1>5 DEF Submit, RInv, JobPart, OpenInv
    <2>5. RunOf(j) = "none" BY <2>4, <2>3, RunParts
    <2>6. emitted[j] = <<>> /\ \A w \in Workers : ~HeldBy(w, j)
      BY <2>4 DEF IInv, RequestInv, AtMostOneHolder
    <2>7. ~Written(j)' /\ ~Active(j)' BY <1>2, <2>6, <2>3 DEF Written, Active, Completed
    <2>8. RunOf(j)' = "waiting" BY <2>2, <2>7, <2>3, RunParts
    <2> QED BY <1>3, <2>1, <2>2, <2>5, <2>8, MapStep DEF Lifecycle!Submit
  <1>6. ASSUME NEW j \in Jobs, CancelJob(j) PROVE Lifecycle!Cancel(j)
    <2>1. /\ jobs' = UpdateJobStatus(jobs, j, "canceled", "canceled_via_API", ZeroCounters)
          /\ jobs[j].status # "absent" /\ jobs \in [Jobs -> JobRecord]
      BY <1>1, <1>6 DEF CancelJob, JobExists, TypeOK
    <2>2. jobs'[j].status = "canceled" /\ \A k \in Jobs : k # j => jobs'[k] = jobs[k]
      BY <2>1, UpdateRecord, SMT
    <2>3. phase # "exited" /\ phase' # "exited" BY <1>1, <1>6 DEF CancelJob, Alive
    <2>4. RunOf(j) \notin {"none", "gone"} /\ RunOf(j)' = RunOf(j)
      BY <1>2, <2>1, <2>2, <2>3, RunParts
    <2>5. \A k \in Jobs : RunOf(k)' = RunOf(k) BY <1>3, <2>2, <2>4
    <2>6. UNCHANGED [k \in Jobs |-> RunOf(k)] BY <2>5
    <2> QED BY <1>3, <2>2, <2>4, <2>6, MapStep DEF Lifecycle!Cancel
  <1> QED BY <1>4, <1>5, <1>6 DEF Outside, Lifecycle!Next

\* The exit ends every job.
LEMMA ExitRefines == Exit => Lifecycle!Stop
  <1> SUFFICES ASSUME Exit PROVE Lifecycle!Stop OBVIOUS
  <1>1. phase' = "exited" /\ UNCHANGED jobs BY DEF Exit, storeVars
  <1>2. \A j \in Jobs : RunOf(j)' = "gone" BY <1>1 DEF RunOf
  <1>3. [j \in Jobs |-> RunOf(j)]' = [j \in Jobs |-> "gone"] BY <1>2
  <1>4. UNCHANGED [j \in Jobs |-> jobs[j].status] BY <1>1
  <1> QED BY <1>3, <1>4 DEF Lifecycle!Stop

\* A worker's step starts, refuses or finishes the job it holds, or is nothing.
LEMMA InsideRefines ==
  ASSUME IInv, IInv', NEW w \in Workers, WorkerStep(w) \/ JobDeadline(w)
  PROVE  [Lifecycle!Next]_<<[j \in Jobs |-> jobs[j].status], [j \in Jobs |-> RunOf(j)]>>
  <1>1. /\ TypeOK /\ jobs \in [Jobs -> JobRecord] /\ wpc \in [Workers -> WorkerPCs]
        /\ wjob \in [Workers -> Jobs \cup {NoJob}] /\ local \in [Workers -> Locals]
    BY DEF IInv, TypeOK
  <1>2. \A k \in Jobs : k # wjob[w] => jobs'[k].status = jobs[k].status /\ RunOf(k)' = RunOf(k)
    BY OthersRun
  <1>3. CASE wpc[w] \in {"dequeue", "stopped"}
    <2>1. wjob[w] \notin Jobs BY <1>3, NoJobAssumption DEF IInv, WorkerInv
    <2> QED BY <1>2, <2>1, Stutter
  <1>4. CASE wpc[w] \notin {"dequeue", "stopped"}
    <2>1. PICK j \in Jobs : j = wjob[w] BY <1>4, Holding
    <2>2. jobs[j].status # "absent" BY <1>4, <2>1, Holding
    <2>3. RunOf(j) = Place(wpc[w]) /\ (wjob'[w] = j => RunOf(j)' = Place(wpc'[w]))
      BY <1>4, <2>1, OwnRunOf
    <2>4. ASSUME UNCHANGED jobs, wjob'[w] = j, Place(wpc'[w]) = Place(wpc[w])
          PROVE  \A k \in Jobs : jobs'[k].status = jobs[k].status /\ RunOf(k)' = RunOf(k)
      BY <1>2, <2>1, <2>3, <2>4
    <2>5. CASE EmitJobStart(w) \/ HandleURL(w) \/ BreakLoop(w) \/ DeriveFinalStatus(w) \/ JobDeadline(w)
      <3>1. UNCHANGED <<jobs, wjob>>
        BY <2>5 DEF EmitJobStart, HandleURL, HandleURLBlocked, HandleURLWaitFailed, HandleURLFailed,
             HandleURLSucceeded, BreakLoop, DeriveFinalStatus, JobDeadline, storeVars
      <3>2. \/ wpc[w] = "start" /\ wpc'[w] = "update"
            \/ UNCHANGED wpc
            \/ wpc[w] = "loop" /\ wpc'[w] = "final"
        BY <1>1, <2>5 DEF EmitJobStart, HandleURL, HandleURLBlocked, HandleURLWaitFailed, HandleURLFailed,
             HandleURLSucceeded, BreakLoop, DeriveFinalStatus, JobDeadline, At
      <3>3. Place(wpc'[w]) = Place(wpc[w]) BY <3>2 DEF Place
      <3> QED BY <2>1, <2>4, <3>1, <3>3, Stutter
    <2>6. CASE FailWithoutProbe(w)
      <3>1. /\ jobs' = UpdateJobStatus(jobs, j, "failed", "no_probe_fetcher", ZeroCounters)
            /\ wpc[w] = "update" /\ wpc'[w] = "complete" /\ wjob'[w] = j
        BY <1>1, <2>1, <2>6 DEF FailWithoutProbe, At
      <3>2. jobs'[j].status = "failed" BY <1>1, <2>2, <3>1, UpdateRecord, SMT
      <3>3. RunOf(j) = "waiting" /\ RunOf(j)' = "done" BY <2>3, <3>1 DEF Place
      <3>4. Lifecycle!Refuse(j) BY <1>2, <2>1, <3>2, <3>3, MapStep DEF Lifecycle!Refuse
      <3> QED BY <3>4 DEF Lifecycle!Next
    <2>7. CASE MarkRunning(w)
      <3>1. /\ jobs' = UpdateJobStatus(jobs, j, "running", "none", ZeroCounters)
            /\ wpc[w] = "update" /\ wpc'[w] = "loop" /\ wjob'[w] = j
        BY <1>1, <2>1, <2>2, <2>7 DEF MarkRunning, At, JobExists
      <3>2. jobs'[j].status = "running" BY <1>1, <2>2, <3>1, UpdateRecord, SMT
      <3>3. RunOf(j) = "waiting" /\ RunOf(j)' = "running" BY <2>3, <3>1 DEF Place
      <3>4. Lifecycle!Start(j) BY <1>2, <2>1, <3>2, <3>3, MapStep DEF Lifecycle!Start
      <3> QED BY <3>4 DEF Lifecycle!Next
    <2>8. CASE FinishJob(w)
      <3>1. /\ jobs' = UpdateJobStatus(jobs, j, local[w].status, local[w].errText, local[w].counters)
            /\ wpc[w] = "final" /\ wpc'[w] = "complete" /\ wjob'[w] = j
        BY <1>1, <2>1, <2>8 DEF FinishJob, At
      <3>2. jobs'[j].status = local[w].status BY <1>1, <2>2, <3>1, UpdateRecord, SMT
      <3>3. RunOf(j) = "running" /\ RunOf(j)' = "done" BY <2>3, <3>1 DEF Place
      <3>4. local[w].status \in Lifecycle!TerminalStatus
        BY <1>1, LocalFields DEF Lifecycle!TerminalStatus, Terminal
      <3>5. Lifecycle!Finish(j) BY <1>2, <2>1, <3>2, <3>3, <3>4, MapStep DEF Lifecycle!Finish
      <3> QED BY <3>5 DEF Lifecycle!Next
    <2>9. CASE EmitJobCompletion(w)
      <3>1. PICK s : s = stageFromStatus(local[w].status) OBVIOUS
      <3>2. s \in Stages /\ s \in Completions BY <3>1, Labels DEF stageFromStatus
      <3>3. Emit(j, s) /\ UNCHANGED jobs /\ wpc[w] = "complete"
        BY <2>1, <2>9, <3>1 DEF EmitJobCompletion, At, storeVars
      <3>4. Completed(j)' BY <1>1, <3>2, <3>3, EmitFacts DEF TypeOK
      <3>5. RunOf(j)' = "done" BY <2>2, <3>3, <3>4, StepAlive, RunParts DEF Written
      <3>6. RunOf(j) = "done" BY <2>3, <3>3 DEF Place
      <3> QED BY <1>2, <2>1, <3>3, <3>5, <3>6, Stutter
    <2>10. ~Dequeue(w) /\ ~StopWorker(w) BY <1>4 DEF Dequeue, StopWorker, At
    <2> QED BY <2>5, <2>6, <2>7, <2>8, <2>9, <2>10 DEF WorkerStep
  <1> QED BY <1>3, <1>4

\* The service implements JobLifecycle: a job is submitted, started and finished
\* at most once, for every number of jobs, workers and places in the queue.
THEOREM Refinement == Spec => ImplementsLifecycle
  <1>1. Init => Lifecycle!Init
    <2> SUFFICES ASSUME Init PROVE Lifecycle!Init OBVIOUS
    <2>1. jobs = [j \in Jobs |-> NoRecord] BY Zenon DEF Init
    <2>2. NoRecord.status = "absent" BY DEF NoRecord
    <2>3. phase = "serving" /\ \A j \in Jobs : jobs[j].status = "absent" BY <2>1, <2>2 DEF Init
    <2>4. \A j \in Jobs : RunOf(j) = "none" BY <2>3 DEF RunOf, JobExists
    <2> QED BY <2>3, <2>4 DEF Lifecycle!Init
  <1>2. IInv /\ IInv' /\ RInv /\ [Next]_vars =>
          [Lifecycle!Next]_<<[j \in Jobs |-> jobs[j].status], [j \in Jobs |-> RunOf(j)]>>
    <2> SUFFICES ASSUME IInv, IInv', RInv, [Next]_vars
                 PROVE  [Lifecycle!Next]_<<[j \in Jobs |-> jobs[j].status], [j \in Jobs |-> RunOf(j)]>>
      OBVIOUS
    <2>1. Outside \/ Exit \/ \E w \in Workers : WorkerStep(w) \/ JobDeadline(w)
      BY Inside DEF IInv
    <2>2. CASE Exit BY <2>2, ExitRefines DEF Lifecycle!Next
    <2> QED BY <2>1, <2>2, OutsideRefines, InsideRefines
  <1> QED BY RecordInvariance, <1>1, <1>2, PTL DEF Spec, ImplementsLifecycle, Lifecycle!Spec
=============================================================================
