---------------------------- MODULE JobLifecycle ----------------------------
(***************************************************************************)
(* What the crawler promises about one job, with no queue, no workers and  *)
(* no pages: a job is submitted once, started at most once and finished at *)
(* most once; a start always shows as "running" and a finish as a terminal *)
(* status.  A cancel request may overwrite the status at any moment, but   *)
(* it neither starts nor stops the job.  The end of the process ends every *)
(* job, wherever it is.  CrawlService implements this.                     *)
(***************************************************************************)
CONSTANT Jobs

VARIABLES status,   \* the status the API reports for each job
          run       \* how far the crawler has got with each job

TerminalStatus == {"succeeded", "failed", "canceled"}

Init ==
  /\ status = [j \in Jobs |-> "absent"]
  /\ run = [j \in Jobs |-> "none"]

Submit(j) ==
  /\ run[j] = "none"
  /\ status' = [status EXCEPT ![j] = "queued"]
  /\ run' = [run EXCEPT ![j] = "waiting"]

Start(j) ==
  /\ run[j] = "waiting"
  /\ status' = [status EXCEPT ![j] = "running"]
  /\ run' = [run EXCEPT ![j] = "running"]

Finish(j) ==
  /\ run[j] = "running"
  /\ \E s \in TerminalStatus : status' = [status EXCEPT ![j] = s]
  /\ run' = [run EXCEPT ![j] = "done"]

\* A worker that has no probe fetcher fails the job without starting it.
Refuse(j) ==
  /\ run[j] = "waiting"
  /\ status' = [status EXCEPT ![j] = "failed"]
  /\ run' = [run EXCEPT ![j] = "done"]

Cancel(j) ==
  /\ run[j] \notin {"none", "gone"}
  /\ status' = [status EXCEPT ![j] = "canceled"]
  /\ UNCHANGED run

\* The jobs are in the memory of the process; the status is the last one reported.
Stop ==
  /\ run' = [j \in Jobs |-> "gone"]
  /\ UNCHANGED status

Next ==
  \/ \E j \in Jobs : Submit(j) \/ Start(j) \/ Finish(j) \/ Refuse(j) \/ Cancel(j)
  \/ Stop

Spec == Init /\ [][Next]_<<status, run>>
=============================================================================
