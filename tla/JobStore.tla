------------------------------ MODULE JobStore ------------------------------
(***************************************************************************)
(* The in-memory job store (internal/storage/memory/job_store.go): the map *)
(* from job id to job record and the page rows of each job.  It is the     *)
(* only JobStore the application builds.  Every method holds the store's   *)
(* mutex for its whole body, so each is one operator here, applied in one  *)
(* step by the modules that own the state.                                 *)
(*                                                                         *)
(* Abstractions: a time is only "set" or "not set"; an error text is a     *)
(* member of ErrTexts; a job's page rows are counted, not listed.          *)
(***************************************************************************)
EXTENDS Naturals

CONSTANT Jobs       \* job identifiers; each is a fresh UUID of one submission

\* crawler.JobStatus; "absent" stands for a job that is not in the map.
Terminal == {"succeeded", "failed", "canceled"}
Statuses == {"absent", "queued", "running"} \cup Terminal

isTerminal(status) == status \in Terminal

\* The error texts a record can hold, one per place of the code that makes one;
\* "none" is the empty text.
ErrTexts == {"none", "canceled_via_API", "no_probe_fetcher",
             "context_done", "page_error", "no_pages_fetched"}

\* crawler.JobCounters.  Its third field, Retries, is never written.
Counters == [succeeded : Nat, failed : Nat]
ZeroCounters == [succeeded |-> 0, failed |-> 0]

JobRecord == [status : Statuses, errText : ErrTexts, counters : Counters,
              started : BOOLEAN, finished : BOOLEAN]

NoRecord == [status |-> "absent", errText |-> "none", counters |-> ZeroCounters,
             started |-> FALSE, finished |-> FALSE]

JobExists(jobs, j) == jobs[j].status # "absent"

\* CreateJob refuses an id it already has; ids are fresh, callers guard it.
CreateJob(jobs, j) == [jobs EXCEPT ![j] = [NoRecord EXCEPT !.status = "queued"]]

(* A version that leaves a record alone once it is terminal. *)
UpdateKeepsTerminal(jobs, j, status, errText, counters) ==
  IF ~JobExists(jobs, j) \/ isTerminal(jobs[j].status)
  THEN jobs
  ELSE [jobs EXCEPT ![j].status = status, ![j].errText = errText,
                    ![j].counters = counters]

\* The last writer wins: status, error text and counters are replaced whatever
\* they were.  Started is set once, Finished by every terminal status, and
\* neither is ever cleared.  An unknown job is an error and changes nothing.
UpdateJobStatus(jobs, j, status, errText, counters) ==
  IF ~JobExists(jobs, j)
  THEN jobs
  ELSE [jobs EXCEPT ![j] =
         [status   |-> status,
          errText  |-> errText,
          counters |-> counters,
          started  |-> @.started \/ status = "running",
          finished |-> @.finished \/ isTerminal(status)]]

RecordPage(pages, j) == [pages EXCEPT ![j] = @ + 1]
=============================================================================
