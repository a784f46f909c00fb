---------------------------- MODULE ProgressRead ----------------------------
(***************************************************************************)
(* The read side of the progress tables: the handlers of /api/jobs         *)
(* (internal/api/progress_handlers.go) above the queries of ProgressStore. *)
(* They change nothing, so they are operators: from a request and the      *)
(* tables, as they are when the query runs, to an answer.                  *)
(*                                                                         *)
(* A query parameter is [given, number, val]: whether it is there, whether *)
(* it is a number, and which.  Other texts stand for their lower case.  A  *)
(* run is [id, at, status], the counters of a site [job, site, at]; "at"   *)
(* is started_at or last_update.  No two rows of a table have the same     *)
(* "at": for rows that do, the order of the queries is not determined.     *)
(*                                                                         *)
(* The database is [repo, up, rows]: is there a repository, does its query *)
(* succeed, and how many rows of the result arrive before the time-out or  *)
(* a lost connection ends it.                                              *)
(***************************************************************************)
EXTENDS Integers, Sequences, SequencesExt

defaultJobLimit == 50
maxJobLimit == 500
defaultSitesLimit == 100
maxSitesLimit == 1000

Least(a, b) == IF a < b THEN a ELSE b

invalidLimit(p) == p.given /\ (~p.number \/ p.val <= 0)
invalidOffset(p) == p.given /\ (~p.number \/ p.val < 0)
limitOf(p, def, maxLimit) == IF p.given THEN Least(p.val, maxLimit) ELSE def
offsetOf(p) == IF p.given THEN p.val ELSE 0

parseStatus(input) ==
  CASE input = "running" -> "running"
    [] input = "success" -> "success"
    [] input \in {"error", "failed", "failure"} -> "error"
    [] OTHER -> "invalid"

\* ORDER BY at DESC LIMIT limit OFFSET offset.
Page(rows, limit, offset) ==
  LET sorted == SetToSortSeq(rows, LAMBDA a, b : a.at > b.at)
  IN SubSeq(sorted, offset + 1, Least(offset + limit, Len(sorted)))

Answer(code, rows) == [code |-> code, rows |-> rows]

\* The loop over rows.Next.  rows.Err is not asked, so a result that was cut short
\* is answered like a whole one; only the query itself or a Scan can fail.
QueryAnswer(db, page) ==
  IF db.up THEN Answer(200, SubSeq(page, 1, Least(db.rows, Len(page)))) ELSE Answer(500, <<>>)

\* An empty status is no filter.
ListJobs(db, runs, status, limit, offset) ==
  IF ~db.repo THEN Answer(503, <<>>)
  ELSE IF invalidLimit(limit) \/ invalidOffset(offset) THEN Answer(400, <<>>)
  ELSE IF status # "" /\ parseStatus(status) = "invalid" THEN Answer(400, <<>>)
  ELSE QueryAnswer(db, Page({r \in runs : status = "" \/ r.status = parseStatus(status)},
                            limitOf(limit, defaultJobLimit, maxJobLimit), offsetOf(offset)))

\* The job is "invalid" if it is no identifier.
GetJob(db, runs, job) ==
  LET found == {r \in runs : r.id = job}
  IN IF ~db.repo THEN Answer(503, <<>>)
     ELSE IF job = "invalid" THEN Answer(400, <<>>)
     ELSE IF ~db.up THEN Answer(500, <<>>)
     ELSE IF found = {} THEN Answer(404, <<>>) ELSE Answer(200, <<CHOOSE r \in found : TRUE>>)

\* A job that does not exist has no sites, which is no error.
ListJobSites(db, stats, job, limit, offset) ==
  IF ~db.repo THEN Answer(503, <<>>)
  ELSE IF job = "invalid" \/ invalidLimit(limit) \/ invalidOffset(offset) THEN Answer(400, <<>>)
  ELSE QueryAnswer(db, Page({s \in stats : s.job = job},
                            limitOf(limit, defaultSitesLimit, maxSitesLimit), offsetOf(offset)))

-----------------------------------------------------------------------------
(* What a client that reads page after page can rely on.                   *)

Number(n) == [given |-> TRUE, number |-> TRUE, val |-> n]
Serves(rows) == [repo |-> TRUE, up |-> TRUE, rows |-> rows]
InFull == Serves(maxSitesLimit)
NotGiven == [given |-> FALSE, number |-> FALSE, val |-> 0]

SomeRuns(n) == {[id |-> ToString(t), at |-> t, status |-> "running"] : t \in 1..n}
SomeStats(n) == {[job |-> "j", site |-> t, at |-> t] : t \in 1..n}

\* The rows a client has when it reads pages of one size, the first k of them
\* before some rows are inserted and the others after.
Listed(before, after, size, k, pages) ==
  UNION {ToSet(ListJobs(InFull, IF i < k THEN before ELSE after, "",
                        Number(size), Number(i * size)).rows) : i \in 0..(pages - 1)}

\* Without a status filter no run is skipped that was there when the client
\* began, wherever in the order the new ones go: a run row is inserted late, so
\* it need not be the first.  (ListJobs; runs are neither deleted nor re-timed.)
\* All queries must be answered in full: see QueryAnswer.
ListingIsComplete(n) ==
  \A after \in SUBSET SomeRuns(n) : \A before \in SUBSET after :
    \A size \in 1..n, k \in 0..n : before \subseteq Listed(before, after, size, k, n)

\* Every run that is listed, by a list cut short too, is found by its identifier
\* (GetJob, ListJobs).
ListedIsFound(n) ==
  \A runs \in SUBSET SomeRuns(n), status \in {"", "running", "failed"}, k \in 0..n :
    \A r \in ToSet(ListJobs(Serves(k), runs, status, NotGiven, NotGiven).rows) :
      GetJob(InFull, runs, r.id) = Answer(200, <<r>>)

\* While no counter changes, each site is on exactly one page (ListJobSites).
SitesArePartitioned(n) ==
  \A stats \in SUBSET SomeStats(n), size \in 1..n : \A s \in stats :
    \E i \in 0..(n - 1) : \A k \in 0..(n - 1) :
      s \in ToSet(ListJobSites(InFull, stats, "j", Number(size), Number(k * size)).rows) <=> k = i

\* A client gets at most maxJobLimit runs and never more than it asks for, and
\* a limit that is not a positive number is refused (parseLimitOffset).
LimitsAreKept ==
  \A given, number \in BOOLEAN, val \in {-1, 0, 1, maxJobLimit, maxJobLimit + 1} :
    LET p == [given |-> given, number |-> number, val |-> val]
        limit == limitOf(p, defaultJobLimit, maxJobLimit)
    IN IF invalidLimit(p) THEN ListJobs(InFull, {}, "", p, NotGiven).code = 400
       ELSE limit \in 1..maxJobLimit /\ (given => limit <= val)
=============================================================================
