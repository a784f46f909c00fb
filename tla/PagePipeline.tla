---------------------------- MODULE PagePipeline ----------------------------
(***************************************************************************)
(* One URL of a job, from handleURL to the published message               *)
(* (internal/worker/worker.go), with the slots of the headless browser     *)
(* (internal/fetcher/headless/chromedp.go).  Each page is one call of      *)
(* handleURL; calls of different workers run concurrently and share only   *)
(* the headless slots.                                                     *)
(*                                                                         *)
(* persistAndPublish writes up to seven artifacts one after the other and  *)
(* returns at the first error; nothing is rolled back or retried.  A write *)
(* that reports an error may nevertheless have taken effect (an upload, an *)
(* INSERT or a publish whose answer was lost or came after the context     *)
(* ended), except RecordPage, which appends to the in-memory job store.    *)
(* Contents are left out: an artifact exists or it does not.               *)
(***************************************************************************)
EXTENDS Naturals, FiniteSets

CONSTANTS
  Pages,            \* concurrent calls of handleURL
  MaxRetries,       \* worker Config.MaxRetries, 3 unless set higher than 0
  MaxParallel,      \* headless.max_parallel
  RetrievalStore,   \* BOOLEAN: is a retrieval store configured?
  Topic,            \* BOOLEAN: are a topic and a publisher configured?
  AllowFetch,       \* answers policy.AllowFetch can give; {TRUE} as deployed
  Screenshots       \* may a headless response carry one? {FALSE} as deployed

ASSUME RetriesAssumption == MaxRetries \in Nat \ {0}
ASSUME ParallelAssumption == MaxParallel \in Nat \ {0}
ASSUME OptionsAssumption ==
  /\ RetrievalStore \in BOOLEAN /\ Topic \in BOOLEAN
  /\ AllowFetch \in SUBSET BOOLEAN /\ Screenshots \in SUBSET BOOLEAN

VARIABLES
  pc,        \* where the call is
  ctxDone,   \* is the call's context (jobCtx) done?
  attempt,   \* fetchProbeWithRetry's loop variable
  fetches,   \* history: probe fetches made
  shot,      \* does the response to persist carry a screenshot?
  limiter,   \* headless slots in use: the length of the limiter channel
  stored,    \* stored[p]: the artifacts of the page that exist
  cause      \* history: why a call that failed did so

vars == <<pc, ctxDone, attempt, fetches, shot, limiter, stored, cause>>

\* The artifacts, in the order persistAndPublish writes them.
Blobs == {"raw", "headers", "meta"}
Artifacts == Blobs \cup {"screenshot", "row", "retrieval", "message"}
FetchPCs == {"handle", "wait", "fetch", "backoff", "promote", "acquire", "navigate"}
Outcomes == {"succeeded", "failed", "uncounted"}
PCs == FetchPCs \cup Artifacts \cup Outcomes
Causes == {"none", "context", "attempts", "persist"}

TypeOK ==
  /\ pc \in [Pages -> PCs]
  /\ ctxDone \in [Pages -> BOOLEAN]
  /\ attempt \in [Pages -> 0..MaxRetries]
  /\ fetches \in [Pages -> Nat]
  /\ shot \in [Pages -> BOOLEAN]
  /\ limiter \in 0..MaxParallel
  /\ stored \in [Pages -> SUBSET Artifacts]
  /\ cause \in [Pages -> Causes]

Init ==
  /\ pc = [p \in Pages |-> "handle"]
  /\ ctxDone = [p \in Pages |-> FALSE]
  /\ attempt = [p \in Pages |-> 0]
  /\ fetches = [p \in Pages |-> 0]
  /\ shot = [p \in Pages |-> FALSE]
  /\ limiter = 0
  /\ stored = [p \in Pages |-> {}]
  /\ cause = [p \in Pages |-> "none"]

Goto(p, label) == pc' = [pc EXCEPT ![p] = label]

\* handleURL returns an error after counting the page as failed.
Fail(p, why) == Goto(p, "failed") /\ cause' = [cause EXCEPT ![p] = why]

\* The job's deadline passes or the process is told to stop.
CtxEnds(p) ==
  /\ pc[p] \notin Outcomes
  /\ ~ctxDone[p]
  /\ ctxDone' = [ctxDone EXCEPT ![p] = TRUE]
  /\ UNCHANGED <<pc, attempt, fetches, shot, limiter, stored, cause>>

-----------------------------------------------------------------------------
(* The policy.                                                             *)

\* A blocked URL is neither counted nor an error.
CheckPolicy(p) ==
  /\ pc[p] = "handle"
  /\ \E allowed \in AllowFetch : Goto(p, IF allowed THEN "wait" ELSE "uncounted")
  /\ UNCHANGED <<ctxDone, attempt, fetches, shot, limiter, stored, cause>>

\* policy.Wait returns, or fails because the context is done or would be done
\* before a token is free; the error is returned but no counter is touched.
PolicyWait(p) ==
  /\ pc[p] = "wait"
  /\ \E label \in {"fetch", "uncounted"} : Goto(p, label)
  /\ UNCHANGED <<ctxDone, attempt, fetches, shot, limiter, stored, cause>>

-----------------------------------------------------------------------------
(* fetchProbeWithRetry.                                                    *)

FetchProbeSucceeds(p) ==
  /\ pc[p] = "fetch"
  /\ fetches' = [fetches EXCEPT ![p] = @ + 1]
  /\ Goto(p, "promote")
  /\ UNCHANGED <<ctxDone, attempt, shot, limiter, stored, cause>>

\* A context error, of jobCtx or of the page's own timeout, is not retried.
FetchProbeContextError(p) ==
  /\ pc[p] = "fetch"
  /\ fetches' = [fetches EXCEPT ![p] = @ + 1]
  /\ Fail(p, "context")
  /\ UNCHANGED <<ctxDone, attempt, shot, limiter, stored>>

(* A version with one attempt less. *)
FetchProbeErrorOffByOne(p) ==
  /\ pc[p] = "fetch"
  /\ fetches' = [fetches EXCEPT ![p] = @ + 1]
  /\ IF attempt[p] + 1 < MaxRetries
     THEN Goto(p, "backoff") /\ UNCHANGED cause
     ELSE Fail(p, "attempts")
  /\ UNCHANGED <<ctxDone, attempt, shot, limiter, stored>>

FetchProbeError(p) ==
  /\ pc[p] = "fetch"
  /\ fetches' = [fetches EXCEPT ![p] = @ + 1]
  /\ IF attempt[p] < MaxRetries
     THEN Goto(p, "backoff") /\ UNCHANGED cause
     ELSE Fail(p, "attempts")
  /\ UNCHANGED <<ctxDone, attempt, shot, limiter, stored>>

(* A version whose timer never fires. *)
BackoffWaitsForContext(p) ==
  /\ pc[p] = "backoff"
  /\ ctxDone[p]
  /\ attempt' = [attempt EXCEPT ![p] = @ + 1]
  /\ Goto(p, "fetch")
  /\ UNCHANGED <<ctxDone, fetches, shot, limiter, stored, cause>>

\* The select before a retry: the timer, or the end of the context.
BackoffElapses(p) ==
  /\ pc[p] = "backoff"
  /\ attempt' = [attempt EXCEPT ![p] = @ + 1]
  /\ Goto(p, "fetch")
  /\ UNCHANGED <<ctxDone, fetches, shot, limiter, stored, cause>>

BackoffCanceled(p) ==
  /\ pc[p] = "backoff"
  /\ ctxDone[p]
  /\ Fail(p, "context")
  /\ UNCHANGED <<ctxDone, attempt, fetches, shot, limiter, stored>>

-----------------------------------------------------------------------------
(* maybePromote and the headless fetcher.                                  *)

\* Not allowed, not configured, or the detector says no: keep the probe's
\* response.  Otherwise ask for a headless slot.
MaybePromote(p) ==
  /\ pc[p] = "promote"
  /\ \E label \in {"raw", "acquire"} : Goto(p, label)
  /\ UNCHANGED <<ctxDone, attempt, fetches, shot, limiter, stored, cause>>

(* A version that takes a slot whether one is free or not. *)
AcquireUnbounded(p) ==
  /\ pc[p] = "acquire"
  /\ limiter' = limiter + 1
  /\ Goto(p, "navigate")
  /\ UNCHANGED <<ctxDone, attempt, fetches, shot, stored, cause>>

Acquire(p) ==
  /\ pc[p] = "acquire"
  /\ limiter < MaxParallel
  /\ limiter' = limiter + 1
  /\ Goto(p, "navigate")
  /\ UNCHANGED <<ctxDone, attempt, fetches, shot, stored, cause>>

\* The page's context ends, with jobCtx or at RequestTimeout, while it waits
\* for a slot: the promotion fails and the probe's response is kept.
AcquireCanceled(p) ==
  /\ pc[p] = "acquire"
  /\ Goto(p, "raw")
  /\ UNCHANGED <<ctxDone, attempt, fetches, shot, limiter, stored, cause>>

\* release takes one token out of the channel if there is one.
Release == limiter' = IF limiter > 0 THEN limiter - 1 ELSE 0

(* A version that forgets the deferred release. *)
NavigateSucceedsHoldingSlot(p) ==
  /\ pc[p] = "navigate"
  /\ \E s \in Screenshots : shot' = [shot EXCEPT ![p] = s]
  /\ Goto(p, "raw")
  /\ UNCHANGED <<ctxDone, attempt, fetches, limiter, stored, cause>>

NavigateSucceeds(p) ==
  /\ pc[p] = "navigate"
  /\ Release
  /\ \E s \in Screenshots : shot' = [shot EXCEPT ![p] = s]
  /\ Goto(p, "raw")
  /\ UNCHANGED <<ctxDone, attempt, fetches, stored, cause>>

\* A failed navigation falls back to the probe's response.
NavigateFails(p) ==
  /\ pc[p] = "navigate"
  /\ Release
  /\ Goto(p, "raw")
  /\ UNCHANGED <<ctxDone, attempt, fetches, shot, stored, cause>>

-----------------------------------------------------------------------------
(* persistAndPublish.                                                      *)

AfterRetrieval == IF Topic THEN "message" ELSE "succeeded"
AfterRow == IF RetrievalStore THEN "retrieval" ELSE AfterRetrieval

(* A version that publishes before the retrieval row is written. *)
AfterPublishFirst(p, a) ==
  CASE a = "raw"        -> "headers"
    [] a = "headers"    -> "meta"
    [] a = "meta"       -> IF shot[p] THEN "screenshot" ELSE "row"
    [] a = "screenshot" -> "row"
    [] a = "row"        -> IF Topic THEN "message" ELSE AfterRow
    [] a = "message"    -> IF RetrievalStore THEN "retrieval" ELSE "succeeded"
    [] a = "retrieval"  -> "succeeded"

\* What follows once artifact a of page p is stored.
After(p, a) ==
  CASE a = "raw"        -> "headers"
    [] a = "headers"    -> "meta"
    [] a = "meta"       -> IF shot[p] THEN "screenshot" ELSE "row"
    [] a = "screenshot" -> "row"
    [] a = "row"        -> AfterRow
    [] a = "retrieval"  -> AfterRetrieval
    [] a = "message"    -> "succeeded"

\* PutObject, putJSON, RecordPage, storeRetrieval, publishResult.
Store(p, a) ==
  /\ pc[p] = a
  /\ stored' = [stored EXCEPT ![p] = @ \cup {a}]
  /\ Goto(p, After(p, a))
  /\ UNCHANGED <<ctxDone, attempt, fetches, shot, limiter, cause>>

(* A version that treats a failed write as done. *)
StoreFailsIgnored(p, a) ==
  /\ pc[p] = a
  /\ a # "row"
  /\ Goto(p, After(p, a))
  /\ UNCHANGED <<ctxDone, attempt, fetches, shot, limiter, stored, cause>>

\* The write reports an error; it may have taken effect all the same.
StoreFails(p, a) ==
  /\ pc[p] = a
  /\ a # "row"
  /\ \E landed \in SUBSET {a} : stored' = [stored EXCEPT ![p] = @ \cup landed]
  /\ Fail(p, "persist")
  /\ UNCHANGED <<ctxDone, attempt, fetches, shot, limiter>>

PageStep(p) ==
  \/ CheckPolicy(p) \/ PolicyWait(p)
  \/ FetchProbeSucceeds(p) \/ FetchProbeContextError(p) \/ FetchProbeError(p)
  \/ BackoffElapses(p) \/ BackoffCanceled(p)
  \/ MaybePromote(p) \/ Acquire(p) \/ AcquireCanceled(p)
  \/ NavigateSucceeds(p) \/ NavigateFails(p)
  \/ \E a \in Artifacts : Store(p, a) \/ StoreFails(p, a)

Next == \E p \in Pages : PageStep(p) \/ CtxEnds(p)

\* Every call in PageStep is bounded: the fetch by RequestTimeout, the wait for
\* a slot by the page's context, navigation by its timeout, backoff by a timer.
Fairness == \A p \in Pages : WF_vars(PageStep(p))

Spec == Init /\ [][Next]_vars
FairSpec == Spec /\ Fairness

-----------------------------------------------------------------------------
(* Properties.                                                             *)

\* The artifacts that artifact a of page p refers to.
Refers(a) ==
  (IF a \in {"row", "retrieval", "message"} THEN Blobs ELSE {})
    \cup (IF a \in {"retrieval", "message"} THEN {"row"} ELSE {})
    \cup (IF a = "message" /\ RetrievalStore THEN {"retrieval"} ELSE {})

\* No consumer is ever given a dangling reference, whichever write fails and
\* whatever a failed write leaves behind: when a page row, a retrieval row or a
\* Pub/Sub message exists, so does all it refers to (persistAndPublish's order).
NoDanglingReference ==
  \A p \in Pages : \A a \in stored[p] : Refers(a) \subseteq stored[p]

\* A page counted as succeeded has every artifact that is configured; one that
\* is neither counted as succeeded nor as failed has none.  This is the
\* abstraction of handleURL that CrawlService uses.
OutcomeMatchesArtifacts ==
  \A p \in Pages :
    /\ pc[p] = "succeeded" =>
         /\ Blobs \cup {"row"} \subseteq stored[p]
         /\ RetrievalStore => "retrieval" \in stored[p]
         /\ Topic => "message" \in stored[p]
         /\ shot[p] <=> "screenshot" \in stored[p]
    /\ pc[p] = "uncounted" => stored[p] = {}

\* A call gives up on the probe after exactly MaxRetries + 1 fetches, or earlier
\* because of a context, and never makes more (fetchProbeWithRetry).
RetryBudget ==
  \A p \in Pages :
    /\ fetches[p] <= MaxRetries + 1
    /\ cause[p] = "attempts" => fetches[p] = MaxRetries + 1
    /\ pc[p] = "failed" /\ cause[p] # "persist" => stored[p] = {}

\* The limiter channel holds one token for every navigation under way, so slots
\* neither leak nor are given out twice (acquire, release).
SlotsMatchNavigations ==
  limiter = Cardinality({p \in Pages : pc[p] = "navigate"})

\* Every call of handleURL returns, whatever fails and however few the slots.
PagesTerminate == \A p \in Pages : <>(pc[p] \in Outcomes)
=============================================================================
