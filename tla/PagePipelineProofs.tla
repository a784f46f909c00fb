------------------------- MODULE PagePipelineProofs -------------------------
(***************************************************************************)
(* Theorems about PagePipeline, for any number of pages, retries and slots *)
(* and for every choice of the optional stores.                            *)
(***************************************************************************)
EXTENDS PagePipeline, FiniteSetTheorems, TLAPS

\* The labels an action can go to, and the causes it can record, are typed.
LEMMA Labels ==
  /\ {"wait", "fetch", "backoff", "promote", "acquire", "navigate"} \subseteq PCs
  /\ {"raw", "succeeded", "failed", "uncounted"} \subseteq PCs
  /\ {"context", "attempts", "persist"} \subseteq Causes
  BY DEF PCs, FetchPCs, Artifacts, Blobs, Outcomes, Causes

-----------------------------------------------------------------------------
(* The inductive invariant.                                                *)

\* The loop of fetchProbeWithRetry: how the attempt number, the position in the
\* loop and the number of fetches made so far hang together.
RetryInv(p) ==
  /\ pc[p] \in {"handle", "wait"} => attempt[p] = 0 /\ fetches[p] = 0
  /\ pc[p] = "fetch" => fetches[p] = attempt[p]
  /\ pc[p] = "backoff" => attempt[p] < MaxRetries /\ fetches[p] = attempt[p] + 1
  /\ fetches[p] <= MaxRetries + 1
  /\ cause[p] = "attempts" => fetches[p] = MaxRetries + 1
  /\ pc[p] # "failed" => cause[p] = "none"

AfterRaw == Artifacts \ {"raw"}
AfterHeaders == AfterRaw \ {"headers"}
AfterMeta == AfterHeaders \ {"meta"}

\* What persistAndPublish has stored when it is about to write the artifact
\* that pc names, or has returned.
StoredInv(p) ==
  /\ pc[p] \in FetchPCs \cup {"raw", "uncounted"} => stored[p] = {}
  /\ pc[p] \in AfterRaw \cup {"succeeded"} => "raw" \in stored[p]
  /\ pc[p] \in AfterHeaders \cup {"succeeded"} => "headers" \in stored[p]
  /\ pc[p] \in AfterMeta \cup {"succeeded"} => "meta" \in stored[p]
  /\ pc[p] \in {"retrieval", "message", "succeeded"} => "row" \in stored[p]
  /\ pc[p] \in {"message", "succeeded"} /\ RetrievalStore => "retrieval" \in stored[p]
  /\ pc[p] = "succeeded" /\ Topic => "message" \in stored[p]
  /\ pc[p] = "failed" /\ cause[p] # "persist" => stored[p] = {}

\* The screenshot is stored exactly when the response carries one.
ShotInv(p) ==
  /\ pc[p] = "screenshot" => shot[p]
  /\ pc[p] \in Blobs \cup {"screenshot"} => "screenshot" \notin stored[p]
  /\ pc[p] \in {"row", "retrieval", "message", "succeeded"} =>
       (shot[p] <=> "screenshot" \in stored[p])

IInv ==
  /\ TypeOK
  /\ \A p \in Pages : RetryInv(p)
  /\ \A p \in Pages : StoredInv(p)
  /\ \A p \in Pages : ShotInv(p)
  /\ NoDanglingReference

-----------------------------------------------------------------------------
(* Types.                                                                  *)

\* The artifact after an artifact is again an artifact, or the successful end.
LEMMA AfterType ==
  ASSUME NEW p \in Pages, NEW a \in Artifacts
  PROVE  After(p, a) \in PCs /\ After(p, a) \in Artifacts \cup {"succeeded"}
<1> USE DEF PCs, Artifacts, Blobs, Outcomes
<1>1. AfterRetrieval \in {"message", "succeeded"} /\ AfterRow \in {"retrieval", "message", "succeeded"}
  BY DEF AfterRetrieval, AfterRow
<1>2. CASE a = "raw"        BY <1>2 DEF After
<1>3. CASE a = "headers"    BY <1>3 DEF After
<1>4. CASE a = "meta"       BY <1>4 DEF After
<1>5. CASE a = "screenshot" BY <1>5 DEF After
<1>6. CASE a = "row"        BY <1>1, <1>6 DEF After
<1>7. CASE a = "retrieval"  BY <1>1, <1>7 DEF After
<1>8. CASE a = "message"    BY <1>8 DEF After
<1> QED
  BY <1>2, <1>3, <1>4, <1>5, <1>6, <1>7, <1>8, Zenon

\* persistAndPublish's order, one equation per artifact.
LEMMA AfterFacts ==
  ASSUME NEW p \in Pages
  PROVE  /\ After(p, "raw") = "headers"
         /\ After(p, "headers") = "meta"
         /\ After(p, "meta") = IF shot[p] THEN "screenshot" ELSE "row"
         /\ After(p, "screenshot") = "row"
         /\ After(p, "row") = AfterRow
         /\ After(p, "retrieval") = AfterRetrieval
         /\ After(p, "message") = "succeeded"
  BY DEF After

\* The initial states are well typed.
LEMMA TypeInit == Init => TypeOK
<1> SUFFICES ASSUME Init PROVE TypeOK
  OBVIOUS
<1>0. "handle" \in PCs /\ "none" \in Causes
  BY DEF PCs, FetchPCs, Causes
<1>1. pc \in [Pages -> PCs] /\ cause \in [Pages -> Causes] /\ stored \in [Pages -> SUBSET Artifacts]
  BY <1>0 DEF Init
<1>2. ctxDone \in [Pages -> BOOLEAN] /\ shot \in [Pages -> BOOLEAN]
  BY Zenon DEF Init
<1>3. /\ attempt \in [Pages -> 0..MaxRetries] /\ fetches \in [Pages -> Nat]
      /\ limiter \in 0..MaxParallel
  <2>1. /\ attempt = [p \in Pages |-> 0] /\ fetches = [p \in Pages |-> 0] /\ limiter = 0
    BY Zenon DEF Init
  <2> QED
    BY <2>1, RetriesAssumption, ParallelAssumption
<1> QED
  BY <1>1, <1>2, <1>3 DEF TypeOK

\* Every step of a page, and the end of its context, keeps the types.  That a
\* retry keeps the attempt number in range needs RetryInv.
LEMMA TypeStep ==
  ASSUME TypeOK, \A p \in Pages : RetryInv(p), [Next]_vars
  PROVE  TypeOK'
<1> USE RetriesAssumption, ParallelAssumption, OptionsAssumption, Labels DEF TypeOK, Goto, Fail
<1>1. CASE UNCHANGED vars
  BY <1>1 DEF vars
<1>2. ASSUME NEW p \in Pages, CtxEnds(p) PROVE TypeOK'
  BY <1>2 DEF CtxEnds
<1>3. ASSUME NEW p \in Pages, PageStep(p) PROVE TypeOK'
  <2>1. CASE CheckPolicy(p)
    BY <2>1 DEF CheckPolicy
  <2>2. CASE PolicyWait(p)
    BY <2>2 DEF PolicyWait
  <2>3. CASE FetchProbeSucceeds(p)
    BY <2>3 DEF FetchProbeSucceeds
  <2>4. CASE FetchProbeContextError(p)
    BY <2>4 DEF FetchProbeContextError
  <2>5. CASE FetchProbeError(p)
    BY <2>5 DEF FetchProbeError
  <2>6. CASE BackoffElapses(p)
    <3>1. attempt[p] + 1 \in 0..MaxRetries
      <4>1. RetryInv(p)
        OBVIOUS
      <4>2. pc[p] = "backoff"
        BY <2>6 DEF BackoffElapses
      <4>3. attempt[p] < MaxRetries
        BY <4>1, <4>2 DEF RetryInv
      <4> QED
        BY <4>3
    <3> QED
      BY <2>6, <3>1 DEF BackoffElapses
  <2>7. CASE BackoffCanceled(p)
    BY <2>7 DEF BackoffCanceled
  <2>8. CASE MaybePromote(p)
    BY <2>8 DEF MaybePromote
  <2>9. CASE Acquire(p)
    BY <2>9 DEF Acquire
  <2>10. CASE AcquireCanceled(p)
    BY <2>10 DEF AcquireCanceled
  <2>11. CASE NavigateSucceeds(p)
    BY <2>11 DEF NavigateSucceeds, Release
  <2>12. CASE NavigateFails(p)
    BY <2>12 DEF NavigateFails, Release
  <2>13. ASSUME NEW a \in Artifacts, Store(p, a) PROVE TypeOK'
    BY <2>13, AfterType DEF Store
  <2>14. ASSUME NEW a \in Artifacts, StoreFails(p, a) PROVE TypeOK'
    BY <2>14 DEF StoreFails
  <2> QED
    BY <1>3, <2>1, <2>2, <2>3, <2>4, <2>5, <2>6, <2>7, <2>8, <2>9, <2>10, <2>11, <2>12, <2>13, <2>14
       DEF PageStep
<1> QED
  BY <1>1, <1>2, <1>3 DEF Next
-----------------------------------------------------------------------------
(* Each part of the invariant is kept by every step.                       *)

\* The retry loop's bookkeeping (fetchProbeWithRetry).
LEMMA RetryStep ==
  ASSUME TypeOK, TypeOK', \A p \in Pages : RetryInv(p), [Next]_vars
  PROVE  \A p \in Pages : RetryInv(p)'
<1> SUFFICES ASSUME NEW q \in Pages PROVE RetryInv(q)'
  OBVIOUS
<1> USE RetriesAssumption DEF TypeOK, RetryInv, Goto
<1>1. CASE UNCHANGED vars
  BY <1>1 DEF vars
<1>2. ASSUME NEW p \in Pages, CtxEnds(p) PROVE RetryInv(q)'
  BY <1>2 DEF CtxEnds
<1>3. ASSUME NEW p \in Pages, PageStep(p) PROVE RetryInv(q)'
  <2>1. CASE CheckPolicy(p)
    BY <2>1 DEF CheckPolicy
  <2>2. CASE PolicyWait(p)
    BY <2>2 DEF PolicyWait
  <2>3. CASE FetchProbeSucceeds(p)
    BY <2>3 DEF FetchProbeSucceeds
  <2>4. CASE FetchProbeContextError(p)
    BY <2>4 DEF FetchProbeContextError, Fail
  <2>5. CASE FetchProbeError(p)
    BY <2>5 DEF FetchProbeError, Fail
  <2>6. CASE BackoffElapses(p)
    BY <2>6 DEF BackoffElapses
  <2>7. CASE BackoffCanceled(p)
    BY <2>7 DEF BackoffCanceled, Fail
  <2>8. CASE MaybePromote(p)
    BY <2>8 DEF MaybePromote
  <2>9. CASE Acquire(p)
    BY <2>9 DEF Acquire
  <2>10. CASE AcquireCanceled(p)
    BY <2>10 DEF AcquireCanceled
  <2>11. CASE NavigateSucceeds(p)
    BY <2>11 DEF NavigateSucceeds
  <2>12. CASE NavigateFails(p)
    BY <2>12 DEF NavigateFails
  <2>13. ASSUME NEW a \in Artifacts, Store(p, a) PROVE RetryInv(q)'
    BY <2>13, AfterType DEF Store, Artifacts, Blobs
  <2>14. ASSUME NEW a \in Artifacts, StoreFails(p, a) PROVE RetryInv(q)'
    BY <2>14 DEF StoreFails, Fail
  <2> QED
    BY <1>3, <2>1, <2>2, <2>3, <2>4, <2>5, <2>6, <2>7, <2>8, <2>9, <2>10, <2>11,
       <2>12, <2>13, <2>14 DEF PageStep
<1> QED
  BY <1>1, <1>2, <1>3 DEF Next

\* What persistAndPublish has stored when it reaches each of its steps.
LEMMA StoredStep ==
  ASSUME TypeOK, TypeOK', \A p \in Pages : StoredInv(p), [Next]_vars
  PROVE  \A p \in Pages : StoredInv(p)'
<1> SUFFICES ASSUME NEW q \in Pages PROVE StoredInv(q)'
  OBVIOUS
<1> USE RetriesAssumption DEF TypeOK, StoredInv, Goto, Artifacts, Blobs, FetchPCs, AfterRaw, AfterHeaders, AfterMeta
<1>1. CASE UNCHANGED vars
  BY <1>1 DEF vars
<1>2. ASSUME NEW p \in Pages, CtxEnds(p) PROVE StoredInv(q)'
  BY <1>2 DEF CtxEnds
<1>3. ASSUME NEW p \in Pages, PageStep(p) PROVE StoredInv(q)'
  <2>1. CASE CheckPolicy(p)
    BY <2>1 DEF CheckPolicy
  <2>2. CASE PolicyWait(p)
    BY <2>2 DEF PolicyWait
  <2>3. CASE FetchProbeSucceeds(p)
    BY <2>3 DEF FetchProbeSucceeds
  <2>4. CASE FetchProbeContextError(p)
    BY <2>4 DEF FetchProbeContextError, Fail
  <2>5. CASE FetchProbeError(p)
    BY <2>5 DEF FetchProbeError, Fail
  <2>6. CASE BackoffElapses(p)
    BY <2>6 DEF BackoffElapses
  <2>7. CASE BackoffCanceled(p)
    BY <2>7 DEF BackoffCanceled, Fail
  <2>8. CASE MaybePromote(p)
    BY <2>8 DEF MaybePromote
  <2>9. CASE Acquire(p)
    BY <2>9 DEF Acquire
  <2>10. CASE AcquireCanceled(p)
    BY <2>10 DEF AcquireCanceled
  <2>11. CASE NavigateSucceeds(p)
    BY <2>11 DEF NavigateSucceeds
  <2>12. CASE NavigateFails(p)
    BY <2>12 DEF NavigateFails
  <2>13. ASSUME NEW a \in Artifacts, Store(p, a) PROVE StoredInv(q)'
    BY <2>13, AfterFacts DEF Store, AfterRow, AfterRetrieval
  <2>14. ASSUME NEW a \in Artifacts, StoreFails(p, a) PROVE StoredInv(q)'
    BY <2>14 DEF StoreFails, Fail
  <2> QED
    BY <1>3, <2>1, <2>2, <2>3, <2>4, <2>5, <2>6, <2>7, <2>8, <2>9, <2>10, <2>11,
       <2>12, <2>13, <2>14 DEF PageStep
<1> QED
  BY <1>1, <1>2, <1>3 DEF Next

\* The screenshot is written exactly when there is one.
LEMMA ShotStep ==
  ASSUME TypeOK, TypeOK', \A p \in Pages : StoredInv(p),
         \A p \in Pages : ShotInv(p), [Next]_vars
  PROVE  \A p \in Pages : ShotInv(p)'
<1> SUFFICES ASSUME NEW q \in Pages PROVE ShotInv(q)'
  OBVIOUS
<1> USE RetriesAssumption DEF TypeOK, ShotInv, Goto, Artifacts, Blobs
<1>1. CASE UNCHANGED vars
  BY <1>1 DEF vars
<1>2. ASSUME NEW p \in Pages, CtxEnds(p) PROVE ShotInv(q)'
  BY <1>2 DEF CtxEnds
<1>3. ASSUME NEW p \in Pages, PageStep(p) PROVE ShotInv(q)'
  <2>1. CASE CheckPolicy(p)
    BY <2>1 DEF CheckPolicy
  <2>2. CASE PolicyWait(p)
    BY <2>2 DEF PolicyWait
  <2>3. CASE FetchProbeSucceeds(p)
    BY <2>3 DEF FetchProbeSucceeds
  <2>4. CASE FetchProbeContextError(p)
    BY <2>4 DEF FetchProbeContextError, Fail
  <2>5. CASE FetchProbeError(p)
    BY <2>5 DEF FetchProbeError, Fail
  <2>6. CASE BackoffElapses(p)
    BY <2>6 DEF BackoffElapses
  <2>7. CASE BackoffCanceled(p)
    BY <2>7 DEF BackoffCanceled, Fail
  <2>8. CASE MaybePromote(p)
    BY <2>8 DEF MaybePromote, StoredInv, FetchPCs
  <2>9. CASE Acquire(p)
    BY <2>9 DEF Acquire
  <2>10. CASE AcquireCanceled(p)
    BY <2>10 DEF AcquireCanceled, StoredInv, FetchPCs
  <2>11. CASE NavigateSucceeds(p)
    BY <2>11 DEF NavigateSucceeds, StoredInv, FetchPCs
  <2>12. CASE NavigateFails(p)
    BY <2>12 DEF NavigateFails, StoredInv, FetchPCs
  <2>13. ASSUME NEW a \in Artifacts, Store(p, a) PROVE ShotInv(q)'
    BY <2>13, AfterFacts DEF Store, AfterRow, AfterRetrieval
  <2>14. ASSUME NEW a \in Artifacts, StoreFails(p, a) PROVE ShotInv(q)'
    BY <2>14 DEF StoreFails, Fail
  <2> QED
    BY <1>3, <2>1, <2>2, <2>3, <2>4, <2>5, <2>6, <2>7, <2>8, <2>9, <2>10, <2>11,
       <2>12, <2>13, <2>14 DEF PageStep
<1> QED
  BY <1>1, <1>2, <1>3 DEF Next

\* References only point to what exists: an artifact is added last among those
\* it refers to, and nothing is ever removed.
LEMMA ReferenceStep ==
  ASSUME TypeOK, \A p \in Pages : StoredInv(p), NoDanglingReference, [Next]_vars
  PROVE  NoDanglingReference'
<1> SUFFICES ASSUME NEW q \in Pages, NEW b \in stored'[q]
             PROVE  Refers(b) \subseteq stored'[q]
  BY DEF NoDanglingReference
<1>1. CASE UNCHANGED stored
  BY <1>1 DEF NoDanglingReference
<1>2. ASSUME NEW p \in Pages, NEW a \in Artifacts, pc[p] = a,
             NEW landed \in SUBSET {a},
             stored' = [stored EXCEPT ![p] = @ \cup landed]
      PROVE  Refers(b) \subseteq stored'[q]
  <2>1. Refers(a) \subseteq stored[p]
    BY <1>2 DEF Refers, StoredInv, AfterRaw, AfterHeaders, AfterMeta, Artifacts, Blobs
  <2>2. CASE b \in stored[q]
    BY <1>2, <2>2 DEF NoDanglingReference, TypeOK
  <2>3. CASE b \notin stored[q]
    BY <1>2, <2>1, <2>3 DEF TypeOK
  <2> QED
    BY <2>2, <2>3
<1>3. ASSUME NEW p \in Pages, NEW a \in Artifacts, Store(p, a)
      PROVE  Refers(b) \subseteq stored'[q]
  BY <1>2, <1>3 DEF Store
<1>4. ASSUME NEW p \in Pages, NEW a \in Artifacts, StoreFails(p, a)
      PROVE  Refers(b) \subseteq stored'[q]
  BY <1>2, <1>4 DEF StoreFails
<1>5. \/ UNCHANGED stored
      \/ \E p \in Pages, a \in Artifacts : Store(p, a) \/ StoreFails(p, a)
  BY DEF Next, PageStep, vars, CtxEnds, CheckPolicy, PolicyWait, FetchProbeSucceeds,
         FetchProbeContextError, FetchProbeError, BackoffElapses, BackoffCanceled,
         MaybePromote, Acquire, AcquireCanceled, NavigateSucceeds, NavigateFails
<1> QED
  BY <1>1, <1>3, <1>4, <1>5

-----------------------------------------------------------------------------
(* The theorems.                                                           *)

\* The inductive invariant holds before handleURL does anything.
LEMMA InvInit == Init => IInv
<1> SUFFICES ASSUME Init PROVE IInv
  OBVIOUS
<1>1. TypeOK
  BY TypeInit
<1>2. \A p \in Pages : /\ pc[p] = "handle" /\ attempt[p] = 0 /\ fetches[p] = 0
                       /\ stored[p] = {} /\ cause[p] = "none"
  BY DEF Init
<1>3. \A p \in Pages : RetryInv(p)
  BY <1>2, RetriesAssumption DEF RetryInv
<1>4. \A p \in Pages : StoredInv(p) /\ ShotInv(p)
  BY <1>2 DEF StoredInv, ShotInv, AfterRaw, AfterHeaders, AfterMeta, Artifacts, Blobs
<1>5. NoDanglingReference
  BY <1>2 DEF NoDanglingReference
<1> QED
  BY <1>1, <1>3, <1>4, <1>5 DEF IInv

\* Every step of handleURL, of any page, keeps the inductive invariant.
LEMMA InvStep == IInv /\ [Next]_vars => IInv'
<1> SUFFICES ASSUME IInv, [Next]_vars PROVE IInv'
  OBVIOUS
<1> USE DEF IInv
<1>1. TypeOK'
  BY TypeStep
<1>2. \A p \in Pages : RetryInv(p)'
  BY <1>1, RetryStep
<1>3. \A p \in Pages : StoredInv(p)'
  BY <1>1, StoredStep
<1>4. \A p \in Pages : ShotInv(p)'
  BY <1>1, ShotStep
<1>5. NoDanglingReference'
  BY ReferenceStep
<1> QED
  BY <1>1, <1>2, <1>3, <1>4, <1>5

\* The inductive invariant holds in every reachable state.
THEOREM Invariance == Spec => []IInv
  BY InvInit, InvStep, PTL DEF Spec

\* Types, for every number of pages, retries and slots (all of handleURL).
THEOREM TypeCorrectness == Spec => []TypeOK
<1>1. IInv => TypeOK
  BY DEF IInv
<1> QED
  BY Invariance, <1>1, PTL

\* Whatever fails in persistAndPublish, no row and no message ever refers to an
\* artifact that does not exist.
THEOREM References == Spec => []NoDanglingReference
<1>1. IInv => NoDanglingReference
  BY DEF IInv
<1> QED
  BY Invariance, <1>1, PTL

\* A page counted as succeeded has all its artifacts, and one that is not
\* counted has none (handleURL, persistAndPublish).
THEOREM Outcome == Spec => []OutcomeMatchesArtifacts
<1>1. IInv => OutcomeMatchesArtifacts
  BY DEF IInv, StoredInv, ShotInv, OutcomeMatchesArtifacts, Blobs
<1> QED
  BY Invariance, <1>1, PTL

\* fetchProbeWithRetry never exceeds its budget and never gives up early except
\* because of a context.
THEOREM Retries == Spec => []RetryBudget
<1>1. IInv => RetryBudget
  BY DEF IInv, RetryInv, StoredInv, RetryBudget
<1> QED
  BY Invariance, <1>1, PTL

-----------------------------------------------------------------------------
(* The slots of the headless browser.                                      *)

Navigating == {p \in Pages : pc[p] = "navigate"}

\* The tokens in the channel are the navigations under way.  That these are
\* finitely many is part of the invariant, so Pages may be any set.
SlotInv == IsFiniteSet(Navigating) /\ limiter = Cardinality(Navigating)

\* Only acquire and release touch the channel, and each with its page: a step
\* starts a navigation, ends one, or leaves the navigations and the channel alone.
LEMMA SlotKinds ==
  ASSUME TypeOK, [Next]_vars
  PROVE  \/ Navigating' = Navigating /\ limiter' = limiter
         \/ \E p \in Pages : Acquire(p)
         \/ \E p \in Pages : NavigateSucceeds(p) \/ NavigateFails(p)
  <1>1. pc \in [Pages -> PCs] BY DEF TypeOK
  <1>2. ASSUME NEW p \in Pages, NEW label, Goto(p, label), pc[p] # "navigate", label # "navigate"
        PROVE  Navigating' = Navigating
    BY <1>1, <1>2 DEF Goto, Navigating
  <1>3. CASE UNCHANGED vars BY <1>3 DEF vars, Navigating
  <1>4. ASSUME NEW p \in Pages, CtxEnds(p) PROVE Navigating' = Navigating /\ limiter' = limiter
    BY <1>4 DEF CtxEnds, Navigating
  <1>5. ASSUME NEW p \in Pages, CheckPolicy(p) PROVE Navigating' = Navigating /\ limiter' = limiter
    BY <1>2, <1>5 DEF CheckPolicy
  <1>6. ASSUME NEW p \in Pages, PolicyWait(p) PROVE Navigating' = Navigating /\ limiter' = limiter
    BY <1>2, <1>6 DEF PolicyWait
  <1>7. ASSUME NEW p \in Pages, FetchProbeSucceeds(p) \/ FetchProbeContextError(p) \/ FetchProbeError(p)
        PROVE  Navigating' = Navigating /\ limiter' = limiter
    BY <1>2, <1>7 DEF FetchProbeSucceeds, FetchProbeContextError, FetchProbeError, Fail
  <1>8. ASSUME NEW p \in Pages, BackoffElapses(p) \/ BackoffCanceled(p)
        PROVE  Navigating' = Navigating /\ limiter' = limiter
    BY <1>2, <1>8 DEF BackoffElapses, BackoffCanceled, Fail
  <1>9. ASSUME NEW p \in Pages, MaybePromote(p) \/ AcquireCanceled(p)
        PROVE  Navigating' = Navigating /\ limiter' = limiter
    BY <1>2, <1>9 DEF MaybePromote, AcquireCanceled
  <1>10. ASSUME NEW p \in Pages, NEW a \in Artifacts, Store(p, a) \/ StoreFails(p, a)
         PROVE  Navigating' = Navigating /\ limiter' = limiter
    <2>1. a # "navigate" /\ After(p, a) # "navigate"
      BY DEF Artifacts, Blobs, After, AfterRow, AfterRetrieval
    <2> QED BY <1>2, <1>10, <2>1 DEF Store, StoreFails, Fail
  <1> QED BY <1>3, <1>4, <1>5, <1>6, <1>7, <1>8, <1>9, <1>10 DEF Next, PageStep

\* Every step keeps one token for each navigation.
LEMMA SlotStep == TypeOK /\ SlotInv /\ [Next]_vars => SlotInv'
  <1> SUFFICES ASSUME TypeOK, SlotInv, [Next]_vars PROVE SlotInv' OBVIOUS
  <1>1. pc \in [Pages -> PCs] /\ Cardinality(Navigating) \in Nat
    BY FS_CardinalityType DEF TypeOK, SlotInv
  <1>2. CASE Navigating' = Navigating /\ limiter' = limiter
    <2>1. Cardinality(Navigating)' = Cardinality(Navigating) BY <1>2, Zenon
    <2>2. IsFiniteSet(Navigating)' BY <1>2, Zenon DEF SlotInv
    <2> QED BY <1>2, <2>1, <2>2 DEF SlotInv
  <1>3. ASSUME NEW p \in Pages, Acquire(p) PROVE SlotInv'
    <2>1. Navigating' = Navigating \cup {p} /\ p \notin Navigating
      BY <1>1, <1>3 DEF Acquire, Goto, Navigating
    <2>2. /\ IsFiniteSet(Navigating \cup {p})
          /\ Cardinality(Navigating \cup {p}) = Cardinality(Navigating) + 1
      BY <2>1, FS_AddElement DEF SlotInv
    <2>3. IsFiniteSet(Navigating)' /\ Cardinality(Navigating)' = Cardinality(Navigating \cup {p})
      BY <2>1, <2>2, Zenon
    <2> QED BY <1>3, <2>2, <2>3 DEF SlotInv, Acquire
  <1>4. ASSUME NEW p \in Pages, NavigateSucceeds(p) \/ NavigateFails(p) PROVE SlotInv'
    <2>1. Navigating' = Navigating \ {p} /\ p \in Navigating
      BY <1>1, <1>4 DEF NavigateSucceeds, NavigateFails, Goto, Navigating
    <2>2. /\ IsFiniteSet(Navigating \ {p})
          /\ Cardinality(Navigating \ {p}) = Cardinality(Navigating) - 1
      BY <2>1, FS_RemoveElement DEF SlotInv
    <2>3. IsFiniteSet(Navigating)' /\ Cardinality(Navigating)' = Cardinality(Navigating \ {p})
      BY <2>1, <2>2, Zenon
    <2>4. Cardinality(Navigating) # 0
      <3>1. Navigating # {} BY <2>1
      <3> QED BY <3>1, FS_EmptySet DEF SlotInv
    <2>5. limiter' = limiter - 1
      BY <1>1, <1>4, <2>4 DEF NavigateSucceeds, NavigateFails, Release, SlotInv
    <2> QED BY <2>2, <2>3, <2>5 DEF SlotInv
  <1> QED BY <1>2, <1>3, <1>4, SlotKinds

\* Slots of the browser neither leak nor are given out twice, for every number of
\* pages and slots and whatever navigations end with (acquire, release).
THEOREM Slots == Spec => []SlotsMatchNavigations
  <1>1. Init => SlotInv
    <2> SUFFICES ASSUME Init PROVE SlotInv OBVIOUS
    <2>1. Navigating = {} /\ limiter = 0 BY DEF Init, Navigating
    <2> QED BY <2>1, FS_EmptySet DEF SlotInv
  <1>2. SlotInv => SlotsMatchNavigations BY DEF SlotInv, SlotsMatchNavigations, Navigating
  <1> QED BY TypeCorrectness, SlotStep, <1>1, <1>2, PTL DEF Spec
=============================================================================
