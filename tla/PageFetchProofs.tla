-------------------------- MODULE PageFetchProofs ---------------------------
(***************************************************************************)
(* Theorems about PageFetch: the probe fetcher in it is the one of         *)
(* ProbeFetch, its theorems hold here too, and the browser on top of it    *)
(* keeps its time-outs and the client's wishes.  For any number of pages,  *)
(* hosts and documents, any time-outs, any bodies and whatever the         *)
(* detector makes of them.                                                 *)
(***************************************************************************)
EXTENDS PageFetch, ProbeFetchProofs, TLAPS

-----------------------------------------------------------------------------
(* The inductive invariant.                                                *)

\* A call has run for no longer than what it waits on allows; the time of the
\* navigation is counted from its own start.
TimeInv(c) ==
  /\ bpc[c] \in {"idle", "done"} => elapsed[c] = 0 /\ nav[c] = 0
  /\ bpc[c] = "acquire" => elapsed[c] <= RequestTimeout /\ nav[c] = 0
  /\ bpc[c] = "navigate" =>
       elapsed[c] <= RequestTimeout + nav[c] /\ nav[c] <= NavigationTimeout

\* A visit that ends without an error, and a call that returns one, was allowed.
ReturnInv(f) ==
  /\ fpc[f] \in {"send", "ended"} /\ ret[f] = "nil" /\ RespectRobots(f) => Allowed(f)
  /\ out[f] \in {"ok", "indeterminate"} /\ RespectRobots(f) => Allowed(f)

\* The browser was started for a job whose parameters allow it, after such a visit.
BrowserInv(f) ==
  bpc[f] # "idle" =>
    /\ JobParams(of[f]).HeadlessAllowed /\ Cfg.HeadlessEnabled
    /\ RespectRobots(f) => Allowed(f)

PInv ==
  /\ TypeOK
  /\ \A f \in Fetches : TimeInv(f)
  /\ \A f \in Fetches : ReturnInv(f)
  /\ \A f \in Fetches : BrowserInv(f)

-----------------------------------------------------------------------------
(* Steps.                                                                  *)

\* A step of the headless call c: maybePromote starts it or takes its response, or
\* it moves on by itself.
BrowserStep(c) == BeginHeadless(c) \/ HeadlessStep(c) \/ TakeResponse(c)

\* A step is the probe fetcher's, or the headless fetcher's, or leaves both alone.
LEMMA StepIsLocal ==
  ASSUME [Next]_vars
  PROVE  \/ ProbeNext /\ UNCHANGED headlessVars
         \/ UNCHANGED probeVars /\ \/ CloseHeadless \/ Tick \/ UNCHANGED headlessVars
                                   \/ \E c \in Fetches : BrowserStep(c)
  <1>1. CASE ProbeNext /\ UNCHANGED <<headlessVars, stage>> BY <1>1
  <1>2. CASE /\ CloseHeadless \/ Tick \/ \E f \in Fetches : HeadlessStep(f)
             /\ UNCHANGED <<probeVars, stage>>
    BY <1>2 DEF BrowserStep
  <1>3. ASSUME NEW f \in Fetches, PromotionReturns(f)
        PROVE  UNCHANGED probeVars /\ BrowserStep(f)
    BY <1>3 DEF PromotionReturns, BrowserStep
  <1>4. ASSUME NEW f \in Fetches, NEW status, NEW body, NEW allowed,
               MaybePromote(f, status, body, allowed)
        PROVE  UNCHANGED probeVars /\ (BrowserStep(f) \/ UNCHANGED headlessVars)
    BY <1>4 DEF MaybePromote, BrowserStep
  <1>5. CASE UNCHANGED vars BY <1>5 DEF vars
  <1> QED BY <1>1, <1>2, <1>3, <1>4, <1>5 DEF Next

\* The probe fetcher moves as it does on its own.
LEMMA ProbeStep == [Next]_vars => [ProbeNext]_probeVars
  BY StepIsLocal

\* The time-outs are numbers, whatever the configuration says.
LEMMA TimeoutTypes == NavigationTimeout \in Nat /\ RequestTimeout \in Nat
  <1>1. NavigationTimeout \in Nat BY HeadlessAssumption DEF NavigationTimeout
  <1>2. RequestTimeout \in Nat BY HeadlessAssumption DEF RequestTimeout
  <1> QED BY <1>1, <1>2

-----------------------------------------------------------------------------
(* The headless fetcher.                                                   *)

\* What is left of a call when it ends.
LEMMA FinishTypes ==
  ASSUME HeadlessTypeOK, NEW c \in Calls, NEW document, document.status \in Nat,
         Finish(c, document)
  PROVE  HeadlessTypeOK'
  <1> USE DEF HeadlessTypeOK, Finish
  <1>1. bpc' \in [Calls -> {"idle", "acquire", "navigate", "done"}] OBVIOUS
  <1>2. elapsed' \in [Calls -> Nat] /\ nav' \in [Calls -> Nat] OBVIOUS
  <1>3. limiter' \in Nat OBVIOUS
  <1>4. DOMAIN meta' = Calls /\ \A d \in Calls : meta'[d].status \in Nat BY DEF NoDocument
  <1>5. DOMAIN resp' = Calls /\ \A d \in Calls : resp'[d].status \in Nat OBVIOUS
  <1>6. allocator' \in BOOLEAN OBVIOUS
  <1> QED BY <1>1, <1>2, <1>3, <1>4, <1>5, <1>6

\* A response has a status, also when the browser reported none.
LEMMA SnapshotStatus ==
  ASSUME NEW m, m.status \in Nat, NEW finalURL, NEW requestURL
  PROVE  SnapshotWithFallbacks(m, finalURL, requestURL).status \in Nat
  BY DEF SnapshotWithFallbacks

\* The types of the headless fetcher.
LEMMA HeadlessTypeStep ==
  ASSUME HeadlessTypeOK,
         \/ CloseHeadless \/ Tick \/ UNCHANGED headlessVars
         \/ \E c \in Fetches : BrowserStep(c)
  PROVE  HeadlessTypeOK'
  <1> USE PagesAssumption
  <1>1. CASE CloseHeadless BY <1>1 DEF CloseHeadless, HeadlessTypeOK
  <1>2. CASE Tick
    <2>1. elapsed' \in [Calls -> Nat] /\ nav' \in [Calls -> Nat]
      BY <1>2 DEF Tick, HeadlessTypeOK
    <2> QED BY <1>2, <2>1 DEF Tick, HeadlessTypeOK
  <1>3. CASE UNCHANGED headlessVars BY <1>3 DEF headlessVars, HeadlessTypeOK
  <1>4. ASSUME NEW c \in Fetches, BeginHeadless(c) PROVE HeadlessTypeOK'
    BY <1>4 DEF BeginHeadless, HeadlessTypeOK
  <1>5. ASSUME NEW c \in Fetches, Acquire(c) PROVE HeadlessTypeOK'
    BY <1>5 DEF Acquire, HeadlessTypeOK
  <1>6. ASSUME NEW c \in Fetches, AcquireCanceled(c) PROVE HeadlessTypeOK'
    BY <1>6 DEF AcquireCanceled, HeadlessTypeOK
  <1>7. ASSUME NEW c \in Fetches, NavigationFails(c) PROVE HeadlessTypeOK'
    BY <1>7, FinishTypes DEF NavigationFails, NoDocument
  <1>8. ASSUME NEW c \in Fetches, NEW d \in Documents, Capture(c, d) PROVE HeadlessTypeOK'
    <2>1. DOMAIN meta' = Calls /\ \A e \in Calls : meta'[e].status \in Nat
      BY <1>8, DocumentsAssumption DEF Capture, HeadlessTypeOK
    <2> QED BY <1>8, <2>1 DEF Capture, HeadlessTypeOK
  <1>9. ASSUME NEW c \in Fetches, Rendered(c, "request") PROVE HeadlessTypeOK'
    <2>1. PICK finalURL : Finish(c, SnapshotWithFallbacks(meta[c], finalURL, "request"))
      BY <1>9 DEF Rendered
    <2>2. meta[c].status \in Nat BY DEF HeadlessTypeOK
    <2> QED BY <2>1, <2>2, SnapshotStatus, FinishTypes
  <1>10. ASSUME NEW c \in Fetches, TakeResponse(c) PROVE HeadlessTypeOK'
    <2>1. DOMAIN resp' = Calls /\ \A d \in Calls : resp'[d].status \in Nat
      BY <1>10 DEF TakeResponse, HeadlessTypeOK, NoDocument
    <2> QED BY <1>10, <2>1 DEF TakeResponse, HeadlessTypeOK
  <1> QED BY <1>1, <1>2, <1>3, <1>4, <1>5, <1>6, <1>7, <1>8, <1>9, <1>10
          DEF BrowserStep, HeadlessStep

\* A step of one call leaves the other calls alone.
LEMMA OtherCalls ==
  ASSUME HeadlessTypeOK, NEW c \in Fetches, BrowserStep(c), NEW d \in Fetches, d # c
  PROVE  bpc'[d] = bpc[d] /\ elapsed'[d] = elapsed[d] /\ nav'[d] = nav[d]
  <1> USE PagesAssumption DEF HeadlessTypeOK
  <1>1. CASE BeginHeadless(c) BY <1>1 DEF BeginHeadless
  <1>2. CASE Acquire(c) \/ AcquireCanceled(c) BY <1>2 DEF Acquire, AcquireCanceled
  <1>3. ASSUME NEW document, Finish(c, document)
        PROVE  bpc'[d] = bpc[d] /\ elapsed'[d] = elapsed[d] /\ nav'[d] = nav[d]
    BY <1>3 DEF Finish
  <1>4. ASSUME NEW e \in Documents, Capture(c, e)
        PROVE  bpc'[d] = bpc[d] /\ elapsed'[d] = elapsed[d] /\ nav'[d] = nav[d]
    BY <1>4 DEF Capture
  <1>5. CASE TakeResponse(c) BY <1>5 DEF TakeResponse
  <1> QED BY <1>1, <1>2, <1>3, <1>4, <1>5
          DEF BrowserStep, HeadlessStep, NavigationFails, Rendered

\* The clocks of the call that moves.
LEMMA OwnTime ==
  ASSUME HeadlessTypeOK, NEW c \in Fetches, TimeInv(c), BrowserStep(c)
  PROVE  TimeInv(c)'
  <1> USE PagesAssumption, TimeoutTypes DEF HeadlessTypeOK, TimeInv
  <1>0. (RequestTimeout' = RequestTimeout) /\ (NavigationTimeout' = NavigationTimeout)
    BY DEF RequestTimeout, NavigationTimeout
  <1>1. CASE BeginHeadless(c) BY <1>0, <1>1 DEF BeginHeadless
  <1>2. CASE Acquire(c) BY <1>0, <1>2 DEF Acquire
  <1>3. CASE AcquireCanceled(c) BY <1>0, <1>3 DEF AcquireCanceled
  <1>4. ASSUME NEW document, Finish(c, document) PROVE TimeInv(c)'
    BY <1>0, <1>4 DEF Finish
  <1>5. ASSUME NEW d \in Documents, Capture(c, d) PROVE TimeInv(c)'
    BY <1>0, <1>5 DEF Capture
  <1>6. CASE TakeResponse(c) BY <1>0, <1>6 DEF TakeResponse
  <1> HIDE DEF TimeInv
  <1> QED BY <1>1, <1>2, <1>3, <1>4, <1>5, <1>6
          DEF BrowserStep, HeadlessStep, NavigationFails, Rendered

\* Time passes only while no context that a call waits on is done.
LEMMA TickTime ==
  ASSUME HeadlessTypeOK, Tick, NEW c \in Fetches, TimeInv(c)
  PROVE  TimeInv(c)'
  <1> USE PagesAssumption, TimeoutTypes DEF HeadlessTypeOK
  <1>0. (RequestTimeout' = RequestTimeout) /\ (NavigationTimeout' = NavigationTimeout)
    BY DEF RequestTimeout, NavigationTimeout
  <1>1. ~Overdue(c) /\ bpc'[c] = bpc[c] BY DEF Tick
  <1>2. elapsed'[c] = IF bpc[c] \in {"acquire", "navigate"} THEN elapsed[c] + 1 ELSE elapsed[c]
    BY DEF Tick
  <1>3. nav'[c] = IF bpc[c] = "navigate" THEN nav[c] + 1 ELSE nav[c]
    BY DEF Tick
  <1> QED BY <1>0, <1>1, <1>2, <1>3 DEF TimeInv, Overdue

\* Every step of the headless fetcher keeps the time-outs of its calls.
LEMMA CallsStep ==
  ASSUME HeadlessTypeOK,
         \/ CloseHeadless \/ Tick \/ UNCHANGED headlessVars
         \/ \E c \in Fetches : BrowserStep(c),
         NEW d \in Fetches, TimeInv(d)
  PROVE  TimeInv(d)'
  <1>1. ASSUME bpc'[d] = bpc[d] /\ elapsed'[d] = elapsed[d] /\ nav'[d] = nav[d]
        PROVE  TimeInv(d)'
    BY <1>1 DEF TimeInv, RequestTimeout, NavigationTimeout
  <1>2. CASE CloseHeadless \/ UNCHANGED headlessVars
    BY <1>1, <1>2 DEF CloseHeadless, headlessVars
  <1>3. CASE Tick BY <1>3, TickTime
  <1>4. ASSUME NEW c \in Fetches, BrowserStep(c) PROVE TimeInv(d)'
    <2>1. CASE d = c BY <1>4, <2>1, OwnTime
    <2>2. CASE d # c BY <1>1, <1>4, <2>2, OtherCalls
    <2> QED BY <2>1, <2>2
  <1> QED BY <1>2, <1>3, <1>4

-----------------------------------------------------------------------------
(* The probe fetcher below it.                                             *)

\* A client that said no is not overruled: the default replaces only a field that
\* was left out (toJobParameters).
LEMMA NoMeansNo ==
  ASSUME NEW f \in Fetches, of[f] \in Submissions, of[f].kind = "custom",
         of[f].body.HeadlessAllowed = <<FALSE>>
  PROVE  JobParams(of[f]).HeadlessAllowed = FALSE
  <1>1. <<FALSE>> # Nil /\ <<FALSE>>[1] = FALSE BY DEF Nil
  <1>2. valueOrDefault(<<FALSE>>, Cfg.HeadlessEnabled) = FALSE
    BY <1>1 DEF valueOrDefault
  <1> QED BY <1>1, <1>2 DEF JobParams, toJobParameters, applyDefaults

\* A step of one call leaves what the others return alone.
LEMMA OtherResults ==
  ASSUME ProbeTypeOK, NEW g \in Fetches, Step(g), NEW f \in Fetches, f # g
  PROVE  ret'[f] = ret[f] /\ out'[f] = out[f]
  <1> USE DEF ProbeTypeOK
  <1>1. CASE Fetch(g) \/ CheckRobotsAsks(g) \/ CacheLoad(g) \/ RobotsTransient(g)
    BY <1>1 DEF Fetch, CheckRobotsAsks, CacheLoad, RobotsTransient
  <1>2. CASE \/ CheckRobotsKnown(g) \/ RobotsError(g) \/ RobotsBackoff(g)
             \/ RobotsUnreadable(g) \/ StoreRules(g)
    BY <1>2 DEF CheckRobotsKnown, RobotsError, RobotsBackoff, RobotsUnreadable, StoreRules,
                Obey, End
  <1>3. ASSUME NEW status, NEW file, RobotsAnswer(g, status, file)
        PROVE  ret'[f] = ret[f] /\ out'[f] = out[f]
    BY <1>3 DEF RobotsAnswer
  <1>4. CASE RobotsExhausted(g) BY <1>4 DEF RobotsExhausted, AllowAll
  <1>5. CASE CheckVisited(g) \/ MarkVisited(g) \/ VisitPage(g) \/ SendResult(g)
    BY <1>5 DEF CheckVisited, MarkVisited, VisitPage, SendResult, End
  <1>6. CASE FetchReturns(g) \/ FetchCanceled(g)
    BY <1>6 DEF FetchReturns, FetchCanceled, Return
  <1> QED BY <1>1, <1>2, <1>3, <1>4, <1>5, <1>6 DEF Step, VisitStep, RobotsFile, RobotsStatus

\* Only a visit that has passed robots.txt ends without an error, and only such
\* a visit makes Fetch return a response.
LEMMA ReturnStep ==
  ASSUME IInv, NEW g \in Fetches, Step(g), NEW f \in Fetches, ReturnInv(f)
  PROVE  ReturnInv(f)'
  <1>0. /\ RespectRobots(f)' = RespectRobots(f)
        /\ Allowed(f) => Allowed(f)'
    BY Growth DEF IInv
  <1>1. CASE f # g
    <2>1. fpc'[f] = fpc[f] /\ ret'[f] = ret[f] /\ out'[f] = out[f]
      BY <1>1, Frame, OtherResults DEF IInv
    <2> QED BY <1>0, <2>1 DEF ReturnInv
  <1>2. CASE f = g
    <2> USE DEF IInv, ProbeTypeOK, Goto
    <2>1. CASE Fetch(g) \/ CheckRobotsAsks(g) \/ CacheLoad(g) \/ RobotsTransient(g)
      BY <1>0, <1>2, <2>1 DEF Fetch, CheckRobotsAsks, CacheLoad, RobotsTransient, ReturnInv
    <2>2. CASE CheckRobotsKnown(g)
      BY <1>0, <1>2, <2>2 DEF CheckRobotsKnown, Obey, End, ReturnInv
    <2>3. ASSUME NEW status, NEW file, RobotsAnswer(g, status, file) PROVE ReturnInv(f)'
      BY <1>0, <1>2, <2>3 DEF RobotsAnswer, ReturnInv
    <2>4. CASE RobotsError(g) \/ RobotsBackoff(g) \/ RobotsUnreadable(g)
      BY <1>0, <1>2, <2>4 DEF RobotsError, RobotsBackoff, RobotsUnreadable, End, ReturnInv
    <2>5. CASE RobotsExhausted(g)
      BY <1>0, <1>2, <2>5 DEF RobotsExhausted, AllowAll, ReturnInv
    <2>6. CASE StoreRules(g)
      BY <1>0, <1>2, <2>6 DEF StoreRules, Obey, End, ReturnInv
    <2>7. CASE CheckVisited(g) \/ MarkVisited(g)
      BY <1>0, <1>2, <2>7 DEF CheckVisited, MarkVisited, End, ReturnInv
    <2>8. CASE VisitPage(g)
      <3>1. RespectRobots(f) => Allowed(f) BY <1>2, <2>8 DEF VisitPage, PastRobotsInv
      <3> QED BY <1>0, <3>1 DEF ReturnInv
    <2>9. CASE SendResult(g)
      BY <1>0, <1>2, <2>9 DEF SendResult, ReturnInv
    <2>10. CASE FetchReturns(g)
      BY <1>0, <1>2, <2>10 DEF FetchReturns, Return, ReturnInv
    <2>11. CASE FetchCanceled(g)
      BY <1>0, <1>2, <2>11 DEF FetchCanceled, Return, ReturnInv
    <2> HIDE DEF IInv, ProbeTypeOK, Goto
    <2> QED BY <2>1, <2>2, <2>3, <2>4, <2>5, <2>6, <2>7, <2>8, <2>9, <2>10, <2>11
            DEF Step, VisitStep, RobotsFile, RobotsStatus
  <1> QED BY <1>1, <1>2

\* What was found of a page stays true of it as the probe fetcher goes on.
LEMMA ProbeGrowth ==
  ASSUME IInv, [ProbeNext]_probeVars, NEW f \in Fetches
  PROVE  /\ of' = of /\ RespectRobots(f)' = RespectRobots(f)
         /\ Allowed(f) => Allowed(f)'
         /\ ReturnInv(f) => ReturnInv(f)'
  <1>1. ASSUME NEW g \in Fetches, Step(g)
        PROVE  /\ of' = of /\ RespectRobots(f)' = RespectRobots(f)
               /\ Allowed(f) => Allowed(f)'
               /\ ReturnInv(f) => ReturnInv(f)'
    BY <1>1, Frame, Growth, ReturnStep DEF IInv
  <1>2. CASE UNCHANGED probeVars
    <2>1. UNCHANGED <<of, url, fpc, ret, out, served, exhausted>>
      BY <1>2 DEF probeVars, inputs, history
    <2>2. RespectRobots(f)' = RespectRobots(f) /\ (Allowed(f)' <=> Allowed(f))
      BY <2>1 DEF RespectRobots, Allowed, Host, Forbids
    <2> QED BY <2>1, <2>2 DEF ReturnInv
  <1> QED BY <1>1, <1>2 DEF ProbeNext, Step

\* The browser is started by maybePromote and by nothing else.
LEMMA BrowserStarts ==
  ASSUME HeadlessTypeOK, [Next]_vars, NEW f \in Fetches, bpc[f] = "idle", bpc'[f] # "idle"
  PROVE  /\ out[f] \in {"ok", "indeterminate"}
         /\ JobParams(of[f]).HeadlessAllowed /\ Cfg.HeadlessEnabled
         /\ UNCHANGED probeVars
  <1> USE PagesAssumption
  <1>1. ASSUME NEW g \in Fetches, NEW status, NEW body, NEW allowed,
               MaybePromote(g, status, body, allowed)
        PROVE  /\ out[f] \in {"ok", "indeterminate"}
               /\ JobParams(of[f]).HeadlessAllowed /\ Cfg.HeadlessEnabled
               /\ UNCHANGED probeVars
    <2>1. Thin(g, status, body, allowed) /\ BeginHeadless(g)
      BY <1>1 DEF MaybePromote, headlessVars
    <2>2. g = f BY <2>1 DEF BeginHeadless, HeadlessTypeOK
    <2> QED BY <1>1, <2>1, <2>2 DEF MaybePromote, Probed, Thin
  <1>2. ASSUME NEW g \in Fetches, PromotionReturns(g) PROVE FALSE
    BY <1>2 DEF PromotionReturns, TakeResponse
  <1>3. ASSUME NEW g \in Fetches, HeadlessStep(g) PROVE FALSE
    <2>1. CASE Acquire(g) \/ AcquireCanceled(g)
      BY <2>1 DEF Acquire, AcquireCanceled, HeadlessTypeOK
    <2>2. CASE NavigationFails(g) BY <2>2 DEF NavigationFails, Finish, HeadlessTypeOK
    <2>3. ASSUME NEW d \in Documents, Capture(g, d) PROVE FALSE BY <2>3 DEF Capture
    <2>4. CASE Rendered(g, "request")
      BY <2>4 DEF Rendered, Finish, HeadlessTypeOK
    <2> QED BY <1>3, <2>1, <2>2, <2>3, <2>4 DEF HeadlessStep
  <1>4. ~UNCHANGED headlessVars /\ ~CloseHeadless /\ ~Tick
    BY DEF headlessVars, CloseHeadless, Tick
  <1>5. ~UNCHANGED vars BY <1>4 DEF vars
  <1> QED BY <1>1, <1>2, <1>3, <1>4, <1>5 DEF Next

\* The browser is started after a response of the probe fetcher, for a job that
\* allows it, and what allowed it stays true.
LEMMA BrowserInvStep ==
  ASSUME IInv, HeadlessTypeOK, [Next]_vars, NEW f \in Fetches, ReturnInv(f), BrowserInv(f)
  PROVE  BrowserInv(f)'
  <1>1. /\ of' = of /\ RespectRobots(f)' = RespectRobots(f)
        /\ Allowed(f) => Allowed(f)'
    BY ProbeStep, ProbeGrowth
  <1>2. CASE bpc[f] # "idle" BY <1>1, <1>2 DEF BrowserInv
  <1>3. CASE bpc[f] = "idle" /\ bpc'[f] # "idle"
    <2>1. /\ out[f] \in {"ok", "indeterminate"}
          /\ JobParams(of[f]).HeadlessAllowed /\ Cfg.HeadlessEnabled
      BY <1>3, BrowserStarts
    <2>2. RespectRobots(f) => Allowed(f) BY <2>1 DEF ReturnInv
    <2> QED BY <1>1, <2>1, <2>2 DEF BrowserInv
  <1> QED BY <1>2, <1>3 DEF BrowserInv

-----------------------------------------------------------------------------
(* The theorems.                                                           *)

\* The stage of a page is one of the four.
LEMMA StageStep ==
  ASSUME stage \in [Fetches -> {"probe", "browser", "probed", "rendered"}], [Next]_vars
  PROVE  stage' \in [Fetches -> {"probe", "browser", "probed", "rendered"}]
  <1>1. ASSUME NEW f \in Fetches, NEW status, NEW body, NEW allowed,
               MaybePromote(f, status, body, allowed)
        PROVE  stage' \in [Fetches -> {"probe", "browser", "probed", "rendered"}]
    BY <1>1 DEF MaybePromote, SetStage
  <1>2. ASSUME NEW f \in Fetches, PromotionReturns(f)
        PROVE  stage' \in [Fetches -> {"probe", "browser", "probed", "rendered"}]
    BY <1>2 DEF PromotionReturns, SetStage
  <1>3. CASE UNCHANGED stage BY <1>3
  <1> QED BY <1>1, <1>2, <1>3 DEF Next, vars

\* Nothing has been fetched yet.
LEMMA PInvInit == Init => IInv /\ PInv
  <1> SUFFICES ASSUME Init PROVE IInv /\ PInv OBVIOUS
  <1> USE PagesAssumption
  <1>1. IInv BY InvInit DEF Init
  <1>2. HeadlessTypeOK BY DEF Init, HeadlessInit, HeadlessTypeOK, NoDocument
  <1>3. TypeOK BY <1>1, <1>2 DEF Init, TypeOK, IInv
  <1>4. ASSUME NEW f \in Fetches
        PROVE  TimeInv(f) /\ ReturnInv(f) /\ BrowserInv(f)
    <2>1. TimeInv(f) BY DEF Init, HeadlessInit, TimeInv
    <2>2. ReturnInv(f) /\ BrowserInv(f)
      BY DEF Init, ProbeInit, HeadlessInit, ReturnInv, BrowserInv
    <2> QED BY <2>1, <2>2
  <1> QED BY <1>1, <1>3, <1>4 DEF PInv

\* Every step of the worker, the fetchers, the browser and the hosts keeps it.
LEMMA PInvStep == IInv /\ PInv /\ [Next]_vars => IInv' /\ PInv'
  <1> SUFFICES ASSUME IInv, PInv, [Next]_vars PROVE IInv' /\ PInv' OBVIOUS
  <1>1. [ProbeNext]_probeVars BY ProbeStep
  <1>2. IInv' BY <1>1, InvStep
  <1>3. \/ CloseHeadless \/ Tick \/ UNCHANGED headlessVars
        \/ \E c \in Fetches : BrowserStep(c)
    BY StepIsLocal
  <1>4. HeadlessTypeOK BY DEF PInv, TypeOK
  <1>5. TypeOK'
    <2>1. HeadlessTypeOK' BY <1>3, <1>4, HeadlessTypeStep
    <2>2. ProbeTypeOK' BY <1>2 DEF IInv
    <2> QED BY <2>1, <2>2, StageStep DEF PInv, TypeOK
  <1>6. ASSUME NEW d \in Fetches PROVE TimeInv(d)'
    BY <1>3, <1>4, CallsStep DEF PInv
  <1>7. ASSUME NEW f \in Fetches PROVE ReturnInv(f)' /\ BrowserInv(f)'
    BY <1>1, <1>4, ProbeGrowth, BrowserInvStep DEF PInv
  <1> QED BY <1>2, <1>5, <1>6, <1>7 DEF PInv

\* The probe fetcher of a page is the probe fetcher: what its theorems say of it
\* alone holds of it below the headless fetcher (fetchProbe, maybePromote).
THEOREM Composition == Spec => ProbeSpec
  <1>1. Init => ProbeInit BY DEF Init
  <1> QED BY <1>1, ProbeStep, PTL DEF Spec, ProbeSpec

\* The inductive invariant holds in every reachable state.
THEOREM PageInvariance == Spec => [](IInv /\ PInv)
  BY PInvInit, PInvStep, PTL DEF Spec

\* Every variable of both fetchers keeps its type.
THEOREM TypeCorrectness == Spec => []TypeOK
  <1>1. PInv => TypeOK BY DEF PInv
  <1> QED BY <1>1, PageInvariance, PTL

\* Also below the browser, a page is requested only where robots.txt, if the job
\* respects it, was heard to allow it.
THEOREM PageRobots == Spec => []RobotsHonoured
  BY Composition, Robots, PTL

\* Also below the browser, the robots cache holds files served with 200 only.
THEOREM PageCache == Spec => []CacheHoldsServedFiles
  BY Composition, Cache, PTL

\* No call of the headless fetcher outlasts its two time-outs.
THEOREM Bounded == Spec => []HeadlessBounded
  <1>1. ASSUME PInv PROVE HeadlessBounded
    <2> SUFFICES ASSUME NEW c \in Calls
                 PROVE  elapsed[c] <= RequestTimeout + NavigationTimeout
      BY DEF HeadlessBounded
    <2>1. TimeInv(c) /\ HeadlessTypeOK BY <1>1, PagesAssumption DEF PInv, TypeOK
    <2> QED BY <2>1, TimeoutTypes DEF TimeInv, HeadlessTypeOK
  <1> QED BY <1>1, PageInvariance, PTL

\* The browser opens no page for a client that said no to it, and only pages that
\* robots.txt let the probe through to if the job respects it.
THEOREM Browser == Spec => []BrowserHonoursClient
  <1>1. ASSUME IInv, PInv PROVE BrowserHonoursClient
    <2> SUFFICES ASSUME NEW f \in Fetches, bpc[f] # "idle"
                 PROVE  /\ of[f].kind = "custom" => of[f].body.HeadlessAllowed # <<FALSE>>
                        /\ Cfg.HeadlessEnabled
                        /\ Asked(f) => Allowed(f)
      BY DEF BrowserHonoursClient, Allowed
    <2>1. RespectRobots(f) = Asked(f) BY <1>1, RespectIsAsked DEF IInv, ProbeTypeOK
    <2>2. /\ JobParams(of[f]).HeadlessAllowed /\ Cfg.HeadlessEnabled
          /\ RespectRobots(f) => Allowed(f)
      BY <1>1 DEF PInv, BrowserInv
    <2>3. of[f] \in Submissions BY <1>1 DEF IInv, ProbeTypeOK
    <2>4. of[f].kind = "custom" => of[f].body.HeadlessAllowed # <<FALSE>>
      BY <2>2, <2>3, NoMeansNo
    <2> QED BY <2>1, <2>2, <2>4
  <1> QED BY <1>1, PageInvariance, PTL
=============================================================================
