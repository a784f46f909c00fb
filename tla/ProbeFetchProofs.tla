-------------------------- MODULE ProbeFetchProofs --------------------------
(***************************************************************************)
(* Theorems about ProbeFetch, for any number of calls, hosts, paths and    *)
(* back-offs, whatever robots.txt files the sites serve and whatever the   *)
(* jobs were submitted with.                                               *)
(***************************************************************************)
EXTENDS ProbeFetch, TLAPS

\* What a job runs with is what its client asked for: the defaults are applied
\* where the field, or a template's companion flag, was left out (toJobParameters).
LEMMA RespectIsAsked ==
  ASSUME NEW f \in Fetches, of[f] \in Submissions
  PROVE  RespectRobots(f) = Asked(f)
  <1>1. of[f].kind \in {"custom", "standard"} BY SubmissionsAssumption
  <1>2. CASE of[f].kind = "custom"
    BY <1>2 DEF RespectRobots, Asked, JobParams, toJobParameters, applyDefaults, valueOrDefault, Nil
  <1>3. CASE of[f].kind = "standard"
    BY <1>3 DEF RespectRobots, Asked, JobParams, standardJobParameters, applyDefaults, Nil
  <1> QED BY <1>1, <1>2, <1>3

-----------------------------------------------------------------------------
(* The inductive invariant.                                                *)

\* The host of call f allows its path, as far as it was ever heard.
Allowed(f) ==
  Host(f) \in exhausted \/ \E a \in served[Host(f)] : ~Forbids(a.rules, f)

\* Rules that host h has served, if it was heard at all.
FromHost(rules, h) == h \in exhausted \/ \E a \in served[h] : a.rules = rules

\* A lookup has attempts left while it waits, and only rules of its host when
\* it has an answer.
LookInv(f) ==
  /\ fpc[f] = "backoff" => look[f].attempt < Backoffs
  /\ fpc[f] \in Looking => RespectRobots(f)
  /\ fpc[f] = "store" => FromHost(look[f].rules, Host(f))

\* A call that is past robots.txt has been allowed, or never asked.
PastRobotsInv(f) ==
  fpc[f] \in {"visited", "mark", "page"} /\ RespectRobots(f) => Allowed(f)

\* The rules colly keeps for a host come from it.
MapInv == \A h \in Hosts : robotsMap[h] # NoRules => FromHost(robotsMap[h], h)

IInv ==
  /\ ProbeTypeOK
  /\ \A f \in Fetches : LookInv(f)
  /\ \A f \in Fetches : PastRobotsInv(f)
  /\ MapInv
  /\ CacheHoldsServedFiles

-----------------------------------------------------------------------------
(* Types.                                                                  *)

\* The labels an action can go to are typed.
LEMMA Labels ==
  /\ {"check", "visited", "mark", "page", "send", "ended"} \subseteq PCs
  /\ {"load", "wire", "backoff", "store"} \subseteq PCs
  BY DEF PCs, Looking

\* An answer of the host is added to what it has served.
LEMMA AnswerTypes ==
  ASSUME ProbeTypeOK, NEW f \in Fetches, NEW status \in {200, 404, 503},
         NEW file \in SUBSET Paths, RobotsAnswer(f, status, file),
         UNCHANGED cache \/ CacheStore(f, file)
  PROVE  ProbeTypeOK'
  <1>1. Host(f) \in Hosts BY DEF ProbeTypeOK, Host, Urls
  <1>2. file \in Known BY DEF Known
  <1>3. look' \in [Fetches -> Lookups] BY <1>2 DEF RobotsAnswer, ProbeTypeOK, Lookups
  <1>4. fpc' \in [Fetches -> PCs] BY Labels DEF RobotsAnswer, Goto, ProbeTypeOK
  <1>5. [status |-> status, rules |-> file] \in Answers BY DEF Answers
  <1>6. served' \in [Hosts -> SUBSET Answers] BY <1>1, <1>5 DEF RobotsAnswer, ProbeTypeOK
  <1>7. cache' \in [Hosts -> Known] BY <1>1, <1>2 DEF CacheStore, ProbeTypeOK
  <1> QED BY <1>3, <1>4, <1>6, <1>7 DEF RobotsAnswer, ProbeTypeOK, inputs, collyVars

\* What Fetch and Visit leave of the types.
LEMMA TypeStep ==
  ASSUME ProbeTypeOK, \A f \in Fetches : LookInv(f), [ProbeNext]_probeVars
  PROVE  ProbeTypeOK'
  <1> USE Labels, BackoffsAssumption, FilesAssumption DEF ProbeTypeOK, Goto, inputs, collyVars, history
  <1>1. ASSUME NEW f \in Fetches, Fetch(f) PROVE ProbeTypeOK'
    BY <1>1 DEF Fetch
  <1>2. ASSUME NEW f \in Fetches, CheckRobotsKnown(f) PROVE ProbeTypeOK'
    BY <1>2 DEF CheckRobotsKnown, Obey, End
  <1>3. ASSUME NEW f \in Fetches, CheckRobotsAsks(f) PROVE ProbeTypeOK'
    BY <1>3 DEF CheckRobotsAsks, Lookups
  <1>4. ASSUME NEW f \in Fetches, CacheLoad(f) PROVE ProbeTypeOK'
    BY <1>4 DEF CacheLoad, Lookups, Host, Urls
  <1>5. ASSUME NEW f \in Fetches, NEW file \in Files, RobotsFile(f, file) PROVE ProbeTypeOK'
    <2> HIDE DEF ProbeTypeOK
    <2> QED BY <1>5, AnswerTypes DEF RobotsFile
  <1>6. ASSUME NEW f \in Fetches, RobotsStatus(f, 404, {}) \/ RobotsStatus(f, 503, Paths)
        PROVE  ProbeTypeOK'
    <2> HIDE DEF ProbeTypeOK
    <2>1. {} \in SUBSET Paths /\ Paths \in SUBSET Paths OBVIOUS
    <2> QED BY <1>6, <2>1, AnswerTypes DEF RobotsStatus
  <1>7. ASSUME NEW f \in Fetches, RobotsError(f) \/ RobotsUnreadable(f) PROVE ProbeTypeOK'
    <2>1. CASE RobotsError(f)
      BY <2>1 DEF RobotsError, End, EndLookup, NoLookup, Lookups, Known
    <2>2. CASE RobotsUnreadable(f)
      BY <2>2 DEF RobotsUnreadable, End, EndLookup, NoLookup, Lookups, Known
    <2> QED BY <1>7, <2>1, <2>2
  <1>8. ASSUME NEW f \in Fetches, RobotsTransient(f) PROVE ProbeTypeOK'
    BY <1>8 DEF RobotsTransient
  <1>9. ASSUME NEW f \in Fetches, RobotsBackoff(f) PROVE ProbeTypeOK'
    BY <1>9 DEF RobotsBackoff, End, EndLookup, NoLookup, Lookups, Known, LookInv
  <1>10. ASSUME NEW f \in Fetches, RobotsExhausted(f) PROVE ProbeTypeOK'
    BY <1>10 DEF RobotsExhausted, AllowAll, Lookups, Host, Urls, Known
  <1>11. ASSUME NEW f \in Fetches, StoreRules(f) PROVE ProbeTypeOK'
    <2>1. Host(f) \in Hosts /\ look[f].rules \in Known /\ NoLookup \in Lookups
      BY DEF Host, Urls, Lookups, NoLookup, Known
    <2>2. robotsMap' \in [Hosts -> Known] /\ look' \in [Fetches -> Lookups]
      BY <1>11, <2>1 DEF StoreRules, EndLookup
    <2>3. fpc' \in [Fetches -> PCs] /\ ret' \in [Fetches -> {"nil", "error"}]
      BY <1>11 DEF StoreRules, Obey, End
    <2> QED BY <1>11, <2>2, <2>3 DEF StoreRules
  <1>12. ASSUME NEW f \in Fetches, CheckVisited(f) PROVE ProbeTypeOK'
    BY <1>12 DEF CheckVisited, End
  <1>13. ASSUME NEW f \in Fetches, MarkVisited(f) PROVE ProbeTypeOK'
    BY <1>13 DEF MarkVisited
  <1>14. ASSUME NEW f \in Fetches, VisitPage(f) PROVE ProbeTypeOK'
    BY <1>14 DEF VisitPage, End
  <1>15. ASSUME NEW f \in Fetches, SendResult(f) PROVE ProbeTypeOK'
    BY <1>15 DEF SendResult
  <1>16. ASSUME NEW f \in Fetches, FetchReturns(f) \/ FetchCanceled(f) PROVE ProbeTypeOK'
    BY <1>16 DEF FetchReturns, FetchCanceled, Return
  <1>17. CASE UNCHANGED probeVars
    BY <1>17 DEF probeVars
  <1> HIDE Labels, BackoffsAssumption, FilesAssumption DEF ProbeTypeOK, Goto, inputs, collyVars, history
  <1> QED BY <1>1, <1>2, <1>3, <1>4, <1>5, <1>6, <1>7, <1>8, <1>9, <1>10, <1>11, <1>12, <1>13,
             <1>14, <1>15, <1>16, <1>17 DEF ProbeNext, VisitStep

-----------------------------------------------------------------------------
(* What a step of one call leaves to the others.                           *)

Step(g) == Fetch(g) \/ VisitStep(g) \/ FetchReturns(g) \/ FetchCanceled(g)

\* The inputs stay, the history grows, and no other call moves.
LEMMA Frame ==
  ASSUME ProbeTypeOK, NEW g \in Fetches, Step(g)
  PROVE  /\ of' = of /\ url' = url
         /\ \A h \in Hosts : served[h] \subseteq served'[h]
         /\ exhausted \subseteq exhausted'
         /\ \A f \in Fetches : f # g => fpc'[f] = fpc[f] /\ look'[f] = look[f]
  <1> USE DEF ProbeTypeOK, Goto, inputs, collyVars, history
  <1>1. CASE Fetch(g) BY <1>1 DEF Fetch
  <1>2. CASE CheckRobotsKnown(g) BY <1>2 DEF CheckRobotsKnown, Obey, End
  <1>3. CASE CheckRobotsAsks(g) BY <1>3 DEF CheckRobotsAsks
  <1>4. CASE CacheLoad(g) BY <1>4 DEF CacheLoad
  <1>5. ASSUME NEW status, NEW file, RobotsAnswer(g, status, file)
        PROVE  /\ of' = of /\ url' = url
               /\ \A h \in Hosts : served[h] \subseteq served'[h]
               /\ exhausted \subseteq exhausted'
               /\ \A f \in Fetches : f # g => fpc'[f] = fpc[f] /\ look'[f] = look[f]
    <2>1. Host(g) \in Hosts BY DEF Host, Urls
    <2>2. \A h \in Hosts : served[h] \subseteq served'[h]
      BY <1>5, <2>1 DEF RobotsAnswer
    <2> QED BY <1>5, <2>2 DEF RobotsAnswer
  <1>6. CASE RobotsError(g) \/ RobotsUnreadable(g)
    BY <1>6 DEF RobotsError, RobotsUnreadable, End, EndLookup
  <1>7. CASE RobotsTransient(g) BY <1>7 DEF RobotsTransient
  <1>8. CASE RobotsBackoff(g) BY <1>8 DEF RobotsBackoff, End, EndLookup
  <1>9. CASE RobotsExhausted(g) BY <1>9 DEF RobotsExhausted, AllowAll
  <1>10. CASE StoreRules(g) BY <1>10 DEF StoreRules, Obey, End, EndLookup
  <1>11. CASE CheckVisited(g) BY <1>11 DEF CheckVisited, End
  <1>12. CASE MarkVisited(g) BY <1>12 DEF MarkVisited
  <1>13. CASE VisitPage(g) BY <1>13 DEF VisitPage, End
  <1>14. CASE SendResult(g) BY <1>14 DEF SendResult
  <1>15. CASE FetchReturns(g) \/ FetchCanceled(g)
    BY <1>15 DEF FetchReturns, FetchCanceled, Return
  <1> HIDE DEF ProbeTypeOK, Goto, inputs, collyVars, history
  <1> QED BY <1>1, <1>2, <1>3, <1>4, <1>5, <1>6, <1>7, <1>8, <1>9, <1>10, <1>11, <1>12, <1>13,
             <1>14, <1>15 DEF Step, VisitStep, RobotsFile, RobotsStatus

\* With the inputs and a growing history, what was allowed stays allowed and
\* what came from a host still does.
LEMMA Growth ==
  ASSUME ProbeTypeOK, NEW g \in Fetches, Step(g), NEW f \in Fetches
  PROVE  /\ RespectRobots(f)' = RespectRobots(f) /\ Host(f)' = Host(f) /\ Host(f) \in Hosts
         /\ \A r : Forbids(r, f)' = Forbids(r, f)
         /\ Allowed(f) => Allowed(f)'
         /\ \A r : \A h \in Hosts : FromHost(r, h) => FromHost(r, h)'
  <1>1. /\ of' = of /\ url' = url
        /\ \A h \in Hosts : served[h] \subseteq served'[h]
        /\ exhausted \subseteq exhausted'
    BY Frame
  <1>2. RespectRobots(f)' = RespectRobots(f) BY <1>1 DEF RespectRobots
  <1>3. Host(f)' = Host(f) /\ \A r : Forbids(r, f)' = Forbids(r, f)
    BY <1>1 DEF Host, Forbids
  <1>4. Host(f) \in Hosts BY DEF ProbeTypeOK, Host, Urls
  <1>5. Allowed(f) => Allowed(f)' BY <1>1, <1>3, <1>4 DEF Allowed
  <1>6. \A r : \A h \in Hosts : FromHost(r, h) => FromHost(r, h)' BY <1>1 DEF FromHost
  <1> QED BY <1>2, <1>3, <1>4, <1>5, <1>6

-----------------------------------------------------------------------------
(* One lemma per conjunct.                                                 *)

\* A lookup, of the call that moves and of the others.
LEMMA LookStep ==
  ASSUME ProbeTypeOK, \A f \in Fetches : LookInv(f), CacheHoldsServedFiles,
         NEW g \in Fetches, Step(g), NEW f \in Fetches
  PROVE  LookInv(f)'
  <1>0. /\ RespectRobots(f)' = RespectRobots(f) /\ Host(f)' = Host(f) /\ Host(f) \in Hosts
        /\ \A r : \A h \in Hosts : FromHost(r, h) => FromHost(r, h)'
    BY Growth
  <1>1. CASE f # g
    BY <1>0, <1>1, Frame DEF LookInv
  <1>2. CASE f = g
    <2> USE DEF ProbeTypeOK, Goto
    <2>1. CASE Fetch(g) \/ CheckRobotsKnown(g)
      BY <1>2, <2>1 DEF Fetch, CheckRobotsKnown, Obey, End, LookInv, Looking
    <2>2. CASE CheckRobotsAsks(g)
      BY <1>0, <1>2, <2>2 DEF CheckRobotsAsks, LookInv, Looking
    <2>3. CASE CacheLoad(g)
      <3>1. RespectRobots(f) BY <1>2, <2>3 DEF CacheLoad, LookInv, Looking
      <3>2. fpc'[f] \in {"wire", "store"} /\ look'[f].rules = cache[Host(f)]
        BY <1>2, <2>3 DEF CacheLoad, Lookups
      <3>3. fpc'[f] = "store" => FromHost(cache[Host(f)], Host(f))
        BY <1>0, <1>2, <2>3 DEF CacheLoad, CacheHoldsServedFiles, FromHost
      <3> QED BY <1>0, <3>1, <3>2, <3>3 DEF LookInv
    <2>4. ASSUME NEW status, NEW file, RobotsAnswer(g, status, file) PROVE LookInv(f)'
      <3>1. RespectRobots(f) BY <1>2, <2>4 DEF RobotsAnswer, LookInv, Looking
      <3>2. fpc'[f] = "store" /\ look'[f].rules = file
        BY <1>2, <2>4 DEF RobotsAnswer, Lookups
      <3>3. [status |-> status, rules |-> file] \in served'[Host(f)]
        BY <1>0, <1>2, <2>4 DEF RobotsAnswer
      <3>4. FromHost(file, Host(f))' BY <1>0, <3>3 DEF FromHost
      <3> QED BY <1>0, <3>1, <3>2, <3>4 DEF LookInv
    <2>5. CASE RobotsError(g) \/ RobotsUnreadable(g)
      BY <1>2, <2>5 DEF RobotsError, RobotsUnreadable, End, LookInv, Looking
    <2>6. CASE RobotsTransient(g)
      BY <1>0, <1>2, <2>6 DEF RobotsTransient, LookInv, Looking
    <2>7. CASE RobotsBackoff(g)
      BY <1>0, <1>2, <2>7 DEF RobotsBackoff, End, LookInv, Looking
    <2>8. CASE RobotsExhausted(g)
      <3>1. RespectRobots(f) BY <1>2, <2>8 DEF RobotsExhausted, AllowAll, LookInv, Looking
      <3>2. fpc'[f] = "store" /\ Host(f) \in exhausted'
        BY <1>2, <2>8 DEF RobotsExhausted, AllowAll
      <3> QED BY <1>0, <3>1, <3>2 DEF LookInv, FromHost
    <2>9. CASE StoreRules(g)
      BY <1>2, <2>9 DEF StoreRules, Obey, End, LookInv, Looking
    <2>10. CASE CheckVisited(g) \/ MarkVisited(g) \/ VisitPage(g) \/ SendResult(g)
      BY <1>2, <2>10 DEF CheckVisited, MarkVisited, VisitPage, SendResult, End, LookInv, Looking
    <2>11. CASE FetchReturns(g) \/ FetchCanceled(g)
      BY <1>0, <2>11 DEF FetchReturns, FetchCanceled, Return, LookInv
    <2> HIDE DEF ProbeTypeOK, Goto
    <2> QED BY <2>1, <2>2, <2>3, <2>4, <2>5, <2>6, <2>7, <2>8, <2>9, <2>10, <2>11
            DEF Step, VisitStep, RobotsFile, RobotsStatus
  <1> QED BY <1>1, <1>2

\* Rules that do not forbid the path and come from its host allow it.
LEMMA FromHostAllows ==
  ASSUME NEW f, NEW rules, FromHost(rules, Host(f)), ~Forbids(rules, f)
  PROVE  Allowed(f)
  BY DEF FromHost, Allowed

\* A call passes robots.txt with rules that allow its path, or without asking.
LEMMA PastRobotsStep ==
  ASSUME ProbeTypeOK, \A f \in Fetches : LookInv(f), \A f \in Fetches : PastRobotsInv(f), MapInv,
         NEW g \in Fetches, Step(g), NEW f \in Fetches
  PROVE  PastRobotsInv(f)'
  <1>0. /\ RespectRobots(f)' = RespectRobots(f) /\ Host(f) \in Hosts
        /\ Allowed(f) => Allowed(f)'
    BY Growth
  <1>1. CASE f # g
    BY <1>0, <1>1, Frame DEF PastRobotsInv
  <1>2. CASE f = g
    <2> USE DEF ProbeTypeOK, Goto
    <2>1. CASE CheckRobotsKnown(g)
      <3>1. CASE ~RespectRobots(f) BY <1>0, <3>1 DEF PastRobotsInv
      <3>2. CASE RespectRobots(f)
        <4>1. fpc'[f] = "send" \/ (~Forbids(robotsMap[Host(f)], f) /\ robotsMap[Host(f)] # NoRules)
          BY <1>2, <2>1, <3>2 DEF CheckRobotsKnown, Obey, End
        <4>2. fpc'[f] = "send" \/ Allowed(f)
          BY <1>0, <4>1, FromHostAllows DEF MapInv
        <4> QED BY <1>0, <4>2 DEF PastRobotsInv
      <3> QED BY <3>1, <3>2
    <2>2. CASE StoreRules(g)
      <3>1. fpc'[f] = "send" \/ ~Forbids(look[f].rules, f)
        BY <1>2, <2>2 DEF StoreRules, Obey, End
      <3>2. FromHost(look[f].rules, Host(f)) BY <1>2, <2>2 DEF StoreRules, LookInv
      <3>3. fpc'[f] = "send" \/ Allowed(f) BY <3>1, <3>2, FromHostAllows
      <3> QED BY <1>0, <3>3 DEF PastRobotsInv
    <2>3. CASE CheckVisited(g)
      BY <1>0, <1>2, <2>3 DEF CheckVisited, End, PastRobotsInv
    <2>4. CASE MarkVisited(g)
      BY <1>0, <1>2, <2>4 DEF MarkVisited, PastRobotsInv
    <2>5. CASE Fetch(g) \/ CheckRobotsAsks(g) \/ CacheLoad(g)
      BY <1>2, <2>5 DEF Fetch, CheckRobotsAsks, CacheLoad, PastRobotsInv
    <2>6. ASSUME NEW status, NEW file, RobotsAnswer(g, status, file) PROVE PastRobotsInv(f)'
      BY <1>2, <2>6 DEF RobotsAnswer, PastRobotsInv
    <2>7. CASE \/ RobotsError(g) \/ RobotsTransient(g) \/ RobotsBackoff(g)
               \/ RobotsExhausted(g) \/ RobotsUnreadable(g)
      BY <1>2, <2>7 DEF RobotsError, RobotsTransient, RobotsBackoff, RobotsExhausted, AllowAll,
                        RobotsUnreadable, End, PastRobotsInv
    <2>8. CASE VisitPage(g) \/ SendResult(g)
      BY <1>2, <2>8 DEF VisitPage, SendResult, End, PastRobotsInv
    <2>9. CASE FetchReturns(g) \/ FetchCanceled(g)
      BY <1>0, <2>9 DEF FetchReturns, FetchCanceled, Return, PastRobotsInv
    <2> HIDE DEF ProbeTypeOK, Goto
    <2> QED BY <2>1, <2>2, <2>3, <2>4, <2>5, <2>6, <2>7, <2>8, <2>9
            DEF Step, VisitStep, RobotsFile, RobotsStatus
  <1> QED BY <1>1, <1>2

\* Only StoreRules changes the rules colly keeps, only a 200 changes the cache.
LEMMA Writers ==
  ASSUME NEW g \in Fetches, Step(g)
  PROVE  /\ UNCHANGED robotsMap \/ StoreRules(g)
         /\ UNCHANGED cache \/ \E file \in Files : RobotsFile(g, file)
  BY DEF Step, VisitStep, Fetch, CheckRobotsKnown, CheckRobotsAsks, CacheLoad, RobotsFile,
         RobotsStatus, RobotsAnswer, RobotsError, RobotsTransient, RobotsBackoff,
         RobotsExhausted, AllowAll, RobotsUnreadable, StoreRules, CheckVisited, MarkVisited,
         VisitPage,
         SendResult, FetchReturns, FetchCanceled, Return, collyVars

\* What colly stores came from the host that it is stored for.
LEMMA MapStep ==
  ASSUME ProbeTypeOK, \A f \in Fetches : LookInv(f), MapInv, NEW g \in Fetches, Step(g)
  PROVE  MapInv'
  <1> SUFFICES ASSUME NEW h \in Hosts, robotsMap'[h] # NoRules
               PROVE  FromHost(robotsMap[h], h)'
    BY DEF MapInv
  <1>1. served[h] \subseteq served'[h] /\ exhausted \subseteq exhausted' BY Frame
  <1>2. CASE UNCHANGED robotsMap
    BY <1>1, <1>2 DEF MapInv, FromHost
  <1>3. CASE StoreRules(g)
    <2>1. robotsMap'[h] = IF h = Host(g) THEN look[g].rules ELSE robotsMap[h]
      BY <1>3 DEF StoreRules, ProbeTypeOK
    <2>2. FromHost(look[g].rules, Host(g)) BY <1>3 DEF StoreRules, LookInv
    <2> QED BY <1>1, <2>1, <2>2 DEF MapInv, FromHost
  <1> QED BY <1>2, <1>3, Writers

\* What the cache stores has just been served with 200.
LEMMA CacheStep ==
  ASSUME ProbeTypeOK, CacheHoldsServedFiles, NEW g \in Fetches, Step(g)
  PROVE  CacheHoldsServedFiles'
  <1> SUFFICES ASSUME NEW h \in Hosts, cache'[h] # NoRules
               PROVE  [status |-> 200, rules |-> cache'[h]] \in served'[h]
    BY DEF CacheHoldsServedFiles
  <1>1. served[h] \subseteq served'[h] BY Frame
  <1>2. CASE UNCHANGED cache
    BY <1>1, <1>2 DEF CacheHoldsServedFiles
  <1>3. ASSUME NEW file \in Files, RobotsFile(g, file)
        PROVE  [status |-> 200, rules |-> cache'[h]] \in served'[h]
    <2>1. cache'[h] = IF h = Host(g) THEN file ELSE cache[h]
      BY <1>3 DEF RobotsFile, CacheStore, ProbeTypeOK
    <2>2. h = Host(g) => [status |-> 200, rules |-> file] \in served'[h]
      BY <1>3 DEF RobotsFile, RobotsAnswer, ProbeTypeOK
    <2> QED BY <1>1, <2>1, <2>2 DEF CacheHoldsServedFiles
  <1> QED BY <1>2, <1>3, Writers

-----------------------------------------------------------------------------
(* The theorems.                                                           *)

\* A new fetcher knows nothing of any host.
LEMMA InvInit == ProbeInit => IInv
  <1> SUFFICES ASSUME ProbeInit PROVE IInv OBVIOUS
  <1> USE DEF ProbeInit
  <1>1. ProbeTypeOK
    <2>1. /\ fpc \in [Fetches -> PCs] /\ look \in [Fetches -> Lookups]
          /\ ret \in [Fetches -> {"nil", "error"}]
          /\ out \in [Fetches -> {"none", "ok", "indeterminate", "failed", "canceled"}]
      BY BackoffsAssumption DEF PCs, Lookups, NoLookup, Known
    <2>2. probe \in [Fetches -> BOOLEAN] OBVIOUS
    <2>3. cache \in [Hosts -> Known] /\ robotsMap \in [Hosts -> Known] BY DEF Known
    <2>4. /\ served \in [Hosts -> SUBSET Answers] /\ exhausted \in SUBSET Hosts
          /\ visited \in SUBSET Urls /\ installed \in Fetches \cup {NoFetch}
      OBVIOUS
    <2> QED BY <2>1, <2>2, <2>3, <2>4 DEF ProbeTypeOK
  <1>2. ASSUME NEW f \in Fetches PROVE LookInv(f) /\ PastRobotsInv(f)
    BY DEF LookInv, PastRobotsInv, Looking
  <1>3. MapInv BY DEF MapInv
  <1>4. CacheHoldsServedFiles BY DEF CacheHoldsServedFiles
  <1> QED BY <1>1, <1>2, <1>3, <1>4 DEF IInv

\* Every step of a call, of its goroutine and of a host's answer keeps it.
LEMMA InvStep == IInv /\ [ProbeNext]_probeVars => IInv'
  <1> SUFFICES ASSUME IInv, [ProbeNext]_probeVars PROVE IInv' OBVIOUS
  <1>1. ProbeTypeOK' BY TypeStep DEF IInv
  <1>2. ASSUME NEW g \in Fetches, Step(g) PROVE IInv'
    <2>1. \A f \in Fetches : LookInv(f)' BY <1>2, LookStep DEF IInv
    <2>2. \A f \in Fetches : PastRobotsInv(f)' BY <1>2, PastRobotsStep DEF IInv
    <2>3. MapInv' /\ CacheHoldsServedFiles' BY <1>2, MapStep, CacheStep DEF IInv
    <2> QED BY <1>1, <2>1, <2>2, <2>3 DEF IInv
  <1>3. CASE UNCHANGED probeVars
    <2>1. \A f \in Fetches : LookInv(f)'
      BY <1>3 DEF probeVars, inputs, history, IInv, LookInv, FromHost, RespectRobots, Host
    <2>2. \A f \in Fetches : PastRobotsInv(f)'
      BY <1>3 DEF probeVars, inputs, history, IInv, PastRobotsInv, Allowed, RespectRobots, Host,
                  Forbids
    <2>3. MapInv' /\ CacheHoldsServedFiles'
      BY <1>3 DEF probeVars, collyVars, history, IInv, MapInv, FromHost, CacheHoldsServedFiles
    <2> QED BY <1>1, <2>1, <2>2, <2>3 DEF IInv
  <1> QED BY <1>2, <1>3 DEF ProbeNext, Step

\* The inductive invariant holds in every reachable state.
THEOREM Invariance == ProbeSpec => []IInv
  BY InvInit, InvStep, PTL DEF ProbeSpec

\* The robots cache only ever holds files that the host has served with 200.
THEOREM Cache == ProbeSpec => []CacheHoldsServedFiles
  <1>1. IInv => CacheHoldsServedFiles BY DEF IInv
  <1> QED BY <1>1, Invariance, PTL

\* Robots.txt is looked up for the jobs that ask for it and no others, and they
\* request a page only where the host allowed it or could not be reached.
THEOREM Robots == ProbeSpec => []RobotsHonoured
  <1>1. ASSUME IInv PROVE RobotsHonoured
    <2> SUFFICES ASSUME NEW f \in Fetches
                 PROVE  /\ fpc[f] = "page" /\ Asked(f) => Allowed(f)
                        /\ fpc[f] \in Looking => Asked(f)
      BY DEF RobotsHonoured, Allowed
    <2>1. RespectRobots(f) = Asked(f) BY <1>1, RespectIsAsked DEF IInv, ProbeTypeOK
    <2>2. LookInv(f) /\ PastRobotsInv(f) BY <1>1 DEF IInv
    <2> QED BY <2>1, <2>2 DEF LookInv, PastRobotsInv
  <1> QED BY <1>1, Invariance, PTL
=============================================================================
