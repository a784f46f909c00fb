----------------------------- MODULE ProbeFetch -----------------------------
(***************************************************************************)
(* The probe fetcher (internal/fetcher/colly): every call of Fetch clones  *)
(* one collector, visits the URL in a goroutine of its own and returns     *)
(* when the visit ends or its context does.  Robots.txt is looked up       *)
(* through two transports: one per call that retries and in the end        *)
(* answers "allow all" (robotsAwareTransport), above one for the process   *)
(* that caches (RobotsCacheTransport).                                     *)
(*                                                                         *)
(* Colly is external.  What matters of it: clones share the HTTP client,   *)
(* so WithTransport of one call replaces the transport of all of them;     *)
(* they share the parsed robots.txt of each host and the set of visited    *)
(* URLs, neither of which is ever cleared; a visit reads robots.txt before *)
(* it asks whether the URL was visited.                                    *)
(*                                                                         *)
(* A robots.txt is the set of paths it forbids.  The site may change it    *)
(* between two answers.                                                    *)
(***************************************************************************)
EXTENDS JobParameters, FiniteSets

CONSTANTS
  Fetches,      \* calls of Fetch; a retry or another job makes another call
  Hosts, Paths,
  Files,        \* the robots.txt files a site may serve
  Submissions,  \* what the jobs that fetch were submitted with
  Backoffs,     \* len(robotsRetryBackoff), 3 in the code
  NoFetch,      \* the shared transport without a robotsAwareTransport on top
  NoRules       \* nothing is known of a host

ASSUME FilesAssumption == Files \subseteq SUBSET Paths
ASSUME SubmissionsAssumption ==
  \A s \in Submissions : s.kind \in {"custom", "standard"} /\ JobParams(s) \in Parameters
ASSUME BackoffsAssumption == Backoffs \in Nat
ASSUME NoFetchAssumption == NoFetch \notin Fetches
ASSUME NoRulesAssumption == \A r \in SUBSET Paths : r # NoRules

VARIABLES
  of, url,    \* the call's inputs: its job's submission, the host and path to fetch
  fpc,        \* the goroutine of the call
  look,       \* the lookup of robots.txt under way
  ret,        \* what Visit returns
  out,        \* what Fetch has returned
  probe,      \* probe[f]: has call f's robotsProbeState been marked?
  installed,  \* the transport in the shared client
  cache,      \* RobotsCacheTransport.cache
  robotsMap,  \* colly: the parsed robots.txt of each host
  visited,    \* colly: the URLs visited
  served,     \* history: the answers each host has given for its robots.txt
  exhausted   \* history: the hosts for which "allow all" was made up

inputs == <<of, url>>
collyVars == <<robotsMap, visited>>
history == <<served, exhausted>>
probeVars == <<inputs, fpc, look, ret, out, probe, installed, cache, collyVars, history>>

Urls == [host : Hosts, path : Paths]
Known == {NoRules} \cup SUBSET Paths
Answers == [status : {200, 404, 503}, rules : SUBSET Paths]
Looking == {"load", "wire", "backoff", "store"}
PCs == {"idle", "check", "visited", "mark", "page", "send", "ended"} \cup Looking

\* The call whose robotsAwareTransport the lookup goes through, the loop variable
\* of roundTripWithRetry, and the robots.txt the lookup ended with.
Lookups == [via : Fetches \cup {NoFetch}, attempt : 0..Backoffs, rules : Known]
NoLookup == [via |-> NoFetch, attempt |-> 0, rules |-> NoRules]

ProbeTypeOK ==
  /\ of \in [Fetches -> Submissions] /\ url \in [Fetches -> Urls]
  /\ fpc \in [Fetches -> PCs]
  /\ look \in [Fetches -> Lookups]
  /\ ret \in [Fetches -> {"nil", "error"}]
  /\ out \in [Fetches -> {"none", "ok", "indeterminate", "failed", "canceled"}]
  /\ probe \in [Fetches -> BOOLEAN]
  /\ installed \in Fetches \cup {NoFetch}
  /\ cache \in [Hosts -> Known] /\ robotsMap \in [Hosts -> Known]
  /\ visited \in SUBSET Urls
  /\ served \in [Hosts -> SUBSET Answers]
  /\ exhausted \in SUBSET Hosts

ProbeInit ==
  /\ of \in [Fetches -> Submissions] /\ url \in [Fetches -> Urls]
  /\ fpc = [f \in Fetches |-> "idle"]
  /\ look = [f \in Fetches |-> NoLookup]
  /\ ret = [f \in Fetches |-> "nil"]
  /\ out = [f \in Fetches |-> "none"]
  /\ probe = [f \in Fetches |-> FALSE]
  /\ installed = NoFetch
  /\ cache = [h \in Hosts |-> NoRules]
  /\ robotsMap = [h \in Hosts |-> NoRules]
  /\ visited = {}
  /\ served = [h \in Hosts |-> {}]
  /\ exhausted = {}

Goto(f, label) == fpc' = [fpc EXCEPT ![f] = label]

\* Visit has a result; the goroutine sends it next.
End(f, result) == Goto(f, "send") /\ ret' = [ret EXCEPT ![f] = result]

\* The lookup is over and its outcome is forgotten.
EndLookup(f) == look' = [look EXCEPT ![f] = NoLookup]

-----------------------------------------------------------------------------
(* Fetch and buildCollector.                                               *)

(* A version without the request's own choice. *)
RespectRobotsConfigured(f) == ~Cfg.IgnoreRobots

\* The request's choice if there is one, else the fetcher's.
RespectRobots(f) ==
  LET params == JobParams(of[f])
  IN IF params.RespectRobotsProvided THEN params.RespectRobots ELSE ~Cfg.IgnoreRobots

\* The call's transport goes into the client that all calls share.
Fetch(f) ==
  /\ fpc[f] = "idle"
  /\ installed' = IF RespectRobots(f) THEN f ELSE NoFetch
  /\ Goto(f, "check")
  /\ UNCHANGED <<inputs, look, ret, out, probe, cache, collyVars, history>>

-----------------------------------------------------------------------------
(* Visit: robots.txt.                                                      *)

Host(f) == url[f].host
Forbids(rules, f) == url[f].path \in rules

\* checkRobots with rules at hand.
Obey(f, rules) ==
  IF Forbids(rules, f) THEN End(f, "error") ELSE Goto(f, "visited") /\ UNCHANGED ret

\* Robots.txt is ignored or its rules are known already.
CheckRobotsKnown(f) ==
  /\ fpc[f] = "check"
  /\ \/ ~RespectRobots(f) /\ Obey(f, {})
     \/ RespectRobots(f) /\ robotsMap[Host(f)] # NoRules /\ Obey(f, robotsMap[Host(f)])
  /\ UNCHANGED <<inputs, look, out, probe, installed, cache, collyVars, history>>

\* The request for robots.txt goes to whatever transport is installed now.
CheckRobotsAsks(f) ==
  /\ fpc[f] = "check"
  /\ RespectRobots(f) /\ robotsMap[Host(f)] = NoRules
  /\ look' = [look EXCEPT ![f].via = installed]
  /\ Goto(f, "load")
  /\ UNCHANGED <<inputs, ret, out, probe, installed, cache, collyVars, history>>

\* RobotsCacheTransport.RoundTrip: the cache has an answer, or the request goes
\* to the server.
CacheLoad(f) ==
  /\ fpc[f] = "load"
  /\ Goto(f, IF cache[Host(f)] = NoRules THEN "wire" ELSE "store")
  /\ look' = [look EXCEPT ![f].rules = cache[Host(f)]]
  /\ UNCHANGED <<inputs, ret, out, probe, installed, cache, collyVars, history>>

\* The host answers; robotstxt reads 404 as "all allowed", 503 as "none".
RobotsAnswer(f, status, file) ==
  /\ fpc[f] = "wire"
  /\ look' = [look EXCEPT ![f].rules = file]
  /\ served' = [served EXCEPT ![Host(f)] = @ \cup {[status |-> status, rules |-> file]}]
  /\ Goto(f, "store")
  /\ UNCHANGED <<inputs, ret, out, probe, installed, collyVars, exhausted>>

CacheStore(f, rules) == cache' = [cache EXCEPT ![Host(f)] = rules]

\* An answer that is not 200 is passed on and not cached.
RobotsStatus(f, status, file) == RobotsAnswer(f, status, file) /\ UNCHANGED cache

RobotsFile(f, file) == RobotsAnswer(f, 200, file) /\ CacheStore(f, file)

\* roundTripWithRetry gives up on an error that is no time-out; the shared
\* transport alone gives up on every error.
RobotsError(f) ==
  /\ fpc[f] = "wire"
  /\ End(f, "error") /\ EndLookup(f)
  /\ UNCHANGED <<inputs, out, probe, installed, cache, collyVars, history>>

(* A version with one attempt too many. *)
RobotsTransientOffByOne(f) ==
  /\ fpc[f] = "wire"
  /\ look[f].via # NoFetch /\ look[f].attempt <= Backoffs
  /\ Goto(f, "backoff")
  /\ UNCHANGED <<inputs, look, ret, out, probe, installed, cache, collyVars, history>>

\* A time-out with attempts left.
RobotsTransient(f) ==
  /\ fpc[f] = "wire"
  /\ look[f].via # NoFetch /\ look[f].attempt < Backoffs
  /\ Goto(f, "backoff")
  /\ UNCHANGED <<inputs, look, ret, out, probe, installed, cache, collyVars, history>>

\* sleepWithContext: the timer fires, or the client's own time-out ends the lookup.
RobotsBackoff(f) ==
  /\ fpc[f] = "backoff"
  /\ \/ look' = [look EXCEPT ![f].attempt = @ + 1] /\ Goto(f, "load") /\ UNCHANGED ret
     \/ End(f, "error") /\ EndLookup(f)
  /\ UNCHANGED <<inputs, out, probe, installed, cache, collyVars, history>>

\* The last attempt timed out: the call that owns the transport is marked and
\* "allow all" is made up.
AllowAll(f) ==
  /\ fpc[f] = "wire"
  /\ look[f].via # NoFetch /\ look[f].attempt = Backoffs
  /\ probe' = [probe EXCEPT ![look[f].via] = TRUE]
  /\ look' = [look EXCEPT ![f].rules = {}]
  /\ exhausted' = exhausted \cup {Host(f)}
  /\ Goto(f, "store")
  /\ UNCHANGED <<inputs, ret, out, installed, collyVars, served>>

(* A version whose made-up answer is cached, as if the cache were on top. *)
RobotsExhaustedCached(f) == AllowAll(f) /\ CacheStore(f, {})

\* It does not pass through the cache.
RobotsExhausted(f) == AllowAll(f) /\ UNCHANGED cache

\* robotstxt cannot parse the file.  A file is known by its rules, so any may be
\* such a one; the cache has it all the same.
RobotsUnreadable(f) ==
  /\ fpc[f] = "store" /\ look[f].rules \in Files
  /\ End(f, "error") /\ EndLookup(f)
  /\ UNCHANGED <<inputs, out, probe, installed, cache, collyVars, history>>

\* colly keeps the rules for the host, made up or not, and applies them.
StoreRules(f) ==
  /\ fpc[f] = "store"
  /\ robotsMap' = [robotsMap EXCEPT ![Host(f)] = look[f].rules]
  /\ Obey(f, look[f].rules) /\ EndLookup(f)
  /\ UNCHANGED <<inputs, out, probe, installed, cache, visited, history>>

-----------------------------------------------------------------------------
(* Visit: the page.                                                        *)

\* colly asks for the URL and then adds it, under two acquisitions of a lock.
CheckVisited(f) ==
  /\ fpc[f] = "visited"
  /\ IF url[f] \in visited THEN End(f, "error") ELSE Goto(f, "mark") /\ UNCHANGED ret
  /\ UNCHANGED <<inputs, look, out, probe, installed, cache, collyVars, history>>

MarkVisited(f) ==
  /\ fpc[f] = "mark"
  /\ visited' = visited \cup {url[f]}
  /\ Goto(f, "page")
  /\ UNCHANGED <<inputs, look, ret, out, probe, installed, cache, robotsMap, history>>

\* The page is requested: OnResponse or OnError runs and Visit returns.
VisitPage(f) ==
  /\ fpc[f] = "page"
  /\ \E result \in {"nil", "error"} : End(f, result)
  /\ UNCHANGED <<inputs, look, out, probe, installed, cache, collyVars, history>>

(* A version whose channel has no place for the result. *)
SendResultUnbuffered(f) ==
  /\ fpc[f] = "send" /\ out[f] = "none"
  /\ Goto(f, "ended")
  /\ UNCHANGED <<inputs, look, ret, out, probe, installed, cache, collyVars, history>>

\* The channel has one place, so the goroutine ends although nobody receives.
SendResult(f) ==
  /\ fpc[f] = "send"
  /\ Goto(f, "ended")
  /\ UNCHANGED <<inputs, look, ret, out, probe, installed, cache, collyVars, history>>

-----------------------------------------------------------------------------
(* runCollector's select, and apply.                                       *)

Waiting(f) == fpc[f] # "idle" /\ out[f] = "none"

Return(f, result) ==
  /\ Waiting(f)
  /\ out' = [out EXCEPT ![f] = result]
  /\ UNCHANGED <<inputs, fpc, look, ret, probe, installed, cache, collyVars, history>>

FetchReturns(f) ==
  /\ fpc[f] = "ended"
  /\ \/ ret[f] = "error" /\ Return(f, "failed")
     \/ ret[f] = "nil" /\ Return(f, IF probe[f] THEN "indeterminate" ELSE "ok")

\* The context is done.  The goroutine goes on.
FetchCanceled(f) == Return(f, "canceled")

VisitStep(f) ==
  \/ CheckRobotsKnown(f) \/ CheckRobotsAsks(f) \/ CacheLoad(f)
  \/ \E file \in Files : RobotsFile(f, file)
  \/ RobotsStatus(f, 404, {}) \/ RobotsStatus(f, 503, Paths)
  \/ RobotsError(f) \/ RobotsTransient(f) \/ RobotsBackoff(f) \/ RobotsExhausted(f)
  \/ RobotsUnreadable(f) \/ StoreRules(f)
  \/ CheckVisited(f) \/ MarkVisited(f) \/ VisitPage(f) \/ SendResult(f)

ProbeNext == \E f \in Fetches : Fetch(f) \/ VisitStep(f) \/ FetchReturns(f) \/ FetchCanceled(f)

\* Goroutines are scheduled, and the client's time-out ends every exchange.
ProbeFairness == \A f \in Fetches : WF_probeVars(VisitStep(f))

ProbeSpec == ProbeInit /\ [][ProbeNext]_probeVars

-----------------------------------------------------------------------------
(* Properties.                                                             *)

\* What the client asked for: its own choice, or the server's if it made none.  A
\* template makes one only with its companion flag, which a file seldom sets (see
\* BrowserHonoursTemplate in PageFetch).
Asked(f) ==
  LET given == IF of[f].kind = "custom" THEN of[f].body.RespectRobots
               ELSE IF of[f].body.RespectRobotsProvided THEN <<of[f].body.RespectRobots>>
               ELSE Nil
  IN IF given = Nil THEN ~Cfg.IgnoreRobots ELSE given[1]

\* A page is requested for a job that respects robots.txt only if its host has
\* at some time allowed the path, or every attempt to ask it timed out; and for
\* no other job is robots.txt looked up (toJobParameters, buildCollector).  This is
\* about the URL asked for: colly follows redirects without asking again.
RobotsHonoured ==
  \A f \in Fetches :
    /\ fpc[f] = "page" /\ Asked(f) =>
         Host(f) \in exhausted \/ \E a \in served[Host(f)] : ~Forbids(a.rules, f)
    /\ fpc[f] \in Looking => Asked(f)

\* The cache, which nothing ever clears, holds files that the host has served
\* with 200, never an error page or a made-up answer, however calls overlap
\* (RobotsCacheTransport below robotsAwareTransport).
CacheHoldsServedFiles ==
  \A h \in Hosts : cache[h] # NoRules => [status |-> 200, rules |-> cache[h]] \in served[h]

\* The goroutine of every call ends, also when the call has long returned
\* because its context was done (the buffered channel of runCollector).
VisitEnds == \A f \in Fetches : fpc[f] = "check" ~> fpc[f] = "ended"
=============================================================================
