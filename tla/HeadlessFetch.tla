---------------------------- MODULE HeadlessFetch ---------------------------
(***************************************************************************)
(* The headless fetcher (internal/fetcher/headless/chromedp.go): a call    *)
(* waits for one of MaxParallel slots under the context of its caller, the *)
(* page context of the worker; it then renders the page under a context of *)
(* its own, which only the navigation time-out and Close end.  While the   *)
(* browser navigates, its events tell the call which documents arrived, in *)
(* any order: the page, what it moves on to, frames.                       *)
(*                                                                         *)
(* A response is put together from two sources.  Status, headers and URL   *)
(* are those of the last document event, a frame's included; headers go    *)
(* the way of the status.  The body and the location are read from the     *)
(* page at the end (OuterHTML, Location), whatever was captured; the body  *)
(* is left out.  A tick is a millisecond.  A time-out that has passed is   *)
(* noticed before the next tick.                                           *)
(***************************************************************************)
EXTENDS Integers, FiniteSets

CONSTANTS
  Calls,           \* calls of Fetch
  Second,          \* milliseconds in a second; smaller in an instance
  MaxParallel,     \* headless.max_parallel; 0 is no limit
  NavTimeoutSec,   \* headless.nav_timeout_seconds
  TimeoutSeconds,  \* http.timeout_seconds, the worker's RequestTimeout
  Documents,       \* what response events tell of: [status, url]
  FinalURLs        \* what Location may find; "none" is the empty text

ASSUME HeadlessAssumption ==
  /\ Second \in Nat \ {0} /\ MaxParallel \in Nat
  /\ NavTimeoutSec \in Int /\ TimeoutSeconds \in Nat \ {0}
ASSUME DocumentsAssumption == \A d \in Documents : d.status \in Nat

VARIABLES
  bpc,        \* the call: "idle", "acquire", "navigate" or "done"
  elapsed,    \* ticks since the call began, while it lasts
  nav,        \* ticks since its navigation began, while it lasts
  limiter,    \* slots taken
  allocator,  \* is the allocator's context alive?
  meta,       \* responseMeta
  resp        \* the response, or NoDocument: none or an error

headlessVars == <<bpc, elapsed, nav, limiter, allocator, meta, resp>>

\* url "none" is the empty text.
NoDocument == [status |-> 0, url |-> "none"]

\* setupDispatcher gives milliseconds; NewChromedp replaces what is not positive.
NavigationTimeout == IF NavTimeoutSec <= 0 THEN 45 * Second ELSE NavTimeoutSec

RequestTimeout == TimeoutSeconds * Second

\* chromedp.Sleep(500 * time.Millisecond), one of the actions of runHeadless.
RenderSleep == Second \div 2

HeadlessTypeOK ==
  /\ bpc \in [Calls -> {"idle", "acquire", "navigate", "done"}]
  /\ elapsed \in [Calls -> Nat] /\ nav \in [Calls -> Nat]
  /\ limiter \in Nat
  /\ allocator \in BOOLEAN
  /\ DOMAIN meta = Calls /\ \A c \in Calls : meta[c].status \in Nat
  /\ DOMAIN resp = Calls /\ \A c \in Calls : resp[c].status \in Nat

HeadlessInit ==
  /\ bpc = [c \in Calls |-> "idle"]
  /\ elapsed = [c \in Calls |-> 0] /\ nav = [c \in Calls |-> 0]
  /\ limiter = 0 /\ allocator = TRUE
  /\ meta = [c \in Calls |-> NoDocument]
  /\ resp = [c \in Calls |-> NoDocument]

BeginHeadless(c) ==
  /\ bpc[c] = "idle"
  /\ bpc' = [bpc EXCEPT ![c] = "acquire"]
  /\ UNCHANGED <<elapsed, nav, limiter, allocator, meta, resp>>

-----------------------------------------------------------------------------
(* acquire and release.                                                    *)

Acquire(c) ==
  /\ bpc[c] = "acquire"
  /\ \/ MaxParallel = 0 /\ UNCHANGED limiter
     \/ limiter < MaxParallel /\ limiter' = limiter + 1
  /\ bpc' = [bpc EXCEPT ![c] = "navigate"]
  /\ UNCHANGED <<elapsed, nav, allocator, meta, resp>>

\* The page context ends, at RequestTimeout or with the job's context.
AcquireCanceled(c) ==
  /\ bpc[c] = "acquire"
  /\ bpc' = [bpc EXCEPT ![c] = "done"]
  /\ elapsed' = [elapsed EXCEPT ![c] = 0]
  /\ UNCHANGED <<nav, limiter, allocator, meta, resp>>

\* Fetch returns; the deferred release never blocks.
Finish(c, document) ==
  /\ bpc' = [bpc EXCEPT ![c] = "done"]
  /\ resp' = [resp EXCEPT ![c] = document]
  /\ limiter' = IF MaxParallel = 0 \/ limiter = 0 THEN limiter ELSE limiter - 1
  /\ elapsed' = [elapsed EXCEPT ![c] = 0] /\ nav' = [nav EXCEPT ![c] = 0]
  /\ meta' = [meta EXCEPT ![c] = NoDocument]
  /\ UNCHANGED allocator

\* The worker has the response.
TakeResponse(c) ==
  /\ bpc[c] = "done"
  /\ resp' = [resp EXCEPT ![c] = NoDocument]
  /\ UNCHANGED <<bpc, elapsed, nav, limiter, allocator, meta>>

-----------------------------------------------------------------------------
(* runHeadless and responseMeta.                                           *)

\* capture: under the mutex, every document replaces the one before, a frame's too.
Capture(c, d) ==
  /\ bpc[c] = "navigate" /\ allocator
  /\ meta' = [meta EXCEPT ![c] = d]
  /\ UNCHANGED <<bpc, elapsed, nav, limiter, allocator, resp>>

SnapshotWithFallbacks(m, finalURL, requestURL) ==
  [url |-> IF m.url # "none" THEN m.url
           ELSE IF finalURL # "none" THEN finalURL ELSE requestURL,
   status |-> IF m.status = 0 THEN 200 ELSE m.status]

\* Every action of runHeadless succeeds.
Rendered(c, requestURL) ==
  /\ bpc[c] = "navigate" /\ allocator
  /\ nav[c] >= RenderSleep
  /\ \E finalURL \in FinalURLs :
       Finish(c, SnapshotWithFallbacks(meta[c], finalURL, requestURL))

\* An action fails, the navigation time-out has passed, or Close was called.
NavigationFails(c) ==
  /\ bpc[c] = "navigate"
  /\ Finish(c, NoDocument)

\* Close cancels the allocator.
CloseHeadless ==
  /\ allocator
  /\ allocator' = FALSE
  /\ UNCHANGED <<bpc, elapsed, nav, limiter, meta, resp>>

(* A version whose navigation has no time-out. *)
OverdueAcquire(c) == bpc[c] = "acquire" /\ elapsed[c] >= RequestTimeout

\* A context that call c waits on is done.
Overdue(c) ==
  \/ bpc[c] = "acquire" /\ elapsed[c] >= RequestTimeout
  \/ bpc[c] = "navigate" /\ (nav[c] >= NavigationTimeout \/ ~allocator)

Tick ==
  /\ \E c \in Calls : bpc[c] \in {"acquire", "navigate"}
  /\ \A c \in Calls : ~Overdue(c)
  /\ elapsed' = [c \in Calls |-> IF bpc[c] \in {"acquire", "navigate"}
                                 THEN elapsed[c] + 1 ELSE elapsed[c]]
  /\ nav' = [c \in Calls |-> IF bpc[c] = "navigate" THEN nav[c] + 1 ELSE nav[c]]
  /\ UNCHANGED <<bpc, limiter, allocator, meta, resp>>

-----------------------------------------------------------------------------
(* Properties.                                                             *)

\* A call takes at most the time-out of the wait and that of the navigation
\* together; the caller's context does not bound the navigation (acquire,
\* navTimeout).
HeadlessBounded == \A c \in Calls : elapsed[c] <= RequestTimeout + NavigationTimeout

\* What worker.go:35-40 says of RequestTimeout: headless fetches "will never
\* exceed this cap".  The navigation is not under the caller's context (Fetch).
HeadlessWithinRequestTimeout == \A c \in Calls : elapsed[c] <= RequestTimeout
=============================================================================
