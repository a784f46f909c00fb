----------------------------- MODULE PageFetch ------------------------------
(***************************************************************************)
(* How a worker gets one page (internal/worker/worker.go: fetchProbe and   *)
(* maybePromote): the probe fetcher first and, if the job and the server   *)
(* allow it and the detector finds the response too thin, the headless     *)
(* fetcher on top of it.  Composes JobParameters, ProbeFetch, Detector and *)
(* HeadlessFetch: call f of the probe fetcher and call f of the headless   *)
(* fetcher are the two fetches of one page.                                *)
(***************************************************************************)
EXTENDS ProbeFetch, HeadlessFetch, Detector

CONSTANTS
  Bodies,        \* bodies of probe responses
  AllowHeadless  \* answers policy.AllowHeadless can give; {TRUE} as deployed

ASSUME PagesAssumption == Calls = Fetches /\ Cfg.TimeoutSeconds = TimeoutSeconds
ASSUME BodiesAssumption == Bodies \subseteq Seq(Tokens)

VARIABLE stage   \* "probe", "browser", and the response kept: "probed" or "rendered"

vars == <<probeVars, headlessVars, stage>>

TypeOK ==
  /\ ProbeTypeOK /\ HeadlessTypeOK
  /\ stage \in [Fetches -> {"probe", "browser", "probed", "rendered"}]

Init == ProbeInit /\ HeadlessInit /\ stage = [f \in Fetches |-> "probe"]

SetStage(f, label) == stage' = [stage EXCEPT ![f] = label]

(* A version that tries the browser when the probe has failed. *)
ProbedOrFailed(f) == stage[f] = "probe" /\ out[f] # "none"

\* fetchProbe has returned a response.
Probed(f) == stage[f] = "probe" /\ out[f] \in {"ok", "indeterminate"}

\* The headless fetcher exists if headless.enabled; colly gives only responses
\* below 203 to OnResponse.
Thin(f, status, body, allowed) ==
  /\ JobParams(of[f]).HeadlessAllowed /\ Cfg.HeadlessEnabled
  /\ allowed /\ ShouldPromote([status |-> status, body |-> body])

MaybePromote(f, status, body, allowed) ==
  /\ Probed(f)
  /\ IF Thin(f, status, body, allowed)
     THEN BeginHeadless(f) /\ SetStage(f, "browser")
     ELSE SetStage(f, "probed") /\ UNCHANGED headlessVars
  /\ UNCHANGED probeVars

\* The headless response, or the probe's if there is none.
PromotionReturns(f) ==
  /\ stage[f] = "browser"
  /\ TakeResponse(f)
  /\ SetStage(f, IF resp[f] = NoDocument THEN "probed" ELSE "rendered")
  /\ UNCHANGED probeVars

HeadlessStep(f) ==
  \/ Acquire(f) \/ AcquireCanceled(f) \/ NavigationFails(f)
  \/ \E d \in Documents : Capture(f, d)
  \/ Rendered(f, "request")

Next ==
  \/ ProbeNext /\ UNCHANGED <<headlessVars, stage>>
  \/ /\ CloseHeadless \/ Tick \/ \E f \in Fetches : HeadlessStep(f)
     /\ UNCHANGED <<probeVars, stage>>
  \/ \E f \in Fetches :
       \/ PromotionReturns(f)
       \/ \E status \in {200, 202}, body \in Bodies, allowed \in AllowHeadless :
            MaybePromote(f, status, body, allowed)

Spec == Init /\ [][Next]_vars /\ ProbeFairness

-----------------------------------------------------------------------------
(* Properties.                                                             *)

\* The browser, which never reads robots.txt, opens no page for a client that
\* said no to it, none if the server has no browser, and for a job that respects
\* robots.txt only where the probe was allowed (toJobParameters, maybePromote).
BrowserHonoursClient ==
  \A f \in Fetches : bpc[f] # "idle" =>
    /\ of[f].kind = "custom" => of[f].body.HeadlessAllowed # <<FALSE>>
    /\ Cfg.HeadlessEnabled
    /\ Asked(f) => Host(f) \in exhausted \/ \E a \in served[Host(f)] : ~Forbids(a.rules, f)

\* What config.yaml:71 and INSTRUCTIONS.md:157 say of a template: it has a say of
\* its own in headless_allowed (submitStandardJob, applyDefaults).
BrowserHonoursTemplate ==
  \A f \in Fetches :
    bpc[f] # "idle" /\ of[f].kind = "standard" => of[f].body.HeadlessAllowed
=============================================================================
