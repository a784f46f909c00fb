---------------------------- MODULE AppLifecycle ----------------------------
(***************************************************************************)
(* The life of the process (cmd/webcrawler/main.go, internal/server/fx.go):*)
(* it loads the configuration, builds its parts one after the other, runs  *)
(* until it is told to stop, closes the parts one after the other and      *)
(* exits.  Composes Configuration and ProgressHub: the hub exists if the   *)
(* configuration asks for it, its emitters are the workers, which nobody   *)
(* waits for, its first sink writes through the progress repository's      *)
(* pool, and Close of the application calls its Close.                     *)
(***************************************************************************)
EXTENDS ProgressHub, Configuration

CONSTANTS
  ConfigFiles,  \* configuration files the process may be started with
  Ports         \* values of PORT: 0 if not set, -1 if not a positive number

\* The application calls Close of the hub once.
ASSUME CloserAssumption == Cardinality(Closers) = 1

Parts == {"telemetry", "storage", "retrievalStore", "progressRepo", "pubsub", "progressHub",
          "queue", "headlessFetcher"}

VARIABLES
  phase,  \* "start", "refused" (by Load), "build", "failed" (Build), "run", "stop", "close", "exit"
  file, portEnv,  \* what the process is started with
  todo,   \* the parts still to be built, or to be closed
  part    \* part[p] = "nil", "open" or "closed"

appVars == <<phase, file, portEnv, todo, part>>
allVars == <<vars, appVars>>

cfg == LoadedConfig(file, portEnv)

\* setupProgress: the store sink first, if there is a repository, then the log
\* sink.
HubSinks(c) ==
  (IF c.database_dsn # "" THEN <<"store">> ELSE <<>>)
    \o (IF c.progress_log_enabled THEN <<"log">> ELSE <<>>)

\* The parts that Build makes; the others stay nil.  A blob store that is not
\* gcs has nothing to close.
Configured(c) ==
  {"telemetry", "queue"}
    \cup (IF c.storage_backend = "gcs" THEN {"storage"} ELSE {})
    \cup (IF c.database_dsn # "" THEN {"retrievalStore", "progressRepo"} ELSE {})
    \cup (IF c.pubsub_topic_name # "" /\ c.pubsub_project_id # "" THEN {"pubsub"} ELSE {})
    \cup (IF c.progress_enabled /\ HubSinks(c) # <<>> THEN {"progressHub"} ELSE {})
    \cup (IF c.headless_enabled THEN {"headlessFetcher"} ELSE {})

\* The parts that can make Build fail.  NewChromedp refuses only a negative
\* MaxParallel, which Validate has refused before.
Fallible(c) ==
  (Configured(c) \ {"progressHub", "queue", "headlessFetcher"})
    \cup (IF c.storage_backend = "local" THEN {"storage"} ELSE {})

BuildOrder == <<"telemetry", "storage", "retrievalStore", "progressRepo", "pubsub",
                "progressHub", "queue", "headlessFetcher">>

(* An order that closes the pools before the hub that writes through one. *)
CloseOrderPoolsFirst == <<"queue", "headlessFetcher", "pubsub", "storage", "retrievalStore",
                          "progressRepo", "progressHub", "telemetry">>

CloseOrder == <<"queue", "headlessFetcher", "progressHub", "pubsub", "storage",
                "retrievalStore", "progressRepo", "telemetry">>

\* Every configuration that Load accepts gives the hub the sizes and the sinks
\* that are this instance's constants.
ASSUME HubConfigAssumption ==
  \A f \in ConfigFiles, p \in Ports :
    LET c == LoadedConfig(f, p)
    IN LoadSucceeds(f, p) /\ "progressHub" \in Configured(c) =>
         /\ Len(HubSinks(c)) = NumSinks
         /\ c.progress_buffer_size = BufferSize
         /\ c.progress_max_events = MaxBatchEvents
         /\ c.progress_max_wait_ms = MaxBatchWait

AppTypeOK ==
  /\ TypeOK
  /\ phase \in {"start", "refused", "build", "failed", "run", "stop", "close", "exit"}
  /\ file \in ConfigFiles /\ portEnv \in Ports
  /\ todo \in Seq(Parts) /\ Len(todo) <= Len(BuildOrder)
  /\ part \in [Parts -> {"nil", "open", "closed"}]

AppInit ==
  /\ Init
  /\ phase = "start"
  /\ file \in ConfigFiles /\ portEnv \in Ports
  /\ todo = <<>>
  /\ part = [p \in Parts |-> "nil"]

-----------------------------------------------------------------------------
(* main and Build.                                                         *)

Load ==
  /\ phase = "start"
  /\ LoadSucceeds(file, portEnv)
  /\ phase' = "build"
  /\ todo' = BuildOrder
  /\ UNCHANGED <<vars, file, portEnv, part>>

LoadFails ==
  /\ phase = "start"
  /\ ~LoadSucceeds(file, portEnv)
  /\ phase' = "refused"
  /\ UNCHANGED <<vars, file, portEnv, todo, part>>

\* NewHub starts the goroutine.
BuildPart ==
  /\ phase = "build" /\ todo # <<>>
  /\ part' = [part EXCEPT ![Head(todo)] = IF Head(todo) \in Configured(cfg) THEN "open" ELSE "nil"]
  /\ todo' = Tail(todo)
  /\ UNCHANGED <<vars, phase, file, portEnv>>

\* main exits; nothing that was built is closed.
BuildFails ==
  /\ phase = "build" /\ todo # <<>>
  /\ Head(todo) \in Fallible(cfg)
  /\ phase' = "failed"
  /\ UNCHANGED <<vars, file, portEnv, todo, part>>

\* App.Run starts the dispatcher and the server.
Run ==
  /\ phase = "build" /\ todo = <<>>
  /\ phase' = "run"
  /\ UNCHANGED <<vars, file, portEnv, todo, part>>

-----------------------------------------------------------------------------
(* Stop and Close.                                                         *)

\* A signal, or an error of ListenAndServe.
Stop ==
  /\ phase = "run"
  /\ phase' = "stop"
  /\ UNCHANGED <<vars, file, portEnv, todo, part>>

\* srv.Shutdown returns: the handlers have, or the ten seconds are over.
ServerShutdown ==
  /\ phase = "stop"
  /\ phase' = "close"
  /\ todo' = CloseOrder
  /\ UNCHANGED <<vars, file, portEnv, part>>

Closing(p) == phase = "close" /\ todo # <<>> /\ Head(todo) = p

Closed(p) ==
  /\ part' = [part EXCEPT ![p] = IF @ = "open" THEN "closed" ELSE @]
  /\ todo' = Tail(todo)
  /\ UNCHANGED <<phase, file, portEnv>>

\* A part that is nil is skipped.  A pool waits for the connections in use,
\* that is for calls under way, which are single steps here.
ClosePart(p) ==
  /\ Closing(p)
  /\ p # "progressHub" \/ part[p] = "nil"
  /\ Closed(p)
  /\ UNCHANGED vars

CloseHub ==
  /\ Closing("progressHub") /\ part["progressHub"] = "open"
  /\ \E c \in Closers : Close(c)
  /\ UNCHANGED appVars

HubClosed ==
  /\ Closing("progressHub")
  /\ \E c \in Closers : CloseReturns(c)
  /\ Closed("progressHub")

HubCloseFails ==
  /\ Closing("progressHub")
  /\ \E c \in Closers : CloseTimesOut(c)
  /\ Closed("progressHub")

\* main returns, whatever the other goroutines do.
Exit ==
  /\ phase = "close" /\ todo = <<>>
  /\ phase' = "exit"
  /\ UNCHANGED <<vars, file, portEnv, todo, part>>

CloseStep == ServerShutdown \/ (\E p \in Parts : ClosePart(p)) \/ CloseHub \/ HubClosed \/ Exit

-----------------------------------------------------------------------------
(* The other goroutines, for as long as the process lives.                 *)

HubRuns == part["progressHub"] # "nil" /\ phase \notin {"failed", "exit"}

HubGoroutine == HubRuns /\ HubStep /\ UNCHANGED appVars
TimePasses == HubRuns /\ Tick /\ UNCHANGED appVars

WorkerEmits(e) ==
  /\ HubRuns /\ phase # "build"
  /\ EmitStep(e)
  /\ UNCHANGED appVars

AppNext ==
  \/ Load \/ LoadFails \/ BuildPart \/ BuildFails \/ Run
  \/ Stop \/ CloseStep \/ HubCloseFails
  \/ HubGoroutine \/ TimePasses \/ \E e \in Emitters : WorkerEmits(e)

\* The main goroutine and the hub's are scheduled, sinks return by SinkTimeout,
\* handlers and calls of clients return, and time passes.  Nothing is assumed of
\* the workers, nor that the context of Close ever ends.
AppFairness ==
  WF_allVars(HubGoroutine) /\ WF_allVars(TimePasses) /\ WF_allVars(CloseStep)

AppSpec == AppInit /\ [][AppNext]_allVars /\ AppFairness

-----------------------------------------------------------------------------
(* Properties.                                                             *)

\* While the store sink is being called, the pool it writes through is open,
\* unless Close of the hub gave up waiting (closeInfrastructure's order).
PoolOpenWhileUsed ==
  at = 1 /\ HubRuns /\ HubSinks(cfg)[1] = "store" =>
    part["progressRepo"] = "open" \/ \E c \in Closers : cpc[c] = "error"

\* A process that is told to stop exits, although workers go on emitting and
\* without the time-out's help (Run, Close, Hub.Close).
ShutdownCompletes == phase = "stop" ~> phase = "exit"
=============================================================================
