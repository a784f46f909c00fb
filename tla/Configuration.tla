--------------------------- MODULE Configuration ----------------------------
(***************************************************************************)
(* Loading the configuration (internal/config/config.go: Load, setDefaults,*)
(* resolveDSN, Validate).  A file, with the CRAWLER_ variables laid over   *)
(* it, is a function from the settings it gives to their values; Load adds *)
(* the defaults, lets PORT replace the port, builds the database DSN from  *)
(* its parts and validates.  A text is "" or not; the ones with blanks at  *)
(* their ends are left out.  So are the settings that only tune or label.  *)
(***************************************************************************)
EXTENDS Integers

Defaults ==
  [server_port |-> 8080, crawler_concurrency |-> 4, crawler_queue_depth |-> 64,
   crawler_max_depth_default |-> 1, crawler_max_pages_default |-> 10,
   http_timeout_seconds |-> 15,
   headless_enabled |-> FALSE, headless_max_parallel |-> 1,
   auth_enabled |-> FALSE, auth_api_key |-> "",
   storage_backend |-> "memory", storage_bucket |-> "", storage_local_base_dir |-> "tmp",
   database_dsn |-> "", database_host |-> "", database_port |-> 5432,
   database_user |-> "", database_password |-> "", database_name |-> "",
   database_sslmode |-> "", database_retrieval_table |-> "",
   database_progress_table |-> "", database_stats_table |-> "",
   pubsub_topic_name |-> "", pubsub_project_id |-> "",
   progress_enabled |-> TRUE, progress_log_enabled |-> FALSE,
   progress_buffer_size |-> 4096, progress_max_events |-> 1000,
   progress_max_wait_ms |-> 500, progress_sink_timeout_ms |-> 10000,
   application_application_name |-> "realtime-cpi", application_version |-> "1.0.0",
   application_project_id |-> "realtime-cpi"]

\* v.Unmarshal: what the file says, else the default.
Unmarshal(file) ==
  [key \in DOMAIN Defaults |-> IF key \in DOMAIN file THEN file[key] ELSE Defaults[key]]

\* PORT: 0 if it is not set, -1 if it is no positive number.
PortOverride(c, portEnv) == IF portEnv > 0 THEN [c EXCEPT !.server_port = portEnv] ELSE c

\* What the DSN cannot do without, and all that it is made of.
NeededParts(c) == {c.database_host, c.database_user, c.database_password, c.database_name}
NothingSet(c) ==
  NeededParts(c) \cup {c.database_sslmode} = {""} /\ c.database_port = 0

\* An error if the DSN is to be built and a part is missing.
ResolveDSNFails(c) == c.database_dsn = "" /\ ~NothingSet(c) /\ "" \in NeededParts(c)

\* The DSN is kept, or built, or stays empty if nothing is set.
ResolveDSN(c) ==
  IF c.database_dsn # "" \/ NothingSet(c) THEN c ELSE [c EXCEPT !.database_dsn = "postgres"]

Validate(c) ==
  /\ c.server_port > 0
  /\ c.crawler_concurrency > 0 /\ c.crawler_queue_depth > 0
  /\ c.crawler_max_depth_default >= 0 /\ c.crawler_max_pages_default > 0
  /\ c.http_timeout_seconds > 0
  /\ c.headless_enabled => c.headless_max_parallel > 0
  /\ c.auth_enabled => c.auth_api_key # ""
  /\ \/ c.storage_backend = "memory"
     \/ c.storage_backend = "gcs" /\ c.storage_bucket # ""
     \/ c.storage_backend = "local" /\ c.storage_local_base_dir # ""
  /\ c.database_dsn # "" =>
       /\ c.database_retrieval_table # "" /\ c.database_progress_table # ""
       /\ c.database_stats_table # ""
  /\ c.pubsub_topic_name # "" => c.pubsub_project_id # ""
  /\ c.progress_enabled =>
       /\ c.progress_buffer_size > 0 /\ c.progress_max_events > 0
       /\ c.progress_max_wait_ms > 0 /\ c.progress_sink_timeout_ms > 0
  /\ c.application_application_name # "" /\ c.application_version # ""
  /\ c.application_project_id # ""

\* Load returns a configuration, which is then LoadedConfig.
LoadedConfig(file, portEnv) == ResolveDSN(PortOverride(Unmarshal(file), portEnv))

LoadSucceeds(file, portEnv) ==
  /\ portEnv # -1
  /\ ~ResolveDSNFails(Unmarshal(file))
  /\ Validate(LoadedConfig(file, portEnv))
=============================================================================
