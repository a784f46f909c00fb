-------------------------- MODULE MCAppLifecycle ----------------------------
(* Instances of AppLifecycle for TLC. *)
EXTENDS AppLifecycle, TLC

Database ==
  ("database_dsn" :> "set") @@ ("database_retrieval_table" :> "crawl")
    @@ ("database_progress_table" :> "job_runs") @@ ("database_stats_table" :> "job_stats")

HubSizes ==
  ("progress_buffer_size" :> BufferSize) @@ ("progress_max_events" :> MaxBatchEvents)
    @@ ("progress_max_wait_ms" :> MaxBatchWait)

\* The hub with both sinks, and no client of a cloud service.
Tracked == ("progress_log_enabled" :> TRUE) @@ HubSizes @@ Database

\* Everything but the hub; the DSN is built from its parts.
Cloud ==
  ("database_host" :> "h") @@ ("database_user" :> "u") @@ ("database_password" :> "p")
    @@ ("database_name" :> "n") @@ ("storage_backend" :> "gcs") @@ ("storage_bucket" :> "b")
    @@ ("pubsub_topic_name" :> "t") @@ ("pubsub_project_id" :> "p")
    @@ ("headless_enabled" :> TRUE) @@ ("progress_enabled" :> FALSE)
    @@ ("database_dsn" :> "") @@ Database

Local == ("storage_backend" :> "local") @@ ("progress_enabled" :> FALSE) @@ Database

\* A topic without a project.
Incomplete == ("pubsub_topic_name" :> "t") @@ Database

Files == {Tracked, Cloud, Local, Incomplete}

PortValues == {0, 9090, -1}

\* setDefaults gives the database port a value, so resolveDSN never finds "nothing
\* set": a file that sets nothing is refused, and accepted with a database.
ASSUME DatabaseIsRequired == ~LoadSucceeds(<<>>, 0) /\ LoadSucceeds(Database, 0)
=============================================================================
