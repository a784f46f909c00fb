---------------------------- MODULE JobParameters ---------------------------
(***************************************************************************)
(* From a submission to the parameters a job runs with                     *)
(* (internal/api/server.go: toJobParameters, applyDefaults).  A custom     *)
(* request carries pointers, so that a field left out can be told from a   *)
(* zero; a standard job carries a template from the configuration, in      *)
(* which it cannot, except for the two switches that have a companion flag *)
(* Provided.  URLs, tags, caps and domain lists are copied unread.         *)
(***************************************************************************)
EXTENDS Integers

CONSTANT Cfg   \* the fields of config.Config that these functions read

Settings == [MaxDepthDefault : Int, MaxPagesDefault : Int, TimeoutSeconds : Int,
             HeadlessEnabled : BOOLEAN, IgnoreRobots : BOOLEAN]

ASSUME CfgAssumption == Cfg \in Settings

\* crawler.JobParameters without its slices and maps.
Parameters == [MaxDepth : Int, MaxPages : Int, BudgetSeconds : Int,
               HeadlessAllowed : BOOLEAN, HeadlessProvided : BOOLEAN,
               RespectRobots : BOOLEAN, RespectRobotsProvided : BOOLEAN]

\* A pointer is a sequence: empty if nil, else what it points to.
Nil == <<>>
Ptr(S) == {Nil} \cup {<<v>> : v \in S}

customJobRequest == [MaxDepth : Ptr(Int), MaxPages : Ptr(Int), BudgetSeconds : Ptr(Int),
                     HeadlessAllowed : Ptr(BOOLEAN), RespectRobots : Ptr(BOOLEAN)]

\* Also boolOrDefault.
valueOrDefault(ptr, def) == IF ptr = Nil THEN def ELSE ptr[1]

NonZero(n, def) == IF n = 0 THEN def ELSE n

applyDefaults(params) ==
  [MaxDepth |-> NonZero(params.MaxDepth, Cfg.MaxDepthDefault),
   MaxPages |-> NonZero(params.MaxPages, Cfg.MaxPagesDefault),
   BudgetSeconds |-> NonZero(params.BudgetSeconds, Cfg.TimeoutSeconds),
   HeadlessAllowed |->
     IF params.HeadlessProvided THEN params.HeadlessAllowed ELSE Cfg.HeadlessEnabled,
   HeadlessProvided |-> TRUE,
   RespectRobots |->
     IF params.RespectRobotsProvided THEN params.RespectRobots ELSE ~Cfg.IgnoreRobots,
   RespectRobotsProvided |-> TRUE]

toJobParameters(req) ==
  applyDefaults(
    [MaxDepth |-> valueOrDefault(req.MaxDepth, Cfg.MaxDepthDefault),
     MaxPages |-> valueOrDefault(req.MaxPages, Cfg.MaxPagesDefault),
     BudgetSeconds |-> valueOrDefault(req.BudgetSeconds, Cfg.TimeoutSeconds),
     HeadlessAllowed |-> valueOrDefault(req.HeadlessAllowed, Cfg.HeadlessEnabled),
     HeadlessProvided |-> req.HeadlessAllowed # Nil,
     RespectRobots |-> valueOrDefault(req.RespectRobots, ~Cfg.IgnoreRobots),
     RespectRobotsProvided |-> req.RespectRobots # Nil])

\* submitStandardJob works on a copy, so that the template never changes.
standardJobParameters(template) == applyDefaults(template)

\* POST /v1/jobs/custom or POST /v1/jobs/standard.
Submission == [kind : {"custom"}, body : customJobRequest]
              \cup [kind : {"standard"}, body : Parameters]

JobParams(submission) ==
  IF submission.kind = "custom" THEN toJobParameters(submission.body)
                                ELSE standardJobParameters(submission.body)
=============================================================================
