---------------------------- MODULE MCPageFetch -----------------------------
(* An instance of PageFetch for TLC. *)
EXTENDS PageFetch

ServerConfig == [MaxDepthDefault |-> 1, MaxPagesDefault |-> 10, TimeoutSeconds |-> 1,
                 HeadlessEnabled |-> TRUE, IgnoreRobots |-> FALSE]

Custom(headless, robots) ==
  [kind |-> "custom",
   body |-> [MaxDepth |-> Nil, MaxPages |-> <<0>>, BudgetSeconds |-> <<5>>,
             HeadlessAllowed |-> headless, RespectRobots |-> robots]]

\* The template of config.yaml, whose companion flags are not set.
Template ==
  [kind |-> "standard",
   body |-> [MaxDepth |-> 0, MaxPages |-> 0, BudgetSeconds |-> 0,
             HeadlessAllowed |-> FALSE, HeadlessProvided |-> FALSE,
             RespectRobots |-> TRUE, RespectRobotsProvided |-> FALSE]]

Jobs == {Custom(<<FALSE>>, <<FALSE>>), Custom(<<TRUE>>, Nil)}

AllowingJob == {Custom(<<TRUE>>, Nil)}

TemplateJob == {Template}

ThinAndFull == {<<>>, <<"open", "gt", "text", "close">>, <<"text", "gt">>, <<"open", "gt">>}

Docs == {[status |-> 404, url |-> "page"], [status |-> 0, url |-> "frame"]}

ASSUME CoverageAssumption == CoverageIsBytesInScripts(5)
=============================================================================
