\* One job of three pages on two sites, and a status class without a column,
\* under fairness.
SPECIFICATION FairSpec
CONSTANTS
  Jobs = {j1}
  Times = {1, 2}
  Sites = {s1, s2}
  Classes = {"2xx", "5xx", "other"}
  MaxPages = 3
CHECK_DEADLOCK FALSE
INVARIANTS
  TypeOK
  OneRunPerJob
  RetrievalHasRun
  FinishedRunIsTruthful
  StatsSound
  StatsExact
PROPERTIES
  FinishedRunIsFinal
  CompletedIsShown
