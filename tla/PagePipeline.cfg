\* Two pages compete for one headless slot and may retry twice, under fairness.
SPECIFICATION FairSpec
CONSTANTS
  Pages = {p1, p2}
  MaxRetries = 2
  MaxParallel = 1
  RetrievalStore = TRUE
  Topic = TRUE
  AllowFetch <- Either
  Screenshots <- Either
CHECK_DEADLOCK FALSE
INVARIANTS
  TypeOK
  NoDanglingReference
  OutcomeMatchesArtifacts
  RetryBudget
  SlotsMatchNavigations
PROPERTIES
  PagesTerminate
