\* Two jobs, one of two URLs, and two workers, one of them without a probe fetcher,
\* under fairness.
SPECIFICATION FairSpec
CONSTANTS
  j1 = j1
  j2 = j2
  w1 = w1
  w2 = w2
  r1 = r1
  NoJob = NoJob
  Jobs = {j1, j2}
  Workers = {w1, w2}
  ProbeWorkers = {w1}
  QueueCapacity = 1
  NumURLs <- MixedURLs
  AllowFetch = {TRUE, FALSE}
  Readers = {}
CHECK_DEADLOCK FALSE
INVARIANTS
  EventsWellFormed
  CountersMatchPages
PROPERTIES
  AcceptedCompletes
  ShutdownStopsWorkers
