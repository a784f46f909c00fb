\* The signal comes while a worker is in the middle of a job.
SPECIFICATION Spec
CONSTANTS
  j1 = j1
  j2 = j2
  w1 = w1
  w2 = w2
  r1 = r1
  NoJob = NoJob
  Jobs = {j1}
  Workers = {w1}
  ProbeWorkers = {w1}
  QueueCapacity = 1
  NumURLs <- OneURL
  AllowFetch = {TRUE}
  Readers = {}
CHECK_DEADLOCK FALSE
INVARIANTS
  InFlightWorkEnds
