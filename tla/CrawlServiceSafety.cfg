\* Two jobs race for a queue of one place and two workers; a client reads results.
SPECIFICATION Spec
CONSTANTS
  j1 = j1
  j2 = j2
  w1 = w1
  w2 = w2
  r1 = r1
  NoJob = NoJob
  Jobs = {j1, j2}
  Workers = {w1, w2}
  ProbeWorkers = {w1, w2}
  QueueCapacity = 1
  NumURLs <- OneURL
  AllowFetch = {TRUE}
  Readers = {r1}
SYMMETRY JobWorkerSymmetry
CHECK_DEADLOCK FALSE
INVARIANTS
  TypeOK
  AtMostOneHolder
  AnswerTellsFate
  CompletionMatchesRecord
  ResultCoversCounters
PROPERTIES
  TerminalIsFinal
  ImplementsLifecycle
