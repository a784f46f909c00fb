\* Four configuration files; two workers emit through shutdown; two sinks, a
\* channel of two places, batches of three.
SPECIFICATION AppSpec
CONSTANTS
  Emitters = {e1, e2}
  MaxEmits = 2
  NumSinks = 2
  BufferSize = 2
  MaxBatchEvents = 3
  MaxBatchWait = 1
  Closers = {main}
  ConfigFiles <- Files
  Ports <- PortValues
CHECK_DEADLOCK FALSE
INVARIANTS
  AppTypeOK
  NothingLostOrReordered
  CloseFlushesEarlierEvents
  WaitingBatchHasTimer
  BatchAgeBounded
  PoolOpenWhileUsed
PROPERTIES
  AcceptedIsOffered
  ShutdownCompletes
