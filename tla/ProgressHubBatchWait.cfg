\* Events that arrive just before the timer fires.
SPECIFICATION Spec
CONSTANTS
  Emitters = {e1, e2}
  MaxEmits = 2
  NumSinks = 1
  BufferSize = 2
  MaxBatchEvents = 4
  MaxBatchWait = 2
  Closers = {}
SYMMETRY EmitterSymmetry
CHECK_DEADLOCK FALSE
INVARIANTS
  FlushedWithinMaxBatchWait
