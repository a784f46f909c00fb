\* An Emit that races with Close.
SPECIFICATION Spec
CONSTANTS
  Emitters = {e1, e2}
  MaxEmits = 1
  NumSinks = 1
  BufferSize = 1
  MaxBatchEvents = 2
  MaxBatchWait = 1
  Closers = {c1}
SYMMETRY EmitterSymmetry
CHECK_DEADLOCK FALSE
INVARIANTS
  CloseDrains
