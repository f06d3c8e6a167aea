SPECIFICATION Spec
CONSTANTS
  Adders = {a1}
  Closers = {c1}
  BufferSize = 2
  MaxBatchSize = 2
  BatchCap = 1
  MaxEntries = 3
CHECK_DEADLOCK FALSE
INVARIANT AddNeverPanics
