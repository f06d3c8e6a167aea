SPECIFICATION Spec
CONSTANTS
  Adders = {a1, a2}
  Closers = {c1, c2}
  BufferSize = 2
  MaxBatchSize = 2
  BatchCap = 1
  MaxEntries = 4
CHECK_DEADLOCK FALSE
INVARIANTS
  DeliveredInOrder
  DropsAreCounted
  ClosedMeansDrained
PROPERTIES
  ImplementsLossyFifo
