SPECIFICATION MCSpec
CONSTANTS
  Adders = {a1}
  BufferSize = 1
  MaxBatchSize = 2
  BatchCap = 1
  MaxDiskLines = 1
  Long = {2}
  Unencodable = {6}
  MaxEntries = 7
  MaxCrashes = 1
  MaxFaults = 1
CHECK_DEADLOCK FALSE
INVARIANTS
  NothingElseIsLost
  ReadBackInOrder
  WholeFileIsHandedOver
  DiskBudget
PROPERTY SpoolDrains
