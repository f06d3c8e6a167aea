SPECIFICATION Spec
CONSTANTS
  Adders = {a1}
  BufferSize = 1
  MaxBatchSize = 2
  BatchCap = 1
  MaxDiskLines = 4
  Long = {}
  Unencodable = {}
  MaxEntries = 2
  MaxCrashes = 0
  MaxFaults = 0
CHECK_DEADLOCK FALSE
PROPERTY WrittenIsReadBack
