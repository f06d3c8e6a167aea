SPECIFICATION LiveSpec
CONSTANTS
  BatchSize = 2
  MaxRetries = 1
  Retries = 2
  MaxSend = 2
  MaxEntries = 4
  MaxTime = 2
  Unencodable = {2}
CHECK_DEADLOCK FALSE
INVARIANTS
  NothingVanishes
  DuplicatesOnlyAfterError
PROPERTIES
  AckedIsSettled
