SPECIFICATION ServerLiveSpec
CONSTANTS
  Main = main
  Callers = {main}
  MaxStarts = 1
  Adders = {r1, r2}
  MaxLogs = 2
  MaxEntries = 4
  BufferSize = 1
  MaxBatchSize = 2
  BatchCap = 1
  Contents = {x}
  Ignored = {}
  Template <- MCTemplate
  Bare = {}
  Severe = {}
  ContextLines = 0
CHECK_DEADLOCK FALSE
INVARIANTS
  AnswerIsAccurate
  CleanExitSettles
PROPERTIES
  NothingAcceptedAfterStop
  ShutdownEnds
