SPECIFICATION MCSpec
CONSTANTS
  Threads = {t1, t2, t3}
  Capacity = 2
  MaxBatch = 2
  MaxEntries = 4
  Keys = {k1}
  Requests = {r1, r2}
  Burst = 6
  RequestsPerMin = 1
  Minute = 2
  MaxExcess = 0
CHECK_DEADLOCK FALSE
INVARIANTS
  NoLostWakeup
  NeverMoreGenerous
PROPERTIES
  ImplementsLossyFifo
  CloseReleasesAll
  KeepsServing
