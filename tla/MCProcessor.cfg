SPECIFICATION MCSpec
CONSTANTS
  Adders = {a1}
  BufferSize = 1
  BatchCap = 1
  x = x
  y = y
  z = z
  w = w
  dash = dash
  p = p
  q = q
  Template <- MCTemplate
  MaxBatchSize = 2
  MaxEntries = 3
  Callers = {p, q}
  MaxStarts = 2
  Contents = {x, y, z, w, dash}
  Ignored = {y}
  Bare = {dash}
  Severe = {2}
  ContextLines = 1
CHECK_DEADLOCK FALSE
INVARIANTS
  StopSettlesAllButQueued
  EachIsRepresented
  
PROPERTIES
  AcceptedIsHandled
