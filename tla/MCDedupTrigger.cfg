SPECIFICATION Spec
CONSTANTS
  Messages <- MCMessages
  req = req
  one = one
  two = two
  db = db
  down = down
  up = up
  dash = dash
  Delimiters = {dash}
  Mask = Mask
  Masked = {one, two}
  Wild = Wild
  MaxNodeDepth = 2
  MaxChildren = 100
  SimNum = 1
  SimDen = 2
  Entries <- MCEntries
  ContextLines = 1
  TTL = 1
  MaxProcessed = 5
PROPERTIES
  ContextThenTrigger
