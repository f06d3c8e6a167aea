SPECIFICATION ProfilesSpec
CONSTANTS
  a = a
  b = b
  c = c
  one = one
  two = two
  colon = colon
  space = space
  Delimiters = {colon, space}
  Space = space
  Mask = Mask
  Masked = {one, two}
  Wild = Wild
  MaxNodeDepth = 3
  MaxChildren = 1
  SimNum = 1
  SimDen = 2
  Messages <- MCMessages
  MaxMessages = 4
  Joined = Joined
  CovNum = 3
  CovDen = 4
  Callers = {c1, c2}
  NoOne = NoOne
  Generic = "generic"
  Builtin <- MCBuiltin
  Learned <- MCLearned
  InCache <- MCInCache
  Offered <- MCOffered
INVARIANTS
  TemplatesCoverMembers
  LastIsFound
  LearnedCovers
  StatsAreConsistent
  LearnedWins
PROPERTIES
  CallsEnd
