SPECIFICATION MCSpec
CONSTANTS
  Sessions = {s1, s2, s3}
  Requests = {r1, r2}
  Sets = {x1, x2, x3}
  None = None
  NoSet = NoSet
  MaxSignOuts = 1
  MaxFaults = 1
SYMMETRY Symmetry
CHECK_DEADLOCK FALSE
INVARIANTS
  SessionsSafe
  TokensJudged
PROPERTIES
  GoneForGood
