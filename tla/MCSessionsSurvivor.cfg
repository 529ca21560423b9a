\* A refresh and a sign-out at the same time.
SPECIFICATION MCSpec
CONSTANTS
  Sessions = {s1, s2}
  Requests = {r1, r2}
  Sets = {x1, x2, x3}
  None = None
  NoSet = NoSet
  MaxSignOuts = 1
  MaxFaults = 0
SYMMETRY Symmetry
CHECK_DEADLOCK FALSE
INVARIANTS
  NothingSurvives
