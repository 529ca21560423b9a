SPECIFICATION LiveSpec
CONSTANTS
  b = b
  r1 = r1
  r2 = r2
  o1 = o1
  n1 = n1
  Tabs = {a, b}
  Reads = {r1, r2}
  Logouts = {o1}
  Resumes = {n1}
  HomeOf <- HomeOfCall
  MaxLost = 1
  u1 = u1
  u2 = u2
  c1 = c1
  c2 = c2
  c3 = c3
  k1 = k1
  k2 = k2
  k3 = k3
  s1 = s1
  s2 = s2
  Users = {u1, u2}
  Accounts = {d1}
  Operators = {u2}
  NoAccount = NoAccount
  Callbacks = {c1, c2, c3}
  StarterOf <- StarterOfCallback
  StateOf <- StateOfCallback
  Checks = {k1, k2, k3}
  AskerOf <- AskerOfCheck
  MaxChanges = 2
  MaxSilences = 1
  Apis = {api1}
  q2 = q2
  b2 = b2
  Lookups = {q1, q2}
  BanCalls = {b1, b2}
  BanIds = {i1, i2}
  MaxBanFaults = 1
  Instances = {i1, i2}
  MaxSaves = 2
  MaxBreaks = 1
CHECK_DEADLOCK FALSE
INVARIANTS
  TabsSafe
  AccessSafe
  BansSafe
  MaintenanceSafe
PROPERTIES
  EveryRequestEnds
  AccessBehaves
  BansBehave
  MaintenanceBehaves
