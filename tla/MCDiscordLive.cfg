SPECIFICATION LiveSpec
CONSTANTS
  Workers = {w1, w2}
  Admins = {}
  OwnerOf <- OwnPid
  MaxMessages = 3
  Contents = {c1, c2}
  MAX_FAILURES = 2
  None = None
  MaxFaults = 1
  MaxExpiries = 0
  MaxChanges = 1
  MaxDeletions = 1
  NewsRounds = {n1, n2}
  OnDiscord = {g1}
  OnSite = {s1}
  Episodes = {1}
  Reports = {2}
  NEWS_BATCH = 1
  MaxNewsFaults = 1
  Users = {u1}
  DmRounds = {q1, q2}
  Parts = {1, 2, 3}
  MAX_HIBA = 2
  DM_BATCH = 2
  MaxFlips = 3
  MaxDmCrashes = 1
  Members = {1, 2, 3}
  p2 = p2
  Passes = {p1, p2}
  SYNC_BATCH = 2
  MaxSwaps = 2
  MaxSyncFaults = 1
CHECK_DEADLOCK FALSE
INVARIANTS
  NewsSafe
PROPERTIES
  MessageBehaves
  NewsBehaves
  DmBehaves
  RolesBehave
