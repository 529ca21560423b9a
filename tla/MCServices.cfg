SPECIFICATION LiveSpec
CONSTANTS
  DeliveryJobs = {d1}
  TestSends = {t1}
  FAILURE_LIMIT = 2
  MAX_ATTEMPTS = 3
  MaxPatches = 2
  p1 = p1
  p2 = p2
  Chain <- ChainOfTwo
  Resolves = {r1, r2}
  TRIP_AFTER = 2
  OpensCap = 2
  MaxOutages = 2
  CONCURRENCY = 2
  ATTEMPTS = 2
  MAX_PARTS = 3
  MaxSource = 4
  Conns = {1, 2, 3}
  Messages = {m1, m2}
  Own = {m1}
  Large = {m2}
  MaxLosses = 2
  MaxStarts = 2
  Sleepers = {l1, l2}
  Work = {j1, j2}
  k1 = k1
  j2 = j2
  Links = {k1, k2}
  MaxDeaf = 2
  MaxDues = 1
  Cycles = {c1, c2}
  AlertIds = {a1, a2}
  DEBOUNCE_CYCLES = 3
  RECOVERY_CYCLES = 2
  MaxTroubles = 2
  w1 = w1
  w2 = w2
  w3 = w3
  w4 = w4
  e1 = e1
  e2 = e2
  Ticks = {w1, w2, w3, w4}
  Episodes = {e1, e2}
  EpisodeOf <- EpisodeOfTick
  Readers = {v1}
  XP_EPISODES_PER_DAY = 2
  MaxSittings = 2
  MaxWatchFaults = 1
CHECK_DEADLOCK FALSE
INVARIANTS
  WebhookSafe
  UploadSafe
  PubSubSafe
  WakeSafe
  AlertSafe
PROPERTIES
  WebhookBehaves
  BreakerBehaves
  ComesBack
  WakeBehaves
  AlertBehaves
  WatchBehaves
