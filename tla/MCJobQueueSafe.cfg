\* Two jobs, one key, two processes of one lane, one of them deployed: leases
\* that go stale, one fault anywhere, one revival.
SPECIFICATION Spec
CONSTANTS
  Jobs = {j1, j2}
  Queues = {stats}
  Webhook = webhook
  Keys = {k}
  NoKey = NoKey
  Procs = {p1, p2}
  JOB_CONCURRENCY = 1
  MaxAttempts = 2
  NoJob = NoJob
  MaxFaults = 1
  MaxStops = 1
  MaxRevivals = 1
  MaxBeats = 0
  MaxRetriesInFlight = 1
SYMMETRY Symmetry
INVARIANTS
  QueueSafe
PROPERTIES
  SettledByHolder
  NoFalseObituary
  LedgerSpec
