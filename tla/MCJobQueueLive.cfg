\* One job, two processes of one lane, a late heartbeat, a crash or a lost
\* reply, a deployment.
SPECIFICATION FairSpec
CONSTANTS
  Jobs = {j1}
  Queues = {stats, webhook}
  Webhook = webhook
  Keys = {k}
  NoKey = NoKey
  Procs = {p1, p2}
  JOB_CONCURRENCY = 1
  MaxAttempts = 2
  NoJob = NoJob
  MaxFaults = 1
  MaxStops = 1
  MaxRevivals = 1
  MaxBeats = 1
  MaxRetriesInFlight = 1
PROPERTIES
  DoneIsFinal
  JobsEnd
