\* The message: two workers of one container name, one of them also the
\* administrator; one fault anywhere, or one lock that expires under its holder.
\* The guild: a setup beside a reset and two changes by hand, or beside another setup and
\* one; two objects, one fault.
SPECIFICATION SafeSpec
CONSTANTS
  Workers = {w1, w2}
  Admins = {w2}
  OwnerOf <- SamePid
  MaxMessages = 3
  Contents = {c1, c2}
  MAX_FAILURES = 2
  None = None
  MaxFaults = 1
  MaxExpiries = 1
  MaxChanges = 1
  MaxDeletions = 1
  r2 = r2
  SetupRuns = {r1, r2}
  ResetRuns = {x1}
  Things = {o1, o2}
  Tickets = {t1}
  MaxHands = 2
  MaxSetupFaults = 1
  MaxRows = 2
CHECK_DEADLOCK FALSE
INVARIANTS
  MessageSafe
  MessageKept
  SetupSafe
