SPECIFICATION SetupSpec
CONSTANTS
  SetupRuns = {r1}
  ResetRuns = {x1}
  Things = {o1, o2}
  Tickets = {t1}
  MaxHands = 2
  MaxSetupFaults = 1
  MaxRows = 2
INVARIANTS
  ForeignIsNeverDeleted
CHECK_DEADLOCK FALSE
