SPECIFICATION LiveSpec
CONSTANTS
  MaxWriteFaults = 1
  MaxEvents = 1
  MaxTroubles = 1
  MaxReconnects = 3
CHECK_DEADLOCK FALSE
INVARIANTS
  GatewaySafe
PROPERTIES
  GatewayBehaves
