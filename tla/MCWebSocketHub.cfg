\* Two sockets, two tickets for two sessions, and one room; one revocation.
SPECIFICATION Spec
CONSTANTS
  Sockets = {s1, s2}
  Tickets = {t1, t2}
  Sessions = {x1, x2}
  User = user
  Rooms = {room}
  Chats = {}
  MAX_CHANNELS = 2
  EARLY_FRAME_LIMIT = 1
  None = None
  MaxRevocations = 1
SYMMETRY Symmetry
CHECK_DEADLOCK FALSE
INVARIANTS
  HubSafe
PROPERTIES
  SweepBehaves
