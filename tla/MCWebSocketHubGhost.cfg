\* One socket and one room: a join is answered after its socket was forgotten.
SPECIFICATION Spec
CONSTANTS
  Sockets = {s1}
  Tickets = {t1}
  Sessions = {x1}
  User = user
  Rooms = {room}
  Chats = {}
  MAX_CHANNELS = 2
  EARLY_FRAME_LIMIT = 1
  None = None
  MaxRevocations = 0
CHECK_DEADLOCK FALSE
INVARIANTS
  ForgottenIsOut
