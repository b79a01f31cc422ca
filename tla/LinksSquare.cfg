SPECIFICATION Spec
CONSTANTS
  Server = {1, 2, 3, 4}
  NoServer = NoServer
  TreeLimit = 4
  Dials <- Square
  NoSocket = NoSocket
  MaxDials = 4
  MaxBreaks = 0
CHECK_DEADLOCK FALSE
INVARIANTS NeverBlocked
