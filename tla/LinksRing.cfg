SPECIFICATION Spec
CONSTANTS
  Server = {1, 2, 3}
  NoServer = NoServer
  TreeLimit = 3
  Dials <- Ring
  NoSocket = NoSocket
  MaxDials = 3
  MaxBreaks = 1
CHECK_DEADLOCK FALSE
INVARIANTS TreesSound BranchesOwned TieBreakAgrees HandshakeMoves TreesAgree
