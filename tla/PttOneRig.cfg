CONSTANTS
  c1 = c1
  c2 = c2
  r1 = r1
  NoClient = NoClient
  NoRig = NoRig
  Clients = {c1, c2}
  Rigs = {r1}
  DefaultRig = r1
  MaxVfos = 1
  QueueLimit = 2
  Strict = TRUE
  Causes = {"forced", "block", "tot", "retry", "trip", "reset", "shutdown"}
  MaxPending = 3
SYMMETRY ClientSymmetry
SPECIFICATION Spec
INVARIANTS
  HaltSilences
  NoPhantomTalker
  ReleaseAccepted
  RowsClosed
PROPERTIES
  ResetReleases
CHECK_DEADLOCK FALSE
