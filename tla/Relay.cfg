CONSTANTS
  c1 = c1
  r1 = r1
  NoClient = NoClient
  NoRig = NoRig
  Clients = {c1}
  Remote = {c1}
  Rigs = {r1}
  DefaultRig = r1
  MaxVfos = 1
  QueueLimit = 2
  Strict = TRUE
  Causes = {"forced", "tot", "retry"}
  MaxPending = 2
SPECIFICATION RelayFairSpec
PROPERTIES
  SilentRemoteEnds
  TimeoutEnds
INVARIANTS
  RelayTypeOK
  UnattendedEnds
CHECK_DEADLOCK FALSE
