CONSTANTS
  c1 = c1
  r1 = r1
  r2 = r2
  NoClient = NoClient
  NoRig = NoRig
  Clients = {c1}
  Rigs = {r1, r2}
  DefaultRig = r1
  MaxVfos = 1
  QueueLimit = 2
  Strict = FALSE
  Causes = {"forced", "tot", "retry"}
  MaxPending = 2
SPECIFICATION Spec
INVARIANTS
  AirAccounted
  OneTransmission
  SessionsReal
CHECK_DEADLOCK FALSE
