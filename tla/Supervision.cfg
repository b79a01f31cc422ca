CONSTANTS
  Noob = {n1, n2}
  Elmer = {e1, e2}
  n1 = n1
  n2 = n2
  e1 = e1
  e2 = e2
  NoSession = NoSession
  Room = {"rig0"}
  Requests = 2
  Slots = 2
  Idle = 2
  MaxTickets = 3
SPECIFICATION FairSpec
INVARIANTS
  TypeOK
  SupervisedOnAir
  ConsentExplicit
PROPERTIES
  LapseEndsTransmission
