CONSTANTS
  Hz = {1, 2}
  Mode = {1, 2}
  None = None
  Configured <- FirstSetting
  MaxAttempts = 2
  Id = {1, 2, 3, 4}
  MaxFaults = 2
SPECIFICATION FairSpec
INVARIANTS
  NoLostCallback
  LastChoiceWins
PROPERTIES
  CallbacksAnswered
  ReceiverReleased
  ComesOnline
CHECK_DEADLOCK FALSE
