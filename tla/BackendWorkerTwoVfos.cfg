CONSTANTS
  QueueLimit = 2
  MaxVfos = 2
  MaxJobs = 4
  Operations = {"ptt_on", "ptt_off"}
SPECIFICATION Spec
INVARIANTS
  NoStaleKeyDown
  ReleasedStaysReleased
  CacheFresh
  ShutdownUnkeys
PROPERTIES
  KeepsPromise
