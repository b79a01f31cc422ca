CONSTANTS
  QueueLimit = 2
  MaxVfos = 1
  MaxJobs = 2
  Operations = {"ptt_on", "ptt_off"}
SPECIFICATION Spec
INVARIANTS
  ShutdownNeverAbandons
