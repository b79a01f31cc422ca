CONSTANTS
  QueueLimit = 2
  MaxVfos = 1
  MaxJobs = 4
  Operations = {"poll", "menu_read", "ptt_on", "ptt_off"}
SPECIFICATION FairSpec
INVARIANTS
  TypeOK
  Accounting
  QueueDiscipline
PROPERTIES
  JobsComplete
