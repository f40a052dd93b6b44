SPECIFICATION Spec
CONSTANTS
  Timeout = 2
  RSS_SAMPLE_INTERVAL = 1
  RSS_SAMPLE_TIMEOUT = 1
  MAX_LOG = 4
  MaxTime = 3
  KillCanFail = FALSE
  PsCanStart = FALSE
  MaxProse = 1
  QemuMayDie = TRUE
  Requests <- AllRequests
INVARIANTS
  AcceptedIsTrue
  TrueIsAccepted
  ClassificationExplained
CHECK_DEADLOCK FALSE
