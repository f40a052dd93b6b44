SPECIFICATION Spec
CONSTANTS
  Timeout = 1
  RSS_SAMPLE_INTERVAL = 1
  RSS_SAMPLE_TIMEOUT = 1
  MAX_LOG = 3
  MaxTime = 2
  KillCanFail = TRUE
  PsCanStart = TRUE
  MaxProse = 0
  QemuMayDie = TRUE
  Requests <- ProcessRequests
INVARIANTS
  ChildrenReaped
PROPERTIES
  HarnessReturns
CHECK_DEADLOCK FALSE
