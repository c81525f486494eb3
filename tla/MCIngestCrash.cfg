SPECIFICATION FairSpec
CONSTANTS
  Jobs = {j1}
  Workers = {w1, w2}
  Idle = Idle
  MaxAttempts = 2
  MaxReplays = 1
  AdminMaxReplays = 1
  MaxStalledCount = 1
  DlqEnabled = TRUE
  Doors = {}
  FailPoints = {}
  MaxThrows = 0
  MaxCrashes = 1
  MaxLockLosses = 0
  MaxFaults = 3
  MaxExpiries = 1
  MaxOperatorOps = 0
PROPERTY Settles
CHECK_DEADLOCK FALSE
