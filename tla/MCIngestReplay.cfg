SPECIFICATION Spec
CONSTANTS
  Jobs = {j1}
  Workers = {w1, w2}
  Idle = Idle
  MaxAttempts = 2
  MaxReplays = 1
  AdminMaxReplays = 1
  MaxStalledCount = 1
  DlqEnabled = TRUE
  Doors = {"admin"}
  FailPoints <- SettlingPoints
  MaxThrows = 3
  MaxCrashes = 0
  MaxLockLosses = 0
  MaxFaults = 3
  MaxExpiries = 1
  MaxOperatorOps = 1
PROPERTY ReplayReachesSource
CHECK_DEADLOCK FALSE
