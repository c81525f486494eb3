SPECIFICATION Spec
CONSTANTS
  Jobs = {j1}
  Workers = {w1, w2}
  Idle = Idle
  MaxAttempts = 2
  MaxReplays = 1
  AdminMaxReplays = 1
  MaxStalledCount = 1
  DlqEnabled = TRUE
  Doors = {}
  FailPoints = {"childEvent"}
  MaxThrows = 3
  MaxCrashes = 0
  MaxLockLosses = 0
  MaxFaults = 3
  MaxExpiries = 1
  MaxOperatorOps = 0
PROPERTY SucceededIsFinal
CHECK_DEADLOCK FALSE
