SPECIFICATION Spec
CONSTANTS
  Jobs = {j1}
  Workers = {w1, w2}
  Idle = Idle
  MaxAttempts = 2
  MaxReplays = 1
  AdminMaxReplays = 1
  MaxStalledCount = 1
  DlqEnabled = TRUE
  FailPoints <- AllPoints
  Doors = {"admin", "retry", "nest"}
  MaxFaults = 3
  MaxThrows = 3
  MaxCrashes = 1
  MaxLockLosses = 1
  MaxExpiries = 1
  MaxOperatorOps = 1
SYMMETRY WorkerSymmetry
INVARIANTS TypeOK NoChildBeforeClaim CompletedMasterClaimed ReplayCapHolds
PROPERTY LifecycleSpec
CHECK_DEADLOCK FALSE
