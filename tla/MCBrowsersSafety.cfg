SPECIFICATION Spec
CONSTANTS
  Callers = {c1, c2, c3, c4}
  Tenants = {"acme"}
  TenantOf <- OneTenant
  Quota <- QuotaOfThree
  RejectFast = FALSE
  Slots = {s1, s2, s3, s4}
  NoSlot = NoSlot
  MaxBrowsers = 2
  MaxContexts = 1
  RecycleUses = 2
  PoolFaults = {"memory", "launch", "newContext"}
  MaxVisits = 5
INVARIANTS TypeOK QuotaHolds WaitersAreWoken BrowsersBounded PlacesAccounted NobodyStranded
SYMMETRY CallerSymmetry
CHECK_DEADLOCK FALSE
