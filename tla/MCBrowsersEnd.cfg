SPECIFICATION FairSpec
CONSTANTS
  Callers = {c1, c2, c3}
  Tenants = {"acme"}
  TenantOf <- OneTenant
  Quota <- QuotaOfTwo
  RejectFast = FALSE
  Slots = {s1, s2, s3}
  NoSlot = NoSlot
  MaxBrowsers = 2
  MaxContexts = 1
  RecycleUses = 2
  PoolFaults = {"memory", "launch", "newContext"}
  MaxVisits = 4
PROPERTY VisitsEnd
CHECK_DEADLOCK FALSE
