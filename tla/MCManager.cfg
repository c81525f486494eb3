SPECIFICATION FairSpec
CONSTANTS
  Requests = {r1, r2}
  NoLease = NoLease
  Tenants = {"acme"}
  TenantOf <- OneTenant
  Quota = 1
  MaxBrowsers = 1
  Places = 1
  FairShare = TRUE
  GlobalMax = 1
  Headroom = 20
  Faults = {"lost", "unanswered", "resent", "launch", "memory", "crash"}
  MaxFaults = 2
  MaxRestarts = 1
INVARIANTS TypeOK CounterCovers PlacesKnown
PROPERTIES LeaseSpec PlacesComeBack RequestsAnswered
CHECK_DEADLOCK FALSE
