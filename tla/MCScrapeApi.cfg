SPECIFICATION FairSpecWith
CONSTANTS
  r1 = r1
  r2 = r2
  r3 = r3
  k1 = k1
  Requests = {r1, r2, r3}
  NoJob = NoJob
  NoKey = NoKey
  KeyOf <- KeyOfRequests
  Blank = Blank
  Malformed = Malformed
  Today = 5
  MaxRangeDays = 3
  Bodies <- SomeBodies
  Redis = FALSE
  Ticks = {t1, t2}
  Polling = TRUE
  Polls = {p1, p2}
  PageSize = 1
  MaxFaults = 1
INVARIANTS TypeOK HistoryFollowsRow NoGap
PROPERTIES IdempotentSpec QueuedIsTaken EventsArrive
CHECK_DEADLOCK FALSE
