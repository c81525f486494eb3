SPECIFICATION FairSpecWith
CONSTANTS
  fit = fit
  per = per
  ins = ins
  reg = reg
  kha = kha
  con = con
  trip = trip
  cha = cha
  q1 = q1
  q2 = q2
  va = va
  vb = vb
  Workers = {w1, w2}
  Jobs = {fit, per, ins, reg, kha, con, trip, cha}
  Vehicles = {va, vb}
  Nothing = Nothing
  Work <- SomeWork
  MaxAttempts = 2
  MaxFaults = 1
  Readers = {q1, q2}
  ChunkSize = 1
  ExportCap = 3
INVARIANTS TypeOK RowsBehind SnapshotCoherent ExportMissesOnlyMoved
PROPERTIES MergesKept JobsWritten RiskCatchesUp
CHECK_DEADLOCK FALSE
