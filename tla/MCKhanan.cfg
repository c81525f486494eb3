SPECIFICATION FairSpecWith
CONSTANTS
  long = long
  short = short
  local = local
  auto = auto
  manual = manual
  clerk = clerk
  q1 = q1
  va = va
  vb = vb
  k1 = k1
  k2 = k2
  k3 = k3
  acme = acme
  None = None
  Owners = {acme}
  TeamOf <- Teams
  Vehicles = {va, vb}
  Syncs = {auto, manual}
  Savers = {clerk}
  Forms <- SomeForms
  MaxDbFaults = 1
  Runs = {long, short, local}
  Mode <- Modes
  Pages <- Results
  Polls = {q1}
  AutoSync = auto
  AutoSyncEnabled = TRUE
  MaxRestarts = 1
INVARIANTS RunRecorded
PROPERTIES LeadsKept RunsEnd
CHECK_DEADLOCK FALSE
