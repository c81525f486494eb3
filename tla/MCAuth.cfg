SPECIFICATION FairSpecUsed
CONSTANTS
  tab1 = tab1
  tab2 = tab2
  far = far
  desk = desk
  phone = phone
  Browsers = {desk, phone}
  Calls = {tab1, tab2, far}
  BrowserOf <- Tabs
  Nothing = Nothing
  MaxLogins = 2
  MaxRotations = 1
  MaxFaults = 1
INVARIANTS LatestLoginOnly KeptWhileAlone
PROPERTIES EndedStaysEnded
CHECK_DEADLOCK FALSE
