\* Every order of three requests, each at any moment after the one before or on top of it.
CONSTANTS
  Shapes = {"read", "flash", "act", "write", "refuse", "reject", "off", "fixed", "follow", "dynamic"}
  POOL = 3
  Abandons = TRUE
  MaxRequests = 3
SPECIFICATION FairSpec
INVARIANTS TypeOK CarriedOutOnce DataArrived OwnTransfers PoolsRefill
PROPERTIES RequestsEnd
CHECK_DEADLOCK FALSE
