\* Requests of every kind at any point of main's iteration.
CONSTANTS
  Hops = 4
  CntSize = 3
  Maps <- MCMaps
  Increments = {1}
  Selectable = {38}
  Requests = {"start", "restart", "off", "channel", "configure"}
  MaxRequests = 3
SPECIFICATION Spec
INVARIANTS TypeOK HopAgrees ListeningHears SynchOnAdvertising ListensWhereSelected DynamicHasAddress OnMap
CHECK_DEADLOCK FALSE
