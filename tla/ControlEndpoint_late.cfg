\* A read, and a start of a follow mode close behind it.
CONSTANTS
  Shapes = {"read", "follow"}
  POOL = 3
  Abandons = FALSE
  MaxRequests = 2
SPECIFICATION Spec
INVARIANT ResponseArrived
CHECK_DEADLOCK FALSE
