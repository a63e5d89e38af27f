\* A host that is killed and started again.
CONSTANTS
  TRANSFER_COUNT = 2
  MaxCalls = 4
  MaxPackets = 2
  MaxKills = 1
  MaxFailures = 0
SPECIFICATION Spec
PROPERTIES AlreadyStopped
CHECK_DEADLOCK FALSE
