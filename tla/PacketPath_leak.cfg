\* The session is stopped and started again while a transfer is outstanding.
CONSTANTS
  DEMOD_INFO_CNT = 100
  Transfers = {t1}
  None = None
  MaxPackets = 6
  MaxRequests = 4
SPECIFICATION Spec
INVARIANTS WaitEnds
CHECK_DEADLOCK FALSE
