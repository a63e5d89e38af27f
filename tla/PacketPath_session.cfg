\* Two records and two transfers: main waits for records; requests flush the endpoint at any point.
CONSTANTS
  DEMOD_INFO_CNT = 2
  Transfers = {t1, t2}
  None = None
  MaxPackets = 6
  MaxRequests = 4
SPECIFICATION FairSpec
INVARIANTS TypeOK Conservation HardwareOwnsActive DeliveredInOrder BufferStable
PROPERTIES ImplementsPipe PacketsArrive
CHECK_DEADLOCK FALSE
