\* A ring of two slots and five packets: full, drained, and ended at any point.
CONSTANTS
  PACKETS_CNT = 2
  MaxPackets = 5
SPECIFICATION FairSpec
INVARIANTS TypeOK SlotHandedOver PrintedInOrder
PROPERTIES Drained BothEnd
CHECK_DEADLOCK FALSE
