\* A follow session: main hops on its own while the interrupt writes.
CONSTANTS
  SAMPLE_BUFFER_SIZE = 12
  BLOCK = 2
  PACKET_SAMPLES_MIN = 3
  PACKET_SAMPLES_MAX = 4
  LOOKAHEAD = 4
  Channels = {39}
  CHANNEL_START = 39
  CHANNEL_DEFAULT = 39
  HopChannels = {39}
  Requests = {"start_follow"}
  MaxBlocks = 9
  MaxResets = 2
SPECIFICATION Spec
INVARIANTS TypeOK NoStall FreshOrTail ReadFollowsWrite
CHECK_DEADLOCK FALSE
