\* Requests from the host at any moment; one channel, as positions do not depend on it.
CONSTANTS
  SAMPLE_BUFFER_SIZE = 8
  BLOCK = 2
  PACKET_SAMPLES_MIN = 2
  PACKET_SAMPLES_MAX = 3
  LOOKAHEAD = 2
  Channels = {39}
  CHANNEL_START = 39
  CHANNEL_DEFAULT = 39
  HopChannels = {}
  Requests = {"start_fixed", "channel", "off"}
  MaxBlocks = 5
  MaxResets = 2
SPECIFICATION Spec
INVARIANT LagPerRequest
PROPERTY WindowKept
CHECK_DEADLOCK FALSE
