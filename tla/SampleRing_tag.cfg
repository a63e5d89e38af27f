\* The channel a packet is reported with, when the host changes the channel.
CONSTANTS
  SAMPLE_BUFFER_SIZE = 12
  BLOCK = 2
  PACKET_SAMPLES_MIN = 3
  PACKET_SAMPLES_MAX = 4
  LOOKAHEAD = 4
  Channels = {37, 39}
  CHANNEL_START = 37
  CHANNEL_DEFAULT = 39
  HopChannels = {}
  Requests = {"start_fixed", "channel"}
  MaxBlocks = 7
  MaxResets = 2
SPECIFICATION Spec
INVARIANT TagIsReceivedChannel
CHECK_DEADLOCK FALSE
