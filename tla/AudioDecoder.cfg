SPECIFICATION DecoderSpec
CONSTANTS
  NPackets = 3
  MAX_BUFF_SIZE = 2
  MaxSeeks = 1
  NoFrame = NoFrame
INVARIANTS
  NoStaleFrame
  NoDecoderWakeupLost
