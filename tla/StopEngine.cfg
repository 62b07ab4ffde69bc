SPECIFICATION FairSpec
CONSTANTS
  NPackets = 2
  MAX_BUFF_SIZE = 1
  MaxSeeks = 0
  NoFrame = NoFrame
  NUMBUFFERS = 2
PROPERTIES
  PlayerEnds
\* After Stop has returned nothing runs any more.
CHECK_DEADLOCK FALSE
