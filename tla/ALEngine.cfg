SPECIFICATION FairSpec
CONSTANTS
  NPackets = 4
  MAX_BUFF_SIZE = 1
  MaxSeeks = 0
  NoFrame = NoFrame
  NUMBUFFERS = 2
INVARIANTS
  PoolConserved
  EndToEndOrder
PROPERTIES
  NothingSkipped
  FramesReachSource
  StopReturns
\* After Stop has returned nothing runs any more.
CHECK_DEADLOCK FALSE
