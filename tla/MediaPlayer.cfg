SPECIFICATION MediaSpec
CONSTANTS
  File <- ShortFile
  MaxPlays = 2
  MaxFailures = 2
  MaxPresses = 4
  Pts <- FourFrames
  Stamped <- Alternate
  Request = 5
  BUFFER_SIZE = 21
  RingSize = 16
  Channels = 2
  Width = 2
  MaxDelay = 3
INVARIANTS
  Types
  NoFrameLost
  StartButtonShowsNothing
  SoundExact
PROPERTIES
  ThreadsRespond
\* A player that quits while decode waits never comes back from its join.
CHECK_DEADLOCK FALSE
