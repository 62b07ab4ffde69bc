SPECIFICATION PlayersSpec
CONSTANTS
  NBuffers = 4
  File <- FiveFrames
  MaxFailures = 2
  Pictures <- FourPictures
  Times <- FourTimes
  Stamps <- SomeTimed
  Delays <- FourDelays
  LastTime = 5
  Failures = 1
  Rounds = 6
INVARIANTS
  Types
  PoolConserved
PROPERTIES
  NothingSkipped
  ShownInOrder
  PlayersEnd
\* The players end, and so do their inputs.
CHECK_DEADLOCK FALSE
