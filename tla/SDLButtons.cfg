SPECIFICATION Spec
CONSTANTS
  File <- TwoPackets
  MaxPlays = 2
  MaxFailures = 1
  MaxPresses = 4
INVARIANTS
  RefreshAlive
CHECK_DEADLOCK FALSE
