SPECIFICATION Spec
CONSTANTS
  StreamDuration = 4
  MaxFrameTime = 1
  MaxDelay = 1
  InxLimit = 9
  MaxStarts = 2
  MaxFailures = 0
PROPERTIES
  FinishReported
\* The program ends.
CHECK_DEADLOCK FALSE
