SPECIFICATION WritersSpec
CONSTANTS
\* A duration that neither frames of 2 nor of 3 fill exactly, and encoders that
\* hold back up to two frames.
  StreamDuration = 7
  MaxFrameTime = 3
  MaxDelay = 2
  CameraDuration = 4
  CameraFrameTime = 2
  InxLimit = 5
  MaxStarts = 2
  MaxFailures = 2
\* More rounds than pictures may have, and not a multiple of the images.
  ImageFiles = 3
  ImageRounds = 8
  LastPts = 7
  CaptureRounds = 6
  Samples = 2
  Delay = 2
INVARIANTS
  NothingMissing
  StreamsTogether
PROPERTY WritersEnd
\* Each writer has returned, or the program has ended.
CHECK_DEADLOCK FALSE
