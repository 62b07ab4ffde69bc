SPECIFICATION FilesSpec
CONSTANTS
  Files <- FourFiles
  Chunks = 2
  Capacity = 3
  Endless = 4
  Kind <- FilmKind
  Packets <- FilmPackets
  MaxDelay = 1
  Items <- FourFrames
  Keys = {1, 4}
  Delay = 1
  Attempts = 1
  Delta = 2
  MaxDelta = 20
  Far = 100
  Calls = 3
INVARIANTS
  SlotsConserved
  OneAhead
  NoGaps
PROPERTIES
  SafeTeardown
  FilesEnd
\* The programs end, and the searches are bounded.
CHECK_DEADLOCK FALSE
