\* A behaviour ends when the bounded number of packets has arrived, or the
\* fields are written.
SPECIFICATION RtpSpec
CONSTANTS
  Stream <- TwoPictures
  FirstSeq = 4
  SeqMod = 6
  InitialLen = 20
  Reorders = TRUE
  MaxDeliveries = 8
  LossyStream <- FourPictures
  LossyFirstSeq = 3
  LossySeqMod = 32
  LossyDeliveries = 14
  Packets <- SoundPackets
  SoundFirstSeq = 4
  SeqNumbers = 8
  SoundDeliveries = 5
  size_length = 13
  index_length = 3
  index_delta_length = 3
  Word = 32
  Jobs <- WriterJobs
  Sizes = {0, 1, 2, 9, 300, 8184}
INVARIANTS
  UsedOnce
  NewestAreDecoded
  WholeStream
PROPERTIES
  CompletePictureDecoded
CHECK_DEADLOCK FALSE
