SPECIFICATION FairSpec
CONSTANTS
  p1 = p1
  p2 = p2
  p3 = p3
  demuxer = demuxer
  decoder = decoder
  display = display
  poller = poller
  closer = closer
  Producers = {demuxer}
  Consumers = {decoder, display, poller}
  Pollers = {poller}
  Flushers = {closer}
  Packets <- MCPackets
  Size <- MCSize
  Word <- MCWord
  UnlockOnEmpty = FALSE
  MaxFailures = 1
  NoThread = NoThread
  NoPacket = NoPacket
INVARIANTS
  LockDiscipline
  NoLostWakeup
  SizeCountsBytes
PROPERTIES
  ImplementsFifo
  Delivered
\* A poll of the empty queue keeps the mutex: every thread really stops.
CHECK_DEADLOCK FALSE
