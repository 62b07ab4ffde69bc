---------------------------- MODULE MCPthreadQueue ----------------------------
(* Instances of PthreadQueue for TLC.                                      *)
EXTENDS PthreadQueue, TLC

CONSTANTS
  p1, p2, p3,                  \* the packets
  demuxer, decoder, display, poller, closer     \* the threads

MCPackets == {p1, p2, p3}

\* Sizes whose sum exceeds MCWord, so that the byte counter wraps.
MCSize == p1 :> 2 @@ p2 :> 3 @@ p3 :> 4
MCWord == 7
===============================================================================
