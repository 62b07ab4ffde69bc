------------------------------ MODULE MCAVMuxer ------------------------------
(* Instances of AVMuxer for TLC.                                           *)
EXTENDS AVMuxer
==============================================================================
