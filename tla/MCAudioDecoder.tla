---------------------------- MODULE MCAudioDecoder ----------------------------
(* Instances of AudioDecoder for TLC.                                      *)
EXTENDS AudioDecoder
===============================================================================
