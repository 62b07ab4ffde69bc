----------------------------- MODULE MCSDLPlayer -----------------------------
(* Instances of SDLPlayer for TLC.                                         *)
EXTENDS SDLPlayer

\* A picture with sound before it.
TwoPackets == <<"audio", "video">>
==============================================================================
