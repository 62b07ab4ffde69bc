------------------------------ MODULE MCALEngine ------------------------------
(* Instances of ALEngine for TLC.                                          *)
EXTENDS ALEngine
===============================================================================
