--------------------------- MODULE MCClientRelay ---------------------------
(* Instances of ClientRelay for TLC.                                       *)
EXTENDS ClientRelay
============================================================================
