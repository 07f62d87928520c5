--------------------------- MODULE MCGatewayQueue ---------------------------
(* Small instances of GatewayQueue; messages are interchangeable, and so   *)
(* are button presses.                                                     *)
EXTENDS GatewayQueue, TLC

Symmetry == Permutations(Msg) \cup Permutations(Press)
=============================================================================
