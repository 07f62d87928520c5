---------------------------- MODULE MCHeartbeat ----------------------------
(* Instances of Heartbeat for TLC; the bounds are in the configurations.   *)
EXTENDS Heartbeat, TLC

\* One window wraps midnight, the other lies inside the day.
BothKinds == {<<2, 1>>, <<0, 2>>}

Symmetry == Permutations(Fires)
=============================================================================
