--------------------------- MODULE MCChannelRuns ---------------------------
(* Instances of ChannelRuns for TLC; the bounds are in the configurations. *)
EXTENDS ChannelRuns, TLC

Symmetry == Permutations(Agents) \cup Permutations(Runs)
=============================================================================
