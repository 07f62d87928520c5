--------------------------- MODULE MCMcpManager ---------------------------
(* Instances of McpManager for TLC; the values are in the configurations.  *)
EXTENDS McpManager, TLC

Symmetry == Permutations(Call) \cup Permutations(Edit)
=============================================================================
