---------------------------- MODULE MCRunManager ----------------------------
(* A small instance of RunManager: the model values of its cfg files are    *)
(* interchangeable within each set.                                         *)
EXTENDS RunManager, TLC

Symmetry == Permutations(Run) \cup Permutations(EventViewer)
=============================================================================
