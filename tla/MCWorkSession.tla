--------------------------- MODULE MCWorkSession ---------------------------
(* A small instance of WorkSession: calls are interchangeable.             *)
EXTENDS WorkSession, TLC

Symmetry == Permutations(Call)
=============================================================================
