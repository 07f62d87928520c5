------------------------------ MODULE MCOutbox ------------------------------
(* Instances of Outbox for TLC; the bounds are in the configurations.      *)
EXTENDS Outbox
=============================================================================
