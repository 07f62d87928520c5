---------------------------- MODULE MCScheduler ----------------------------
(* Instances of Scheduler for TLC; the values are in the configurations.   *)
EXTENDS Scheduler
=============================================================================
