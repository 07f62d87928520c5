---------------------------- MODULE SingleFlight ----------------------------
(***************************************************************************)
(* What the scheduler promises for the fires of its standing orders,       *)
(* without ticks, semaphores, row snapshots and drains: an order has one   *)
(* fire in hand at a time; a fire opens and closes its own record, for an  *)
(* order that still exists; a fire ends with its record closed or never    *)
(* opened, unless its process died or its last write was lost; and what a  *)
(* deleted order had recorded goes with it, for good.  Scheduler           *)
(* implements this specification.                                          *)
(***************************************************************************)

CONSTANTS
  Order,  \* standing orders
  Fire,   \* fires: each one is used at most once
  None    \* no order

VARIABLES
  phase,   \* [Fire -> {"new", "asked", "held", "late", "ended", "lost"}]
  order,   \* [Fire -> Order \cup {None}]: what each fire is for
  record,  \* [Fire -> {"none", "running", "finished"}]
  gone     \* the orders that were deleted

flightVars == <<phase, order, record, gone>>

FlightInit ==
  /\ phase = [f \in Fire |-> "new"]
  /\ order = [f \in Fire |-> None]
  /\ record = [f \in Fire |-> "none"]
  /\ gone = {}

Moves(f, old, new) ==
  /\ phase[f] \in old
  /\ phase' = [phase EXCEPT ![f] = new]

(* A user asks for a fire of s. *)
Asks(f, s) ==
  /\ Moves(f, {"new"}, "asked") /\ s \notin gone
  /\ order' = [order EXCEPT ![f] = s]
  /\ UNCHANGED <<record, gone>>

(* f takes order s in hand: no other fire has it. *)
Begins(f, s) ==
  /\ Moves(f, {"new", "asked"}, "held")
  /\ phase[f] = "asked" => order[f] = s
  /\ \A g \in Fire : phase[g] = "held" => order[g] # s
  /\ order' = [order EXCEPT ![f] = s]
  /\ UNCHANGED <<record, gone>>

Refuses(f) ==
  /\ Moves(f, {"asked"}, "ended")
  /\ UNCHANGED <<order, record, gone>>

(* An occurrence that came too late is recorded without being taken in     *)
(* hand: its record is opened, or cannot be, and is closed as it ends.     *)
Misses(f, s) ==
  /\ \/ /\ Moves(f, {"new"}, "late") /\ s \notin gone
        /\ record' = [record EXCEPT ![f] = "running"]
     \/ Moves(f, {"new"}, "ended") /\ UNCHANGED record
  /\ order' = [order EXCEPT ![f] = s]
  /\ UNCHANGED gone

Tells(f) ==
  /\ Moves(f, {"late"}, "ended") /\ record[f] = "running"
  /\ record' = [record EXCEPT ![f] = "finished"]
  /\ UNCHANGED <<order, gone>>

Opens(f) ==
  /\ phase[f] = "held" /\ record[f] = "none" /\ order[f] \notin gone
  /\ record' = [record EXCEPT ![f] = "running"]
  /\ UNCHANGED <<phase, order, gone>>

Closes(f) ==
  /\ phase[f] = "held" /\ record[f] = "running"
  /\ record' = [record EXCEPT ![f] = "finished"]
  /\ UNCHANGED <<phase, order, gone>>

Ends(f) ==
  /\ Moves(f, {"held"}, "ended") /\ record[f] # "running"
  /\ UNCHANGED <<order, record, gone>>

(* The last write failed: the record may say running for ever. *)
Loses(f) ==
  /\ Moves(f, {"held", "late"}, "lost")
  /\ UNCHANGED <<order, record, gone>>

Deletes(s) ==
  /\ s \notin gone
  /\ gone' = gone \cup {s}
  /\ record' = [f \in Fire |-> IF order[f] = s THEN "none" ELSE record[f]]
  /\ UNCHANGED <<phase, order>>

(* The process dies with everything that was asked, in hand or late. *)
Crashes ==
  /\ phase' = [f \in Fire |-> IF phase[f] \in {"asked", "held", "late"}
                              THEN "lost" ELSE phase[f]]
  /\ UNCHANGED <<order, record, gone>>

FlightNext ==
  \/ \E f \in Fire, s \in Order : Asks(f, s) \/ Begins(f, s) \/ Misses(f, s)
  \/ \E f \in Fire : Refuses(f) \/ Opens(f) \/ Closes(f) \/ Tells(f) \/ Ends(f) \/ Loses(f)
  \/ \E s \in Order : Deletes(s)
  \/ Crashes

FlightSpec == FlightInit /\ [][FlightNext]_flightVars
=============================================================================
