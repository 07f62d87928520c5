------------------------------ MODULE TurnBook ------------------------------
(***************************************************************************)
(* What a gateway promises for the turns of one chat session, without its  *)
(* queue, its drains and the goroutines that pass turns around: a message  *)
(* is either answered without a run or becomes a turn, once; the runs of a *)
(* turn and those of other surfaces take the session one at a time; a turn *)
(* that has begun runs again only because an earlier run of it ended for   *)
(* an approval, and a card is shown only for such a run.  GatewayQueue     *)
(* implements this specification.                                          *)
(***************************************************************************)
EXTENDS Naturals

CONSTANTS
  Msg,      \* inbound messages
  Other,    \* runs of other surfaces
  MaxLegs,  \* bound: runs per turn
  None

Leg == Msg \X (1..MaxLegs)

VARIABLES
  fate,    \* [Msg -> {"waiting", "running", "answered"}]
  legs,    \* [Msg -> 0..MaxLegs]: the runs each turn has had
  holder,  \* the run that holds the session
  over,    \* the runs that have ended
  paused,  \* the legs that ended for an approval
  card     \* the leg whose card is shown

bookVars == <<fate, legs, holder, over, paused, card>>

BookInit ==
  /\ fate = [m \in Msg |-> "waiting"]
  /\ legs = [m \in Msg |-> 0]
  /\ holder = None /\ card = None
  /\ over = {} /\ paused = {}

(* The session is free and taken by r, which never ran before. *)
Takes(r) ==
  /\ holder = None /\ r \notin over
  /\ holder' = r

(* Refused, dropped, failed, or answered by a hook: no run, now or later. *)
Answers(m) ==
  /\ fate[m] = "waiting"
  /\ fate' = [fate EXCEPT ![m] = "answered"]
  /\ UNCHANGED <<legs, holder, over, paused, card>>

(* The message becomes a turn. *)
Accepts(m) ==
  /\ fate[m] = "waiting"
  /\ fate' = [fate EXCEPT ![m] = "running"]
  /\ legs' = [legs EXCEPT ![m] = 1]
  /\ Takes(<<m, 1>>)
  /\ UNCHANGED <<over, paused, card>>

(* An approval sets the turn of a paused leg going again. *)
Resumes(l) ==
  /\ l \in paused
  /\ legs[l[1]] < MaxLegs
  /\ legs' = [legs EXCEPT ![l[1]] = @ + 1]
  /\ Takes(<<l[1], legs[l[1]] + 1>>)
  /\ UNCHANGED <<fate, over, paused, card>>

Interferes(r) ==
  /\ Takes(r)
  /\ UNCHANGED <<fate, legs, over, paused, card>>

(* Only the run that holds the session ends, a leg perhaps for an approval,*)
(* and the session is free once it has ended.                              *)
Finishes(r) ==
  /\ holder = r /\ r \notin over
  /\ over' = over \cup {r}
  /\ paused' \in {paused, paused \cup ({r} \cap Leg)}
  /\ UNCHANGED <<fate, legs, holder, card>>

Frees ==
  /\ holder \in over
  /\ holder' = None
  /\ UNCHANGED <<fate, legs, over, paused, card>>

Shows(l) ==
  /\ l \in paused
  /\ card' = l
  /\ UNCHANGED <<fate, legs, holder, over, paused>>

Withdraws ==
  /\ card' = None
  /\ UNCHANGED <<fate, legs, holder, over, paused>>

BookNext ==
  \/ \E m \in Msg : Answers(m) \/ Accepts(m)
  \/ \E l \in Leg : Resumes(l) \/ Shows(l)
  \/ \E r \in Other : Interferes(r)
  \/ \E r \in Leg \cup Other : Finishes(r)
  \/ Frees \/ Withdraws

BookSpec == BookInit /\ [][BookNext]_bookVars
=============================================================================
