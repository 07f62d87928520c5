------------------------------ MODULE RunSlots ------------------------------
(***************************************************************************)
(* What the run manager promises its callers, without its goroutines: one  *)
(* slot per session, held by at most one run; an audience of live viewers  *)
(* per run; and a slot that is vacated only after its run ended and its    *)
(* whole audience was let go.  RunManager implements this specification,   *)
(* GatewayQueue is built on it.                                            *)
(***************************************************************************)

CONSTANTS
  Key,      \* session coordinates (RunKey)
  Run,      \* run instances: each one is admitted at most once
  Watcher,  \* live event viewers
  None      \* a slot without a run

VARIABLES
  slot,      \* [Key -> Run \cup {None}]: the run that holds each session
  stage,     \* [Run -> {"new", "on", "over"}]
  audience,  \* [Run -> SUBSET Watcher]
  open       \* whether new runs are admitted

slotVars == <<slot, stage, audience, open>>

Stage == {"new", "on", "over"}

SlotsInit ==
  /\ slot = [k \in Key |-> None]
  /\ stage = [r \in Run |-> "new"]
  /\ audience = [r \in Run |-> {}]
  /\ open = TRUE

(* A run is admitted to a free session only: "a second start on a live     *)
(* session (or during a drain) is rejected".                               *)
Admit(k, r) ==
  /\ open
  /\ slot[k] = None
  /\ stage[r] = "new"
  /\ slot' = [slot EXCEPT ![k] = r]
  /\ stage' = [stage EXCEPT ![r] = "on"]
  /\ UNCHANGED <<audience, open>>

(* A viewer joins a run only while the run executes. *)
Watch(r, w) ==
  /\ stage[r] = "on"
  /\ audience' = [audience EXCEPT ![r] = @ \cup {w}]
  /\ UNCHANGED <<slot, stage, open>>

(* A viewer's stream closes: it left, or the run let it go. *)
Unwatch(r, w) ==
  /\ audience' = [audience EXCEPT ![r] = @ \ {w}]
  /\ UNCHANGED <<slot, stage, open>>

(* The run has fully unwound; its session stays taken. *)
End(r) ==
  /\ stage[r] = "on"
  /\ stage' = [stage EXCEPT ![r] = "over"]
  /\ UNCHANGED <<slot, audience, open>>

(* The session can run again, once nobody is left watching the run. *)
Vacate(k) ==
  /\ slot[k] \in Run
  /\ stage[slot[k]] = "over"
  /\ audience[slot[k]] = {}
  /\ slot' = [slot EXCEPT ![k] = None]
  /\ UNCHANGED <<stage, audience, open>>

(* Shutdown: no further admissions. *)
StopAdmitting ==
  /\ open' = FALSE
  /\ UNCHANGED <<slot, stage, audience>>

SlotsNext ==
  \/ \E k \in Key, r \in Run : Admit(k, r)
  \/ \E r \in Run, w \in Watcher : Watch(r, w) \/ Unwatch(r, w)
  \/ \E r \in Run : End(r)
  \/ \E k \in Key : Vacate(k)
  \/ StopAdmitting

SlotsSpec == SlotsInit /\ [][SlotsNext]_slotVars
=============================================================================
