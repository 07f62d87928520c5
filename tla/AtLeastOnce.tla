---------------------------- MODULE AtLeastOnce ----------------------------
(***************************************************************************)
(* What a durable outbox promises of its messages: one that is recorded as *)
(* delivered was seen, and one that was given up is not taken up again.  A *)
(* message that was delivered may be taken up again, that is, be seen more *)
(* than once.                                                              *)
(***************************************************************************)
CONSTANT Messages

VARIABLES fate,  \* of each message: unwritten, open, delivered or dead
          seen   \* the messages that were seen at least once

vars == <<fate, seen>>

Init ==
    /\ fate = [m \in Messages |-> "unwritten"]
    /\ seen = {}

\* Any number of messages change their fate in one step, each lawfully.
MayBecome(m, f) ==
    \/ f = fate[m]
    \/ fate[m] = "unwritten" /\ f = "open"
    \/ fate[m] = "open" /\ f = "dead"
    \/ fate[m] = "delivered" /\ f \in {"open", "dead"}
    \/ fate[m] \in {"open", "dead"} /\ f = "delivered" /\ m \in seen

Settle ==
    /\ fate' \in [Messages -> {"unwritten", "open", "delivered", "dead"}]
    /\ \A m \in Messages : MayBecome(m, fate'[m])
    /\ UNCHANGED seen

See ==
    /\ \E m \in Messages : seen' = seen \cup {m}
    /\ UNCHANGED fate

Next == Settle \/ See

Spec == Init /\ [][Next]_vars
=============================================================================
