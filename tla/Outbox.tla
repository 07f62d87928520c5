------------------------------- MODULE Outbox -------------------------------
(***************************************************************************)
(* The delivery of one reply of a gateway turn, in parts: the streamer's   *)
(* final flush commits a row for each part and sends the parts itself      *)
(* (src/internal/gateways/streamer.go), while the delivery loop claims due *)
(* rows and sends them again (src/internal/gateways/outbox.go over the     *)
(* rows of src/internal/store/postgres/gateways.go).  A send may fail, or  *)
(* succeed and lose its answer; the process may stop anywhere.             *)
(*                                                                         *)
(* A row is due or not, and all rows of a reply have one age.  Rendering,  *)
(* splitting, decoding and the edits while the turn runs are left out.     *)
(***************************************************************************)
EXTENDS Integers, FiniteSets

CONSTANTS N,           \* parts of the reply
          MaxAttempts, \* claims of a row that may send (the code has 5)
          MaxRestarts  \* bound on restarts

ASSUME OutboxAssumption == {N, MaxAttempts} \subseteq Nat \ {0} /\ MaxRestarts \in Nat

Parts == 1..N

VARIABLES row,       \* the table: status, claims and whether it is due
          age,       \* of the rows: fresh, past the freshness window, past retention
          streamer,  \* the final flush: stage and part
          recorded,  \* parts whose row the flush holds
          worker,    \* the delivery cycle: claimed parts left, part at hand, outcome
          shown,     \* history: who showed the part in the chat
          bare,      \* history: who had shown it when the loop repeated it unmarked
          sends,     \* history: sends of the part by the delivery loop
          restarts   \* restarts so far

vars == <<row, age, streamer, recorded, worker, shown, bare, sends, restarts>>

-----------------------------------------------------------------------------
Senders == {"streamer", "loop"}
Statuses == {"none", "pending", "delivered", "dead", "pruned"}
Rows == [status: Statuses, attempts: 0..(MaxAttempts + 1), due: BOOLEAN]

NoRow == [status |-> "none", attempts |-> 0, due |-> FALSE]
Resting == [todo |-> {}, at |-> 0, outcome |-> "none", fresh |-> TRUE]

Init ==
    /\ row = [p \in Parts |-> NoRow]
    /\ age = "fresh"
    /\ streamer = [pc |-> "commit", part |-> 1]
    /\ recorded = {}
    /\ worker = Resting
    /\ shown = [p \in Parts |-> {}]
    /\ bare = [p \in Parts |-> {}]
    /\ sends = [p \in Parts |-> 0]
    /\ restarts = 0

\* Time makes a row due again after its backoff, and ages the rows.
Due(p) ==
    /\ row[p].status = "pending" /\ ~row[p].due
    /\ row' = [row EXCEPT ![p].due = TRUE]
    /\ UNCHANGED <<age, streamer, recorded, worker, shown, bare, sends, restarts>>

Ageing ==
    /\ \/ age = "fresh" /\ age' = "stale"
       \/ age = "stale" /\ age' = "old"
    /\ UNCHANGED <<row, streamer, recorded, worker, shown, bare, sends, restarts>>

\* An update by key: a row that is gone, or was never written, stays so.
SetStatus(p, status, due) ==
    row' = [row EXCEPT ![p] = IF @.status \in {"none", "pruned"} THEN @
                              ELSE [@ EXCEPT !.status = status, !.due = due]]

-----------------------------------------------------------------------------
(* The final flush: every part is committed before the first is sent.       *)

At(stage, p) == streamer.pc = stage /\ streamer.part = p
Move(stage, p) ==
    streamer' = IF p \in Parts THEN [pc |-> stage, part |-> p] ELSE [pc |-> "done", part |-> N]

\* A row that cannot be written is sent all the same.  On a platform that
\* cannot edit there is no placeholder, and the first part is sent as well.
Commit(p) ==
    /\ At("commit", p)
    /\ \/ /\ row' = [row EXCEPT ![p] = [status |-> "pending", attempts |-> 0, due |-> TRUE]]
          /\ recorded' = recorded \cup {p}
       \/ UNCHANGED <<row, recorded>>
    /\ IF p < N THEN Move("commit", p + 1) ELSE Move("edit", 1) \/ Move("send", 1)
    /\ UNCHANGED <<age, worker, shown, bare, sends, restarts>>

Show(p, who) == shown' = [shown EXCEPT ![p] = @ \cup {who}]

\* The placeholder becomes the first part; if that fails, or seems to, the
\* part is sent as a new message.
Edit(p) ==
    /\ At("edit", p)
    /\ \/ Show(p, "streamer") /\ Move("mark", p)
       \/ Show(p, "streamer") /\ Move("send", p)
       \/ UNCHANGED shown /\ Move("send", p)
    /\ UNCHANGED <<row, age, recorded, worker, bare, sends, restarts>>

\* A failed send ends the flush: what is committed is left to the loop.
Send(p) ==
    /\ At("send", p)
    /\ \/ Show(p, "streamer") /\ Move("mark", p)
       \/ Show(p, "streamer") /\ Move("stop", N + 1)
       \/ UNCHANGED shown /\ Move("stop", N + 1)
    /\ UNCHANGED <<row, age, recorded, worker, bare, sends, restarts>>

\* A mutation of Mark: every part of the reply is marked with the first.
MarkAll(p) ==
    /\ At("mark", p)
    /\ row' = [q \in Parts |-> IF q \in recorded THEN [row[q] EXCEPT !.status = "delivered"]
                               ELSE row[q]]
    /\ Move("send", p + 1)
    /\ UNCHANGED <<age, recorded, worker, shown, bare, sends, restarts>>

\* The confirmed send is recorded, or the record is missed.
Mark(p) ==
    /\ At("mark", p)
    /\ \/ p \in recorded /\ SetStatus(p, "delivered", row[p].due)
       \/ UNCHANGED row
    /\ Move("send", p + 1)
    /\ UNCHANGED <<age, recorded, worker, shown, bare, sends, restarts>>

-----------------------------------------------------------------------------
(* A delivery cycle: claim what is due, then one entry after the other.     *)

\* A mutation of Counted: only the first claim counts.
CountedOnce(r) == [r EXCEPT !.attempts = IF @ = 0 THEN 1 ELSE @]

\* Claims beyond the budget are all alike.
Counted(r) == [r EXCEPT !.attempts = IF @ > MaxAttempts THEN @ ELSE @ + 1]

DueRows == {p \in Parts : row[p].status = "pending" /\ row[p].due}

ClaimDue ==
    /\ worker = Resting
    /\ DueRows # {}
    /\ row' = [p \in Parts |-> IF p \in DueRows THEN Counted(row[p]) ELSE row[p]]
    /\ worker' = [Resting EXCEPT !.todo = DueRows, !.fresh = (age = "fresh")]
    /\ UNCHANGED <<age, streamer, recorded, shown, bare, sends, restarts>>

Hold(p, outcome) ==
    worker' = [worker EXCEPT !.todo = @ \ {p}, !.at = p, !.outcome = outcome]

\* A mutation of Spent: the budget is not looked at.
SpentStale(r) == ~worker.fresh
Spent(r) == r.attempts > MaxAttempts \/ ~worker.fresh

\* A mutation of Warned: only the third copy carries the notice.
WarnedLate(r) == r.attempts > 2
Warned(r) == r.attempts > 1

\* The next claimed entry: beyond its budget, without an adapter because the
\* gateway is disabled, or sent, with the notice from the second claim on.
Deliver(p) ==
    /\ worker.at = 0 /\ p \in worker.todo
    /\ \/ /\ Spent(row[p])
          /\ Hold(p, "permanent")
          /\ UNCHANGED <<shown, bare, sends>>
       \/ /\ ~Spent(row[p])
          /\ Hold(p, "failed")
          /\ UNCHANGED <<shown, bare, sends>>
       \/ /\ ~Spent(row[p])
          /\ sends' = [sends EXCEPT ![p] = @ + 1]
          /\ \/ /\ \E o \in {"sent", "failed"} : Hold(p, o)      \* failed: the answer is lost
                /\ Show(p, "loop")
                /\ bare' = [bare EXCEPT ![p] = IF Warned(row[p]) THEN @ ELSE @ \cup shown[p]]
             \/ /\ \E o \in {"failed", "permanent"} : Hold(p, o)
                /\ UNCHANGED <<shown, bare>>
    /\ UNCHANGED <<row, age, streamer, recorded, restarts>>

NextEntry ==
    worker' = IF worker.todo = {} THEN Resting ELSE [worker EXCEPT !.at = 0, !.outcome = "none"]

\* What became of it is written.
Record(p) ==
    /\ worker.at = p
    /\ \/ worker.outcome = "sent" /\ SetStatus(p, "delivered", row[p].due)
       \/ worker.outcome = "failed" /\ SetStatus(p, "pending", FALSE)
       \/ worker.outcome = "permanent" /\ SetStatus(p, "dead", row[p].due)
    /\ NextEntry
    /\ UNCHANGED <<age, streamer, recorded, shown, bare, sends, restarts>>

\* The write fails, and the row stays due.
RecordMissed(p) ==
    /\ worker.at = p
    /\ NextEntry
    /\ UNCHANGED <<row, age, streamer, recorded, shown, bare, sends, restarts>>

\* The cycle ends with the retention sweep.
Prune ==
    /\ worker = Resting /\ age = "old"
    /\ \E p \in Parts : row[p].status = "delivered"
    /\ row' = [p \in Parts |-> IF row[p].status = "delivered"
                               THEN [row[p] EXCEPT !.status = "pruned"] ELSE row[p]]
    /\ UNCHANGED <<age, streamer, recorded, worker, shown, bare, sends, restarts>>

\* The process stops between any two steps and a new one starts.
Restart ==
    /\ restarts < MaxRestarts
    /\ restarts' = restarts + 1
    /\ streamer' = [pc |-> "done", part |-> N]
    /\ recorded' = {}
    /\ worker' = Resting
    /\ UNCHANGED <<row, age, shown, bare, sends>>

Next ==
    \/ Ageing \/ ClaimDue \/ Prune \/ Restart
    \/ \E p \in Parts : \/ Due(p) \/ Commit(p) \/ Edit(p) \/ Send(p) \/ Mark(p)
                        \/ Deliver(p) \/ Record(p) \/ RecordMissed(p)

Spec == Init /\ [][Next]_vars

\* Time passes, the loop polls and works through its batch, and the store
\* does not fail for ever.
Fairness ==
    /\ WF_vars(ClaimDue)
    /\ \A p \in Parts : WF_vars(Due(p)) /\ WF_vars(Deliver(p)) /\ SF_vars(Record(p))

FairSpec == Spec /\ Fairness

-----------------------------------------------------------------------------
(* Properties.                                                              *)

\* Every variable has its type, and the part at hand has an outcome.
TypeOK ==
    /\ row \in [Parts -> Rows]
    /\ age \in {"fresh", "stale", "old"}
    /\ streamer \in [pc: {"commit", "edit", "send", "mark", "done"}, part: Parts]
    /\ recorded \subseteq Parts
    /\ worker.todo \subseteq Parts \ {worker.at} /\ worker.at \in {0} \cup Parts
    /\ (worker.at = 0) <=> (worker.outcome = "none")
    /\ {shown[p] : p \in Parts} \cup {bare[p] : p \in Parts} \subseteq SUBSET Senders
    /\ sends \in [Parts -> 0..(MaxAttempts + 1)]

\* The outbox delivers at least once: a part recorded as delivered was shown,
\* and one that was given up is not claimed again, whatever fails or stops.
Fate(p) ==
    CASE row[p].status = "none" -> "unwritten"
      [] row[p].status = "pending" -> "open"
      [] row[p].status \in {"delivered", "pruned"} -> "delivered"
      [] row[p].status = "dead" -> "dead"

Promise == INSTANCE AtLeastOnce
    WITH Messages <- Parts, fate <- [p \in Parts |-> Fate(p)],
         seen <- {p \in Parts : shown[p] # {}}

ImplementsAtLeastOnce == Promise!Spec

\* Redelivery is bounded: the claim counts before the send, so that neither
\* a stopped process nor a missed write gives a part more sends.
RedeliveryBounded == \A p \in Parts : sends[p] <= MaxAttempts

\* What the loop itself has shown before it shows again with the notice.
RedeliveryWarned == \A p \in Parts : "loop" \notin bare[p]

\* No row is redelivered for ever: each is delivered or dead in the end,
\* though the gateway is disabled for a while or the process restarts.
RowsSettle == <>[](\A p \in Parts : row[p].status # "pending")

\* What the requirement asks: the loop repeats with the notice whatever the
\* chat has seen, from the streamer too.
DuplicatesWarned == \A p \in Parts : bare[p] = {}
=============================================================================
