---------------------------- MODULE OutboxProofs ----------------------------
(***************************************************************************)
(* The outbox delivers at least once, within its budget of sends, for any  *)
(* number of parts and attempts and wherever the process stops.            *)
(*                                                                         *)
(* Inv says what the two senders may rely on of each other: a part that is *)
(* still to be committed has no row and was never sent by the loop; a part *)
(* the loop holds is neither unwritten nor dead and its claim is counted   *)
(* before its send; whoever is about to record a delivery has seen one.    *)
(***************************************************************************)
EXTENDS Outbox, TLAPS

Workers == [todo: SUBSET Parts, at: {0} \cup Parts,
            outcome: {"none", "sent", "failed", "permanent"}, fresh: BOOLEAN]

Types ==
    /\ row \in [Parts -> Rows]
    /\ age \in {"fresh", "stale", "old"}
    /\ streamer \in [pc: {"commit", "edit", "send", "mark", "done"}, part: Parts]
    /\ recorded \subseteq Parts
    /\ worker \in Workers
    /\ worker.at \notin worker.todo
    /\ (worker.at = 0) <=> (worker.outcome = "none")
    /\ shown \in [Parts -> SUBSET Senders]
    /\ bare \in [Parts -> SUBSET Senders]
    /\ sends \in [Parts -> Nat]

Held(p) == p \in worker.todo \/ worker.at = p

\* What holds of each part.
Uncommitted(p) == row[p].status = "none" => sends[p] = 0 /\ ~Held(p)
Holding(p) == Held(p) => row[p].status # "dead"
Budgeted(p) ==
    /\ sends[p] <= MaxAttempts
    /\ sends[p] <= row[p].attempts
    /\ p \in worker.todo => sends[p] + 1 <= row[p].attempts
Counting(p) == "loop" \in shown[p] => sends[p] > 0

PartOK(p) == Uncommitted(p) /\ Holding(p) /\ Budgeted(p) /\ Counting(p) /\ "loop" \notin bare[p]

\* What holds of the two senders.
Committing ==
    streamer.pc = "commit" => \A p \in Parts : p >= streamer.part => row[p].status = "none"
Truthful ==
    /\ streamer.pc = "mark" => shown[streamer.part] # {}
    /\ worker.outcome = "sent" => shown[worker.at] # {}

Inv ==
    /\ Types
    /\ \A p \in Parts : PartOK(p)
    /\ Committing
    /\ Truthful

-----------------------------------------------------------------------------
(* Steps by what they touch *)

LEMMA PartsFact == Parts \subseteq Nat \ {0} /\ 0 \notin Parts /\ N \in Nat \ {0}
                   /\ MaxAttempts \in Nat \ {0} /\ N \in Parts /\ 1 \in Parts
BY OutboxAssumption DEF Parts

\* Only the streamer and what it shows.
LEMMA StreamerStep ==
    ASSUME Inv, UNCHANGED <<row, age, recorded, worker, bare, sends>>,
           streamer' \in [pc: {"edit", "send", "mark", "done"}, part: Parts],
           NEW p \in Parts, shown' = shown \/ shown' = [shown EXCEPT ![p] = @ \cup {"streamer"}],
           streamer'.pc = "mark" => shown'[streamer'.part] # {}
    PROVE  Inv'
<1>1. \A q \in Parts : /\ shown[q] \subseteq shown'[q]
                       /\ "loop" \in shown'[q] => "loop" \in shown[q]
                       /\ shown'[q] \in SUBSET Senders
  BY DEF Inv, Types, Senders
<1>2. shown' \in [Parts -> SUBSET Senders]
  BY <1>1 DEF Inv, Types
<1>3. Types'
  BY <1>2 DEF Inv, Types
<1>4. \A q \in Parts : PartOK(q)'
  BY <1>1 DEF Inv, PartOK, Uncommitted, Holding, Budgeted, Counting, Held
<1>5. Committing'
  BY DEF Committing
<1>7. worker.outcome = "sent" => worker.at \in Parts
  BY DEF Inv, Types, Workers
<1>8. Truthful'
  BY <1>1, <1>7 DEF Inv, Truthful
<1> QED
  BY <1>3, <1>4, <1>5, <1>8 DEF Inv

\* One row gets a status by key, the rest is as it was.
LEMMA SetStatusShape ==
    ASSUME Inv, NEW p \in Parts, NEW status \in {"pending", "delivered", "dead"},
           NEW due \in BOOLEAN, SetStatus(p, status, due)
    PROVE  /\ row' \in [Parts -> Rows]
           /\ \A q \in Parts : q # p => row'[q] = row[q]
           /\ row'[p].attempts = row[p].attempts
           /\ row'[p].status = IF row[p].status \in {"none", "pruned"} THEN row[p].status
                               ELSE status
<1>1. row \in [Parts -> Rows] /\ row[p] \in Rows
  BY DEF Inv, Types
<1> DEFINE r == [row[p] EXCEPT !.status = status, !.due = due]
<1>2. r \in Rows /\ r.status = status /\ r.attempts = row[p].attempts
  BY <1>1 DEF Rows, Statuses
<1>3. row' = [row EXCEPT ![p] = IF row[p].status \in {"none", "pruned"} THEN row[p] ELSE r]
  BY DEF SetStatus
<1> HIDE DEF r
<1> QED
  BY <1>1, <1>2, <1>3

LEMMA CommitStep ==
    ASSUME Inv, NEW p \in Parts, Commit(p)
    PROVE  Inv'
<1>1. /\ streamer.pc = "commit" /\ streamer.part = p
      /\ UNCHANGED <<age, worker, shown, bare, sends>>
  BY DEF Commit, At
<1>2. row[p].status = "none"
  BY <1>1, PartsFact DEF Inv, Committing
<1>3. sends[p] = 0 /\ ~Held(p)
  BY <1>2 DEF Inv, PartOK, Uncommitted
<1>4. /\ \A q \in Parts : q # p => row'[q] = row[q]
      /\ row' \in [Parts -> Rows] /\ recorded' \subseteq Parts
      /\ row'[p].status \in {"none", "pending"}
      /\ row'[p] = row[p] \/ row'[p].attempts = 0
  <2> DEFINE r == [status |-> "pending", attempts |-> 0, due |-> TRUE]
  <2>1. r \in Rows /\ r.status = "pending" /\ r.attempts = 0
    BY PartsFact DEF Rows, Statuses
  <2>2. \/ row' = [row EXCEPT ![p] = r] /\ recorded' = recorded \cup {p}
        \/ row' = row /\ recorded' = recorded
    BY DEF Commit
  <2> HIDE DEF r
  <2> QED
    BY <1>2, <2>1, <2>2 DEF Inv, Types
<1>5. /\ streamer' \in [pc: {"commit", "edit", "send"}, part: Parts]
      /\ streamer'.pc = "commit" => streamer'.part = p + 1
  BY PartsFact DEF Commit, Move, Parts
<1>6. Types'
  BY <1>1, <1>4, <1>5 DEF Inv, Types
<1>7. ASSUME NEW q \in Parts
      PROVE  PartOK(q)'
  <2>1. CASE q = p
    <3>1. sends'[p] = 0 /\ ~Held(p)' /\ "loop" \notin shown'[p] /\ "loop" \notin bare'[p]
      BY <1>1, <1>3 DEF Held, Inv, PartOK, Counting
    <3>2. row'[p].attempts \in Nat /\ row'[p].status # "dead"
      BY <1>4, OutboxAssumption DEF Rows
    <3> QED
      BY <2>1, <3>1, <3>2, PartsFact
      DEF PartOK, Uncommitted, Holding, Budgeted, Counting, Held
  <2>2. CASE q # p
    BY <1>1, <1>4, <2>2 DEF Inv, PartOK, Uncommitted, Holding, Budgeted, Counting, Held
  <2> QED
    BY <2>1, <2>2
<1>8. Committing'
  BY <1>1, <1>4, <1>5, PartsFact DEF Inv, Committing
<1>9. Truthful'
  BY <1>1, <1>5 DEF Inv, Truthful
<1> QED
  BY <1>6, <1>7, <1>8, <1>9 DEF Inv

\* A row that exists changes, but for its claims, and not to dead while held.
LEMMA RowStep ==
    ASSUME Inv, UNCHANGED <<shown, bare, sends>>, age' \in {"fresh", "stale", "old"},
           recorded' \subseteq Parts,
           row' \in [Parts -> Rows],
           \A q \in Parts : /\ row'[q].attempts = row[q].attempts
                            /\ row[q].status = "none" <=> row'[q].status = "none"
                            /\ Held(q)' => Held(q) /\ row'[q].status # "dead"
                            /\ q \in worker'.todo => q \in worker.todo,
           worker' \in Workers, worker'.at \notin worker'.todo,
           (worker'.at = 0) <=> (worker'.outcome = "none"),
           worker'.outcome = "sent" => worker' = worker,
           streamer' = streamer \/ streamer' \in [pc: {"send", "done"}, part: Parts]
    PROVE  Inv'
<1>1. Types'
  BY DEF Inv, Types
<1>2. ASSUME NEW q \in Parts
      PROVE  PartOK(q)'
  BY DEF Inv, PartOK, Uncommitted, Holding, Budgeted, Counting
<1>3. Committing'
  BY DEF Inv, Committing, Types
<1>4. Truthful'
  BY DEF Inv, Truthful
<1> QED
  BY <1>1, <1>2, <1>3, <1>4 DEF Inv

LEMMA MarkStep ==
    ASSUME Inv, NEW p \in Parts, Mark(p)
    PROVE  Inv'
<1>1. UNCHANGED <<age, recorded, worker, shown, bare, sends>>
  BY DEF Mark
<1>2. streamer' \in [pc: {"send", "done"}, part: Parts]
  BY PartsFact DEF Mark, Move
<1>3. \/ SetStatus(p, "delivered", row[p].due)
      \/ row' = row
  BY DEF Mark
<1>4. row[p].due \in BOOLEAN
  BY DEF Inv, Types, Rows
<1>5. /\ row' \in [Parts -> Rows]
      /\ \A q \in Parts : /\ row'[q].attempts = row[q].attempts
                          /\ row[q].status = "none" <=> row'[q].status = "none"
                          /\ row'[q].status = "dead" => row[q].status = "dead"
  BY <1>3, <1>4, SetStatusShape DEF Inv, Types
<1>6. \A q \in Parts : Held(q)' => Held(q) /\ row'[q].status # "dead"
  BY <1>1, <1>5 DEF Inv, PartOK, Holding, Held
<1> QED
  BY <1>1, <1>2, <1>5, <1>6, RowStep DEF Inv, Types

LEMMA FlushStep ==
    ASSUME Inv, NEW p \in Parts, Edit(p) \/ Send(p)
    PROVE  Inv'
<1>1. UNCHANGED <<row, age, recorded, worker, bare, sends>>
  BY DEF Edit, Send
<1>2. \/ Show(p, "streamer") /\ Move("mark", p)
      \/ (Show(p, "streamer") \/ UNCHANGED shown) /\ Move("send", p)
      \/ (Show(p, "streamer") \/ UNCHANGED shown) /\ Move("stop", N + 1)
  BY DEF Edit, Send
<1>3. /\ shown' = shown \/ shown' = [shown EXCEPT ![p] = @ \cup {"streamer"}]
      /\ streamer' \in [pc: {"edit", "send", "mark", "done"}, part: Parts]
      /\ streamer'.pc = "mark" => streamer'.part = p /\ shown' = [shown EXCEPT ![p] = @ \cup {"streamer"}]
  BY <1>2, PartsFact DEF Show, Move, Parts
<1>4. streamer'.pc = "mark" => shown'[streamer'.part] # {}
  BY <1>3, SMTT(60) DEF Inv, Types
<1> QED
  BY <1>1, <1>3, <1>4, StreamerStep

LEMMA RestingFact == /\ Resting \in Workers /\ Resting.at = 0 /\ Resting.todo = {}
                     /\ Resting.outcome = "none"
BY DEF Resting, Workers

LEMMA TableStep ==
    ASSUME Inv, Ageing \/ Prune \/ Restart \/ \E p \in Parts : Due(p)
    PROVE  Inv'
<1>1. CASE Ageing
  BY <1>1, RowStep, RestingFact DEF Ageing, Inv, Types, PartOK, Holding, Held
<1>2. ASSUME NEW p \in Parts, Due(p)
      PROVE  Inv'
  <2>1. /\ row' = [row EXCEPT ![p].due = TRUE]
        /\ UNCHANGED <<age, streamer, recorded, worker, shown, bare, sends>>
    BY <1>2 DEF Due
  <2>2. row' \in [Parts -> Rows]
    BY <2>1 DEF Inv, Types, Rows
  <2>3. \A q \in Parts : row'[q].attempts = row[q].attempts /\ row'[q].status = row[q].status
    BY <2>1 DEF Inv, Types, Rows
  <2>4. \A q \in Parts : Held(q)' => Held(q) /\ row'[q].status # "dead"
    BY <2>1, <2>3 DEF Inv, PartOK, Holding, Held
  <2> QED
    BY <2>1, <2>2, <2>3, <2>4, RowStep DEF Inv, Types
<1>3. CASE Prune
  <2>1. UNCHANGED <<age, streamer, recorded, worker, shown, bare, sends>> /\ worker = Resting
    BY <1>3 DEF Prune
  <2>2. /\ row' \in [Parts -> Rows]
        /\ \A q \in Parts : /\ row'[q].attempts = row[q].attempts
                            /\ row[q].status = "none" <=> row'[q].status = "none"
    BY <1>3 DEF Prune, Inv, Types, Rows, Statuses
  <2>3. \A q \in Parts : ~Held(q)'
    BY <2>1, RestingFact, PartsFact DEF Held
  <2> QED
    BY <2>1, <2>2, <2>3, RowStep, RestingFact DEF Inv, Types
<1>4. CASE Restart
  <2>1. /\ UNCHANGED <<row, age, shown, bare, sends>> /\ worker' = Resting
        /\ recorded' = {} /\ streamer' = [pc |-> "done", part |-> N]
    BY <1>4 DEF Restart
  <2>2. \A q \in Parts : ~Held(q)'
    BY <2>1, RestingFact, PartsFact DEF Held
  <2>3. streamer' \in [pc: {"send", "done"}, part: Parts]
    BY <2>1, PartsFact
  <2> QED
    BY <2>1, <2>2, <2>3, RowStep, RestingFact DEF Inv, Types
<1> QED
  BY <1>1, <1>2, <1>3, <1>4

LEMMA RecordStep ==
    ASSUME Inv, NEW p \in Parts, Record(p) \/ RecordMissed(p)
    PROVE  Inv'
<1>1. worker.at = p /\ UNCHANGED <<age, streamer, recorded, shown, bare, sends>>
  BY DEF Record, RecordMissed
<1>2. /\ worker' \in Workers /\ worker'.at = 0 /\ worker'.outcome = "none"
      /\ worker'.todo \subseteq worker.todo
  <2>1. CASE worker' = Resting
    BY <2>1, RestingFact
  <2>2. CASE worker' = [worker EXCEPT !.at = 0, !.outcome = "none"]
    BY <2>2 DEF Inv, Types, Workers
  <2> QED
    BY <2>1, <2>2 DEF Record, RecordMissed, NextEntry
<1>3. p \notin worker'.todo
  BY <1>1, <1>2 DEF Inv, Types
<1>4. row[p].due \in BOOLEAN
  BY DEF Inv, Types, Rows
<1>5. /\ row' \in [Parts -> Rows]
      /\ \A q \in Parts : /\ row'[q].attempts = row[q].attempts
                          /\ row[q].status = "none" <=> row'[q].status = "none"
                          /\ q # p => row'[q] = row[q]
  <2>1. CASE row' = row
    BY <2>1 DEF Inv, Types
  <2>2. ASSUME NEW status \in {"pending", "delivered", "dead"}, NEW due \in BOOLEAN,
               SetStatus(p, status, due)
        PROVE  /\ row' \in [Parts -> Rows]
               /\ \A q \in Parts : /\ row'[q].attempts = row[q].attempts
                                   /\ row[q].status = "none" <=> row'[q].status = "none"
                                   /\ q # p => row'[q] = row[q]
    BY <2>2, SetStatusShape
  <2> QED
    BY <1>4, <2>1, <2>2 DEF Record, RecordMissed
<1>6. \A q \in Parts : Held(q)' => Held(q) /\ row'[q].status # "dead"
  BY <1>1, <1>2, <1>3, <1>5, PartsFact DEF Inv, PartOK, Holding, Held
<1>7. worker'.at \notin worker'.todo
  BY <1>2, PartsFact DEF Workers
<1> QED
  BY <1>1, <1>2, <1>5, <1>6, <1>7, RowStep DEF Inv, Types

LEMMA ClaimStep ==
    ASSUME Inv, ClaimDue
    PROVE  Inv'
<1>1. /\ worker = Resting /\ UNCHANGED <<age, streamer, recorded, shown, bare, sends>>
      /\ worker' = [Resting EXCEPT !.todo = DueRows, !.fresh = (age = "fresh")]
      /\ row' = [p \in Parts |-> IF p \in DueRows THEN Counted(row[p]) ELSE row[p]]
  BY DEF ClaimDue
<1>2. /\ worker' \in Workers /\ worker'.at = 0 /\ worker'.todo = DueRows
      /\ worker'.outcome = "none"
  <2>1. ASSUME NEW b \in BOOLEAN, worker' = [Resting EXCEPT !.todo = DueRows, !.fresh = b]
        PROVE  /\ worker' \in Workers /\ worker'.at = 0 /\ worker'.todo = DueRows
               /\ worker'.outcome = "none"
    BY <2>1 DEF Workers, Resting, DueRows
  <2>2. (age = "fresh") \in BOOLEAN
    OBVIOUS
  <2> QED
    BY <1>1, <2>1, <2>2
<1>3. \A p \in DueRows : row[p].status = "pending"
  BY DEF DueRows
<1>4. ASSUME NEW r \in Rows
      PROVE  /\ Counted(r) \in Rows /\ Counted(r).status = r.status
             /\ r.attempts <= Counted(r).attempts
             /\ r.attempts < MaxAttempts + 1 => Counted(r).attempts = r.attempts + 1
             /\ r.attempts = MaxAttempts + 1 => Counted(r).attempts = MaxAttempts + 1
  <2>1. r.attempts \in 0..(MaxAttempts + 1)
    BY DEF Rows
  <2>2. CASE r.attempts > MaxAttempts
    <3>1. Counted(r) = [r EXCEPT !.attempts = r.attempts]
      BY <2>2 DEF Counted
    <3>2. Counted(r) \in Rows /\ Counted(r).status = r.status /\ Counted(r).attempts = r.attempts
      BY <3>1 DEF Rows
    <3> QED
      BY <2>1, <2>2, <3>2, PartsFact
  <2>3. CASE ~(r.attempts > MaxAttempts)
    <3>1. Counted(r) = [r EXCEPT !.attempts = r.attempts + 1]
      BY <2>3 DEF Counted
    <3>2. /\ Counted(r) \in Rows /\ Counted(r).status = r.status
          /\ Counted(r).attempts = r.attempts + 1
      BY <2>1, <2>3, <3>1, PartsFact DEF Rows
    <3> QED
      BY <2>1, <2>3, <3>2, PartsFact
  <2> QED
    BY <2>2, <2>3
<1>5. \A p \in Parts : row[p] \in Rows /\ sends[p] \in Nat /\ row[p].attempts \in 0..(MaxAttempts + 1)
  BY DEF Inv, Types, Rows
<1>6. Types'
  <2>1. \A p \in Parts : (IF p \in DueRows THEN Counted(row[p]) ELSE row[p]) \in Rows
    BY <1>4, <1>5
  <2>2. row' \in [Parts -> Rows]
    BY <1>1, <2>1
  <2>3. worker'.at \notin worker'.todo
    BY <1>2, PartsFact DEF Workers
  <2> QED
    BY <1>1, <1>2, <2>2, <2>3 DEF Inv, Types
<1>7. ASSUME NEW p \in Parts
      PROVE  PartOK(p)'
  <2>1. CASE p \in DueRows
    <3>1. row'[p] = Counted(row[p]) /\ row'[p].status = "pending"
      BY <1>1, <1>3, <1>4, <1>5, <2>1
    <3>2. sends[p] <= MaxAttempts /\ sends[p] <= row[p].attempts
      BY DEF Inv, PartOK, Budgeted
    <3>3. /\ sends[p] + 1 <= row'[p].attempts /\ sends[p] <= row'[p].attempts
      BY <1>4, <1>5, <3>1, <3>2, PartsFact
    <3> QED
      BY <1>1, <3>1, <3>2, <3>3
      DEF Inv, PartOK, Uncommitted, Holding, Budgeted, Counting
  <2>2. CASE p \notin DueRows
    <3>1. row'[p] = row[p] /\ ~Held(p)'
      BY <1>1, <1>2, <2>2, PartsFact DEF Held
    <3> QED
      BY <1>1, <1>2, <2>2, <3>1
      DEF Inv, PartOK, Uncommitted, Holding, Budgeted, Counting
  <2> QED
    BY <2>1, <2>2
<1>8. \A p \in Parts : row[p].status = "none" => row'[p] = row[p]
  BY <1>1, <1>3
<1>9. Committing'
  BY <1>1, <1>8 DEF Inv, Committing
<1>10. Truthful'
  BY <1>1, <1>2 DEF Inv, Truthful
<1> QED
  BY <1>6, <1>7, <1>9, <1>10 DEF Inv

LEMMA DeliverStep ==
    ASSUME Inv, NEW p \in Parts, Deliver(p)
    PROVE  Inv'
<1>1. /\ p \in worker.todo /\ worker.at = 0
      /\ UNCHANGED <<row, age, streamer, recorded>>
  BY DEF Deliver
<1>2. PICK o \in {"sent", "failed", "permanent"} : Hold(p, o)
  BY DEF Deliver
<1>3. /\ worker' \in Workers /\ worker'.at = p /\ worker'.outcome = o
      /\ worker'.todo = worker.todo \ {p}
  BY <1>2 DEF Hold, Inv, Types, Workers
<1>4. \A q \in Parts : /\ row[q] \in Rows /\ row[q].attempts \in 0..(MaxAttempts + 1)
                       /\ sends[q] \in Nat
  BY DEF Inv, Types, Rows
<1>5. /\ sends[p] + 1 <= row[p].attempts
      /\ row[p].attempts <= 1 => "loop" \notin shown[p]
  <2>1. sends[p] + 1 <= row[p].attempts
    BY <1>1 DEF Inv, PartOK, Budgeted
  <2>2. "loop" \in shown[p] => sends[p] > 0
    BY DEF Inv, PartOK, Counting
  <2> QED
    BY <1>4, <2>1, <2>2, PartsFact
<1>6. \/ sends' = sends /\ shown' = shown /\ bare' = bare /\ o # "sent"
      \/ /\ row[p].attempts <= MaxAttempts
         /\ sends' = [sends EXCEPT ![p] = @ + 1]
         /\ \/ shown' = shown /\ bare' = bare /\ o # "sent"
            \/ /\ shown' = [shown EXCEPT ![p] = @ \cup {"loop"}]
               /\ bare' = [bare EXCEPT ![p] = IF row[p].attempts > 1 THEN @ ELSE @ \cup shown[p]]
  <2>1. worker'.outcome = o
    BY <1>3
  <2>2. \A x : Hold(p, x) => worker'.outcome = x
    BY DEF Hold, Inv, Types, Workers
  <2> QED
    BY <1>4, <2>1, <2>2, PartsFact DEF Deliver, Spent, Show, Warned
<1>7. \A q \in Parts : /\ q # p => sends'[q] = sends[q] /\ shown'[q] = shown[q] /\ bare'[q] = bare[q]
                       /\ shown[q] \subseteq shown'[q]
                       /\ shown'[q] \in SUBSET Senders
  BY <1>6 DEF Inv, Types, Senders
<1>8. /\ sends' \in [Parts -> Nat]
      /\ sends'[p] <= MaxAttempts /\ sends'[p] <= row[p].attempts
      /\ "loop" \in shown'[p] => sends'[p] > 0
  <2>1. CASE sends' = sends /\ shown' = shown
    BY <2>1 DEF Inv, Types, PartOK, Budgeted, Counting
  <2>2. CASE row[p].attempts <= MaxAttempts /\ sends' = [sends EXCEPT ![p] = @ + 1]
    <3>1. sends'[p] = sends[p] + 1 /\ sends' \in [Parts -> Nat]
      BY <1>4, <2>2 DEF Inv, Types
    <3> QED
      BY <1>4, <1>5, <2>2, <3>1, PartsFact
  <2> QED
    BY <1>6, <2>1, <2>2
<1>9. shown' \in [Parts -> SUBSET Senders]
  BY <1>6, <1>7 DEF Inv, Types
<1>10. bare' \in [Parts -> SUBSET Senders] /\ "loop" \notin bare'[p]
  <2>1. bare \in [Parts -> SUBSET Senders] /\ shown[p] \in SUBSET Senders /\ "loop" \notin bare[p]
    BY DEF Inv, Types, PartOK
  <2>2. CASE bare' = bare
    BY <2>1, <2>2
  <2>3. CASE bare' = [bare EXCEPT ![p] = IF row[p].attempts > 1 THEN @ ELSE @ \cup shown[p]]
    <3>1. CASE row[p].attempts > 1
      BY <2>1, <2>3, <3>1
    <3>2. CASE ~(row[p].attempts > 1)
      <4>1. "loop" \notin shown[p]
        BY <1>4, <1>5, <3>2, PartsFact
      <4>2. bare' = [bare EXCEPT ![p] = bare[p] \cup shown[p]]
        BY <2>3, <3>2
      <4> QED
        BY <2>1, <4>1, <4>2
    <3> QED
      BY <3>1, <3>2
  <2> QED
    BY <1>6, <2>2, <2>3
<1>11. Types'
  BY <1>1, <1>3, <1>8, <1>9, <1>10, PartsFact DEF Inv, Types
<1>12. ASSUME NEW q \in Parts
       PROVE  PartOK(q)'
  <2>1. Held(q)' => Held(q)
    BY <1>1, <1>3 DEF Held
  <2>2. CASE q = p
    <3>1. p \notin worker'.todo /\ Held(p)
      BY <1>1, <1>3 DEF Held
    <3>2. row[p].status # "none"
      BY <3>1 DEF Inv, PartOK, Uncommitted
    <3> QED
      BY <1>1, <1>8, <1>10, <2>1, <2>2, <3>1, <3>2
      DEF Inv, PartOK, Uncommitted, Holding, Budgeted, Counting
  <2>3. CASE q # p
    <3>1. q \in worker'.todo => q \in worker.todo
      BY <1>3
    <3> QED
      BY <1>1, <1>7, <2>1, <2>3, <3>1
      DEF Inv, PartOK, Uncommitted, Holding, Budgeted, Counting
  <2> QED
    BY <2>2, <2>3
<1>13. Committing'
  BY <1>1 DEF Inv, Committing
<1>14. Truthful'
  <2>1. o = "sent" => shown'[p] # {}
    BY <1>6 DEF Inv, Types
  <2>2. streamer.pc = "mark" => shown'[streamer.part] # {}
    BY <1>7 DEF Inv, Truthful, Types
  <2> QED
    BY <1>1, <1>3, <2>1, <2>2 DEF Truthful
<1> QED
  BY <1>11, <1>12, <1>13, <1>14 DEF Inv

LEMMA InitInv == Init => Inv
<1> SUFFICES ASSUME Init PROVE Inv
  OBVIOUS
<1>1. NoRow \in Rows /\ NoRow.status = "none" /\ NoRow.attempts = 0
  BY OutboxAssumption DEF NoRow, Rows, Statuses
<1>2. Types
  BY <1>1, PartsFact, RestingFact DEF Init, Types
<1>3. \A p \in Parts : PartOK(p)
  BY <1>1, PartsFact, RestingFact
  DEF Init, PartOK, Uncommitted, Holding, Budgeted, Counting, Held
<1>4. Committing /\ Truthful
  BY <1>1, RestingFact DEF Init, Committing, Truthful
<1> QED
  BY <1>2, <1>3, <1>4 DEF Inv

LEMMA NextInv == Inv /\ [Next]_vars => Inv'
<1> SUFFICES ASSUME Inv, [Next]_vars PROVE Inv'
  OBVIOUS
<1>1. CASE UNCHANGED vars
  BY <1>1 DEF vars, Inv, Types, PartOK, Uncommitted, Holding, Budgeted, Counting, Held,
              Committing, Truthful
<1>2. CASE Next
  BY <1>2, TableStep, ClaimStep, CommitStep, FlushStep, MarkStep, DeliverStep, RecordStep
  DEF Next
<1> QED
  BY <1>1, <1>2

THEOREM Invariant == Spec => []Inv
BY InitInv, NextInv, PTL DEF Spec

\* The types of the table, the flush and the delivery cycle.
THEOREM TypeCorrect == Spec => []TypeOK
<1>1. Inv => TypeOK
  <2> SUFFICES ASSUME Inv PROVE TypeOK
    OBVIOUS
  <2>1. \A p \in Parts : sends[p] \in 0..(MaxAttempts + 1)
    BY PartsFact DEF Inv, Types, PartOK, Budgeted
  <2>2. sends \in [Parts -> 0..(MaxAttempts + 1)]
    BY <2>1 DEF Inv, Types
  <2> QED
    BY <2>2 DEF Inv, Types, TypeOK, Workers
<1> QED
  BY <1>1, Invariant, PTL

\* However the two senders, lost answers, missed writes and restarts fall
\* together, the loop sends no part more often than its budget
\* (outbox.go:201, the claim counts before the send).
THEOREM BoundedRedelivery == Spec => []RedeliveryBounded
<1>1. Inv => RedeliveryBounded
  BY DEF Inv, PartOK, Budgeted, RedeliveryBounded
<1> QED
  BY <1>1, Invariant, PTL

\* What the loop has shown it repeats with the notice (outbox.go:238).
THEOREM WarnedRedelivery == Spec => []RedeliveryWarned
<1>1. Inv => RedeliveryWarned
  BY DEF Inv, PartOK, RedeliveryWarned
<1> QED
  BY <1>1, Invariant, PTL

-----------------------------------------------------------------------------
(* Refinement                                                               *)

Fates == {"unwritten", "open", "delivered", "dead"}

\* Whether the fate of p may change as it does.
Lawful(p) ==
    \/ Fate(p)' = Fate(p)
    \/ Fate(p) = "unwritten" /\ Fate(p)' = "open"
    \/ Fate(p) = "open" /\ Fate(p)' = "dead"
    \/ Fate(p) = "delivered" /\ Fate(p)' \in {"open", "dead"}
    \/ Fate(p) \in {"open", "dead"} /\ Fate(p)' = "delivered" /\ shown[p] # {}

LEMMA FateShape ==
    ASSUME NEW p \in Parts, row[p].status \in Statuses
    PROVE  /\ Fate(p) \in Fates
           /\ row[p].status = "none" <=> Fate(p) = "unwritten"
           /\ row[p].status = "pending" <=> Fate(p) = "open"
           /\ row[p].status \in {"delivered", "pruned"} <=> Fate(p) = "delivered"
           /\ row[p].status = "dead" <=> Fate(p) = "dead"
BY DEF Fate, Fates, Statuses

LEMMA SettleStep ==
    ASSUME Inv, Inv', UNCHANGED shown, \A p \in Parts : Lawful(p)
    PROVE  Promise!Settle
<1>1. \A p \in Parts : row[p].status \in Statuses /\ row'[p].status \in Statuses
  BY DEF Inv, Types, Rows
<1>2. \A p \in Parts : Fate(p)' \in Fates
  BY <1>1 DEF Fate, Fates, Statuses
<1>3. \A p \in Parts : Promise!MayBecome(p, Fate(p)')
  BY DEF Lawful, Promise!MayBecome
<1> QED
  BY <1>2, <1>3 DEF Promise!Settle, Fates

\* Where a sender shows a part, the fates stay.
LEMMA SeeStep ==
    ASSUME Inv, UNCHANGED row, NEW p \in Parts, NEW who \in Senders,
           shown' = [shown EXCEPT ![p] = @ \cup {who}]
    PROVE  Promise!See
<1>1. \A q \in Parts : shown'[q] # {} <=> (shown[q] # {} \/ q = p)
  BY DEF Inv, Types
<1>2. {q \in Parts : shown[q] # {}}' = {q \in Parts : shown[q] # {}} \cup {p}
  BY <1>1
<1>3. [q \in Parts |-> Fate(q)]' = [q \in Parts |-> Fate(q)]
  BY DEF Fate
<1> QED
  BY <1>2, <1>3 DEF Promise!See

LEMMA StutterStep ==
    ASSUME UNCHANGED <<row, shown>>
    PROVE  UNCHANGED <<[q \in Parts |-> Fate(q)], {q \in Parts : shown[q] # {}}>>
BY DEF Fate

\* A status written by key is lawful where the row allows it.
LEMMA SetStatusLawful ==
    ASSUME Inv, Inv', NEW p \in Parts, NEW status \in {"pending", "delivered", "dead"},
           NEW due \in BOOLEAN, SetStatus(p, status, due),
           status = "delivered" => shown[p] # {},
           status # "delivered" => row[p].status # "dead"
    PROVE  \A q \in Parts : Lawful(q)
<1>1. /\ \A q \in Parts : q # p => row'[q] = row[q]
      /\ row'[p].status = IF row[p].status \in {"none", "pruned"} THEN row[p].status
                          ELSE status
  BY SetStatusShape
<1>2. row[p].status \in Statuses
  BY DEF Inv, Types, Rows
<1>3. \A q \in Parts : q # p => Lawful(q)
  BY <1>1 DEF Lawful, Fate
<1>4. Lawful(p)
  BY <1>1, <1>2 DEF Lawful, Fate, Statuses
<1> QED
  BY <1>3, <1>4

LEMMA RefineStep ==
    ASSUME Inv, Inv', [Next]_vars
    PROVE  \/ Promise!Next
           \/ UNCHANGED <<[q \in Parts |-> Fate(q)], {q \in Parts : shown[q] # {}}>>
<1>1. CASE UNCHANGED <<row, shown>>
  BY <1>1, StutterStep
<1>2. ASSUME UNCHANGED shown, \A q \in Parts : Lawful(q)
      PROVE  Promise!Next
  BY <1>2, SettleStep DEF Promise!Next
<1>3. ASSUME NEW p \in Parts, Due(p)
      PROVE  \A q \in Parts : Lawful(q)
  <2>1. \A q \in Parts : row'[q].status = row[q].status
    BY <1>3 DEF Due, Inv, Types, Rows
  <2> QED
    BY <2>1 DEF Lawful, Fate
<1>4. ASSUME NEW p \in Parts, Commit(p)
      PROVE  \A q \in Parts : Lawful(q)
  <2>1. row[p].status = "none"
    BY <1>4, PartsFact DEF Commit, At, Inv, Committing
  <2>2. \A q \in Parts : q # p => row'[q] = row[q]
    BY <1>4 DEF Commit, Inv, Types
  <2>3. row'[p] = row[p] \/ row'[p].status = "pending"
    BY <1>4 DEF Commit, Inv, Types
  <2> QED
    BY <2>1, <2>2, <2>3 DEF Lawful, Fate
<1>5. ASSUME NEW p \in Parts, Mark(p), SetStatus(p, "delivered", row[p].due)
      PROVE  \A q \in Parts : Lawful(q)
  <2>1. shown[p] # {} /\ row[p].due \in BOOLEAN
    BY <1>5 DEF Mark, At, Inv, Truthful, Types, Rows
  <2> QED
    BY <1>5, <2>1, SetStatusLawful
<1>6. ASSUME NEW p \in Parts, Record(p)
      PROVE  \A q \in Parts : Lawful(q)
  <2>1. /\ worker.at = p /\ row[p].due \in BOOLEAN /\ row[p].status # "dead"
        /\ worker.outcome = "sent" => shown[p] # {}
    BY <1>6 DEF Record, Inv, PartOK, Holding, Held, Truthful, Types, Rows
  <2> QED
    BY <1>6, <2>1, SetStatusLawful DEF Record
<1>7. ASSUME ClaimDue
      PROVE  \A q \in Parts : Lawful(q)
  <2>1. \A q \in Parts : row'[q].status = row[q].status
    <3> SUFFICES ASSUME NEW q \in Parts PROVE row'[q].status = row[q].status
      OBVIOUS
    <3>1. row'[q] = IF q \in DueRows THEN Counted(row[q]) ELSE row[q]
      BY <1>7 DEF ClaimDue
    <3>2. Counted(row[q]).status = row[q].status
      BY DEF Counted, Inv, Types, Rows
    <3> QED
      BY <3>1, <3>2
  <2> QED
    BY <2>1 DEF Lawful, Fate
<1>8. ASSUME Prune
      PROVE  \A q \in Parts : Lawful(q)
  <2>1. \A q \in Parts : \/ row'[q] = row[q]
                         \/ row[q].status = "delivered" /\ row'[q].status = "pruned"
    BY <1>8 DEF Prune, Inv, Types, Rows
  <2> QED
    BY <2>1 DEF Lawful, Fate
<1>9. ASSUME NEW p \in Parts, NEW who \in Senders, UNCHANGED row, Show(p, who)
      PROVE  Promise!Next
  BY <1>9, SeeStep DEF Show, Promise!Next
<1>10. ASSUME NEW p \in Parts, Edit(p) \/ Send(p) \/ Deliver(p)
       PROVE  Promise!Next \/ UNCHANGED <<row, shown>>
  BY <1>9, <1>10 DEF Edit, Send, Deliver, Senders
<1>11. ASSUME NEW p \in Parts, Due(p) \/ Commit(p) \/ Mark(p) \/ Record(p) \/ RecordMissed(p)
       PROVE  Promise!Next \/ UNCHANGED <<row, shown>>
  <2>1. UNCHANGED shown
    BY <1>11 DEF Due, Commit, Mark, Record, RecordMissed
  <2>2. CASE RecordMissed(p) \/ UNCHANGED row
    BY <2>1, <2>2 DEF RecordMissed
  <2>3. CASE Due(p) \/ Commit(p) \/ Record(p)
    BY <1>2, <1>3, <1>4, <1>6, <2>1, <2>3
  <2>4. CASE Mark(p) /\ ~UNCHANGED row
    <3>1. SetStatus(p, "delivered", row[p].due)
      BY <2>4 DEF Mark
    <3> QED
      BY <1>2, <1>5, <2>1, <2>4, <3>1
  <2> QED
    BY <1>11, <2>2, <2>3, <2>4
<1>12. CASE ClaimDue \/ Prune
  <2>1. UNCHANGED shown
    BY <1>12 DEF ClaimDue, Prune
  <2> QED
    BY <1>2, <1>7, <1>8, <1>12, <2>1
<1>13. CASE Ageing \/ Restart \/ UNCHANGED vars
  BY <1>1, <1>13 DEF Ageing, Restart, vars
<1> QED
  BY <1>1, <1>10, <1>11, <1>12, <1>13 DEF Next

\* The rows, the loop and the streamer together deliver at least once: a part
\* is recorded as delivered only after it was seen, and what was given up is
\* not claimed again.
THEOREM Refines == Spec => ImplementsAtLeastOnce
<1>1. Init => Promise!Init
  BY DEF Init, Promise!Init, Fate, NoRow
<1>2. Inv /\ Inv' /\ [Next]_vars => [Promise!Next]_(Promise!vars)
  BY RefineStep DEF Promise!vars
<1> QED
  BY <1>1, <1>2, Invariant, PTL DEF Spec, ImplementsAtLeastOnce, Promise!Spec
=============================================================================
