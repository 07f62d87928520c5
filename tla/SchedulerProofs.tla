-------------------------- MODULE SchedulerProofs --------------------------
(***************************************************************************)
(* Safety of Scheduler for every set of orders and fires and every period, *)
(* grace, limit and bound.                                                 *)
(*                                                                         *)
(* ClaimOnce is about instants in the past of a row that has changed since.*)
(* Inv keeps what makes it true in the row itself: a row that nobody wrote *)
(* since a claim is either disabled or has its next fire time after it.    *)
(***************************************************************************)
EXTENDS Scheduler, TLAPS

Snaps == [enabled: BOOLEAN, last: Fires \cup {NoFire}]

UnderWay == {"asked", "queued", "start", "preflight", "pause", "submit", "drain",
             "finish", "release", "unrecorded"}

FireStates ==
    {Idle} \cup [pc: UnderWay, s: Scheds, manual: BOOLEAN, snap: Snaps, timedOut: BOOLEAN]
           \cup [pc: {"late", "over", "lost"}, s: Scheds]

EditStates ==
    {Idle} \cup [pc: {"read"}, s: Scheds, snap: Snaps, enabled: BOOLEAN]
           \cup [pc: {"computed"}, s: Scheds, snap: Snaps, enabled: BOOLEAN, next: Nat,
            claimed: Nat]

Claims == [at: Nat, writes: Nat, overtaken: Nat, resumes: Nat]

Types ==
    /\ now \in 0..MaxTime
    /\ kind \in [Scheds -> {"once", "recurring"}]
    /\ row \in [Scheds -> Rows]
    /\ tick \subseteq [s: Scheds, missed: BOOLEAN, snap: Snaps]
    /\ inFlight \subseteq Scheds
    /\ fire \in [Fires -> FireStates]
    /\ runRow \in [Fires -> {"none", "running", "finished"}]
    /\ agent \in [Fires -> {"none", "live", "done"}]
    /\ edit \in EditStates
    /\ edits \in 0..MaxEdits /\ restarts \in 0..MaxRestarts
    /\ claims \in [Scheds -> Seq(Claims)]

(* An order that is enabled has a next fire time, also in an edit. *)
NextAgrees ==
    /\ \A s \in Scheds : row[s].enabled <=> row[s].next # NoTime
    /\ edit.pc = "computed" => (edit.enabled <=> edit.next # NoTime)

(* A run row that says running was begun by a fire that has not finished it. *)
RunningStages ==
    {"preflight", "pause", "submit", "drain", "finish", "unrecorded", "late", "lost"}

Recorded == \A f \in Fires : runRow[f] = "running" => fire[f].pc \in RunningStages

(* What was claimed is behind a row that nobody has written since. *)
Behind(r, c) ==
    /\ c.writes <= r.writes
    /\ c.writes = r.writes /\ r.enabled => c.at < r.next

(* The first half of ClaimOnce. *)
EditedBetween ==
    \A s \in Scheds : \A i, j \in 1..Len(claims[s]) :
        (i # j /\ claims[s][i].at = claims[s][j].at)
            => claims[s][i].writes # claims[s][j].writes

ClaimsBehind == \A s \in Scheds : \A i \in 1..Len(claims[s]) : Behind(row[s], claims[s][i])

Inv ==
    /\ Types
    /\ NextAgrees
    /\ MarkersAreFires
    /\ Recorded
    /\ ClaimsBehind
    /\ EditedBetween

-----------------------------------------------------------------------------
(* The next fire time. *)

LEMMA Constants ==
    /\ Fires \subseteq Nat \ {0}
    /\ RunAt \in Nat \ {0} /\ Period \in Nat \ {0}
    /\ MaxTime \in Nat /\ MaxEdits \in Nat /\ MaxRestarts \in Nat /\ Grace \in Nat
BY SchedulerAssumption

LEMMA Multiples ==
    ASSUME NEW t \in Nat, NEW p \in Nat \ {0}
    PROVE  ((t \div p) + 1) * p \in Nat /\ ((t \div p) + 1) * p > t
OBVIOUS

LEMMA NextRunLater ==
    ASSUME NEW s \in Scheds, NEW t \in Nat, kind \in [Scheds -> {"once", "recurring"}]
    PROVE  /\ NextRun(s, t) \in Nat \ {0}
           /\ kind[s] = "recurring" => NextRun(s, t) > t
<1>1. CASE kind[s] = "once"
    BY <1>1, Constants DEF NextRun
<1>2. CASE kind[s] = "recurring"
    <2>1. NextRun(s, t) = ((t \div Period) + 1) * Period
        BY <1>2 DEF NextRun
    <2>2. NextRun(s, t) \in Nat /\ NextRun(s, t) > t
        BY <2>1, Multiples, Constants
    <2> QED
        BY <1>2, <2>2
<1> QED
    BY <1>1, <1>2

LEMMA ComputeNextTyped ==
    ASSUME NEW s \in Scheds, NEW e \in BOOLEAN, NEW t \in Nat,
           kind \in [Scheds -> {"once", "recurring"}]
    PROVE  /\ ComputeNext(s, e, t) \in Nat
           /\ e <=> ComputeNext(s, e, t) # NoTime
<1>1. NextRun(s, t) \in Nat \ {0}
    BY NextRunLater
<1> QED
    BY <1>1 DEF ComputeNext, NoTime

LEMMA InitInv == Init => Inv
<1> SUFFICES ASSUME Init PROVE Inv
    OBVIOUS
<1>1. kind \in [Scheds -> {"once", "recurring"}]
    BY DEF Init
<1>2. row \in [Scheds -> Rows] /\ \A s \in Scheds : row[s].enabled /\ row[s].next # NoTime
    <2>1. \A s \in Scheds : NextRun(s, 0) \in Nat \ {0}
        BY <1>1, NextRunLater
    <2> QED
        BY <2>1 DEF Init, Rows, NoTime
<1>3. Types
    <2>1. fire \in [Fires -> FireStates] /\ edit \in EditStates
        BY DEF Init, FireStates, EditStates
    <2>2. claims \in [Scheds -> Seq(Claims)]
        BY DEF Init
    <2> QED
        BY <1>1, <1>2, <2>1, <2>2, Constants DEF Init, Types
<1>4. NextAgrees /\ Recorded
    BY <1>2 DEF Init, NextAgrees, Recorded, Idle
<1>5. MarkersAreFires
    <2>1. \A f \in Fires : fire[f].pc = "idle"
        BY DEF Init, Idle
    <2>2. Marked = {}
        BY <2>1 DEF Marked
    <2> QED
        BY <2>2 DEF MarkersAreFires, Init
<1>6. ClaimsBehind /\ EditedBetween
    BY DEF Init, ClaimsBehind, EditedBetween
<1> QED
    BY <1>3, <1>4, <1>5, <1>6 DEF Inv
-----------------------------------------------------------------------------
(* What steps have in common. *)

Holds(f) == fire[f].pc \notin {"idle", "asked", "late", "over", "lost"}

\* The markers of goroutines that keep their stages and orders.
LEMMA SameMarkers ==
    ASSUME Inv, inFlight' = inFlight,
           \A g \in Fires : Holds(g)' <=> Holds(g),
           \A g \in Fires : Holds(g) => fire'[g].s = fire[g].s
    PROVE  MarkersAreFires'
<1>1. Marked' = Marked
    BY DEF Marked, Holds
<1>2. \A g \in Marked : g \in Fires /\ fire'[g].s = fire[g].s
    BY DEF Marked, Holds
<1>3. {fire'[g].s : g \in Marked'} = {fire[g].s : g \in Marked}
    BY <1>1, <1>2
<1> QED
    BY <1>1, <1>2, <1>3 DEF Inv, MarkersAreFires

\* A row that nobody touches keeps its claims behind it.
LEMMA SameRow ==
    ASSUME Inv, UNCHANGED <<row, edit, claims>>
    PROVE  NextAgrees' /\ ClaimsBehind' /\ EditedBetween'
BY DEF Inv, NextAgrees, ClaimsBehind, Behind, EditedBetween

\* So does one that only counted writes enable or give another fire time.
Written(s) ==
    /\ row'[s].writes >= row[s].writes
    /\ row'[s].writes = row[s].writes =>
          (row'[s].enabled => row[s].enabled /\ row'[s].next = row[s].next)

LEMMA RowWrites ==
    ASSUME Inv, claims' = claims, row' \in [Scheds -> Rows], \A s \in Scheds : Written(s)
    PROVE  ClaimsBehind' /\ EditedBetween'
<1>1. ASSUME NEW s \in Scheds, NEW i \in 1..Len(claims[s])
      PROVE  Behind(row'[s], claims'[s][i])
    <2>1. Behind(row[s], claims[s][i])
        BY <1>1 DEF Inv, ClaimsBehind
    <2>2. claims[s][i] \in Claims
        BY <1>1 DEF Inv, Types
    <2>3. row[s].writes \in Nat /\ row'[s].writes \in Nat /\ claims[s][i].writes \in Nat
        BY <2>2 DEF Inv, Types, Rows, Claims
    <2>4. claims'[s][i] = claims[s][i]
        OBVIOUS
    <2> QED
        BY <2>1, <2>3, <2>4 DEF Behind, Written
<1>2. ClaimsBehind'
    BY <1>1 DEF ClaimsBehind
<1> QED
    BY <1>2 DEF Inv, EditedBetween

\* The mirror of the last run is no write in this sense.
LEMMA LastWritten ==
    ASSUME Inv, NEW s \in Scheds, NEW f \in Fires, row' = [row EXCEPT ![s].last = f]
    PROVE  /\ row' \in [Scheds -> Rows]
           /\ \A t \in Scheds : /\ Written(t)
                                /\ row'[t].enabled = row[t].enabled
                                /\ row'[t].next = row[t].next
<1>1. row \in [Scheds -> Rows]
    BY DEF Inv, Types
<1>2. \A t \in Scheds : row'[t] = IF t = s THEN [row[t] EXCEPT !.last = f] ELSE row[t]
    BY <1>1
<1>3. \A t \in Scheds : /\ row'[t] \in Rows /\ row'[t].enabled = row[t].enabled
                        /\ row'[t].next = row[t].next /\ row'[t].writes = row[t].writes
    BY <1>1, <1>2 DEF Rows
<1>4. \A t \in Scheds : row[t].writes \in Nat
    BY <1>1 DEF Rows
<1>5. row' \in [Scheds -> Rows]
    BY <1>1, <1>3
<1> QED
    BY <1>3, <1>4, <1>5 DEF Written

\* One goroutine moves.
LEMMA OneMoves ==
    ASSUME Inv, NEW f \in Fires, NEW x \in FireStates, fire' = [fire EXCEPT ![f] = x]
    PROVE  /\ fire' \in [Fires -> FireStates] /\ fire'[f] = x
           /\ \A g \in Fires : g # f => fire'[g] = fire[g]
BY DEF Inv, Types

\* ... keeping its marker, or without one, and no row is written:
LEMMA QuietMove ==
    ASSUME Inv, NEW f \in Fires, NEW x \in FireStates, fire' = [fire EXCEPT ![f] = x],
           UNCHANGED <<now, kind, row, tick, inFlight, edit, edits, claims, restarts>>,
           agent' \in [Fires -> {"none", "live", "done"}],
           runRow' \in [Fires -> {"none", "running", "finished"}],
           Holds(f) <=> x.pc \notin {"idle", "asked", "late", "over", "lost"},
           Holds(f) => x.s = fire[f].s,
           runRow'[f] = "running" => x.pc \in RunningStages,
           \A g \in Fires : g # f => runRow'[g] = runRow[g]
    PROVE  Inv'
<1>1. /\ fire' \in [Fires -> FireStates] /\ fire'[f] = x
      /\ \A g \in Fires : g # f => fire'[g] = fire[g]
    BY OneMoves
<1>2. Types'
    BY <1>1 DEF Inv, Types
<1>3. /\ \A g \in Fires : Holds(g)' <=> Holds(g)
      /\ \A g \in Fires : Holds(g) => fire'[g].s = fire[g].s
    BY <1>1 DEF Holds
<1>4. MarkersAreFires'
    BY <1>3, SameMarkers
<1>5. Recorded'
    BY <1>1 DEF Inv, Recorded
<1> QED
    BY <1>2, <1>4, <1>5, SameRow DEF Inv

LEMMA UnderWayTyped ==
    ASSUME Inv, NEW f \in Fires, fire[f].pc \in UnderWay
    PROVE  fire[f] \in [pc: UnderWay, s: Scheds, manual: BOOLEAN, snap: Snaps, timedOut: BOOLEAN]
BY SMTT(60) DEF Inv, Types, FireStates, UnderWay, Idle

\* A goroutine under way that goes on.
LEMMA GoState ==
    ASSUME Inv, NEW f \in Fires, fire[f].pc \in UnderWay, NEW pc \in UnderWay,
           fire' = [fire EXCEPT ![f].pc = pc]
    PROVE  \E x \in FireStates : /\ fire' = [fire EXCEPT ![f] = x]
                                 /\ x.pc = pc /\ x.s = fire[f].s
<1> DEFINE x == [fire[f] EXCEPT !.pc = pc]
<1>1. fire[f] \in [pc: UnderWay, s: Scheds, manual: BOOLEAN, snap: Snaps, timedOut: BOOLEAN]
    BY UnderWayTyped
<1>2. /\ x \in [pc: UnderWay, s: Scheds, manual: BOOLEAN, snap: Snaps, timedOut: BOOLEAN]
      /\ x.pc = pc /\ x.s = fire[f].s
    BY <1>1
<1>3. fire' = [fire EXCEPT ![f] = x]
    OBVIOUS
<1> QED
    BY <1>2, <1>3 DEF FireStates

LEMMA OrderTyped ==
    ASSUME Inv, NEW f \in Fires, fire[f].pc # "idle"
    PROVE  fire[f].s \in Scheds
BY DEF Inv, Types, FireStates, Idle

-----------------------------------------------------------------------------
(* The steps of a goroutine. *)

LEMMA DispatchStep == ASSUME Inv, NEW f \in Fires, Dispatch(f) PROVE Inv'
<1>1. PICK c \in tick :
        /\ ~c.missed /\ c.s \notin inFlight
        /\ tick' = tick \ {c}
        /\ inFlight' = inFlight \cup {c.s}
        /\ fire' = [fire EXCEPT ![f] =
                      [pc |-> "queued", s |-> c.s, manual |-> FALSE, snap |-> c.snap, timedOut |-> FALSE]]
    BY DEF Dispatch
<1>2. /\ UNCHANGED <<now, kind, row, runRow, agent, edit, edits, claims, restarts>>
      /\ fire[f] = Idle
    BY DEF Dispatch, IsNext
<1> DEFINE x == [pc |-> "queued", s |-> c.s, manual |-> FALSE, snap |-> c.snap, timedOut |-> FALSE]
<1>3. c \in [s: Scheds, missed: BOOLEAN, snap: Snaps]
    BY DEF Inv, Types
<1>4. x \in FireStates /\ x.pc = "queued" /\ x.s = c.s
    <2>1. /\ x \in [pc: UnderWay, s: Scheds, manual: BOOLEAN, snap: Snaps, timedOut: BOOLEAN]
          /\ x.pc = "queued" /\ x.s = c.s
        BY <1>3 DEF UnderWay
    <2> QED
        BY <2>1 DEF FireStates
<1> HIDE DEF x
<1>5. /\ fire' \in [Fires -> FireStates] /\ fire'[f] = x
      /\ \A g \in Fires : g # f => fire'[g] = fire[g]
    BY <1>1, <1>4, OneMoves DEF x
<1>6. Types'
    BY <1>1, <1>2, <1>3, <1>5 DEF Inv, Types
<1>7. Marked' = Marked \cup {f} /\ f \notin Marked
    BY <1>2, <1>4, <1>5 DEF Marked, Idle
<1>8. \A g \in Marked : g \in Fires /\ g # f /\ fire'[g] = fire[g] /\ fire'[g].s \in inFlight
    BY <1>5, <1>7 DEF Marked, Inv, MarkersAreFires
<1>9. MarkersAreFires'
    <2>1. inFlight = {fire[g].s : g \in Marked}
        BY DEF Inv, MarkersAreFires
    <2>2. {fire'[g].s : g \in Marked'} = inFlight \cup {c.s}
        BY <1>4, <1>5, <1>7, <1>8, <2>1
    <2>3. \A g, h \in Marked : g # h => fire[g].s # fire[h].s
        BY DEF Inv, MarkersAreFires
    <2>4. \A g, h \in Marked' : g # h => fire'[g].s # fire'[h].s
        BY <1>1, <1>4, <1>5, <1>7, <1>8, <2>3
    <2> QED
        BY <1>1, <2>2, <2>4 DEF MarkersAreFires
<1>10. Recorded'
    BY <1>2, <1>5 DEF Inv, Recorded, Idle, RunningStages
<1> QED
    BY <1>2, <1>6, <1>9, <1>10, SameRow DEF Inv

LEMMA RecordMissedStep == ASSUME Inv, NEW f \in Fires, RecordMissed(f) PROVE Inv'
<1>1. PICK c \in tick :
        /\ tick' = tick \ {c}
        /\ \/ /\ runRow' = [runRow EXCEPT ![f] = "running"]
              /\ fire' = [fire EXCEPT ![f] = Late(c.s)]
           \/ /\ fire' = [fire EXCEPT ![f] = Over(c.s)]
              /\ UNCHANGED runRow
    BY DEF RecordMissed
<1>2. /\ UNCHANGED <<now, kind, row, inFlight, agent, edit, edits, claims, restarts>>
      /\ fire[f] = Idle
    BY DEF RecordMissed, IsNext
<1>3. c \in [s: Scheds, missed: BOOLEAN, snap: Snaps]
    BY DEF Inv, Types
<1>4. PICK x \in FireStates :
        /\ fire' = [fire EXCEPT ![f] = x]
        /\ \/ x.pc = "late" /\ runRow' = [runRow EXCEPT ![f] = "running"]
           \/ x.pc = "over" /\ runRow' = runRow
    <2>1. /\ Late(c.s) \in FireStates /\ Late(c.s).pc = "late"
          /\ Over(c.s) \in FireStates /\ Over(c.s).pc = "over"
        BY <1>3 DEF Late, Over, FireStates
    <2> QED
        BY <1>1, <2>1
<1>5. /\ fire' \in [Fires -> FireStates] /\ fire'[f] = x
      /\ \A g \in Fires : g # f => fire'[g] = fire[g]
    BY <1>4, OneMoves
<1>6. /\ \A g \in Fires : Holds(g)' <=> Holds(g)
      /\ \A g \in Fires : Holds(g) => fire'[g].s = fire[g].s
    BY <1>2, <1>4, <1>5 DEF Holds, Idle
<1>7. MarkersAreFires'
    BY <1>2, <1>6, SameMarkers
<1>8. /\ runRow' \in [Fires -> {"none", "running", "finished"}]
      /\ \A g \in Fires : g # f => runRow'[g] = runRow[g]
      /\ runRow'[f] = "running" => x.pc = "late"
    <2>1. runRow \in [Fires -> {"none", "running", "finished"}]
        BY DEF Inv, Types
    <2>2. runRow[f] # "running"
        BY <1>2 DEF Inv, Recorded, RunningStages, Idle
    <2> QED
        BY <1>4, <2>1, <2>2
<1>9. Recorded'
    BY <1>5, <1>8 DEF Inv, Recorded, RunningStages
<1>10. Types'
    BY <1>1, <1>2, <1>5, <1>8 DEF Inv, Types
<1> QED
    BY <1>2, <1>7, <1>9, <1>10, SameRow DEF Inv

LEMMA FinishMissedStep == ASSUME Inv, NEW f \in Fires, FinishMissed(f) PROVE Inv'
<1>1. /\ UNCHANGED <<now, kind, tick, inFlight, agent, edit, edits, claims, restarts>>
      /\ fire[f].pc = "late" /\ fire[f].s \in Scheds
    BY OrderTyped DEF FinishMissed
<1>2. PICK x \in FireStates :
        /\ fire' = [fire EXCEPT ![f] = x]
        /\ \/ /\ x.pc = "over"
              /\ runRow' = [runRow EXCEPT ![f] = "finished"]
              /\ row' = [row EXCEPT ![fire[f].s].last = f]
           \/ x.pc = "lost" /\ UNCHANGED <<runRow, row>>
    <2>1. /\ Lost(fire[f].s) \in FireStates /\ Lost(fire[f].s).pc = "lost"
          /\ Over(fire[f].s) \in FireStates /\ Over(fire[f].s).pc = "over"
        BY <1>1 DEF Lost, Over, FireStates
    <2>2. CASE UNCHANGED <<runRow, row>> /\ fire' = [fire EXCEPT ![f] = Lost(fire[f].s)]
        BY <2>1, <2>2
    <2>3. CASE /\ runRow' = [runRow EXCEPT ![f] = "finished"]
               /\ row' = [row EXCEPT ![fire[f].s].last = f]
               /\ fire' = [fire EXCEPT ![f] = Over(fire[f].s)]
        BY <2>1, <2>3
    <2> QED
        BY <2>2, <2>3 DEF FinishMissed
<1>3. /\ fire' \in [Fires -> FireStates] /\ fire'[f] = x
      /\ \A g \in Fires : g # f => fire'[g] = fire[g]
    BY <1>2, OneMoves
<1>4. /\ \A g \in Fires : Holds(g)' <=> Holds(g)
      /\ \A g \in Fires : Holds(g) => fire'[g].s = fire[g].s
    BY <1>1, <1>2, <1>3 DEF Holds
<1>5. MarkersAreFires'
    BY <1>1, <1>4, SameMarkers
<1>6. /\ runRow' \in [Fires -> {"none", "running", "finished"}]
      /\ \A g \in Fires : g # f => runRow'[g] = runRow[g]
      /\ runRow'[f] = "running" => x.pc = "lost"
    <2>1. runRow \in [Fires -> {"none", "running", "finished"}]
        BY DEF Inv, Types
    <2> QED
        BY <1>2, <2>1
<1>7. Recorded'
    BY <1>3, <1>6 DEF Inv, Recorded, RunningStages
<1>8. /\ row' \in [Scheds -> Rows]
      /\ NextAgrees' /\ ClaimsBehind' /\ EditedBetween'
    <2>1. CASE row' = row
        BY <1>1, <2>1, SameRow DEF Inv, Types
    <2>2. CASE row' = [row EXCEPT ![fire[f].s].last = f]
        <3>1. /\ row' \in [Scheds -> Rows]
              /\ \A t \in Scheds : /\ Written(t)
                                   /\ row'[t].enabled = row[t].enabled
                                   /\ row'[t].next = row[t].next
            BY <1>1, <2>2, LastWritten
        <3>2. NextAgrees'
            BY <1>1, <3>1 DEF Inv, NextAgrees
        <3> QED
            BY <1>1, <3>1, <3>2, RowWrites
    <2> QED
        BY <1>2, <2>1, <2>2
<1>9. Types'
    BY <1>1, <1>3, <1>6, <1>8 DEF Inv, Types
<1> QED
    BY <1>5, <1>7, <1>8, <1>9 DEF Inv

LEMMA RunNowStep == ASSUME Inv, NEW f \in Fires, NEW s \in Scheds, RunNow(f, s) PROVE Inv'
<1> DEFINE x == [pc |-> "asked", s |-> s, manual |-> TRUE, snap |-> Snap(row[s]), timedOut |-> FALSE]
<1>1. /\ UNCHANGED <<now, kind, row, tick, inFlight, runRow, agent, edit, edits, claims, restarts>>
      /\ fire[f] = Idle /\ fire' = [fire EXCEPT ![f] = x]
    BY DEF RunNow, IsNext
<1>2. Snap(row[s]) \in Snaps
    BY DEF Inv, Types, Rows, Snap, Snaps
<1>3. x \in FireStates /\ x.pc = "asked"
    <2>1. /\ x \in [pc: UnderWay, s: Scheds, manual: BOOLEAN, snap: Snaps, timedOut: BOOLEAN]
          /\ x.pc = "asked"
        BY <1>2 DEF UnderWay
    <2> QED
        BY <2>1 DEF FireStates
<1>4. ~Holds(f) /\ runRow'[f] # "running"
    BY <1>1 DEF Holds, Idle, Inv, Recorded, RunningStages
<1>5. /\ agent' \in [Fires -> {"none", "live", "done"}]
      /\ runRow' \in [Fires -> {"none", "running", "finished"}]
    BY <1>1 DEF Inv, Types
<1> HIDE DEF x
<1> QED
    BY <1>1, <1>3, <1>4, <1>5, QuietMove

LEMMA MarkManualStep == ASSUME Inv, NEW f \in Fires, MarkManual(f) PROVE Inv'
<1>1. /\ UNCHANGED <<now, kind, row, tick, runRow, agent, edit, edits, claims, restarts>>
      /\ fire[f].pc = "asked" /\ fire[f].s \in Scheds /\ runRow'[f] # "running"
    BY OrderTyped DEF MarkManual, Inv, Recorded, RunningStages
<1>2. /\ agent' \in [Fires -> {"none", "live", "done"}]
      /\ runRow' \in [Fires -> {"none", "running", "finished"}]
    BY <1>1 DEF Inv, Types
<1>3. CASE fire[f].s \in inFlight
    <2>1. /\ fire' = [fire EXCEPT ![f] = Over(fire[f].s)] /\ inFlight' = inFlight
          /\ Over(fire[f].s) \in FireStates /\ Over(fire[f].s).pc = "over" /\ ~Holds(f)
        BY <1>1, <1>3 DEF MarkManual, Over, FireStates, Holds
    <2> QED
        BY <1>1, <1>2, <2>1, QuietMove
<1>4. CASE fire[f].s \notin inFlight
    <2>1. /\ fire' = [fire EXCEPT ![f].pc = "start"]
          /\ inFlight' = inFlight \cup {fire[f].s}
        BY <1>4 DEF MarkManual
    <2>2. PICK x \in FireStates : /\ fire' = [fire EXCEPT ![f] = x]
                                  /\ x.pc = "start" /\ x.s = fire[f].s
        BY <1>1, <2>1, GoState DEF UnderWay
    <2>3. /\ fire' \in [Fires -> FireStates] /\ fire'[f] = x
          /\ \A g \in Fires : g # f => fire'[g] = fire[g]
        BY <2>2, OneMoves
    <2>4. Types'
        BY <1>1, <2>1, <2>3 DEF Inv, Types
    <2>5. Marked' = Marked \cup {f} /\ f \notin Marked
        BY <1>1, <2>2, <2>3 DEF Marked
    <2>6. \A g \in Marked : g \in Fires /\ g # f /\ fire'[g] = fire[g] /\ fire'[g].s \in inFlight
        BY <2>3, <2>5 DEF Marked, Inv, MarkersAreFires
    <2>7. MarkersAreFires'
        <3>1. inFlight = {fire[g].s : g \in Marked}
            BY DEF Inv, MarkersAreFires
        <3>2. {fire'[g].s : g \in Marked'} = inFlight \cup {fire[f].s}
            BY <2>2, <2>3, <2>5, <2>6, <3>1
        <3>3. \A g, h \in Marked : g # h => fire[g].s # fire[h].s
            BY DEF Inv, MarkersAreFires
        <3>4. \A g, h \in Marked' : g # h => fire'[g].s # fire'[h].s
            BY <1>4, <2>2, <2>3, <2>5, <2>6, <3>3
        <3> QED
            BY <2>1, <3>2, <3>4 DEF MarkersAreFires
    <2>8. Recorded'
        BY <1>1, <2>3 DEF Inv, Recorded
    <2> QED
        BY <1>1, <2>4, <2>7, <2>8, SameRow DEF Inv
<1> QED
    BY <1>3, <1>4
\* Acquire, Watchdog and the drain's end only move the goroutine.
LEMMA StageStep ==
    ASSUME Inv, NEW f \in Fires, fire[f].pc \in UnderWay \ {"asked"},
           NEW pc \in UnderWay \ {"asked"}, fire' = [fire EXCEPT ![f].pc = pc],
           UNCHANGED <<now, kind, row, tick, inFlight, edit, edits, claims, restarts>>,
           agent' \in [Fires -> {"none", "live", "done"}],
           runRow' \in [Fires -> {"none", "running", "finished"}],
           runRow'[f] = "running" => pc \in RunningStages,
           \A g \in Fires : g # f => runRow'[g] = runRow[g]
    PROVE  Inv'
<1>1. PICK x \in FireStates : /\ fire' = [fire EXCEPT ![f] = x]
                              /\ x.pc = pc /\ x.s = fire[f].s
    BY GoState
<1>2. /\ Holds(f) <=> x.pc \notin {"idle", "asked", "late", "over", "lost"}
      /\ Holds(f) => x.s = fire[f].s
    BY <1>1 DEF Holds, UnderWay
<1>3. runRow'[f] = "running" => x.pc \in RunningStages
    BY <1>1
<1>4. /\ fire' = [fire EXCEPT ![f] = x]
      /\ UNCHANGED <<now, kind, row, tick, inFlight, edit, edits, claims, restarts>>
    BY <1>1
<1> QED
    BY <1>2, <1>3, <1>4, QuietMove

LEMMA AcquireStep == ASSUME Inv, NEW f \in Fires, Acquire(f) PROVE Inv'
<1>1. /\ fire[f].pc = "queued" /\ fire' = [fire EXCEPT ![f].pc = "start"]
      /\ UNCHANGED <<now, kind, row, tick, inFlight, runRow, agent, edit, edits, claims, restarts>>
    BY DEF Acquire
<1>2. /\ agent' \in [Fires -> {"none", "live", "done"}]
      /\ runRow' \in [Fires -> {"none", "running", "finished"}]
      /\ runRow'[f] # "running"
    BY <1>1 DEF Inv, Types, Recorded, RunningStages
<1> QED
    BY <1>1, <1>2, StageStep DEF UnderWay

LEMMA StartRunStep == ASSUME Inv, NEW f \in Fires, StartRun(f) PROVE Inv'
<1>1. /\ fire[f].pc = "start"
      /\ UNCHANGED <<now, kind, row, tick, inFlight, agent, edit, edits, claims, restarts>>
    BY DEF StartRun
<1>2. /\ agent' \in [Fires -> {"none", "live", "done"}]
      /\ runRow \in [Fires -> {"none", "running", "finished"}]
      /\ runRow[f] # "running"
    BY <1>1 DEF Inv, Types, Recorded, RunningStages
<1>3. CASE runRow' = [runRow EXCEPT ![f] = "running"] /\ fire' = [fire EXCEPT ![f].pc = "preflight"]
    <2>1. /\ runRow' \in [Fires -> {"none", "running", "finished"}]
          /\ \A g \in Fires : g # f => runRow'[g] = runRow[g]
        BY <1>2, <1>3
    <2> QED
        BY <1>1, <1>2, <1>3, <2>1, StageStep DEF UnderWay, RunningStages
<1>4. CASE fire' = [fire EXCEPT ![f].pc = "release"] /\ UNCHANGED runRow
    BY <1>1, <1>2, <1>4, StageStep DEF UnderWay
<1> QED
    BY <1>3, <1>4 DEF StartRun

LEMMA PreflightStep == ASSUME Inv, NEW f \in Fires, Preflight(f) PROVE Inv'
<1>1. /\ fire[f].pc = "preflight"
      /\ UNCHANGED <<now, kind, row, tick, inFlight, runRow, agent, edit, edits, claims, restarts>>
    BY DEF Preflight
<1>2. PICK pc \in {"submit", "pause", "finish"} : fire' = [fire EXCEPT ![f].pc = pc]
    BY DEF Preflight
<1>3. /\ agent' \in [Fires -> {"none", "live", "done"}]
      /\ runRow' \in [Fires -> {"none", "running", "finished"}]
    BY <1>1 DEF Inv, Types
<1> QED
    BY <1>1, <1>2, <1>3, StageStep DEF UnderWay, RunningStages

LEMMA SubmitStep == ASSUME Inv, NEW f \in Fires, Submit(f) PROVE Inv'
<1>1. /\ fire[f].pc = "submit"
      /\ UNCHANGED <<now, kind, row, tick, inFlight, runRow, edit, edits, claims, restarts>>
    BY DEF Submit
<1>2. PICK pc \in {"drain", "finish"} : fire' = [fire EXCEPT ![f].pc = pc]
    BY DEF Submit
<1>3. /\ agent' \in [Fires -> {"none", "live", "done"}]
      /\ runRow' \in [Fires -> {"none", "running", "finished"}]
    BY <1>1 DEF Submit, Inv, Types
<1> QED
    BY <1>1, <1>2, <1>3, StageStep DEF UnderWay, RunningStages

LEMMA DrainRunStep == ASSUME Inv, NEW f \in Fires, DrainRun(f) PROVE Inv'
<1>1. /\ fire[f].pc = "drain" /\ fire' = [fire EXCEPT ![f].pc = "finish"]
      /\ UNCHANGED <<now, kind, row, tick, inFlight, runRow, agent, edit, edits, claims, restarts>>
    BY DEF DrainRun
<1>2. /\ agent' \in [Fires -> {"none", "live", "done"}]
      /\ runRow' \in [Fires -> {"none", "running", "finished"}]
    BY <1>1 DEF Inv, Types
<1> QED
    BY <1>1, <1>2, StageStep DEF UnderWay, RunningStages

LEMMA WatchdogStep == ASSUME Inv, NEW f \in Fires, Watchdog(f) PROVE Inv'
<1> DEFINE x == [fire[f] EXCEPT !.timedOut = TRUE]
<1>1. /\ fire[f].pc = "drain" /\ fire' = [fire EXCEPT ![f] = x]
      /\ UNCHANGED <<now, kind, row, tick, inFlight, runRow, agent, edit, edits, claims, restarts>>
    BY DEF Watchdog
<1>2. fire[f] \in [pc: UnderWay, s: Scheds, manual: BOOLEAN, snap: Snaps, timedOut: BOOLEAN]
    BY <1>1, UnderWayTyped DEF UnderWay
<1>3. /\ x \in [pc: UnderWay, s: Scheds, manual: BOOLEAN, snap: Snaps, timedOut: BOOLEAN]
      /\ x.pc = "drain" /\ x.s = fire[f].s
    BY <1>1, <1>2
<1>4. x \in FireStates /\ Holds(f)
    BY <1>1, <1>3 DEF FireStates, Holds
<1>5. /\ agent' \in [Fires -> {"none", "live", "done"}]
      /\ runRow' \in [Fires -> {"none", "running", "finished"}]
    BY <1>1 DEF Inv, Types
<1> HIDE DEF x
<1> QED
    BY <1>1, <1>3, <1>4, <1>5, QuietMove DEF RunningStages

\* What a pause makes of a row.
LEMMA PausedFields ==
    ASSUME NEW r \in Rows, NEW l \in Fires \cup {NoFire}
    PROVE  LET p == [r EXCEPT !.enabled = FALSE, !.next = NoTime, !.last = l]
           IN  /\ p \in Rows /\ p.enabled = FALSE /\ p.next = NoTime
               /\ p.writes = r.writes /\ p.overtaken = r.overtaken
<1> DEFINE p == [r EXCEPT !.enabled = FALSE, !.next = NoTime, !.last = l]
<1>1. p \in Rows /\ p.enabled = FALSE /\ p.next = NoTime
    BY DEF Rows, NoTime
<1>2. p.writes = r.writes /\ p.overtaken = r.overtaken
    BY DEF Rows
<1> QED
    BY <1>1, <1>2

\* The automatic pause disables: no schedule comes back.
LEMMA PauseStep == ASSUME Inv, NEW f \in Fires, Pause(f) PROVE Inv'
<1>1. /\ fire[f].pc = "pause" /\ fire' = [fire EXCEPT ![f].pc = "finish"]
      /\ UNCHANGED <<now, kind, tick, inFlight, runRow, agent, edit, edits, claims, restarts>>
    BY DEF Pause
<1>2. /\ agent' \in [Fires -> {"none", "live", "done"}]
      /\ runRow' \in [Fires -> {"none", "running", "finished"}]
    BY <1>1 DEF Inv, Types
<1>3. CASE UNCHANGED row
    BY <1>1, <1>2, <1>3, StageStep DEF UnderWay, RunningStages
<1>4. CASE row' = [row EXCEPT ![fire[f].s] = PausedRow(f)]
    <2>1. fire[f] \in [pc: UnderWay, s: Scheds, manual: BOOLEAN, snap: Snaps, timedOut: BOOLEAN]
        BY <1>1, UnderWayTyped DEF UnderWay
    <2>2. PICK x \in FireStates : /\ fire' = [fire EXCEPT ![f] = x]
                                  /\ x.pc = "finish" /\ x.s = fire[f].s
        BY <1>1, GoState DEF UnderWay
    <2>3. /\ fire' \in [Fires -> FireStates] /\ fire'[f] = x
          /\ \A g \in Fires : g # f => fire'[g] = fire[g]
        BY <2>2, OneMoves
    <2>4. /\ \A g \in Fires : Holds(g)' <=> Holds(g)
          /\ \A g \in Fires : Holds(g) => fire'[g].s = fire[g].s
        BY <1>1, <2>2, <2>3 DEF Holds
    <2>5. MarkersAreFires'
        BY <1>1, <2>4, SameMarkers
    <2>6. Recorded'
        BY <1>1, <2>2, <2>3 DEF Inv, Recorded, RunningStages
    <2> DEFINE s == fire[f].s
    <2>7. s \in Scheds /\ fire[f].snap.last \in Fires \cup {NoFire} /\ row \in [Scheds -> Rows]
        BY <2>1 DEF Snaps, Inv, Types
    <2>8. /\ PausedRow(f) \in Rows /\ PausedRow(f).enabled = FALSE
          /\ PausedRow(f).next = NoTime /\ PausedRow(f).writes = row[s].writes
        BY <2>7, PausedFields DEF PausedRow
    <2> HIDE DEF s
    <2>9. row' = [row EXCEPT ![s] = PausedRow(f)]
        BY <1>4 DEF s
    <2>10. /\ row' \in [Scheds -> Rows] /\ row'[s] = PausedRow(f)
           /\ \A t \in Scheds : t # s => row'[t] = row[t]
        BY <2>7, <2>8, <2>9
    <2>11. \A t \in Scheds : Written(t)
        BY <2>7, <2>8, <2>10 DEF Written, Rows
    <2>12. NextAgrees'
        BY <1>1, <2>8, <2>10 DEF Inv, NextAgrees, NoTime
    <2>13. Types'
        BY <1>1, <1>2, <2>3, <2>10 DEF Inv, Types
    <2> QED
        BY <1>1, <2>5, <2>6, <2>10, <2>11, <2>12, <2>13, RowWrites DEF Inv
<1> QED
    BY <1>3, <1>4 DEF Pause

LEMMA FinishRunStep == ASSUME Inv, NEW f \in Fires, FinishRun(f) PROVE Inv'
<1>1. /\ fire[f].pc = "finish"
      /\ UNCHANGED <<now, kind, tick, inFlight, agent, edit, edits, claims, restarts>>
    BY DEF FinishRun
<1>2. /\ agent' \in [Fires -> {"none", "live", "done"}]
      /\ runRow \in [Fires -> {"none", "running", "finished"}]
      /\ fire[f].s \in Scheds
    BY <1>1, OrderTyped DEF Inv, Types
<1>3. CASE fire' = [fire EXCEPT ![f].pc = "unrecorded"] /\ UNCHANGED <<runRow, row>>
    BY <1>1, <1>2, <1>3, StageStep DEF UnderWay, RunningStages
<1>4. CASE /\ runRow' = [runRow EXCEPT ![f] = "finished"]
           /\ row' = [row EXCEPT ![fire[f].s].last = f]
           /\ fire' = [fire EXCEPT ![f].pc = "release"]
    <2>1. PICK x \in FireStates : /\ fire' = [fire EXCEPT ![f] = x]
                                  /\ x.pc = "release" /\ x.s = fire[f].s
        BY <1>1, <1>4, GoState DEF UnderWay
    <2>2. /\ fire' \in [Fires -> FireStates] /\ fire'[f] = x
          /\ \A g \in Fires : g # f => fire'[g] = fire[g]
        BY <2>1, OneMoves
    <2>3. /\ \A g \in Fires : Holds(g)' <=> Holds(g)
          /\ \A g \in Fires : Holds(g) => fire'[g].s = fire[g].s
        BY <1>1, <2>1, <2>2 DEF Holds
    <2>4. MarkersAreFires'
        BY <1>1, <2>3, SameMarkers
    <2>5. /\ runRow' \in [Fires -> {"none", "running", "finished"}]
          /\ runRow'[f] = "finished" /\ \A g \in Fires : g # f => runRow'[g] = runRow[g]
        BY <1>2, <1>4
    <2>6. Recorded'
        BY <2>2, <2>5 DEF Inv, Recorded
    <2>7. /\ row' \in [Scheds -> Rows]
          /\ \A t \in Scheds : /\ Written(t)
                               /\ row'[t].enabled = row[t].enabled
                               /\ row'[t].next = row[t].next
        BY <1>2, <1>4, LastWritten
    <2>8. NextAgrees'
        BY <1>1, <2>7 DEF Inv, NextAgrees
    <2>9. Types'
        BY <1>1, <1>2, <2>2, <2>5, <2>7 DEF Inv, Types
    <2> QED
        BY <1>1, <2>4, <2>6, <2>7, <2>8, <2>9, RowWrites DEF Inv
<1> QED
    BY <1>3, <1>4 DEF FinishRun

LEMMA ReleaseStep == ASSUME Inv, NEW f \in Fires, Release(f) PROVE Inv'
<1>1. /\ fire[f].pc \in {"release", "unrecorded"}
      /\ inFlight' = inFlight \ {fire[f].s}
      /\ UNCHANGED <<now, kind, row, tick, runRow, agent, edit, edits, claims, restarts>>
    BY DEF Release
<1> DEFINE x == IF fire[f].pc = "release" THEN Over(fire[f].s) ELSE Lost(fire[f].s)
<1>2. fire' = [fire EXCEPT ![f] = x]
    BY DEF Release
<1>3. /\ x \in FireStates /\ x.pc \in {"over", "lost"}
      /\ fire[f].pc = "unrecorded" => x.pc = "lost"
    BY <1>1, OrderTyped DEF FireStates, Over, Lost
<1> HIDE DEF x
<1>4. /\ fire' \in [Fires -> FireStates] /\ fire'[f] = x
      /\ \A g \in Fires : g # f => fire'[g] = fire[g]
    BY <1>2, <1>3, OneMoves
<1>5. Marked' = Marked \ {f} /\ f \in Marked
    BY <1>1, <1>3, <1>4 DEF Marked
<1>6. \A g \in Marked' : g \in Marked /\ g # f /\ fire'[g].s = fire[g].s
    BY <1>4, <1>5 DEF Marked
<1>7. MarkersAreFires'
    <2>1. /\ inFlight = {fire[g].s : g \in Marked}
          /\ \A g, h \in Marked : g # h => fire[g].s # fire[h].s
        BY DEF Inv, MarkersAreFires
    <2>2. {fire'[g].s : g \in Marked'} = {fire[g].s : g \in Marked} \ {fire[f].s}
        BY <1>5, <1>6, <2>1
    <2>3. \A g, h \in Marked' : g # h => fire'[g].s # fire'[h].s
        BY <1>6, <2>1
    <2> QED
        BY <1>1, <2>1, <2>2, <2>3 DEF MarkersAreFires
<1>8. Recorded'
    <2>1. runRow[f] = "running" => x.pc \in RunningStages
        BY <1>1, <1>3 DEF Inv, Recorded, RunningStages
    <2> QED
        BY <1>1, <1>4, <2>1 DEF Inv, Recorded
<1>9. Types'
    BY <1>1, <1>4 DEF Inv, Types
<1> QED
    BY <1>1, <1>7, <1>8, <1>9, SameRow DEF Inv
-----------------------------------------------------------------------------
(* The claim. *)

\* A claimed row is disabled, or its next fire time is in the future.
LEMMA ClaimedTyped ==
    ASSUME Inv, NEW s \in Scheds
    PROVE  /\ ClaimedRow(s) \in Rows
           /\ ClaimedRow(s).enabled <=> ClaimedRow(s).next # NoTime
           /\ ClaimedRow(s).writes = row[s].writes
           /\ ClaimedRow(s).overtaken = row[s].overtaken
           /\ ClaimedRow(s).enabled => ClaimedRow(s).next > now
<1> DEFINE e == kind[s] # "once"
           n == ComputeNext(s, e, now)
           r == row[s]
           l == IF Missed(s) THEN NoFire ELSE r.last
<1>1. r \in Rows /\ kind[s] \in {"once", "recurring"} /\ now \in Nat
    BY Constants DEF Inv, Types
<1>2. e \in BOOLEAN /\ n \in Nat /\ (e <=> n # NoTime)
    BY <1>1, ComputeNextTyped DEF Inv, Types
<1>3. e => n > now
    <2>1. e => n = NextRun(s, now)
        BY DEF ComputeNext
    <2>2. e => NextRun(s, now) > now
        BY <1>1, NextRunLater DEF Inv, Types
    <2> QED
        BY <2>1, <2>2
<1>4. /\ ClaimedRow(s) = [r EXCEPT !.enabled = e, !.next = n, !.last = l]
      /\ l \in Fires \cup {NoFire}
    BY <1>1 DEF ClaimedRow, Rows
<1> HIDE DEF e, n, r, l
<1>5. /\ ClaimedRow(s) \in Rows
      /\ ClaimedRow(s).enabled = e /\ ClaimedRow(s).next = n /\ ClaimedRow(s).writes = r.writes
      /\ ClaimedRow(s).overtaken = r.overtaken
    BY <1>1, <1>2, <1>4 DEF Rows
<1> QED
    BY <1>2, <1>3, <1>5 DEF r

LEMMA ClaimStep == ASSUME Inv, ClaimDueSchedulers PROVE Inv'
<1>1. PICK D \in SUBSET Due :
        /\ row' = [s \in Scheds |-> IF s \in D THEN ClaimedRow(s) ELSE row[s]]
        /\ tick' = {[s |-> s, missed |-> Missed(s), snap |-> Snap(ClaimedRow(s))] : s \in D}
        /\ claims' = [s \in Scheds |->
                        IF s \in D THEN Append(claims[s], Occurrence(s)) ELSE claims[s]]
    BY DEF ClaimDueSchedulers
<1>2. UNCHANGED <<now, kind, inFlight, fire, runRow, agent, edit, edits, restarts>>
    BY DEF ClaimDueSchedulers
<1>3. \A s \in D : s \in Scheds /\ row[s].enabled /\ row[s].next <= now
    BY DEF Due, IsDue
<1>4. now \in Nat /\ row \in [Scheds -> Rows] /\ claims \in [Scheds -> Seq(Claims)]
    BY Constants DEF Inv, Types
<1>5. \A s \in D : /\ ClaimedRow(s) \in Rows
                   /\ ClaimedRow(s).enabled <=> ClaimedRow(s).next # NoTime
                   /\ ClaimedRow(s).writes = row[s].writes
                   /\ ClaimedRow(s).enabled => ClaimedRow(s).next > now
    BY <1>3, ClaimedTyped
<1>6. \A s \in D : Occurrence(s) \in Claims
    BY <1>3, <1>4 DEF Occurrence, Claims, Rows
<1>7. row' \in [Scheds -> Rows]
    BY <1>1, <1>4, <1>5
<1>8. tick' \subseteq [s: Scheds, missed: BOOLEAN, snap: Snaps]
    <2>1. \A s \in D : Missed(s) \in BOOLEAN
        BY DEF Missed
    <2>2. \A s \in D : Snap(ClaimedRow(s)) \in Snaps
        BY <1>5 DEF Snap, Snaps, Rows
    <2> QED
        BY <1>1, <1>3, <2>1, <2>2
<1>9. claims' \in [Scheds -> Seq(Claims)]
    <2>1. \A s \in D : Append(claims[s], Occurrence(s)) \in Seq(Claims)
        BY <1>3, <1>4, <1>6
    <2> QED
        BY <1>1, <1>4, <2>1
<1>10. Types'
    BY <1>2, <1>7, <1>8, <1>9 DEF Inv, Types
<1>11. NextAgrees'
    <2>1. \A s \in Scheds : row'[s].enabled <=> row'[s].next # NoTime
        BY <1>1, <1>5 DEF Inv, NextAgrees
    <2> QED
        BY <1>2, <2>1 DEF Inv, NextAgrees
<1>12. MarkersAreFires' /\ Recorded'
    BY <1>2 DEF Inv, MarkersAreFires, Marked, Recorded
<1>13. ASSUME NEW s \in Scheds, s \notin D
       PROVE  /\ \A i \in 1..Len(claims'[s]) : Behind(row'[s], claims'[s][i])
              /\ \A i, j \in 1..Len(claims'[s]) :
                    (i # j /\ claims'[s][i].at = claims'[s][j].at)
                       => claims'[s][i].writes # claims'[s][j].writes
    <2>1. claims'[s] = claims[s] /\ row'[s] = row[s]
        BY <1>1, <1>13
    <2> QED
        BY <2>1 DEF Inv, ClaimsBehind, Behind, EditedBetween
<1>14. ASSUME NEW s \in D
       PROVE  /\ \A i \in 1..Len(claims'[s]) : Behind(row'[s], claims'[s][i])
              /\ \A i, j \in 1..Len(claims'[s]) :
                    (i # j /\ claims'[s][i].at = claims'[s][j].at)
                       => claims'[s][i].writes # claims'[s][j].writes
    <2> DEFINE q == claims[s]
               c == Occurrence(s)
    <2>1. s \in Scheds /\ q \in Seq(Claims) /\ c \in Claims
        BY <1>3, <1>4, <1>6
    <2>2. claims'[s] = Append(q, c) /\ row'[s] = ClaimedRow(s)
        BY <1>1, <2>1
    <2>3. c.at = row[s].next /\ c.writes = row[s].writes
        BY DEF Occurrence
    <2>4. /\ row'[s].writes = row[s].writes /\ (row'[s].enabled => row'[s].next > now)
          /\ row'[s] \in Rows /\ row[s] \in Rows
        BY <1>4, <1>5, <2>1, <2>2
    <2>5. \A i \in 1..Len(q) : /\ q[i] \in Claims
                               /\ q[i].writes <= row[s].writes
                               /\ q[i].writes = row[s].writes => q[i].at < row[s].next
        BY <1>3, <2>1 DEF Inv, ClaimsBehind, Behind
    <2>6. \A i, j \in 1..Len(q) : (i # j /\ q[i].at = q[j].at) => q[i].writes # q[j].writes
        BY <2>1 DEF Inv, EditedBetween
    <2> HIDE DEF q, c
    <2>7. /\ Len(Append(q, c)) = Len(q) + 1 /\ Len(q) \in Nat
          /\ \A i \in 1..Len(q) : Append(q, c)[i] = q[i]
          /\ Append(q, c)[Len(q) + 1] = c
        BY <2>1
    <2>8. row[s].next <= now
        BY <1>3
    <2>9. \A i \in 1..Len(q) : i # Len(q) + 1
        BY <2>7
    <2>10. row[s].next \in Nat /\ row'[s].next \in Nat
        BY <2>4 DEF Rows
    <2>11. \A i \in 1..Len(claims'[s]) : Behind(row'[s], claims'[s][i])
        <3> SUFFICES ASSUME NEW i \in 1..Len(claims'[s])
                     PROVE  /\ claims'[s][i].writes <= row'[s].writes
                            /\ claims'[s][i].writes = row'[s].writes /\ row'[s].enabled
                                  => claims'[s][i].at < row'[s].next
            BY DEF Behind
        <3>1. CASE i = Len(q) + 1
            <4>1. claims'[s][i] = c
                BY <2>2, <2>7, <3>1
            <4>2. row[s].writes \in Nat
                BY <2>4 DEF Rows
            <4> QED
                BY <1>4, <2>3, <2>4, <2>8, <2>10, <4>1, <4>2
        <3>2. CASE i \in 1..Len(q)
            <4>1. claims'[s][i] = q[i]
                BY <2>2, <2>7, <3>2
            <4>2. q[i].at \in Nat
                BY <2>5, <3>2 DEF Claims
            <4> QED
                BY <1>4, <2>4, <2>5, <2>8, <2>10, <3>2, <4>1, <4>2, SMTT(60)
        <3> QED
            BY <2>2, <2>7, <3>1, <3>2
    <2>12. \A i, j \in 1..Len(claims'[s]) :
              (i # j /\ claims'[s][i].at = claims'[s][j].at)
                 => claims'[s][i].writes # claims'[s][j].writes
        <3>1. \A i \in 1..Len(q) : q[i].at = c.at => q[i].writes # c.writes
            <4>1. \A i \in 1..Len(q) : q[i].at \in Nat
                BY <2>5 DEF Claims
            <4> QED
                BY <2>3, <2>5, <2>10, <4>1
        <3> SUFFICES ASSUME NEW i \in 1..Len(claims'[s]), NEW j \in 1..Len(claims'[s]),
                            i # j, claims'[s][i].at = claims'[s][j].at
                     PROVE  claims'[s][i].writes # claims'[s][j].writes
            OBVIOUS
        <3>2. /\ i \in 1..Len(q) \/ i = Len(q) + 1
              /\ j \in 1..Len(q) \/ j = Len(q) + 1
            BY <2>2, <2>7
        <3>3. CASE i \in 1..Len(q) /\ j \in 1..Len(q)
            BY <2>2, <2>6, <2>7, <3>3
        <3>4. CASE i \in 1..Len(q) /\ j = Len(q) + 1
            BY <2>2, <2>7, <3>1, <3>4
        <3>5. CASE i = Len(q) + 1 /\ j \in 1..Len(q)
            BY <2>2, <2>7, <3>1, <3>5
        <3> QED
            BY <3>2, <3>3, <3>4, <3>5
    <2> QED
        BY <2>11, <2>12
<1>15. ClaimsBehind' /\ EditedBetween'
    <2>1. \A s \in Scheds : \A i \in 1..Len(claims'[s]) : Behind(row'[s], claims'[s][i])
        BY <1>13, <1>14
    <2>2. \A s \in Scheds : \A i, j \in 1..Len(claims'[s]) :
              (i # j /\ claims'[s][i].at = claims'[s][j].at)
                 => claims'[s][i].writes # claims'[s][j].writes
        BY <1>13, <1>14
    <2> QED
        BY <2>1, <2>2 DEF ClaimsBehind, EditedBetween
<1> QED
    BY <1>10, <1>11, <1>12, <1>15 DEF Inv

-----------------------------------------------------------------------------
(* Edits, deletes, restarts and the rest. *)

\* Steps that leave goroutines, markers and rows alone.
LEMMA SideStep ==
    ASSUME Inv, UNCHANGED <<row, claims, inFlight, fire, runRow>>, Types',
           edit'.pc = "computed" => (edit'.enabled <=> edit'.next # NoTime)
    PROVE  Inv'
<1>1. NextAgrees' /\ ClaimsBehind' /\ EditedBetween'
    BY DEF Inv, NextAgrees, ClaimsBehind, Behind, EditedBetween
<1>2. MarkersAreFires' /\ Recorded'
    BY DEF Inv, MarkersAreFires, Marked, Recorded
<1> QED
    BY <1>1, <1>2 DEF Inv

LEMMA OtherStep ==
    ASSUME Inv, Clock \/ SkipClaim \/ \E f \in Fires : RunEnds(f)
    PROVE  Inv'
<1>1. UNCHANGED <<row, claims, inFlight, fire, runRow, kind, edit, edits, restarts>>
    BY DEF Clock, SkipClaim, RunEnds
<1>2. now' \in 0..MaxTime
    BY Constants DEF Clock, SkipClaim, RunEnds, Inv, Types
<1>3. tick' \subseteq tick
    BY DEF Clock, SkipClaim, RunEnds
<1>4. agent' \in [Fires -> {"none", "live", "done"}]
    BY DEF Clock, SkipClaim, RunEnds, Inv, Types
<1>5. Types'
    BY <1>1, <1>2, <1>3, <1>4 DEF Inv, Types
<1> QED
    BY <1>1, <1>5, SideStep DEF Inv, NextAgrees

LEMMA PatchReadStep == ASSUME Inv, NEW s \in Scheds, PatchRead(s) PROVE Inv'
<1>1. PICK e \in BOOLEAN :
        edit' = [pc |-> "read", s |-> s, snap |-> Snap(row[s]), enabled |-> e]
    BY DEF PatchRead
<1>2. /\ UNCHANGED <<now, kind, row, tick, inFlight, fire, runRow, agent, claims, restarts>>
      /\ edits < MaxEdits /\ edits' = edits + 1
    BY DEF PatchRead
<1>3. Snap(row[s]) \in Snaps
    BY DEF Inv, Types, Rows, Snap, Snaps
<1>4. edit' \in EditStates /\ edit'.pc = "read"
    BY <1>1, <1>3 DEF EditStates
<1>5. edits' \in 0..MaxEdits
    BY <1>2, Constants DEF Inv, Types
<1>6. Types'
    BY <1>2, <1>4, <1>5 DEF Inv, Types
<1> QED
    BY <1>2, <1>4, <1>6, SideStep

LEMMA PatchComputeStep == ASSUME Inv, PatchCompute PROVE Inv'
<1> DEFINE n == ComputeNext(edit.s, edit.enabled, now)
<1>1. /\ UNCHANGED <<now, kind, row, tick, inFlight, fire, runRow, agent, edits, claims, restarts>>
      /\ edit.pc = "read"
      /\ edit' = [pc |-> "computed", s |-> edit.s, snap |-> edit.snap, enabled |-> edit.enabled,
                  next |-> n, claimed |-> Len(claims[edit.s])]
    BY DEF PatchCompute
<1>2. edit \in [pc: {"read"}, s: Scheds, snap: Snaps, enabled: BOOLEAN]
    BY <1>1 DEF Inv, Types, EditStates, Idle
<1>3. n \in Nat /\ (edit.enabled <=> n # NoTime)
    <2>1. now \in Nat /\ kind \in [Scheds -> {"once", "recurring"}]
        BY Constants DEF Inv, Types
    <2> QED
        BY <1>2, <2>1, ComputeNextTyped
<1> HIDE DEF n
<1>4. /\ edit' \in [pc: {"computed"}, s: Scheds, snap: Snaps, enabled: BOOLEAN, next: Nat,
                    claimed: Nat]
      /\ edit'.enabled = edit.enabled /\ edit'.next = n
    <2>1. Len(claims[edit.s]) \in Nat
        BY <1>2 DEF Inv, Types
    <2> QED
        BY <1>1, <1>2, <1>3, <2>1
<1>5. Types'
    BY <1>1, <1>4 DEF Inv, Types, EditStates
<1> QED
    BY <1>1, <1>3, <1>4, <1>5, SideStep

LEMMA PatchWriteStep == ASSUME Inv, PatchWrite PROVE Inv'
<1>1. /\ UNCHANGED <<now, kind, tick, inFlight, fire, runRow, agent, edits, claims, restarts>>
      /\ edit.pc = "computed" /\ edit' = Idle
    BY DEF PatchWrite
<1>2. edit \in [pc: {"computed"}, s: Scheds, snap: Snaps, enabled: BOOLEAN, next: Nat,
                claimed: Nat]
    BY <1>1 DEF Inv, Types, EditStates, Idle
<1>3. edit.enabled <=> edit.next # NoTime
    BY <1>1 DEF Inv, NextAgrees
<1>4. row \in [Scheds -> Rows]
    BY DEF Inv, Types
<1> DEFINE s == edit.s
           r == row[s]
           e == edit.enabled
           n == edit.next
           l == edit.snap.last
           w == r.writes + 1
           o == IF Overtaken THEN r.overtaken + 1 ELSE r.overtaken
           m == IF edit.enabled /\ ~edit.snap.enabled THEN r.resumes + 1 ELSE r.resumes
           p == Patched(r)
<1>5. s \in Scheds /\ r \in Rows /\ w \in Nat /\ o \in Nat /\ m \in Nat
    <2>1. s \in Scheds /\ r \in Rows
        BY <1>2, <1>4
    <2>2. r.writes \in Nat /\ r.overtaken \in Nat /\ r.resumes \in Nat
        BY <2>1 DEF Rows
    <2> QED
        BY <2>1, <2>2
<1>6. row' = row \/ row' = [row EXCEPT ![s] = p]
    BY DEF PatchWrite
<1>7. p \in Rows /\ p.enabled = e /\ p.next = n /\ p.writes = w
    <2>1. e \in BOOLEAN /\ n \in Nat /\ l \in Fires \cup {NoFire}
        BY <1>2 DEF Snaps
    <2>2. p = [r EXCEPT !.enabled = e, !.next = n, !.last = l, !.writes = w,
                      !.overtaken = o, !.resumes = m]
        BY DEF Patched
    <2> HIDE DEF r, e, n, l, w, o, m, p
    <2> QED
        BY <1>5, <2>1, <2>2 DEF Rows
<1>8. r.writes \in Nat /\ w = r.writes + 1
    BY <1>5 DEF Rows
<1> HIDE DEF w, o, m, p
<1>9. /\ row' \in [Scheds -> Rows]
      /\ \A t \in Scheds : row'[t] = row[t] \/ (t = s /\ row'[t] = p)
    BY <1>4, <1>5, <1>6, <1>7
<1>10. \A t \in Scheds : row[t].writes \in Nat
    BY <1>4 DEF Rows
<1>11. \A t \in Scheds : Written(t)
    BY <1>7, <1>8, <1>9, <1>10 DEF Written
<1>12. NextAgrees'
    <2>1. \A t \in Scheds : row'[t].enabled <=> row'[t].next # NoTime
        BY <1>3, <1>7, <1>9 DEF Inv, NextAgrees
    <2> QED
        BY <1>1, <2>1 DEF NextAgrees, Idle
<1>13. Types'
    BY <1>1, <1>9 DEF Inv, Types, EditStates
<1>14. MarkersAreFires' /\ Recorded'
    BY <1>1 DEF Inv, MarkersAreFires, Marked, Recorded
<1> QED
    BY <1>1, <1>9, <1>11, <1>12, <1>13, <1>14, RowWrites DEF Inv

LEMMA DeleteStep == ASSUME Inv, NEW s \in Scheds, DeleteScheduler(s) PROVE Inv'
<1>1. /\ UNCHANGED <<now, kind, tick, inFlight, fire, agent, edit, claims, restarts>>
      /\ edits < MaxEdits /\ edits' = edits + 1
      /\ row' = [row EXCEPT ![s].exists = FALSE, ![s].last = NoFire]
      /\ runRow' = [f \in Fires |-> IF fire[f] # Idle /\ fire[f].s = s
                                    THEN "none" ELSE runRow[f]]
    BY DEF DeleteScheduler
<1>2. row \in [Scheds -> Rows] /\ edits' \in 0..MaxEdits
    BY <1>1, Constants DEF Inv, Types
<1>3. \A t \in Scheds : row'[t] = IF t = s THEN [row[t] EXCEPT !.exists = FALSE, !.last = NoFire]
                                  ELSE row[t]
    BY <1>1, <1>2
<1>4. \A t \in Scheds : /\ row'[t] \in Rows /\ row'[t].enabled = row[t].enabled
                        /\ row'[t].next = row[t].next /\ row'[t].writes = row[t].writes
                        /\ row[t].writes \in Nat
    BY <1>2, <1>3, ZenonT(60) DEF Rows
<1>5. row' \in [Scheds -> Rows] /\ \A t \in Scheds : Written(t)
    BY <1>1, <1>2, <1>4 DEF Written
<1>6. NextAgrees'
    BY <1>1, <1>4 DEF Inv, NextAgrees
<1>7. /\ runRow' \in [Fires -> {"none", "running", "finished"}]
      /\ \A f \in Fires : runRow'[f] = "running" => runRow[f] = "running"
    BY <1>1 DEF Inv, Types
<1>8. Recorded'
    BY <1>1, <1>7 DEF Inv, Recorded
<1>9. MarkersAreFires'
    BY <1>1 DEF Inv, MarkersAreFires, Marked
<1>10. Types'
    BY <1>1, <1>2, <1>5, <1>7 DEF Inv, Types
<1> QED
    BY <1>1, <1>5, <1>6, <1>8, <1>9, <1>10, RowWrites DEF Inv

LEMMA RestartStep == ASSUME Inv, Restart PROVE Inv'
<1>1. /\ UNCHANGED <<now, kind, row, runRow, edits, claims>>
      /\ restarts < MaxRestarts /\ restarts' = restarts + 1
      /\ tick' = {} /\ inFlight' = {} /\ edit' = Idle
      /\ fire' = [f \in Fires |-> IF fire[f].pc \in {"idle", "over"} THEN fire[f]
                                  ELSE Lost(fire[f].s)]
      /\ agent' = [f \in Fires |-> IF agent[f] = "live" THEN "done" ELSE agent[f]]
    BY DEF Restart
<1>2. \A f \in Fires : fire'[f] \in FireStates
    <2> SUFFICES ASSUME NEW f \in Fires PROVE fire'[f] \in FireStates
        OBVIOUS
    <2>1. CASE fire[f].pc \in {"idle", "over"}
        BY <1>1, <2>1 DEF Inv, Types
    <2>2. CASE fire[f].pc \notin {"idle", "over"}
        BY <1>1, <2>2, OrderTyped DEF Lost, FireStates
    <2> QED
        BY <2>1, <2>2
<1>3. \A f \in Fires : fire'[f].pc \in {"idle", "over", "lost"}
    BY <1>1 DEF Lost
<1>4. \A f \in Fires : fire[f].pc \in RunningStages => fire'[f].pc = "lost"
    BY <1>1 DEF Lost, RunningStages
<1>5. Types'
    BY <1>1, <1>2, Constants DEF Inv, Types, EditStates
<1>6. MarkersAreFires'
    <2>1. Marked' = {}
        BY <1>3 DEF Marked
    <2> QED
        BY <1>1, <2>1 DEF MarkersAreFires
<1>7. Recorded'
    BY <1>1, <1>4 DEF Inv, Recorded, RunningStages
<1>8. NextAgrees' /\ ClaimsBehind' /\ EditedBetween'
    BY <1>1 DEF Inv, NextAgrees, ClaimsBehind, Behind, EditedBetween, Idle
<1> QED
    BY <1>5, <1>6, <1>7, <1>8 DEF Inv

LEMMA NextStep == Inv /\ [Next]_vars => Inv'
<1> SUFFICES ASSUME Inv, [Next]_vars PROVE Inv'
    OBVIOUS
<1>1. CASE UNCHANGED vars
    <2>1. Types'
        BY <1>1 DEF vars, Inv, Types
    <2> QED
        BY <1>1, <2>1, SideStep DEF vars, Inv, NextAgrees
<1>2. CASE Clock \/ ClaimDueSchedulers \/ SkipClaim \/ \E f \in Fires : RunEnds(f)
    BY <1>2, ClaimStep, OtherStep
<1>3. ASSUME NEW f \in Fires, FireStep(f) PROVE Inv'
    BY <1>3, DispatchStep, RecordMissedStep, FinishMissedStep, MarkManualStep,
       AcquireStep, StartRunStep, PreflightStep, PauseStep, SubmitStep, WatchdogStep, DrainRunStep, FinishRunStep,
       ReleaseStep DEF FireStep
<1>4. ASSUME NEW f \in Fires, NEW s \in Scheds, RunNow(f, s) PROVE Inv'
    BY <1>4, RunNowStep
<1>5. ASSUME NEW s \in Scheds, PatchRead(s) \/ DeleteScheduler(s) PROVE Inv'
    BY <1>5, PatchReadStep, DeleteStep
<1>6. CASE PatchCompute \/ PatchWrite \/ Restart
    BY <1>6, PatchComputeStep, PatchWriteStep, RestartStep
<1> QED
    BY <1>1, <1>2, <1>3, <1>4, <1>5, <1>6 DEF Next
-----------------------------------------------------------------------------
(* What an edit overtakes: the second half of ClaimOnce. *)

\* Writing the mirror of the last run changes nothing else.
LEMMA LastField ==
    ASSUME NEW r \in Rows, NEW v
    PROVE  /\ [r EXCEPT !.last = v].exists = r.exists
           /\ [r EXCEPT !.last = v].enabled = r.enabled
           /\ [r EXCEPT !.last = v].next = r.next
           /\ [r EXCEPT !.last = v].overtaken = r.overtaken
<1>1. DOMAIN r = {"exists", "enabled", "next", "last", "writes", "overtaken", "resumes"}
    BY DEF Rows
<1> QED
    BY <1>1, Zenon

\* Between claims and edits an order is disabled or keeps its schedule.
LEMMA ScheduleStays ==
    ASSUME Inv, [Next]_vars, ~ClaimDueSchedulers, ~PatchWrite
    PROVE  \A s \in Scheds : /\ row'[s].enabled => row[s].enabled /\ row'[s].next = row[s].next
                             /\ row'[s].overtaken = row[s].overtaken
<1> DEFINE Kept == \A s \in Scheds :
                     /\ row'[s].enabled => row[s].enabled /\ row'[s].next = row[s].next
                     /\ row'[s].overtaken = row[s].overtaken
<1>0. row \in [Scheds -> Rows]
    BY DEF Inv, Types
<1>1. CASE UNCHANGED row
    BY <1>1
<1>2. ASSUME NEW s \in Scheds, NEW f \in Fires, row' = [row EXCEPT ![s].last = f] PROVE Kept
    <2>1. \A t \in Scheds : row'[t] = IF t = s THEN [row[t] EXCEPT !.last = f] ELSE row[t]
        BY <1>0, <1>2
    <2>2. ASSUME NEW t \in Scheds
          PROVE  /\ row'[t].exists = row[t].exists /\ row'[t].enabled = row[t].enabled
                 /\ row'[t].next = row[t].next /\ row'[t].overtaken = row[t].overtaken
        <3>1. CASE row'[t] = row[t]
            BY <3>1
        <3>2. CASE row'[t] = [row[t] EXCEPT !.last = f]
            <4> DEFINE q == [row[t] EXCEPT !.last = f]
            <4>1. /\ q.exists = row[t].exists /\ q.enabled = row[t].enabled
                  /\ q.next = row[t].next /\ q.overtaken = row[t].overtaken
                BY <1>0, LastField
            <4> QED
                BY <3>2, <4>1
        <3> QED
            BY <2>1, <3>1, <3>2
    <2> QED
        BY <2>2
<1>3. ASSUME NEW f \in Fires, FinishMissed(f) \/ FinishRun(f) PROVE Kept
    <2>1. row' = row \/ row' = [row EXCEPT ![fire[f].s].last = f]
        BY <1>3 DEF FinishMissed, FinishRun
    <2>2. fire[f].s \in Scheds
        BY <1>3, OrderTyped DEF FinishMissed, FinishRun
    <2> QED
        BY <1>1, <1>2, <2>1, <2>2
<1>5. ASSUME NEW f \in Fires, Pause(f) PROVE Kept
    <2>1. row' = row \/ row' = [row EXCEPT ![fire[f].s] = PausedRow(f)]
        BY <1>5 DEF Pause
    <2>2. /\ fire[f].s \in Scheds /\ fire[f].snap.last \in Fires \cup {NoFire}
          /\ row[fire[f].s] \in Rows
        BY <1>0, <1>5, UnderWayTyped DEF Pause, UnderWay, Snaps
    <2>3. PausedRow(f).enabled = FALSE /\ PausedRow(f).overtaken = row[fire[f].s].overtaken
        BY <2>2, PausedFields DEF PausedRow
    <2>4. \A s \in Scheds : \/ row'[s] = row[s]
                            \/ s = fire[f].s /\ row'[s] = PausedRow(f)
        BY <1>0, <2>1, <2>2
    <2> QED
        BY <2>3, <2>4
<1>6. ASSUME NEW t \in Scheds, DeleteScheduler(t) PROVE Kept
    <2>1. row' = [row EXCEPT ![t].exists = FALSE, ![t].last = NoFire]
        BY <1>6 DEF DeleteScheduler
    <2>2. \A s \in Scheds : row'[s] = IF s = t THEN [row[s] EXCEPT !.exists = FALSE, !.last = NoFire]
                                      ELSE row[s]
        BY <1>0, <2>1
    <2>3. \A s \in Scheds : /\ row'[s].enabled = row[s].enabled /\ row'[s].next = row[s].next
                            /\ row'[s].overtaken = row[s].overtaken
        BY <1>0, <2>2, ZenonT(60) DEF Rows
    <2> QED
        BY <2>3
<1>7. ASSUME NEW f \in Fires, FireStep(f) \/ RunEnds(f)
      PROVE  \/ FinishMissed(f) \/ FinishRun(f) \/ Pause(f) \/ UNCHANGED row
    BY <1>7 DEF FireStep, RunEnds, Dispatch, RecordMissed, MarkManual, Acquire, StartRun,
                Preflight, Submit, Watchdog, DrainRun, Release
<1>8. \/ \E f \in Fires : FireStep(f) \/ RunEnds(f)
      \/ \E t \in Scheds : DeleteScheduler(t)
      \/ UNCHANGED row
    BY DEF Next, vars, Clock, SkipClaim, RunNow, PatchRead, PatchCompute, Restart
<1> QED
    BY <1>1, <1>3, <1>5, <1>6, <1>7, <1>8

(* A claimed instant is not after the clock; it is behind its row if no    *)
(* claim has overtaken an edit of that row since, and behind an edit that  *)
(* no claim has overtaken yet.                                             *)
Passed(s, i) ==
    LET c == claims[s][i]
    IN  /\ c.at <= now /\ c.overtaken <= row[s].overtaken
        /\ c.overtaken = row[s].overtaken /\ row[s].enabled => c.at < row[s].next

OvertakenBetween(s) ==
    \A i, j \in 1..Len(claims[s]) :
        (i # j /\ claims[s][i].at = claims[s][j].at)
            => claims[s][i].overtaken # claims[s][j].overtaken

EditAhead ==
    edit.pc = "computed" =>
        /\ edit.claimed <= Len(claims[edit.s])
        /\ kind[edit.s] = "recurring" /\ edit.enabled /\ ~Overtaken =>
              \A i \in 1..Len(claims[edit.s]) : claims[edit.s][i].at < edit.next

Overtakings ==
    /\ \A s \in Scheds : kind[s] = "recurring" =>
          OvertakenBetween(s) /\ \A i \in 1..Len(claims[s]) : Passed(s, i)
    /\ EditAhead

LEMMA NoneOvertaken ==
    ASSUME Inv, Overtakings, UNCHANGED <<claims, kind>>, now' \in Nat, now <= now', EditAhead',
           \A s \in Scheds : /\ row'[s].enabled => row[s].enabled /\ row'[s].next = row[s].next
                             /\ row'[s].overtaken = row[s].overtaken
    PROVE  Overtakings'
<1>1. \A s \in Scheds : OvertakenBetween(s) => OvertakenBetween(s)'
    BY DEF OvertakenBetween
<1>2. ASSUME NEW s \in Scheds, NEW i \in 1..Len(claims[s]), Passed(s, i)
      PROVE  Passed(s, i)'
    <2>1. claims[s][i] \in Claims /\ now \in Nat
        BY Constants DEF Inv, Types
    <2> QED
        BY <1>2, <2>1 DEF Passed, Claims
<1> QED
    BY <1>1, <1>2 DEF Overtakings

LEMMA OvertakingsClaim == ASSUME Inv, Overtakings, ClaimDueSchedulers PROVE Overtakings'
<1>1. PICK D \in SUBSET Due :
        /\ row' = [s \in Scheds |-> IF s \in D THEN ClaimedRow(s) ELSE row[s]]
        /\ claims' = [s \in Scheds |->
                        IF s \in D THEN Append(claims[s], Occurrence(s)) ELSE claims[s]]
    BY DEF ClaimDueSchedulers
<1>2. UNCHANGED <<now, kind, edit>>
    BY DEF ClaimDueSchedulers
<1>3. now \in Nat /\ row \in [Scheds -> Rows] /\ claims \in [Scheds -> Seq(Claims)]
    BY Constants DEF Inv, Types
<1>4. ASSUME NEW s \in Scheds, s \notin D, kind[s] = "recurring"
      PROVE  OvertakenBetween(s)' /\ \A i \in 1..Len(claims'[s]) : Passed(s, i)'
    <2>1. claims'[s] = claims[s] /\ row'[s] = row[s]
        BY <1>1, <1>4
    <2> QED
        BY <1>2, <1>4, <2>1 DEF Overtakings, OvertakenBetween, Passed
<1>5. ASSUME NEW s \in D, kind[s] = "recurring"
      PROVE  OvertakenBetween(s)' /\ \A i \in 1..Len(claims'[s]) : Passed(s, i)'
    <2> DEFINE q == claims[s]
               c == Occurrence(s)
               n == Len(q)
    <2>1. s \in Scheds /\ row[s].enabled /\ row[s].next <= now
        BY DEF Due, IsDue
    <2>2. /\ q \in Seq(Claims) /\ c.at = row[s].next /\ c.overtaken = row[s].overtaken
          /\ row[s].next \in Nat /\ row[s].overtaken \in Nat
        BY <1>3, <2>1 DEF Occurrence, Rows
    <2>3. claims'[s] = Append(q, c) /\ row'[s] = ClaimedRow(s)
        BY <1>1, <2>1
    <2>4. /\ row'[s].overtaken = row[s].overtaken /\ row'[s].next \in Nat
          /\ row'[s].enabled => row'[s].next > now
        BY <2>1, <2>3, ClaimedTyped DEF Rows
    <2>5. \A i \in 1..n : /\ q[i].at \in Nat /\ q[i].overtaken \in Nat /\ q[i].at <= now
                          /\ q[i].overtaken <= row[s].overtaken
                          /\ q[i].overtaken = row[s].overtaken => q[i].at < row[s].next
        <3> TAKE i \in 1..n
        <3>1. q[i] \in Claims /\ Passed(s, i)
            BY <1>5, <2>1, <2>2 DEF Overtakings
        <3> QED
            BY <2>1, <3>1 DEF Passed, Claims
    <2>6. \A i, j \in 1..n : (i # j /\ q[i].at = q[j].at) => q[i].overtaken # q[j].overtaken
        BY <1>5, <2>1 DEF Overtakings, OvertakenBetween
    <2> HIDE DEF q, c
    <2>7. /\ n \in Nat /\ Len(Append(q, c)) = n + 1
          /\ \A i \in 1..n : Append(q, c)[i] = q[i] /\ i # n + 1
          /\ Append(q, c)[n + 1] = c
        BY <2>2
    <2> HIDE DEF n
    <2>8. \A i \in 1..n : q[i].at = c.at => q[i].overtaken # c.overtaken
        BY <2>2, <2>5
    <2>9. \A i \in 1..Len(claims'[s]) : i \in 1..n \/ i = n + 1
        BY <2>3, <2>7
    <2>10. OvertakenBetween(s)'
        <3> SUFFICES ASSUME NEW i \in 1..Len(claims'[s]), NEW j \in 1..Len(claims'[s]),
                            i # j, claims'[s][i].at = claims'[s][j].at
                     PROVE  claims'[s][i].overtaken # claims'[s][j].overtaken
            BY DEF OvertakenBetween
        <3>1. CASE i \in 1..n /\ j \in 1..n
            BY <2>3, <2>6, <2>7, <3>1
        <3>2. CASE i \in 1..n /\ j = n + 1
            BY <2>3, <2>7, <2>8, <3>2
        <3>3. CASE i = n + 1 /\ j \in 1..n
            BY <2>3, <2>7, <2>8, <3>3
        <3> QED
            BY <2>9, <3>1, <3>2, <3>3
    <2>11. ASSUME NEW i \in 1..Len(claims'[s])
           PROVE  Passed(s, i)'
        <3> DEFINE d == claims'[s][i]
        <3>1. /\ d.at \in Nat /\ d.at <= now /\ d.overtaken <= row[s].overtaken
            <4>1. CASE i \in 1..n
                BY <2>3, <2>5, <2>7, <4>1
            <4>2. CASE i = n + 1
                BY <2>1, <2>2, <2>3, <2>7, <4>2
            <4> QED
                BY <2>9, <4>1, <4>2
        <3> HIDE DEF d
        <3>2. row'[s].enabled => d.at < row'[s].next
            BY <1>3, <2>4, <3>1
        <3> QED
            BY <1>2, <2>4, <3>1, <3>2 DEF Passed, d
    <2> QED
        BY <2>10, <2>11
<1>6. EditAhead'
    <2> SUFFICES ASSUME edit.pc = "computed"
                 PROVE  /\ edit.claimed <= Len(claims'[edit.s])
                        /\ kind[edit.s] = "recurring" /\ edit.enabled /\ ~Overtaken' =>
                              \A i \in 1..Len(claims'[edit.s]) : claims'[edit.s][i].at < edit.next
        BY <1>2 DEF EditAhead
    <2> DEFINE s == edit.s
    <2>1. s \in Scheds /\ edit.claimed \in Nat
        BY DEF Inv, Types, EditStates, Idle
    <2>2. edit.claimed <= Len(claims[s]) /\ Len(claims[s]) \in Nat
        BY <1>3, <2>1 DEF Overtakings, EditAhead
    <2>3. CASE s \in D
        <3>1. claims'[s] = Append(claims[s], Occurrence(s))
            BY <1>1, <2>1, <2>3
        <3>2. Len(claims'[s]) = Len(claims[s]) + 1
            BY <1>3, <2>1, <3>1
        <3>3. Overtaken'
            BY <1>2, <2>1, <2>2, <3>2 DEF Overtaken
        <3> QED
            BY <2>1, <2>2, <3>2, <3>3
    <2>4. CASE s \notin D
        <3>1. claims'[s] = claims[s]
            BY <1>1, <2>1, <2>4
        <3> QED
            BY <1>2, <3>1 DEF Overtakings, EditAhead, Overtaken
    <2> QED
        BY <2>3, <2>4
<1> QED
    BY <1>2, <1>4, <1>5, <1>6 DEF Overtakings

LEMMA OvertakingsWrite == ASSUME Inv, Overtakings, PatchWrite PROVE Overtakings'
<1>1. /\ UNCHANGED <<now, kind, claims>> /\ edit.pc = "computed" /\ edit' = Idle
    BY DEF PatchWrite
<1>2. /\ edit \in [pc: {"computed"}, s: Scheds, snap: Snaps, enabled: BOOLEAN, next: Nat,
                   claimed: Nat]
      /\ row \in [Scheds -> Rows] /\ claims \in [Scheds -> Seq(Claims)] /\ now \in Nat
    BY <1>1, Constants DEF Inv, Types, EditStates, Idle
<1> DEFINE u == edit.s
           p == Patched(row[u])
<1>3. \A s \in Scheds : row'[s] = row[s] \/ (s = u /\ row'[s] = p)
    BY <1>2 DEF PatchWrite
<1>4. /\ u \in Scheds /\ row[u] \in Rows /\ p.enabled = edit.enabled /\ p.next = edit.next
      /\ p.overtaken = IF Overtaken THEN row[u].overtaken + 1 ELSE row[u].overtaken
    BY <1>2 DEF Patched, Rows
<1>5. EditAhead'
    BY <1>1 DEF EditAhead, Idle
<1>6. \A s \in Scheds : OvertakenBetween(s) => OvertakenBetween(s)'
    BY <1>1 DEF OvertakenBetween
<1> HIDE DEF u, p
<1>7. ASSUME NEW s \in Scheds, kind[s] = "recurring", NEW i \in 1..Len(claims[s])
      PROVE  Passed(s, i)'
    <2>1. /\ Passed(s, i) /\ claims[s][i].at \in Nat /\ claims[s][i].overtaken \in Nat
          /\ row[s].overtaken \in Nat
        <3>1. Passed(s, i) /\ claims[s][i] \in Claims /\ row[s] \in Rows
            BY <1>2, <1>7 DEF Overtakings
        <3> QED
            BY <3>1 DEF Claims, Rows
    <2>2. CASE row'[s] = row[s]
        BY <1>1, <2>1, <2>2 DEF Passed
    <2>3. CASE s = u /\ row'[s] = p /\ Overtaken
        BY <1>1, <1>4, <2>1, <2>3 DEF Passed
    <2>4. CASE s = u /\ row'[s] = p /\ ~Overtaken
        <3>1. edit.enabled => claims[s][i].at < edit.next
            BY <1>1, <1>7, <2>4 DEF Overtakings, EditAhead, u
        <3> QED
            BY <1>1, <1>4, <2>1, <2>4, <3>1 DEF Passed
    <2> QED
        BY <1>3, <2>2, <2>3, <2>4
<1> QED
    BY <1>1, <1>5, <1>6, <1>7 DEF Overtakings

LEMMA OvertakingsCompute == ASSUME Inv, Overtakings, PatchCompute PROVE Overtakings'
<1>1. /\ UNCHANGED <<now, kind, row, claims>> /\ edit.pc = "read"
      /\ edit' = [pc |-> "computed", s |-> edit.s, snap |-> edit.snap, enabled |-> edit.enabled,
                  next |-> ComputeNext(edit.s, edit.enabled, now),
                  claimed |-> Len(claims[edit.s])]
    BY DEF PatchCompute
<1>2. edit.s \in Scheds /\ claims \in [Scheds -> Seq(Claims)] /\ now \in Nat
    BY <1>1, Constants DEF Inv, Types, EditStates, Idle
<1>3. EditAhead'
    <2> DEFINE s == edit.s
    <2>1. Len(claims[s]) \in Nat
        BY <1>2
    <2>2. ASSUME kind[s] = "recurring", edit.enabled, NEW i \in 1..Len(claims[s])
          PROVE  claims[s][i].at < ComputeNext(s, edit.enabled, now)
        <3>1. claims[s][i].at <= now /\ claims[s][i].at \in Nat
            <4>1. Passed(s, i) /\ claims[s][i] \in Claims
                BY <1>2, <2>2 DEF Overtakings
            <4> QED
                BY <4>1 DEF Passed, Claims
        <3>2. NextRun(s, now) \in Nat /\ NextRun(s, now) > now
            BY <1>2, <2>2, NextRunLater DEF Inv, Types
        <3>3. ComputeNext(s, edit.enabled, now) = NextRun(s, now)
            BY <2>2 DEF ComputeNext
        <3> QED
            BY <1>2, <3>1, <3>2, <3>3
    <2> QED
        BY <1>1, <2>1, <2>2 DEF EditAhead
<1> QED
    BY <1>1, <1>2, <1>3, NoneOvertaken

LEMMA OvertakingsStep == Inv /\ Overtakings /\ [Next]_vars => Overtakings'
<1> SUFFICES ASSUME Inv, Overtakings, [Next]_vars PROVE Overtakings'
    OBVIOUS
<1>1. CASE ClaimDueSchedulers \/ PatchWrite \/ PatchCompute
    BY <1>1, OvertakingsClaim, OvertakingsWrite, OvertakingsCompute
<1>2. CASE ~ClaimDueSchedulers /\ ~PatchWrite /\ ~PatchCompute
    <2>1. ASSUME NEW f \in Fires, FireStep(f) \/ RunEnds(f)
          PROVE  UNCHANGED <<now, kind, edit, claims>>
        BY <2>1 DEF FireStep, RunEnds, RecordMissed, FinishMissed, FinishRun, Pause,
                        Dispatch, MarkManual, Acquire, StartRun, Preflight, Submit, Watchdog, DrainRun, Release
    <2>2. \/ Clock \/ SkipClaim \/ Restart \/ UNCHANGED vars
          \/ \E f \in Fires : FireStep(f) \/ RunEnds(f)
          \/ \E f \in Fires, s \in Scheds : RunNow(f, s)
          \/ \E s \in Scheds : PatchRead(s) \/ DeleteScheduler(s)
        BY <1>2 DEF Next
    <2>3. /\ UNCHANGED <<claims, kind>> /\ (now' = now \/ now' = now + 1)
          /\ edit' = edit \/ edit'.pc # "computed"
        <3> DEFINE Goal == /\ UNCHANGED <<claims, kind>> /\ (now' = now \/ now' = now + 1)
                           /\ edit' = edit \/ edit'.pc # "computed"
        <3>1. Clock => Goal
            BY DEF Clock
        <3>2. SkipClaim => Goal
            BY DEF SkipClaim
        <3>3. Restart => Goal
            BY DEF Restart, Idle
        <3>4. UNCHANGED vars => Goal
            BY DEF vars
        <3>5. ASSUME NEW f \in Fires, FireStep(f) \/ RunEnds(f) PROVE Goal
            BY <2>1, <3>5
        <3>6. ASSUME NEW f \in Fires, NEW s \in Scheds, RunNow(f, s) PROVE Goal
            BY <3>6 DEF RunNow
        <3>7. ASSUME NEW s \in Scheds, PatchRead(s) PROVE Goal
            BY <3>7 DEF PatchRead
        <3>8. ASSUME NEW s \in Scheds, DeleteScheduler(s) PROVE Goal
            BY <3>8 DEF DeleteScheduler
        <3> HIDE DEF Goal
        <3>9. Goal
            BY <2>2, <3>1, <3>2, <3>3, <3>4, <3>5, <3>6, <3>7, <3>8
        <3> QED
            BY <3>9 DEF Goal
    <2>4. EditAhead'
        BY <2>3 DEF Overtakings, EditAhead, Overtaken
    <2>5. now \in Nat
        BY Constants DEF Inv, Types
    <2> QED
        BY <1>2, <2>3, <2>4, <2>5, ScheduleStays, NoneOvertaken
<1> QED
    BY <1>1, <1>2

-----------------------------------------------------------------------------
(* The refinement of SingleFlight. *)

\* A run row is opened by StartRun and by nothing before it.
Unopened ==
    \A f \in Fires : fire[f].pc \in {"idle", "asked", "queued", "start"} => runRow[f] = "none"

\* One goroutine moves to x, and only its own run row may change with it.
LEMMA UnopenedMove ==
    ASSUME Inv, Unopened, NEW f \in Fires, NEW x \in FireStates,
           fire' = [fire EXCEPT ![f] = x],
           \A g \in Fires : g # f => runRow'[g] = runRow[g],
           x.pc \in {"idle", "asked", "queued", "start"} =>
              runRow'[f] = runRow[f] /\ fire[f].pc \in {"idle", "asked", "queued", "start"}
    PROVE  Unopened'
BY OneMoves DEF Unopened

\* The moves of a goroutine, for any purpose that needs only their ends.
Later == {"preflight", "pause", "submit", "drain", "finish", "release", "unrecorded"}

LEMMA StateIs ==
    ASSUME Inv, NEW f \in Fires
    PROVE  /\ fire[f].pc \in UnderWay \cup {"idle", "late", "over", "lost"}
           /\ fire[f].pc = "idle" <=> fire[f] = Idle
           /\ fire[f].pc \in {"late", "over", "lost"} => fire[f].s \in Scheds
<1>1. fire[f] \in FireStates
    BY DEF Inv, Types
<1> QED
    BY <1>1 DEF FireStates, UnderWay, Idle

LEMMA MoveEnds ==
    ASSUME Inv, NEW f \in Fires, FireStep(f)
    PROVE  \E x \in FireStates :
              /\ fire' = [fire EXCEPT ![f] = x]
              /\ fire[f].pc # "idle" => x.s = fire[f].s
              /\ \/ fire[f] = Idle /\ x.pc = "queued" /\ Dispatch(f)
                 \/ fire[f] = Idle /\ x.pc \in {"late", "over"} /\ RecordMissed(f)
                 \/ fire[f].pc = "late" /\ x.pc \in {"over", "lost"} /\ FinishMissed(f)
                 \/ fire[f].pc = "asked" /\ x.pc \in {"start", "over"} /\ MarkManual(f)
                 \/ fire[f].pc = "queued" /\ x.pc = "start" /\ Acquire(f)
                 \/ fire[f].pc = "start" /\ x.pc \in {"preflight", "release"} /\ StartRun(f)
                 \/ fire[f].pc = "finish" /\ x.pc \in {"release", "unrecorded"} /\ FinishRun(f)
                 \/ /\ fire[f].pc \in Later /\ x.pc \in Later
                    /\ UNCHANGED <<runRow, inFlight>>
                 \/ fire[f].pc \in Later /\ x.pc \in {"over", "lost"} /\ Release(f)
<1> DEFINE Goal(x) ==
              /\ fire' = [fire EXCEPT ![f] = x]
              /\ fire[f].pc # "idle" => x.s = fire[f].s
              /\ \/ fire[f] = Idle /\ x.pc = "queued" /\ Dispatch(f)
                 \/ fire[f] = Idle /\ x.pc \in {"late", "over"} /\ RecordMissed(f)
                 \/ fire[f].pc = "late" /\ x.pc \in {"over", "lost"} /\ FinishMissed(f)
                 \/ fire[f].pc = "asked" /\ x.pc \in {"start", "over"} /\ MarkManual(f)
                 \/ fire[f].pc = "queued" /\ x.pc = "start" /\ Acquire(f)
                 \/ fire[f].pc = "start" /\ x.pc \in {"preflight", "release"} /\ StartRun(f)
                 \/ fire[f].pc = "finish" /\ x.pc \in {"release", "unrecorded"} /\ FinishRun(f)
                 \/ /\ fire[f].pc \in Later /\ x.pc \in Later
                    /\ UNCHANGED <<runRow, inFlight>>
                 \/ fire[f].pc \in Later /\ x.pc \in {"over", "lost"} /\ Release(f)
<1>1. ASSUME Dispatch(f) PROVE \E x \in FireStates : Goal(x)
    <2>1. PICK c \in tick :
            fire' = [fire EXCEPT ![f] = [pc |-> "queued", s |-> c.s, manual |-> FALSE,
                                         snap |-> c.snap, timedOut |-> FALSE]]
        BY <1>1 DEF Dispatch
    <2> DEFINE x == [pc |-> "queued", s |-> c.s, manual |-> FALSE, snap |-> c.snap,
                     timedOut |-> FALSE]
    <2>2. c \in [s: Scheds, missed: BOOLEAN, snap: Snaps]
        BY DEF Inv, Types
    <2>3. /\ x \in [pc: UnderWay, s: Scheds, manual: BOOLEAN, snap: Snaps, timedOut: BOOLEAN]
          /\ x.pc = "queued"
        BY <2>2 DEF UnderWay
    <2>4. fire[f] = Idle /\ fire[f].pc = "idle"
        BY <1>1 DEF Dispatch, IsNext, Idle
    <2>5. Goal(x) /\ x \in FireStates
        BY <1>1, <2>1, <2>3, <2>4 DEF FireStates
    <2> QED
        BY <2>5
<1>2. ASSUME RecordMissed(f) PROVE \E x \in FireStates : Goal(x)
    <2>1. PICK c \in tick : \/ fire' = [fire EXCEPT ![f] = Late(c.s)]
                            \/ fire' = [fire EXCEPT ![f] = Over(c.s)]
        BY <1>2 DEF RecordMissed
    <2>2. c.s \in Scheds
        BY DEF Inv, Types
    <2>3. fire[f] = Idle /\ fire[f].pc = "idle"
        BY <1>2 DEF RecordMissed, IsNext, Idle
    <2>4. ASSUME fire' = [fire EXCEPT ![f] = Late(c.s)] PROVE Goal(Late(c.s))
        BY <1>2, <2>3, <2>4 DEF Late
    <2>5. ASSUME fire' = [fire EXCEPT ![f] = Over(c.s)] PROVE Goal(Over(c.s))
        BY <1>2, <2>3, <2>5 DEF Over
    <2>6. Late(c.s) \in FireStates /\ Over(c.s) \in FireStates
        BY <2>2 DEF Late, Over, FireStates
    <2> QED
        BY <2>1, <2>4, <2>5, <2>6
<1>3. ASSUME NEW pc \in UnderWay, fire[f].pc \in UnderWay, fire' = [fire EXCEPT ![f].pc = pc],
             \/ fire[f].pc = "asked" /\ pc = "start" /\ MarkManual(f)
             \/ fire[f].pc = "queued" /\ pc = "start" /\ Acquire(f)
             \/ fire[f].pc = "start" /\ pc \in {"preflight", "release"} /\ StartRun(f)
             \/ fire[f].pc = "finish" /\ pc \in {"release", "unrecorded"} /\ FinishRun(f)
             \/ fire[f].pc \in Later /\ pc \in Later /\ UNCHANGED <<runRow, inFlight>>
      PROVE  \E x \in FireStates : Goal(x)
    <2>1. PICK x \in FireStates : /\ fire' = [fire EXCEPT ![f] = x]
                                  /\ x.pc = pc /\ x.s = fire[f].s
        BY <1>3, GoState
    <2>2. Goal(x)
        BY <1>3, <2>1
    <2> QED
        BY <2>2
<1>4. ASSUME MarkManual(f) PROVE \E x \in FireStates : Goal(x)
    <2>1. CASE fire' = [fire EXCEPT ![f].pc = "start"]
        BY <1>3, <1>4, <2>1 DEF MarkManual, UnderWay
    <2>2. CASE fire' = [fire EXCEPT ![f] = Over(@.s)]
        <3>1. /\ Over(fire[f].s) \in FireStates /\ Over(fire[f].s).pc = "over"
              /\ Over(fire[f].s).s = fire[f].s /\ fire[f].pc = "asked"
            BY <1>4, OrderTyped DEF MarkManual, Over, FireStates
        <3>2. Goal(Over(fire[f].s))
            BY <1>4, <2>2, <3>1
        <3> QED
            BY <3>1, <3>2
    <2> QED
        BY <1>4, <2>1, <2>2 DEF MarkManual
<1>5. ASSUME Acquire(f) \/ StartRun(f) \/ FinishRun(f) PROVE \E x \in FireStates : Goal(x)
    <2>1. CASE Acquire(f)
        BY <1>3, <2>1 DEF Acquire, UnderWay
    <2>2. CASE StartRun(f)
        BY <1>3, <2>2 DEF StartRun, UnderWay
    <2>3. CASE FinishRun(f)
        BY <1>3, <2>3 DEF FinishRun, UnderWay
    <2> QED
        BY <1>5, <2>1, <2>2, <2>3
<1>6. ASSUME Preflight(f) \/ Pause(f) \/ Submit(f) \/ DrainRun(f)
      PROVE  \E x \in FireStates : Goal(x)
    <2>1. /\ fire[f].pc \in Later \cap UnderWay /\ UNCHANGED <<runRow, inFlight>>
          /\ \E pc \in Later \cap UnderWay : fire' = [fire EXCEPT ![f].pc = pc]
        BY <1>6 DEF Preflight, Pause, Submit, DrainRun, Later, UnderWay
    <2> QED
        BY <1>3, <2>1
<1>7. ASSUME Watchdog(f) PROVE \E x \in FireStates : Goal(x)
    <2> DEFINE x == [fire[f] EXCEPT !.timedOut = TRUE]
    <2>1. /\ fire[f].pc = "drain" /\ UNCHANGED <<runRow, inFlight>>
          /\ fire' = [fire EXCEPT ![f] = x]
        BY <1>7 DEF Watchdog
    <2>2. fire[f] \in [pc: UnderWay, s: Scheds, manual: BOOLEAN, snap: Snaps, timedOut: BOOLEAN]
        BY <2>1, UnderWayTyped DEF UnderWay
    <2>3. x \in FireStates /\ x.pc = "drain" /\ x.s = fire[f].s
        BY <2>1, <2>2 DEF FireStates
    <2>4. Goal(x)
        BY <2>1, <2>3 DEF Later
    <2> QED
        BY <2>3, <2>4
<1>8. ASSUME Release(f) PROVE \E x \in FireStates : Goal(x)
    <2> DEFINE x == IF fire[f].pc = "release" THEN Over(fire[f].s) ELSE Lost(fire[f].s)
    <2>1. fire[f].pc \in {"release", "unrecorded"} /\ fire' = [fire EXCEPT ![f] = x]
        BY <1>8 DEF Release
    <2>2. x \in FireStates /\ x.pc \in {"over", "lost"} /\ x.s = fire[f].s
        BY <2>1, OrderTyped DEF Over, Lost, FireStates
    <2>3. Goal(x)
        BY <1>8, <2>1, <2>2 DEF Later
    <2> QED
        BY <2>2, <2>3
<1>9. ASSUME FinishMissed(f) PROVE \E x \in FireStates : Goal(x)
    <2>1. /\ fire[f].pc = "late"
          /\ \/ fire' = [fire EXCEPT ![f] = Over(fire[f].s)]
             \/ fire' = [fire EXCEPT ![f] = Lost(fire[f].s)]
        BY <1>9 DEF FinishMissed
    <2>2. fire[f].s \in Scheds
        BY <2>1, OrderTyped
    <2>3. ASSUME fire' = [fire EXCEPT ![f] = Over(fire[f].s)] PROVE Goal(Over(fire[f].s))
        BY <1>9, <2>1, <2>3 DEF Over
    <2>4. ASSUME fire' = [fire EXCEPT ![f] = Lost(fire[f].s)] PROVE Goal(Lost(fire[f].s))
        BY <1>9, <2>1, <2>4 DEF Lost
    <2>5. Over(fire[f].s) \in FireStates /\ Lost(fire[f].s) \in FireStates
        BY <2>2 DEF Over, Lost, FireStates
    <2> QED
        BY <2>1, <2>3, <2>4, <2>5
<1>10. \E x \in FireStates : Goal(x)
    BY <1>1, <1>2, <1>4, <1>5, <1>6, <1>7, <1>8, <1>9 DEF FireStep
<1> QED
    BY <1>10

LEMMA UnopenedStep == Inv /\ Unopened /\ [Next]_vars => Unopened'
<1> SUFFICES ASSUME Inv, Unopened, [Next]_vars PROVE Unopened'
    OBVIOUS
<1>a. ASSUME UNCHANGED <<fire, runRow>> PROVE Unopened'
    BY <1>a DEF Unopened
<1>1. ASSUME NEW f \in Fires, FireStep(f) PROVE Unopened'
    <2>1. PICK x \in FireStates :
            /\ fire' = [fire EXCEPT ![f] = x]
            /\ \/ fire[f] = Idle /\ x.pc = "queued" /\ Dispatch(f)
               \/ x.pc \notin {"idle", "asked", "queued", "start"}
               \/ fire[f].pc = "asked" /\ MarkManual(f)
               \/ fire[f].pc = "queued" /\ Acquire(f)
        BY <1>1, MoveEnds DEF Later
    <2>2. \A g \in Fires : g # f => runRow'[g] = runRow[g]
        BY <1>1 DEF FireStep, Dispatch, RecordMissed, FinishMissed, MarkManual, Acquire,
                    StartRun, Preflight, Pause, Submit, Watchdog, DrainRun, FinishRun, Release, Inv, Types
    <2>3. \/ x.pc \notin {"idle", "asked", "queued", "start"}
          \/ /\ fire[f].pc \in {"idle", "asked", "queued", "start"}
             /\ runRow' = runRow
        BY <2>1 DEF Dispatch, MarkManual, Acquire, Idle
    <2> QED
        BY <2>1, <2>2, <2>3, UnopenedMove
<1>2. ASSUME NEW f \in Fires, NEW s \in Scheds, RunNow(f, s) PROVE Unopened'
    <2> DEFINE x == [pc |-> "asked", s |-> s, manual |-> TRUE, snap |-> Snap(row[s]),
                     timedOut |-> FALSE]
    <2>1. fire[f].pc = "idle" /\ fire' = [fire EXCEPT ![f] = x] /\ runRow' = runRow
        BY <1>2 DEF RunNow, IsNext, Idle
    <2>2. fire \in [Fires -> FireStates]
        BY DEF Inv, Types
    <2> QED
        BY <2>1, <2>2 DEF Unopened
<1>3. ASSUME NEW s \in Scheds, DeleteScheduler(s) PROVE Unopened'
    BY <1>3 DEF DeleteScheduler, Unopened
<1>4. CASE Restart
    <2>1. \A f \in Fires : fire'[f].pc \in {"idle", "over", "lost"} /\ runRow' = runRow
                           /\ (fire'[f].pc = "idle" => fire[f].pc = "idle")
        BY <1>4 DEF Restart, Lost
    <2> QED
        BY <2>1 DEF Unopened
<1>5. CASE \/ Clock \/ ClaimDueSchedulers \/ SkipClaim \/ PatchCompute \/ PatchWrite
           \/ UNCHANGED vars \/ (\E f \in Fires : RunEnds(f))
           \/ (\E s \in Scheds : PatchRead(s))
    BY <1>5, <1>a DEF Clock, ClaimDueSchedulers, SkipClaim, PatchCompute, PatchWrite, vars,
                      RunEnds, PatchRead
<1> QED
    BY <1>1, <1>2, <1>3, <1>4, <1>5 DEF Next

\* Only a delete takes an order away, and nothing brings one back.
LEMMA ExistsStays ==
    ASSUME Inv, [Next]_vars
    PROVE  \/ \E s \in Scheds : DeleteScheduler(s)
           \/ Deleted' = Deleted
<1> DEFINE Same(s) == row'[s].exists = row[s].exists
           Kept == \A s \in Scheds : Same(s)
<1>0. row \in [Scheds -> Rows]
    BY DEF Inv, Types
<1>1. CASE UNCHANGED row
    BY <1>1 DEF Deleted
<1>2. ASSUME NEW s \in Scheds, NEW f \in Fires, row' = [row EXCEPT ![s].last = f] PROVE Kept
    <2>1. \A t \in Scheds : row'[t] = IF t = s THEN [row[t] EXCEPT !.last = f] ELSE row[t]
        BY <1>0, <1>2
    <2>2. ASSUME NEW t \in Scheds
          PROVE  /\ row'[t].exists = row[t].exists /\ row'[t].enabled = row[t].enabled
                 /\ row'[t].next = row[t].next /\ row'[t].overtaken = row[t].overtaken
        <3>1. CASE row'[t] = row[t]
            BY <3>1
        <3>2. CASE row'[t] = [row[t] EXCEPT !.last = f]
            <4> DEFINE q == [row[t] EXCEPT !.last = f]
            <4>1. /\ q.exists = row[t].exists /\ q.enabled = row[t].enabled
                  /\ q.next = row[t].next /\ q.overtaken = row[t].overtaken
                BY <1>0, LastField
            <4> QED
                BY <3>2, <4>1
        <3> QED
            BY <2>1, <3>1, <3>2
    <2> QED
        BY <2>2
<1>3. ASSUME NEW f \in Fires, FinishMissed(f) \/ FinishRun(f), row' # row PROVE Kept
    <2>1. row' = row \/ row' = [row EXCEPT ![fire[f].s].last = f]
        BY <1>3 DEF FinishMissed, FinishRun
    <2>2. fire[f].s \in Scheds
        BY <1>3, OrderTyped DEF FinishMissed, FinishRun
    <2> QED
        BY <1>2, <1>3, <2>1, <2>2
<1>5. ASSUME NEW f \in Fires, Pause(f), row' # row PROVE Kept
    <2>1. row' = [row EXCEPT ![fire[f].s] = PausedRow(f)] /\ fire[f].s \in Scheds
        BY <1>5, OrderTyped DEF Pause
    <2>2. PausedRow(f).exists = row[fire[f].s].exists
        BY <1>0, <2>1 DEF PausedRow, Rows
    <2> QED
        BY <1>0, <2>1, <2>2
<1>6. ASSUME ClaimDueSchedulers PROVE Kept
    <2>1. PICK D \in SUBSET Due :
            row' = [t \in Scheds |-> IF t \in D THEN ClaimedRow(t) ELSE row[t]]
        BY <1>6 DEF ClaimDueSchedulers
    <2>2. \A t \in Scheds : ClaimedRow(t).exists = row[t].exists
        BY <1>0 DEF ClaimedRow, Rows
    <2> QED
        BY <2>1, <2>2
<1>7. ASSUME PatchWrite, row' # row PROVE Kept
    <2>1. row' = [row EXCEPT ![edit.s] = Patched(row[edit.s])]
        BY <1>7 DEF PatchWrite
    <2>2. \A t \in Scheds : Patched(row[t]).exists = row[t].exists
        BY <1>0 DEF Patched, Rows
    <2>3. \A t \in Scheds : row'[t] = row[t] \/ row'[t] = Patched(row[t])
        BY <1>0, <2>1
    <2> QED
        BY <2>2, <2>3
<1>8. ASSUME NEW f \in Fires, FireStep(f) \/ RunEnds(f), row' # row PROVE Kept
    <2>1. FinishMissed(f) \/ FinishRun(f) \/ Pause(f)
        BY <1>8 DEF FireStep, RunEnds, Dispatch, RecordMissed, MarkManual, Acquire, StartRun,
                    Preflight, Submit, Watchdog, DrainRun, Release
    <2> QED
        BY <1>3, <1>5, <1>8, <2>1
<1>9. Kept => Deleted' = Deleted
    BY DEF Deleted
<1> HIDE DEF Kept
<1> QED
    BY <1>1, <1>6, <1>7, <1>8, <1>9
       DEF Next, Clock, SkipClaim, RunNow, PatchRead, PatchCompute, Restart, vars

FlightMoves == Flight!FlightNext \/ UNCHANGED Flight!flightVars

PhaseIn(x) ==
    CASE x.pc = "idle" -> "new"
      [] x.pc = "asked" -> "asked"
      [] x.pc = "late" -> "late"
      [] x.pc = "over" -> "ended"
      [] x.pc = "lost" -> "lost"
      [] OTHER -> "held"

OrderIn(x) == IF x.pc = "idle" THEN "none" ELSE x.s

\* What a move of one goroutine is to SingleFlight.
LEMMA FlightOf ==
    ASSUME Inv, NEW f \in Fires, NEW x \in FireStates, fire' = [fire EXCEPT ![f] = x]
    PROVE  /\ [g \in Fires |-> PhaseOf(g)]'
                = [[g \in Fires |-> PhaseOf(g)] EXCEPT ![f] = PhaseIn(x)]
           /\ [g \in Fires |-> OrderOf(g)]'
                = [[g \in Fires |-> OrderOf(g)] EXCEPT ![f] = OrderIn(x)]
<1>1. /\ fire'[f] = x
      /\ \A g \in Fires : g # f => fire'[g] = fire[g]
    BY OneMoves
<1>2. PhaseOf(f)' = PhaseIn(x) /\ OrderOf(f)' = OrderIn(x)
    BY <1>1 DEF PhaseOf, PhaseIn, OrderOf, OrderIn
<1>3. \A g \in Fires : g # f => PhaseOf(g)' = PhaseOf(g) /\ OrderOf(g)' = OrderOf(g)
    BY <1>1 DEF PhaseOf, OrderOf
<1> QED
    BY <1>2, <1>3

LEMMA FlightSame ==
    ASSUME UNCHANGED <<fire, runRow>>, Deleted' = Deleted
    PROVE  FlightMoves
BY DEF FlightMoves, Flight!flightVars, PhaseOf, OrderOf

\* A fire takes a free order in hand.
LEMMA FlightBegins ==
    ASSUME Inv, NEW f \in Fires, NEW x \in FireStates, fire' = [fire EXCEPT ![f] = x],
           fire[f].pc = "idle" \/ (fire[f].pc = "asked" /\ x.s = fire[f].s),
           x.pc \in {"queued", "start"}, x.s \in Scheds \ inFlight,
           runRow' = runRow, Deleted' = Deleted
    PROVE  FlightMoves
<1>1. PhaseIn(x) = "held" /\ OrderIn(x) = x.s
    BY DEF PhaseIn, OrderIn
<1>2. PhaseOf(f) \in {"new", "asked"} /\ (PhaseOf(f) = "asked" => OrderOf(f) = x.s)
    BY DEF PhaseOf, OrderOf
<1>3. \A g \in Fires : PhaseOf(g) = "held" => OrderOf(g) # x.s
    <2> SUFFICES ASSUME NEW g \in Fires, PhaseOf(g) = "held" PROVE OrderOf(g) # x.s
        OBVIOUS
    <2>1. fire[g].pc \notin {"idle", "asked", "late", "over", "lost"}
        BY DEF PhaseOf
    <2>2. g \in Marked /\ OrderOf(g) = fire[g].s
        BY <2>1 DEF Marked, OrderOf
    <2>3. fire[g].s \in inFlight
        BY <2>2 DEF Inv, MarkersAreFires
    <2> QED
        BY <2>2, <2>3
<1>4. /\ [g \in Fires |-> PhaseOf(g)]'
            = [[g \in Fires |-> PhaseOf(g)] EXCEPT ![f] = "held"]
      /\ [g \in Fires |-> OrderOf(g)]'
            = [[g \in Fires |-> OrderOf(g)] EXCEPT ![f] = x.s]
    <2>1. /\ [g \in Fires |-> PhaseOf(g)]'
                = [[g \in Fires |-> PhaseOf(g)] EXCEPT ![f] = PhaseIn(x)]
          /\ [g \in Fires |-> OrderOf(g)]'
                = [[g \in Fires |-> OrderOf(g)] EXCEPT ![f] = OrderIn(x)]
        BY FlightOf
    <2> QED
        BY <1>1, <2>1
<1>5. Flight!Moves(f, {"new", "asked"}, "held")
    BY <1>2, <1>4 DEF Flight!Moves
<1>6. /\ [g \in Fires |-> PhaseOf(g)][f] = "asked" => [g \in Fires |-> OrderOf(g)][f] = x.s
      /\ \A g \in Fires : [h \in Fires |-> PhaseOf(h)][g] = "held"
                             => [h \in Fires |-> OrderOf(h)][g] # x.s
    BY <1>2, <1>3
<1>7. UNCHANGED <<runRow, Deleted>>
    OBVIOUS
<1>8. Flight!Begins(f, x.s)
    BY <1>4, <1>5, <1>6, <1>7 DEF Flight!Begins
<1> QED
    BY <1>8 DEF FlightMoves, Flight!FlightNext

\* The steps of a goroutine.
LEMMA FlightFires ==
    ASSUME Inv, Unopened, NEW f \in Fires, FireStep(f), Deleted' = Deleted
    PROVE  FlightMoves
<1>1. PICK x \in FireStates :
              /\ fire' = [fire EXCEPT ![f] = x]
              /\ fire[f].pc # "idle" => x.s = fire[f].s
              /\ \/ fire[f] = Idle /\ x.pc = "queued" /\ Dispatch(f)
                 \/ fire[f] = Idle /\ x.pc \in {"late", "over"} /\ RecordMissed(f)
                 \/ fire[f].pc = "late" /\ x.pc \in {"over", "lost"} /\ FinishMissed(f)
                 \/ fire[f].pc = "asked" /\ x.pc \in {"start", "over"} /\ MarkManual(f)
                 \/ fire[f].pc = "queued" /\ x.pc = "start" /\ Acquire(f)
                 \/ fire[f].pc = "start" /\ x.pc \in {"preflight", "release"} /\ StartRun(f)
                 \/ fire[f].pc = "finish" /\ x.pc \in {"release", "unrecorded"} /\ FinishRun(f)
                 \/ /\ fire[f].pc \in Later /\ x.pc \in Later
                    /\ UNCHANGED <<runRow, inFlight>>
                 \/ fire[f].pc \in Later /\ x.pc \in {"over", "lost"} /\ Release(f)
    BY MoveEnds
<1>2. /\ [g \in Fires |-> PhaseOf(g)]'
            = [[g \in Fires |-> PhaseOf(g)] EXCEPT ![f] = PhaseIn(x)]
      /\ [g \in Fires |-> OrderOf(g)]'
            = [[g \in Fires |-> OrderOf(g)] EXCEPT ![f] = OrderIn(x)]
    BY <1>1, FlightOf
<1>i. fire[f] = Idle => fire[f].pc = "idle"
    BY DEF Idle
<1>t. /\ fire[f].pc # "idle" => fire[f].s \in Scheds
      /\ runRow \in [Fires -> {"none", "running", "finished"}]
      /\ fire' \in [Fires -> FireStates] /\ fire'[f] = x
    BY <1>1, OrderTyped, OneMoves DEF Inv, Types
\* What does not change the phase.
<1>k. ASSUME fire[f].pc \in Later \cup {"queued", "start"}, x.pc \in Later \cup {"queued", "start"}
      PROVE  /\ [g \in Fires |-> PhaseOf(g)]' = [g \in Fires |-> PhaseOf(g)]
             /\ [g \in Fires |-> OrderOf(g)]' = [g \in Fires |-> OrderOf(g)]
             /\ PhaseOf(f) = "held" /\ OrderOf(f) = fire[f].s
    <2>1. PhaseIn(x) = "held" /\ PhaseOf(f) = "held"
        BY <1>k DEF PhaseIn, PhaseOf, Later
    <2>2. OrderIn(x) = fire[f].s /\ OrderOf(f) = fire[f].s
        BY <1>1, <1>k DEF OrderIn, OrderOf, Later
    <2> QED
        BY <1>2, <2>1, <2>2
<1>3. CASE Dispatch(f)
    <2>1. PICK c \in tick :
            /\ c.s \notin inFlight
            /\ fire' = [fire EXCEPT ![f] = [pc |-> "queued", s |-> c.s, manual |-> FALSE,
                                            snap |-> c.snap, timedOut |-> FALSE]]
        BY <1>3 DEF Dispatch
    <2>2. fire[f].pc = "idle" /\ runRow' = runRow /\ c.s \in Scheds
        BY <1>3 DEF Dispatch, IsNext, Idle, Inv, Types
    <2>3. x.pc = "queued" /\ x.s = c.s
        BY <1>t, <2>1 DEF Inv, Types
    <2> QED
        BY <1>1, <2>1, <2>2, <2>3, FlightBegins
<1>4. CASE fire[f] = Idle /\ x.pc \in {"late", "over"} /\ RecordMissed(f)
    <2>1. PICK c \in tick :
            \/ /\ row[c.s].exists /\ runRow' = [runRow EXCEPT ![f] = "running"]
               /\ fire' = [fire EXCEPT ![f] = Late(c.s)]
            \/ runRow' = runRow /\ fire' = [fire EXCEPT ![f] = Over(c.s)]
        BY <1>4 DEF RecordMissed
    <2>2. c.s \in Scheds /\ fire \in [Fires -> FireStates]
        BY DEF Inv, Types
    <2>3. PhaseOf(f) = "new"
        BY <1>4, <1>i DEF PhaseOf
    <2>4. CASE /\ row[c.s].exists /\ runRow' = [runRow EXCEPT ![f] = "running"]
               /\ fire' = [fire EXCEPT ![f] = Late(c.s)]
        <3>1. x.pc = "late" /\ x.s = c.s
            BY <1>t, <2>2, <2>4 DEF Late
        <3>2. PhaseIn(x) = "late" /\ OrderIn(x) = c.s /\ c.s \notin Deleted
            BY <2>4, <3>1 DEF PhaseIn, OrderIn, Deleted
        <3>3. Flight!Misses(f, c.s)
            BY <1>2, <2>3, <2>4, <3>2 DEF Flight!Misses, Flight!Moves
        <3> QED
            BY <2>2, <3>3 DEF FlightMoves, Flight!FlightNext
    <2>5. CASE runRow' = runRow /\ fire' = [fire EXCEPT ![f] = Over(c.s)]
        <3>1. x.pc = "over" /\ x.s = c.s
            BY <1>t, <2>2, <2>5 DEF Over
        <3>2. PhaseIn(x) = "ended" /\ OrderIn(x) = c.s
            BY <3>1 DEF PhaseIn, OrderIn
        <3>3. Flight!Misses(f, c.s)
            BY <1>2, <2>3, <2>5, <3>2 DEF Flight!Misses, Flight!Moves
        <3> QED
            BY <2>2, <3>3 DEF FlightMoves, Flight!FlightNext
    <2> QED
        BY <2>1, <2>4, <2>5
<1>11. CASE fire[f].pc = "late" /\ x.pc \in {"over", "lost"} /\ FinishMissed(f)
    <2>1. /\ PhaseOf(f) = "late" /\ OrderIn(x) = OrderOf(f)
          /\ PhaseIn(x) = IF x.pc = "over" THEN "ended" ELSE "lost"
        BY <1>1, <1>11 DEF PhaseOf, PhaseIn, OrderIn, OrderOf
    <2>2. [g \in Fires |-> OrderOf(g)]' = [g \in Fires |-> OrderOf(g)]
        BY <1>2, <2>1
    <2>3. \/ /\ runRow[f] = "running" /\ runRow' = [runRow EXCEPT ![f] = "finished"]
             /\ fire' = [fire EXCEPT ![f] = Over(fire[f].s)]
          \/ runRow' = runRow /\ fire' = [fire EXCEPT ![f] = Lost(fire[f].s)]
        BY <1>11 DEF FinishMissed
    <2>4. fire \in [Fires -> FireStates]
        BY DEF Inv, Types
    <2>5. CASE /\ runRow[f] = "running" /\ runRow' = [runRow EXCEPT ![f] = "finished"]
               /\ fire' = [fire EXCEPT ![f] = Over(fire[f].s)]
        <3>1. x.pc = "over"
            BY <1>t, <2>4, <2>5 DEF Over
        <3>2. Flight!Tells(f)
            BY <1>2, <2>1, <2>2, <2>5, <3>1 DEF Flight!Tells, Flight!Moves
        <3> QED
            BY <3>2 DEF FlightMoves, Flight!FlightNext
    <2>6. CASE runRow' = runRow /\ fire' = [fire EXCEPT ![f] = Lost(fire[f].s)]
        <3>1. x.pc = "lost"
            BY <1>t, <2>4, <2>6 DEF Lost
        <3>2. Flight!Loses(f)
            BY <1>2, <2>1, <2>2, <2>6, <3>1 DEF Flight!Loses, Flight!Moves
        <3> QED
            BY <3>2 DEF FlightMoves, Flight!FlightNext
    <2> QED
        BY <2>3, <2>5, <2>6
<1>5. CASE fire[f].pc = "asked" /\ x.pc = "start" /\ MarkManual(f)
    <2>1. runRow' = runRow /\ fire[f].s \notin inFlight
        <3>1. fire[f].s \in inFlight => x = Over(fire[f].s)
            BY <1>5, <1>t DEF MarkManual, Inv, Types
        <3> QED
            BY <1>5, <3>1 DEF MarkManual, Over
    <2> QED
        BY <1>1, <1>5, <1>t, <2>1, FlightBegins
<1>6. CASE fire[f].pc = "asked" /\ x.pc = "over" /\ MarkManual(f)
    <2>1. PhaseOf(f) = "asked" /\ PhaseIn(x) = "ended" /\ OrderIn(x) = OrderOf(f)
        BY <1>1, <1>6 DEF PhaseOf, PhaseIn, OrderIn, OrderOf
    <2>2. Flight!Refuses(f)
        BY <1>2, <1>6, <2>1 DEF Flight!Refuses, Flight!Moves, MarkManual
    <2> QED
        BY <2>2 DEF FlightMoves, Flight!FlightNext
<1>7. CASE \/ fire[f].pc = "queued" /\ x.pc = "start" /\ Acquire(f)
           \/ fire[f].pc \in Later /\ x.pc \in Later /\ UNCHANGED <<runRow, inFlight>>
    BY <1>7, <1>k DEF FlightMoves, Flight!flightVars, Acquire
<1>8. CASE fire[f].pc = "start" /\ x.pc \in {"preflight", "release"} /\ StartRun(f)
    <2>1. /\ [g \in Fires |-> PhaseOf(g)]' = [g \in Fires |-> PhaseOf(g)]
          /\ [g \in Fires |-> OrderOf(g)]' = [g \in Fires |-> OrderOf(g)]
          /\ PhaseOf(f) = "held" /\ OrderOf(f) = fire[f].s
        BY <1>8, <1>k DEF Later
    <2>2. CASE row[fire[f].s].exists /\ runRow' = [runRow EXCEPT ![f] = "running"]
        <3>1. runRow[f] = "none" /\ fire[f].s \notin Deleted
            BY <1>8, <2>2 DEF Unopened, Deleted
        <3>2. Flight!Opens(f)
            BY <2>1, <2>2, <3>1 DEF Flight!Opens
        <3> QED
            BY <3>2 DEF FlightMoves, Flight!FlightNext
    <2>3. CASE runRow' = runRow
        BY <2>1, <2>3 DEF FlightMoves, Flight!flightVars
    <2> QED
        BY <1>8, <2>2, <2>3 DEF StartRun
<1>9. CASE fire[f].pc = "finish" /\ x.pc \in {"release", "unrecorded"} /\ FinishRun(f)
    <2>1. /\ [g \in Fires |-> PhaseOf(g)]' = [g \in Fires |-> PhaseOf(g)]
          /\ [g \in Fires |-> OrderOf(g)]' = [g \in Fires |-> OrderOf(g)]
          /\ PhaseOf(f) = "held" /\ OrderOf(f) = fire[f].s
        BY <1>9, <1>k DEF Later
    <2>2. CASE runRow[f] = "running" /\ runRow' = [runRow EXCEPT ![f] = "finished"]
        <3>1. Flight!Closes(f)
            BY <2>1, <2>2 DEF Flight!Closes
        <3> QED
            BY <3>1 DEF FlightMoves, Flight!FlightNext
    <2>3. CASE runRow' = runRow
        BY <2>1, <2>3 DEF FlightMoves, Flight!flightVars
    <2> QED
        BY <1>9, <2>2, <2>3 DEF FinishRun
<1>10. CASE fire[f].pc \in Later /\ x.pc \in {"over", "lost"} /\ Release(f)
    <2>1. /\ PhaseOf(f) = "held" /\ OrderIn(x) = OrderOf(f) /\ runRow' = runRow
          /\ PhaseIn(x) = IF x.pc = "over" THEN "ended" ELSE "lost"
        BY <1>1, <1>10 DEF PhaseOf, PhaseIn, OrderIn, OrderOf, Later, Release
    <2>2. [g \in Fires |-> OrderOf(g)]' = [g \in Fires |-> OrderOf(g)]
        BY <1>2, <2>1
    <2>3. CASE x.pc = "over"
        <3>1. fire[f].pc = "release"
            <4>1. x = IF fire[f].pc = "release" THEN Over(fire[f].s) ELSE Lost(fire[f].s)
                BY <1>10, <1>t DEF Release, Inv, Types
            <4> QED
                BY <2>3, <4>1 DEF Lost
        <3>2. runRow[f] # "running"
            BY <3>1 DEF Inv, Recorded, RunningStages
        <3>3. Flight!Ends(f)
            BY <1>2, <2>1, <2>2, <2>3, <3>2 DEF Flight!Ends, Flight!Moves
        <3> QED
            BY <3>3 DEF FlightMoves, Flight!FlightNext
    <2>4. CASE x.pc = "lost"
        <3>1. Flight!Loses(f)
            BY <1>2, <2>1, <2>2, <2>4 DEF Flight!Loses, Flight!Moves
        <3> QED
            BY <3>1 DEF FlightMoves, Flight!FlightNext
    <2> QED
        BY <1>10, <2>3, <2>4
<1> QED
    BY <1>1, <1>3, <1>4, <1>5, <1>6, <1>7, <1>8, <1>9, <1>10, <1>11

\* Every step of the scheduler is a step of SingleFlight, or none.
LEMMA FlightStep ==
    Inv /\ Unopened /\ [Next]_vars => [Flight!FlightNext]_(Flight!flightVars)
<1> SUFFICES ASSUME Inv, Unopened, [Next]_vars PROVE FlightMoves
    BY DEF FlightMoves
<1>1. ASSUME NEW s \in Scheds, DeleteScheduler(s) PROVE FlightMoves
    <2>1. /\ row[s].exists /\ fire' = fire
          /\ row' = [row EXCEPT ![s].exists = FALSE, ![s].last = NoFire]
          /\ runRow' = [f \in Fires |-> IF fire[f] # Idle /\ fire[f].s = s
                                        THEN "none" ELSE runRow[f]]
        BY <1>1 DEF DeleteScheduler
    <2>2. s \notin Deleted /\ Deleted' = Deleted \cup {s}
        <3>1. row \in [Scheds -> Rows]
            BY DEF Inv, Types
        <3>2. \A t \in Scheds : row'[t] = IF t = s THEN [row[t] EXCEPT !.exists = FALSE, !.last = NoFire]
                                          ELSE row[t]
            BY <2>1, <3>1
        <3>3. \A t \in Scheds : row'[t].exists = IF t = s THEN FALSE ELSE row[t].exists
            BY <3>1, <3>2, ZenonT(60) DEF Rows
        <3> QED
            BY <2>1, <3>3 DEF Deleted
    <2>3. /\ [f \in Fires |-> PhaseOf(f)]' = [f \in Fires |-> PhaseOf(f)]
          /\ [f \in Fires |-> OrderOf(f)]' = [f \in Fires |-> OrderOf(f)]
        BY <2>1 DEF PhaseOf, OrderOf
    <2>4. runRow' = [f \in Fires |-> IF OrderOf(f) = s THEN "none" ELSE runRow[f]]
        <3>1. ASSUME NEW f \in Fires
              PROVE  (IF fire[f] # Idle /\ fire[f].s = s THEN "none" ELSE runRow[f])
                        = IF OrderOf(f) = s THEN "none" ELSE runRow[f]
            <4>1. CASE fire[f] = Idle
                BY <4>1 DEF Unopened, Idle
            <4>2. CASE fire[f] # Idle
                BY <4>2, StateIs DEF OrderOf
            <4> QED
                BY <4>1, <4>2
        <3> QED
            BY <2>1, <3>1
    <2>5. Flight!Deletes(s)
        BY <2>1, <2>2, <2>3, <2>4 DEF Flight!Deletes
    <2> QED
        BY <2>5 DEF FlightMoves, Flight!FlightNext
<1>2. CASE Deleted' = Deleted
    <2>1. ASSUME NEW f \in Fires, FireStep(f) PROVE FlightMoves
        BY <1>2, <2>1, FlightFires
    <2>2. ASSUME NEW f \in Fires, NEW s \in Scheds, RunNow(f, s) PROVE FlightMoves
        <3> DEFINE x == [pc |-> "asked", s |-> s, manual |-> TRUE, snap |-> Snap(row[s]),
                         timedOut |-> FALSE]
        <3>1. /\ fire[f].pc = "idle" /\ fire' = [fire EXCEPT ![f] = x] /\ runRow' = runRow
              /\ row[s].exists
            BY <2>2 DEF RunNow, IsNext, Idle
        <3>2. x \in FireStates
            <4>1. Snap(row[s]) \in Snaps
                BY DEF Inv, Types, Rows, Snap, Snaps
            <4>2. x \in [pc: UnderWay, s: Scheds, manual: BOOLEAN, snap: Snaps,
                         timedOut: BOOLEAN]
                BY <4>1 DEF UnderWay
            <4> QED
                BY <4>2 DEF FireStates
        <3>3. PhaseOf(f) = "new" /\ PhaseIn(x) = "asked" /\ OrderIn(x) = s
            BY <3>1 DEF PhaseOf, PhaseIn, OrderIn
        <3>4. s \notin Deleted
            BY <3>1 DEF Deleted
        <3> HIDE DEF x
        <3>5. /\ [g \in Fires |-> PhaseOf(g)]'
                    = [[g \in Fires |-> PhaseOf(g)] EXCEPT ![f] = "asked"]
              /\ [g \in Fires |-> OrderOf(g)]'
                    = [[g \in Fires |-> OrderOf(g)] EXCEPT ![f] = s]
            <4>1. /\ [g \in Fires |-> PhaseOf(g)]'
                        = [[g \in Fires |-> PhaseOf(g)] EXCEPT ![f] = PhaseIn(x)]
                  /\ [g \in Fires |-> OrderOf(g)]'
                        = [[g \in Fires |-> OrderOf(g)] EXCEPT ![f] = OrderIn(x)]
                BY <3>1, <3>2, FlightOf
            <4> QED
                BY <3>3, <4>1
        <3>6. Flight!Moves(f, {"new"}, "asked")
            BY <3>3, <3>5 DEF Flight!Moves
        <3>7. Flight!Asks(f, s)
            BY <1>2, <3>1, <3>4, <3>5, <3>6 DEF Flight!Asks
        <3> QED
            BY <3>7 DEF FlightMoves, Flight!FlightNext
    <2>3. CASE Restart
        <3>1. /\ runRow' = runRow
              /\ \A f \in Fires : fire'[f] = IF fire[f].pc \in {"idle", "over"} THEN fire[f]
                                             ELSE Lost(fire[f].s)
            BY <2>3 DEF Restart
        <3>2. ASSUME NEW f \in Fires
              PROVE  /\ OrderOf(f)' = OrderOf(f)
                     /\ PhaseOf(f)' = IF PhaseOf(f) \in {"asked", "held", "late"} THEN "lost"
                                      ELSE PhaseOf(f)
            <4>1. CASE fire[f].pc \in {"idle", "over"}
                <5>1. fire'[f] = fire[f]
                    BY <3>1, <4>1
                <5>2. OrderOf(f)' = OrderOf(f) /\ PhaseOf(f)' = PhaseOf(f)
                    BY <5>1 DEF OrderOf, PhaseOf
                <5>3. PhaseOf(f) \in {"new", "ended"}
                    BY <4>1 DEF PhaseOf
                <5> QED
                    BY <5>2, <5>3
            <4>2. CASE fire[f].pc \notin {"idle", "over"}
                <5>0. fire'[f] = Lost(fire[f].s)
                    BY <3>1, <4>2
                <5>1. /\ fire'[f].pc = "lost" /\ fire'[f].s = fire[f].s
                      /\ fire[f].pc # "idle"
                    BY <4>2, <5>0 DEF Lost
                <5>2. OrderOf(f)' = OrderOf(f) /\ PhaseOf(f)' = "lost"
                    BY <5>1 DEF OrderOf, PhaseOf
                <5>3. PhaseOf(f) \in {"asked", "held", "late", "lost"}
                    BY <4>2 DEF PhaseOf
                <5> QED
                    BY <5>2, <5>3
            <4> QED
                BY <4>1, <4>2
        <3>3. Flight!Crashes
            BY <1>2, <3>1, <3>2 DEF Flight!Crashes
        <3> QED
            BY <3>3 DEF FlightMoves, Flight!FlightNext
    <2>4. CASE \/ Clock \/ ClaimDueSchedulers \/ SkipClaim \/ PatchCompute \/ PatchWrite
               \/ UNCHANGED vars \/ (\E f \in Fires : RunEnds(f))
               \/ (\E s \in Scheds : PatchRead(s))
        <3>1. UNCHANGED <<fire, runRow>>
            BY <2>4 DEF Clock, ClaimDueSchedulers, SkipClaim, PatchCompute, PatchWrite, vars,
                        RunEnds, PatchRead
        <3> QED
            BY <1>2, <3>1, FlightSame
    <2> QED
        BY <1>1, <2>1, <2>2, <2>3, <2>4 DEF Next
<1> QED
    BY <1>1, <1>2, ExistsStays

-----------------------------------------------------------------------------
(* The properties. *)

\* Inv holds in every state that can be reached.
THEOREM Invariant == Spec => []Inv
<1>1. Init => Inv
    BY InitInv
<1>2. Inv /\ [Next]_vars => Inv'
    BY NextStep
<1> QED
    BY <1>1, <1>2, PTL DEF Spec

\* Every variable has its type; a paused or archived order has no next fire
\* time.
THEOREM TypeCorrect == Spec => []TypeOK
<1>1. ASSUME Inv PROVE TypeOK
    <2>1. \A c \in tick : /\ c.s \in Scheds /\ c.missed \in BOOLEAN
                          /\ c.snap \in [enabled: BOOLEAN, last: Fires \cup {NoFire}]
        BY <1>1 DEF Inv, Types, Snaps
    <2> QED
        BY <1>1, <2>1 DEF Inv, Types, NextAgrees, TypeOK
<1> QED
    BY <1>1, Invariant, PTL

\* The in-flight markers are the fires under way, one per order.
THEOREM MarkersExact == Spec => []MarkersAreFires
<1>1. Inv => MarkersAreFires
    BY DEF Inv
<1> QED
    BY <1>1, Invariant, PTL

\* No occurrence is claimed twice unless an edit wrote the row in between, and
\* that of a recurring order only if the edit had read the clock before the
\* claim: pauses, manual runs and restarts never bring one back
\* (service.go:413, schedulers.go:336).
THEOREM ClaimedOnce == Spec => []ClaimOnce
<1>1. Init => Overtakings
    BY DEF Init, Overtakings, OvertakenBetween, EditAhead, Idle
<1>2. Inv /\ Overtakings /\ [Next]_vars => Overtakings'
    BY OvertakingsStep
<1>3. Inv /\ Overtakings => ClaimOnce
    BY DEF Inv, Overtakings, EditedBetween, OvertakenBetween, ClaimOnce
<1> QED
    BY <1>1, <1>2, <1>3, Invariant, PTL DEF Spec

\* A run row that says running has a fire, or a tick recording it as missed,
\* that will finish it, or had one.
THEOREM RunningRowsOwned == Spec => []RunningRowHasOwner
<1>1. ASSUME Inv PROVE RunningRowHasOwner
    BY <1>1 DEF Inv, Recorded, RunningStages, RunningRowHasOwner, Marked
<1> QED
    BY <1>1, Invariant, PTL

\* Only an edit that asks for it enables an order.
THEOREM EditsEnable == Spec => OnlyEditsEnable
<1> DEFINE A == \A s \in Scheds :
                  (~row[s].enabled /\ row'[s].enabled)
                      => edit.pc = "computed" /\ edit.s = s /\ edit.enabled
<1>1. ASSUME Inv, [Next]_vars PROVE [A]_vars
    <2> SUFFICES ASSUME NEW s \in Scheds, ~row[s].enabled, row'[s].enabled
                 PROVE  edit.pc = "computed" /\ edit.s = s /\ edit.enabled
        OBVIOUS
    <2>1. CASE ClaimDueSchedulers
        <3>1. PICK D \in SUBSET Due :
                row' = [t \in Scheds |-> IF t \in D THEN ClaimedRow(t) ELSE row[t]]
            BY <2>1 DEF ClaimDueSchedulers
        <3>2. s \notin D
            BY DEF Due, IsDue
        <3> QED
            BY <3>1, <3>2
    <2>2. CASE PatchWrite
        <3>1. row \in [Scheds -> Rows]
            BY <1>1 DEF Inv, Types
        <3>2. /\ edit.pc = "computed" /\ row' # row
              /\ row' = [row EXCEPT ![edit.s] = Patched(row[edit.s])]
            BY <2>2 DEF PatchWrite
        <3>3. edit.s \in Scheds
            BY <1>1, <3>2 DEF Inv, Types, EditStates, Idle
        <3>4. edit.s = s /\ row'[s] = Patched(row[s])
            BY <3>1, <3>2, <3>3
        <3>5. Patched(row[s]).enabled = edit.enabled
            BY <3>1 DEF Patched, Rows
        <3> QED
            BY <3>2, <3>4, <3>5
    <2> QED
        BY <1>1, <2>1, <2>2, ScheduleStays
<1>2. Inv /\ [Next]_vars => [A]_vars
    BY <1>1
<1> QED
    BY <1>2, Invariant, PTL DEF Spec, OnlyEditsEnable

\* The scheduler keeps the rules of SingleFlight: an order has one fire in hand
\* at a time (service.go:261, service.go:570), a fire opens and closes a record
\* of its own while the order exists, and what a deleted order had recorded goes
\* with it; only a crash or a lost write leaves a record open.
THEOREM KeepsSingleFlight == Spec => ImplementsSingleFlight
<1>1. Init => Flight!FlightInit /\ Unopened
    BY DEF Init, Flight!FlightInit, Unopened, PhaseOf, OrderOf, Deleted, Idle
<1>2. Inv /\ Unopened /\ [Next]_vars => Unopened'
    BY UnopenedStep
<1>3. Inv /\ Unopened /\ [Next]_vars => [Flight!FlightNext]_(Flight!flightVars)
    BY FlightStep
<1> QED
    BY <1>1, <1>2, <1>3, Invariant, PTL DEF Spec, ImplementsSingleFlight, Flight!FlightSpec
=============================================================================
