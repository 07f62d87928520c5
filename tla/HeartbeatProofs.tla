-------------------------- MODULE HeartbeatProofs --------------------------
(***************************************************************************)
(* Safety of Heartbeat for every set of goroutines, windows and bounds.    *)
(*                                                                         *)
(* The streak and the run rows are written by two statements, so what they *)
(* say agrees only between ticks.  Inv says what holds in the middle: the  *)
(* one tick that holds the marker knows the outcome by which they differ,  *)
(* and a streak that is long enough to pause the row is explained whether  *)
(* or not an outcome is being applied.                                     *)
(***************************************************************************)
EXTENDS Heartbeat, FiniteSetTheorems, TLAPS

Streaks == 0..MaxTrail
Hours == 0..Day-1
Snaps == [streak: Streaks, window: Windows]

FireStates ==
    {Nothing} \cup [pc: {"asked", "start", "release"}, snap: Snaps]
              \cup [pc: {"preflight", "pause"}, snap: Snaps, at: Hours]
              \cup [pc: {"submit", "drain"}, at: Hours, window: Windows]
              \cup [pc: {"finish", "apply", "release"}, outcome: Outcomes]

Types ==
    /\ TypeOK
    /\ claimed \in {Nothing} \cup [pc: {"claimed"}, snap: Snaps]
    /\ fire \in [Fires -> FireStates]
    /\ edit \in {Nothing} \cup [pc: {"put"}, streak: Streaks]
                          \cup [pc: {"resume"}, window: Windows]

(* A tick under way holds the marker, alone. *)
Holds(f) == fire[f].pc \notin {"idle", "asked"}

MarkerHeld ==
    /\ marker <=> \E f \in Fires : Holds(f)
    /\ \A f, g \in Fires : Holds(f) /\ Holds(g) => f = g

(* While an outcome waits to be applied, it is the difference. *)
After(o) == CASE o = "completed" -> 0
              [] o = "failed"    -> row.streak + 1
              [] OTHER           -> row.streak

Counted ==
    \A f \in Fires : fire[f].pc = "apply" =>
        /\ fire[f].outcome = "completed" => trail = 0
        /\ ~drift => trail = After(fire[f].outcome)

LongStreakAsked == (~drift /\ row.streak >= AutoPause /\ row.enabled) => asked

(* The hour was judged against the window the tick will be recorded with. *)
Judged ==
    \A f \in Fires :
        /\ fire[f].pc = "preflight" => InActiveHours(fire[f].snap.window, fire[f].at)
        /\ fire[f].pc \in {"submit", "drain"} => InActiveHours(fire[f].window, fire[f].at)

Inv ==
    /\ Types
    /\ MarkerHeld
    /\ Counted
    /\ StreakAgrees
    /\ LongStreakAsked
    /\ Judged

-----------------------------------------------------------------------------
LEMMA Constants ==
    /\ AutoPause \in Nat \ {0} /\ MaxTrail \in Nat \ {0} /\ Day \in Nat \ {0}
    /\ Streaks \subseteq Nat /\ 0 \in Streaks
BY HeartbeatAssumption DEF Streaks

LEMMA InitInv == Init => Inv
<1> SUFFICES ASSUME Init PROVE Inv
    OBVIOUS
<1> USE Constants DEF Nothing
<1>1. Types
    <2>1. PICK w \in Windows :
            row = [enabled |-> TRUE, next |-> "ahead", streak |-> 0, window |-> w]
        BY DEF Init
    <2>2. row \in Rows /\ row.enabled /\ row.next # "none"
        BY <2>1 DEF Rows, Streaks
    <2>3. fire \in [Fires -> FireStates]
        BY DEF Init, FireStates
    <2>4. {marker, live, drift, asked} \subseteq BOOLEAN /\ trail \in 0..MaxTrail
        BY DEF Init, Streaks
    <2>5. claimed = Nothing /\ edit = Nothing
        BY DEF Init
    <2> QED
        BY <2>2, <2>3, <2>4, <2>5 DEF Types, TypeOK
<1>2. \A f \in Fires : fire[f].pc = "idle"
    BY DEF Init
<1>3. MarkerHeld /\ Counted /\ Judged /\ LongStreakAsked /\ StreakAgrees
    BY <1>2 DEF Init, MarkerHeld, Holds, Counted, Judged, LongStreakAsked, StreakAgrees
<1> QED
    BY <1>1, <1>3 DEF Inv

(* What a goroutine's step does to the goroutines. *)
Steps(f, x) == fire' = [fire EXCEPT ![f] = x]

LEMMA OneStep ==
    ASSUME Types, NEW f \in Fires, NEW x \in FireStates, Steps(f, x)
    PROVE  /\ fire' \in [Fires -> FireStates] /\ fire'[f] = x
           /\ \A g \in Fires : g # f => fire'[g] = fire[g]
BY DEF Types, Steps

(* Going on keeps what the goroutine remembers. *)
LEMMA GoState ==
    ASSUME Types, NEW f \in Fires, NEW pc, Go(f, pc),
           \/ fire[f].pc = "asked" /\ pc = "start"
           \/ fire[f].pc = "start" /\ pc = "release"
           \/ fire[f].pc = "preflight" /\ pc = "pause"
           \/ fire[f].pc = "submit" /\ pc = "drain"
           \/ fire[f].pc \in {"finish", "apply"} /\ pc \in {"apply", "release"}
    PROVE  \E x \in FireStates :
             /\ Steps(f, x) /\ x.pc = pc
             /\ pc = "apply" => x.outcome = fire[f].outcome
             /\ pc = "drain" => x.window = fire[f].window /\ x.at = fire[f].at
<1> DEFINE x == [fire[f] EXCEPT !.pc = pc]
<1>1. Steps(f, x)
    BY DEF Go, Steps
<1>2. fire[f] \in FireStates
    BY DEF Types
<1>3. CASE fire[f].pc \in {"asked", "start"} /\ pc \in {"start", "release"}
    <2>1. fire[f] \in [pc: {"asked", "start", "release"}, snap: Snaps]
        BY <1>2, <1>3 DEF FireStates, Nothing
    <2>2. x \in [pc: {"asked", "start", "release"}, snap: Snaps] /\ x.pc = pc
        BY <1>3, <2>1
    <2> QED
        BY <1>1, <1>3, <2>2 DEF FireStates
<1>4. CASE fire[f].pc = "preflight" /\ pc = "pause"
    <2>1. fire[f] \in [pc: {"preflight", "pause"}, snap: Snaps, at: Hours]
        BY <1>2, <1>4 DEF FireStates, Nothing
    <2>2. x \in [pc: {"preflight", "pause"}, snap: Snaps, at: Hours] /\ x.pc = pc
        BY <1>4, <2>1
    <2> QED
        BY <1>1, <1>4, <2>2 DEF FireStates
<1>5. CASE fire[f].pc = "submit" /\ pc = "drain"
    <2>1. fire[f] \in [pc: {"submit", "drain"}, at: Hours, window: Windows]
        BY <1>2, <1>5 DEF FireStates, Nothing
    <2>2. /\ x \in [pc: {"submit", "drain"}, at: Hours, window: Windows] /\ x.pc = pc
          /\ x.window = fire[f].window /\ x.at = fire[f].at
        BY <1>5, <2>1
    <2> QED
        BY <1>1, <1>5, <2>2 DEF FireStates
<1>6. CASE fire[f].pc \in {"finish", "apply"} /\ pc \in {"apply", "release"}
    <2>1. fire[f] \in [pc: {"finish", "apply", "release"}, outcome: Outcomes]
        BY <1>2, <1>6 DEF FireStates, Nothing
    <2>2. /\ x \in [pc: {"finish", "apply", "release"}, outcome: Outcomes] /\ x.pc = pc
          /\ x.outcome = fire[f].outcome
        BY <1>6, <2>1
    <2> QED
        BY <1>1, <1>6, <2>2 DEF FireStates
<1> QED
    BY <1>3, <1>4, <1>5, <1>6
-----------------------------------------------------------------------------
(* Only the holder of the marker can be applying an outcome. *)
LEMMA LoneHolder ==
    ASSUME Inv, NEW f \in Fires, Holds(f)
    PROVE  \A g \in Fires : g # f => ~Holds(g) /\ fire[g].pc # "apply"
BY DEF Inv, MarkerHeld, Holds

(* A goroutine that keeps or does not need the marker moves on. *)
LEMMA FireMoves ==
    ASSUME Inv, NEW f \in Fires, NEW x \in FireStates, Steps(f, x), marker' = marker,
           Holds(f) <=> x.pc \notin {"idle", "asked"},
           x.pc = "preflight" => InActiveHours(x.snap.window, x.at),
           x.pc \in {"submit", "drain"} => InActiveHours(x.window, x.at)
    PROVE  /\ fire' \in [Fires -> FireStates] /\ MarkerHeld' /\ Judged'
           /\ fire'[f] = x /\ \A g \in Fires : g # f => fire'[g] = fire[g]
<1>1. /\ fire' \in [Fires -> FireStates] /\ fire'[f] = x
      /\ \A g \in Fires : g # f => fire'[g] = fire[g]
    BY OneStep DEF Inv
<1>2. \A g \in Fires : Holds(g)' <=> Holds(g)
    BY <1>1 DEF Holds
<1>3. MarkerHeld'
    BY <1>2 DEF Inv, MarkerHeld
<1>4. Judged'
    BY <1>1 DEF Inv, Judged
<1> QED
    BY <1>1, <1>3, <1>4

(* ... and nothing is written: *)
LEMMA QuietMove ==
    ASSUME Inv, NEW f \in Fires, NEW x \in FireStates, Steps(f, x),
           UNCHANGED <<row, claimed, marker, edit, trail, drift, asked>>, live' \in BOOLEAN,
           Holds(f) <=> x.pc \notin {"idle", "asked"},
           fire[f].pc # "apply", x.pc # "apply",
           x.pc = "preflight" => InActiveHours(x.snap.window, x.at),
           x.pc \in {"submit", "drain"} => InActiveHours(x.window, x.at)
    PROVE  Inv'
<1>1. /\ fire' \in [Fires -> FireStates] /\ MarkerHeld' /\ Judged'
      /\ fire'[f] = x /\ \A g \in Fires : g # f => fire'[g] = fire[g]
    BY FireMoves
<1>2. \A g \in Fires : /\ fire'[g].pc = "apply" <=> fire[g].pc = "apply"
                       /\ fire[g].pc = "apply" => fire'[g] = fire[g]
    BY <1>1
<1>3. Types'
    BY <1>1 DEF Inv, Types, TypeOK
<1>4. Counted'
    BY <1>2 DEF Inv, Counted, After
<1>5. StreakAgrees' /\ LongStreakAsked'
    BY <1>2 DEF Inv, StreakAgrees, LongStreakAsked, Applying
<1> QED
    BY <1>1, <1>3, <1>4, <1>5 DEF Inv

(* An outcome concludes a tick. *)
LEMMA ConcludeState ==
    ASSUME NEW f \in Fires, NEW o \in Outcomes, Conclude(f, o)
    PROVE  \E x \in FireStates : Steps(f, x) /\ x.pc = "finish" /\ x.outcome = o
<1> DEFINE x == [pc |-> "finish", outcome |-> o]
<1>1. x \in [pc: {"finish", "apply", "release"}, outcome: Outcomes] /\ x.pc = "finish" /\ x.outcome = o
    OBVIOUS
<1>2. Steps(f, x)
    BY DEF Steps, Conclude
<1> QED
    BY <1>1, <1>2 DEF FireStates

LEMMA ConcludeMove ==
    ASSUME Inv, NEW f \in Fires, NEW o \in Outcomes, Conclude(f, o), Holds(f),
           UNCHANGED <<row, claimed, marker, edit, trail, drift, asked>>, live' \in BOOLEAN,
           fire[f].pc # "apply"
    PROVE  Inv'
<1>1. PICK x \in FireStates : Steps(f, x) /\ x.pc = "finish"
    BY ConcludeState
<1> QED
    BY <1>1, QuietMove

-----------------------------------------------------------------------------
(* The steps of a tick. *)

LEMMA DispatchStep == ASSUME Inv, NEW f \in Fires, Dispatch(f) PROVE Inv'
<1> DEFINE x == [pc |-> "start", snap |-> claimed.snap]
<1>1. /\ UNCHANGED <<row, live, edit, trail, drift, asked>>
      /\ claimed # Nothing /\ claimed' = Nothing /\ ~marker /\ marker' = TRUE /\ Steps(f, x)
    BY DEF Dispatch, Steps
<1>2. x \in FireStates /\ x.pc = "start"
    <2>1. claimed.snap \in Snaps
        BY <1>1 DEF Inv, Types
    <2>2. x \in [pc: {"asked", "start", "release"}, snap: Snaps] /\ x.pc = "start"
        BY <2>1
    <2> QED
        BY <2>2 DEF FireStates
<1>3. /\ fire' \in [Fires -> FireStates] /\ fire'[f].pc = "start"
      /\ \A g \in Fires : g # f => fire'[g] = fire[g]
    BY <1>1, <1>2, OneStep DEF Inv
<1>4. \A g \in Fires : ~Holds(g)
    BY <1>1 DEF Inv, MarkerHeld
<1>5. MarkerHeld'
    BY <1>1, <1>3, <1>4 DEF MarkerHeld, Holds
<1>6. \A g \in Fires : fire[g].pc # "apply" /\ fire'[g].pc # "apply"
    BY <1>3, <1>4 DEF Holds
<1>7. Types'
    BY <1>1, <1>3 DEF Inv, Types, TypeOK
<1>8. Counted' /\ StreakAgrees' /\ LongStreakAsked'
    BY <1>1, <1>6 DEF Inv, Counted, StreakAgrees, LongStreakAsked, Applying
<1>9. Judged'
    BY <1>3 DEF Inv, Judged
<1> QED
    BY <1>5, <1>7, <1>8, <1>9 DEF Inv

LEMMA MarkManualStep == ASSUME Inv, NEW f \in Fires, MarkManual(f) PROVE Inv'
<1>1. /\ UNCHANGED <<row, claimed, live, edit, trail, drift, asked>>
      /\ fire[f].pc = "asked" /\ marker' = TRUE
    BY DEF MarkManual
<1>2. CASE marker
    <2>1. Steps(f, Nothing) /\ Nothing \in FireStates /\ Nothing.pc = "idle" /\ marker' = marker
        BY <1>1, <1>2 DEF MarkManual, Steps, FireStates, Nothing
    <2>2. live' \in BOOLEAN /\ ~Holds(f) /\ UNCHANGED <<row, claimed, marker, edit, trail, drift, asked>>
        BY <1>1, <2>1 DEF Inv, Types, TypeOK, Holds
    <2> QED
        BY <1>1, <2>1, <2>2, QuietMove
<1>3. CASE ~marker
    <2>1. Go(f, "start")
        BY <1>1, <1>3 DEF MarkManual, Go
    <2>2. PICK x \in FireStates : Steps(f, x) /\ x.pc = "start"
        BY <1>1, <2>1, GoState DEF Inv
    <2>3. /\ fire' \in [Fires -> FireStates] /\ fire'[f].pc = "start"
          /\ \A g \in Fires : g # f => fire'[g] = fire[g]
        BY <2>2, OneStep DEF Inv
    <2>4. \A g \in Fires : ~Holds(g)
        BY <1>3 DEF Inv, MarkerHeld
    <2>5. MarkerHeld'
        BY <1>1, <2>3, <2>4 DEF MarkerHeld, Holds
    <2>6. \A g \in Fires : fire[g].pc # "apply" /\ fire'[g].pc # "apply"
        BY <2>3, <2>4 DEF Holds
    <2>7. Types'
        BY <1>1, <2>3 DEF Inv, Types, TypeOK
    <2>8. Counted' /\ StreakAgrees' /\ LongStreakAsked'
        BY <1>1, <2>6 DEF Inv, Counted, StreakAgrees, LongStreakAsked, Applying
    <2>9. Judged'
        BY <2>3 DEF Inv, Judged
    <2> QED
        BY <2>5, <2>7, <2>8, <2>9 DEF Inv
<1> QED
    BY <1>2, <1>3

LEMMA RunNowStep == ASSUME Inv, NEW f \in Fires, RunNow(f) PROVE Inv'
<1> DEFINE x == [pc |-> "asked", snap |-> Read(row)]
<1>1. /\ UNCHANGED <<row, claimed, marker, live, edit, trail, drift, asked>>
      /\ fire[f] = Nothing /\ Steps(f, x)
    BY DEF RunNow, Steps
<1>2. Read(row) \in Snaps
    BY DEF Inv, Types, TypeOK, Rows, Read, Snaps, Streaks
<1>3. x \in FireStates /\ x.pc = "asked"
    <2>1. x \in [pc: {"asked", "start", "release"}, snap: Snaps] /\ x.pc = "asked"
        BY <1>2
    <2> QED
        BY <2>1 DEF FireStates
<1>4. fire[f].pc = "idle" /\ ~Holds(f) /\ live' \in BOOLEAN
    BY <1>1 DEF Nothing, Holds, Inv, Types, TypeOK
<1> QED
    BY <1>1, <1>3, <1>4, QuietMove

LEMMA GuardsStep == ASSUME Inv, NEW f \in Fires, Guards(f) PROVE Inv'
<1>1. /\ UNCHANGED <<row, claimed, marker, live, edit, trail, drift, asked>>
      /\ fire[f].pc = "start" /\ Holds(f) /\ live' \in BOOLEAN
    BY DEF Guards, Holds, Inv, Types, TypeOK
<1>2. CASE Go(f, "release")
    <2>1. PICK x \in FireStates : Steps(f, x) /\ x.pc = "release"
        BY <1>1, <1>2, GoState DEF Inv
    <2> QED
        BY <1>1, <2>1, QuietMove
<1>3. CASE Conclude(f, "none") \/ Conclude(f, "failed")
    BY <1>1, <1>3, ConcludeMove DEF Outcomes
<1>4. ASSUME NEW t \in 0..Day-1, InActiveHours(fire[f].snap.window, t),
             fire' = [fire EXCEPT ![f] = [pc |-> "preflight", snap |-> fire[f].snap, at |-> t]]
      PROVE  Inv'
    <2> DEFINE x == [pc |-> "preflight", snap |-> fire[f].snap, at |-> t]
    <2>1. fire[f] \in [pc: {"asked", "start", "release"}, snap: Snaps]
        BY <1>1 DEF Inv, Types, FireStates, Nothing
    <2>2. /\ x \in [pc: {"preflight", "pause"}, snap: Snaps, at: Hours] /\ x.pc = "preflight"
          /\ x.snap.window = fire[f].snap.window /\ x.at = t
        BY <2>1 DEF Hours
    <2>3. Steps(f, x)
        BY <1>4 DEF Steps
    <2>4. x \in FireStates
        BY <2>2 DEF FireStates
    <2> HIDE DEF x
    <2> QED
        BY <1>1, <1>4, <2>2, <2>3, <2>4, QuietMove
<1> QED
    BY <1>2, <1>3, <1>4 DEF Guards

LEMMA PreflightStep == ASSUME Inv, NEW f \in Fires, Preflight(f) PROVE Inv'
<1>1. /\ UNCHANGED <<row, claimed, marker, live, edit, trail, drift, asked>>
      /\ fire[f].pc = "preflight" /\ Holds(f) /\ live' \in BOOLEAN
    BY DEF Preflight, Holds, Inv, Types, TypeOK
<1>2. CASE Go(f, "pause")
    <2>1. PICK x \in FireStates : Steps(f, x) /\ x.pc = "pause"
        BY <1>1, <1>2, GoState DEF Inv
    <2> QED
        BY <1>1, <2>1, QuietMove
<1>3. CASE Conclude(f, "blocked") \/ Conclude(f, "failed")
    BY <1>1, <1>3, ConcludeMove DEF Outcomes
<1>4. CASE fire' = [fire EXCEPT ![f] = [pc |-> "submit", at |-> fire[f].at,
                                        window |-> fire[f].snap.window]]
    <2> DEFINE x == [pc |-> "submit", at |-> fire[f].at, window |-> fire[f].snap.window]
    <2>1. fire[f] \in [pc: {"preflight", "pause"}, snap: Snaps, at: Hours]
        BY <1>1 DEF Inv, Types, FireStates, Nothing
    <2>2. /\ x \in [pc: {"submit", "drain"}, at: Hours, window: Windows] /\ x.pc = "submit"
          /\ x.window = fire[f].snap.window /\ x.at = fire[f].at
        BY <2>1 DEF Snaps
    <2>3. Steps(f, x) /\ x \in FireStates
        BY <1>4, <2>2 DEF Steps, FireStates
    <2>4. InActiveHours(x.window, x.at)
        BY <1>1, <2>2 DEF Inv, Judged
    <2> HIDE DEF x
    <2> QED
        BY <1>1, <2>2, <2>3, <2>4, QuietMove
<1> QED
    BY <1>2, <1>3, <1>4 DEF Preflight

LEMMA SubmitStep == ASSUME Inv, NEW f \in Fires, Submit(f) PROVE Inv'
<1>1. /\ UNCHANGED <<row, claimed, marker, edit, trail, drift, asked>>
      /\ fire[f].pc = "submit" /\ Holds(f)
    BY DEF Submit, Holds
<1>2. live' \in BOOLEAN
    BY DEF Submit, Inv, Types, TypeOK
<1>3. CASE Go(f, "drain")
    <2>1. PICK x \in FireStates : /\ Steps(f, x) /\ x.pc = "drain"
                                  /\ x.window = fire[f].window /\ x.at = fire[f].at
        BY <1>1, <1>3, GoState DEF Inv
    <2>2. InActiveHours(x.window, x.at)
        BY <1>1, <2>1 DEF Inv, Judged
    <2> QED
        BY <1>1, <1>2, <2>1, <2>2, QuietMove
<1>4. CASE Conclude(f, "blocked")
    BY <1>1, <1>2, <1>4, ConcludeMove DEF Outcomes
<1> QED
    BY <1>3, <1>4 DEF Submit

LEMMA DrainStep == ASSUME Inv, NEW f \in Fires, Drained(f) \/ Watchdog(f) PROVE Inv'
<1>1. /\ UNCHANGED <<row, claimed, marker, edit, trail, drift, asked>>
      /\ fire[f].pc = "drain" /\ Holds(f)
    BY DEF Drained, Watchdog, Holds
<1>2. live' \in BOOLEAN
    BY DEF Drained, Watchdog, Inv, Types, TypeOK
<1>3. PICK o \in Outcomes : Conclude(f, o)
    BY DEF Drained, Watchdog, Outcomes
<1> QED
    BY <1>1, <1>2, <1>3, ConcludeMove
LEMMA PauseStep == ASSUME Inv, NEW f \in Fires, Pause(f) PROVE Inv'
<1>1. /\ UNCHANGED <<claimed, marker, live, edit, trail, asked>>
      /\ fire[f].pc = "pause" /\ Holds(f) /\ Conclude(f, "blocked") /\ "blocked" \in Outcomes
    BY DEF Pause, Holds, Outcomes
<1>2. CASE UNCHANGED <<row, drift>>
    <2>1. live' \in BOOLEAN
        BY <1>1 DEF Inv, Types, TypeOK
    <2> QED
        BY <1>1, <1>2, <2>1, ConcludeMove
<1>3. CASE WriteBack(FALSE, fire[f].snap.streak, fire[f].snap.window)
    <2>1. PICK x \in FireStates : Steps(f, x) /\ x.pc = "finish"
        BY <1>1, ConcludeState
    <2>2. /\ fire' \in [Fires -> FireStates] /\ MarkerHeld' /\ Judged'
          /\ fire'[f] = x /\ \A g \in Fires : g # f => fire'[g] = fire[g]
        BY <1>1, <2>1, FireMoves
    <2>3. \A g \in Fires : fire[g].pc # "apply" /\ fire'[g].pc # "apply"
        BY <1>1, <2>1, <2>2, LoneHolder
    <2>4. fire[f] \in [pc: {"preflight", "pause"}, snap: Snaps, at: Hours]
        BY <1>1 DEF Inv, Types, FireStates, Nothing
    <2>5. /\ row'.enabled = FALSE /\ row'.next = "none"
          /\ row'.streak = fire[f].snap.streak /\ row' \in Rows
        BY <1>3, <2>4 DEF WriteBack, NextRun, Rows, Snaps, Streaks
    <2>6. drift' = (drift \/ row'.streak # row.streak)
        BY <1>3, <2>5 DEF WriteBack
    <2>7. Types'
        BY <1>1, <2>2, <2>5, <2>6 DEF Inv, Types, TypeOK
    <2>8. Counted' /\ LongStreakAsked'
        BY <2>3, <2>5 DEF Counted, LongStreakAsked
    <2>9. StreakAgrees'
        BY <1>1, <2>3, <2>6 DEF Inv, StreakAgrees, Applying
    <2> QED
        BY <2>2, <2>7, <2>8, <2>9 DEF Inv
<1> QED
    BY <1>2, <1>3 DEF Pause

(* The run row counts the tick; the streak will follow. *)
LEMMA FinishStep == ASSUME Inv, NEW f \in Fires, FinishHeartbeatRun(f) PROVE Inv'
<1>1. /\ UNCHANGED <<row, claimed, marker, live, edit, drift, asked>>
      /\ fire[f].pc = "finish" /\ Holds(f)
    BY DEF FinishHeartbeatRun, Holds
<1>2. CASE Go(f, "release") /\ UNCHANGED trail
    <2>1. PICK x \in FireStates : Steps(f, x) /\ x.pc = "release"
        BY <1>1, <1>2, GoState DEF Inv
    <2>2. live' \in BOOLEAN
        BY <1>1 DEF Inv, Types, TypeOK
    <2> QED
        BY <1>1, <1>2, <2>1, <2>2, QuietMove
<1>3. ASSUME Go(f, "apply"), trail' <= MaxTrail,
             trail' = CASE fire[f].outcome = "completed" -> 0
                        [] fire[f].outcome = "failed"    -> trail + 1
                        [] OTHER                         -> trail
      PROVE  Inv'
    <2>1. PICK x \in FireStates : /\ Steps(f, x) /\ x.pc = "apply"
                                  /\ x.outcome = fire[f].outcome
        BY <1>1, <1>3, GoState DEF Inv
    <2>2. /\ fire' \in [Fires -> FireStates] /\ MarkerHeld' /\ Judged'
          /\ fire'[f] = x /\ \A g \in Fires : g # f => fire'[g] = fire[g]
        BY <1>1, <2>1, FireMoves
    <2>3. /\ \A g \in Fires : fire[g].pc # "apply"
          /\ \A g \in Fires : fire'[g].pc = "apply" => g = f
        BY <1>1, <2>2, LoneHolder
    <2>4. trail \in Nat /\ row.streak \in Nat /\ MaxTrail \in Nat
        BY Constants DEF Inv, Types, TypeOK, Rows
    <2>5. trail' \in 0..MaxTrail
        BY <1>3, <2>4
    <2>6. Types'
        BY <1>1, <2>2, <2>5 DEF Inv, Types, TypeOK
    <2>7. ~drift => row.streak = trail
        BY <2>3 DEF Inv, StreakAgrees, Applying
    <2>8. /\ x.outcome = "completed" => trail' = 0
          /\ ~drift => trail' = After(x.outcome)
        BY <1>3, <2>1, <2>7 DEF After
    <2>9. Counted'
        BY <1>1, <2>2, <2>3, <2>8 DEF Counted, After
    <2>10. StreakAgrees' /\ LongStreakAsked'
        <3>1. Applying'
            BY <2>1, <2>2 DEF Applying
        <3> QED
            BY <1>1, <3>1 DEF Inv, StreakAgrees, LongStreakAsked
    <2> QED
        BY <2>2, <2>6, <2>9, <2>10 DEF Inv
<1> QED
    BY <1>2, <1>3 DEF FinishHeartbeatRun

(* What the statement makes of the row's fields. *)
LEMMA OutcomeRow ==
    ASSUME NEW r \in Rows, NEW o \in Outcomes, r.streak < MaxTrail \/ o # "failed",
           r.enabled <=> r.next # "none"
    PROVE  /\ Outcome(r, o) \in Rows
           /\ Outcome(r, o).enabled <=> Outcome(r, o).next # "none"
           /\ Outcome(r, o).enabled => r.enabled
           /\ o = "completed" => Outcome(r, o).streak = 0
           /\ o = "failed" => /\ Outcome(r, o).streak = r.streak + 1
                              /\ Outcome(r, o).enabled => r.streak + 1 < AutoPause
           /\ o \notin {"completed", "failed"} => Outcome(r, o) = r
<1> USE Constants
<1>1. CASE o = "completed"
    BY <1>1 DEF Outcome, Rows
<1>2. CASE o = "failed" /\ r.streak + 1 >= AutoPause
    <2>1. Outcome(r, o) = [r EXCEPT !.enabled = FALSE, !.next = "none", !.streak = @ + 1]
        <3>1. r.streak \in Nat /\ AutoPause \in Nat /\ o # "completed"
            BY <1>2 DEF Rows
        <3>2. ~(r.streak + 1 < AutoPause)
            BY <1>2, <3>1
        <3> QED
            BY <1>2, <3>1, <3>2 DEF Outcome
    <2>2. r.streak + 1 \in 0..MaxTrail
        BY <1>2 DEF Rows
    <2> QED
        BY <1>2, <2>1, <2>2 DEF Rows
<1>3. CASE o = "failed" /\ r.streak + 1 < AutoPause
    <2>1. Outcome(r, o) = [r EXCEPT !.streak = @ + 1]
        BY <1>3 DEF Outcome
    <2>2. r.streak + 1 \in 0..MaxTrail
        BY <1>3 DEF Rows
    <2> QED
        BY <1>3, <2>1, <2>2 DEF Rows
<1>4. CASE o \notin {"completed", "failed"}
    <2>1. Outcome(r, o) = r
        BY <1>4 DEF Outcome
    <2> QED
        BY <1>4, <2>1
<1> QED
    <2>1. r.streak \in Nat
        BY DEF Rows
    <2> QED
        BY <1>1, <1>2, <1>3, <1>4, <2>1
LEMMA ApplyStep == ASSUME Inv, NEW f \in Fires, ApplyHeartbeatOutcome(f) PROVE Inv'
<1> DEFINE o == fire[f].outcome
<1>1. /\ UNCHANGED <<claimed, marker, live, edit, trail>>
      /\ fire[f].pc = "apply" /\ Holds(f) /\ Go(f, "release")
    BY DEF ApplyHeartbeatOutcome, Holds
<1>2. PICK x \in FireStates : Steps(f, x) /\ x.pc = "release"
    BY <1>1, GoState DEF Inv
<1>3. /\ fire' \in [Fires -> FireStates] /\ MarkerHeld' /\ Judged'
      /\ fire'[f] = x /\ \A g \in Fires : g # f => fire'[g] = fire[g]
    BY <1>1, <1>2, FireMoves
<1>4. \A g \in Fires : fire'[g].pc # "apply"
    BY <1>1, <1>2, <1>3, LoneHolder
<1>5. o \in Outcomes
    <2>1. fire[f] \in [pc: {"finish", "apply", "release"}, outcome: Outcomes]
        BY <1>1 DEF Inv, Types, FireStates, Nothing
    <2> QED
        BY <2>1
<1>6. /\ o = "completed" => trail = 0
      /\ ~drift => trail = After(o)
    BY <1>1 DEF Inv, Counted
<1>7. row \in Rows /\ (row.enabled <=> row.next # "none") /\ row.streak \in Nat /\ trail \in Nat
    BY Constants DEF Inv, Types, TypeOK, Rows
<1>8. CASE drift' = (drift \/ o \in {"completed", "failed"}) /\ UNCHANGED <<row, asked>>
    <2>1. Types'
        BY <1>1, <1>3, <1>8 DEF Inv, Types, TypeOK
    <2>2. ~drift' => row'.streak = trail'
        BY <1>1, <1>6, <1>8 DEF After
    <2>3. Counted' /\ StreakAgrees'
        BY <1>4, <2>2 DEF Counted, StreakAgrees
    <2>4. LongStreakAsked'
        BY <1>8 DEF Inv, LongStreakAsked
    <2> QED
        BY <1>3, <2>1, <2>3, <2>4 DEF Inv
<1>9. CASE /\ row.streak < MaxTrail \/ o # "failed"
           /\ row' = Outcome(row, o)
           /\ drift' = (drift /\ o # "completed")
           /\ asked' = (asked /\ ~(row.enabled /\ ~row'.enabled))
    <2> HIDE DEF o
    <2>1. /\ row' \in Rows
          /\ row'.enabled <=> row'.next # "none"
          /\ row'.enabled => row.enabled
          /\ o = "completed" => row'.streak = 0
          /\ o = "failed" => /\ row'.streak = row.streak + 1
                             /\ row'.enabled => row.streak + 1 < AutoPause
          /\ o \notin {"completed", "failed"} => row' = row
        BY <1>5, <1>7, <1>9, OutcomeRow
    <2>2. Types'
        <3>1. drift' \in BOOLEAN /\ asked' \in BOOLEAN
            BY <1>9
        <3> QED
            BY <1>1, <1>3, <2>1, <3>1 DEF Inv, Types, TypeOK
    <2>3. ~drift' => row'.streak = trail'
        <3>1. CASE o = "completed"
            BY <1>1, <1>6, <2>1, <3>1
        <3>2. CASE o = "failed"
            BY <1>1, <1>6, <1>9, <2>1, <3>2 DEF After
        <3>3. CASE o \notin {"completed", "failed"}
            BY <1>1, <1>6, <1>9, <2>1, <3>3 DEF After
        <3> QED
            BY <3>1, <3>2, <3>3
    <2>4. Counted' /\ StreakAgrees'
        BY <1>4, <2>3 DEF Counted, StreakAgrees
    <2>5. LongStreakAsked'
        <3> SUFFICES ASSUME ~drift', row'.streak >= AutoPause, row'.enabled PROVE asked'
            BY DEF LongStreakAsked
        <3>1. row.enabled
            BY <2>1
        <3>2. o \notin {"completed", "failed"}
            BY <1>7, <2>1, Constants
        <3>3. ~drift /\ row' = row
            BY <1>9, <2>1, <3>2
        <3> QED
            BY <1>9, <3>1, <3>3 DEF Inv, LongStreakAsked
    <2> QED
        BY <1>3, <2>2, <2>4, <2>5 DEF Inv
<1> QED
    BY <1>8, <1>9 DEF ApplyHeartbeatOutcome

LEMMA ReleaseStep == ASSUME Inv, NEW f \in Fires, Release(f) PROVE Inv'
<1>1. /\ UNCHANGED <<row, claimed, live, edit, trail, drift, asked>>
      /\ fire[f].pc = "release" /\ Holds(f) /\ marker' = FALSE /\ Steps(f, Nothing)
    BY DEF Release, Holds, Steps
<1>2. Nothing \in FireStates /\ Nothing.pc = "idle"
    BY DEF FireStates, Nothing
<1>3. /\ fire' \in [Fires -> FireStates] /\ fire'[f] = Nothing
      /\ \A g \in Fires : g # f => fire'[g] = fire[g]
    BY <1>1, <1>2, OneStep DEF Inv
<1>4. \A g \in Fires : ~Holds(g)'
    BY <1>1, <1>2, <1>3, LoneHolder DEF Holds
<1>5. MarkerHeld'
    BY <1>1, <1>4 DEF MarkerHeld
<1>6. \A g \in Fires : fire[g].pc # "apply" /\ fire'[g].pc # "apply"
    BY <1>1, <1>4, LoneHolder DEF Holds
<1>7. Types'
    BY <1>1, <1>3 DEF Inv, Types, TypeOK
<1>8. Counted' /\ StreakAgrees' /\ LongStreakAsked'
    BY <1>1, <1>6 DEF Inv, Counted, StreakAgrees, LongStreakAsked, Applying
<1>9. Judged'
    BY <1>2, <1>3 DEF Inv, Judged
<1> QED
    BY <1>5, <1>7, <1>8, <1>9 DEF Inv

-----------------------------------------------------------------------------
(* The steps that leave every tick where it is. *)

LEMMA Still ==
    ASSUME Inv, UNCHANGED <<fire, marker>>
    PROVE  MarkerHeld' /\ Judged' /\ (Applying' <=> Applying)
<1>1. \A f \in Fires : Holds(f)' <=> Holds(f)
    BY DEF Holds
<1> QED
    BY <1>1 DEF Inv, MarkerHeld, Judged, Applying

(* Time, claims, reads: no streak changes, and no row is enabled. *)
LEMMA IdleStep ==
    ASSUME Inv,
           Clock \/ ClaimDueHeartbeats \/ RecordBusySkip \/ DetachedTurnEnds \/ EditReads
    PROVE  Inv'
<1>1. UNCHANGED <<fire, marker, trail, drift, asked>> /\ row'.streak = row.streak
    BY DEF Clock, ClaimDueHeartbeats, RecordBusySkip, DetachedTurnEnds, EditReads, Inv,
           Types, TypeOK, Rows
<1>2. row' \in Rows /\ row'.enabled = row.enabled /\ (row'.enabled <=> row'.next # "none")
    BY DEF Clock, ClaimDueHeartbeats, RecordBusySkip, DetachedTurnEnds, EditReads, Inv,
           Types, TypeOK, Rows
<1>3. claimed' \in {Nothing} \cup [pc: {"claimed"}, snap: Snaps]
    BY DEF Clock, ClaimDueHeartbeats, RecordBusySkip, DetachedTurnEnds, EditReads, Inv,
           Types, TypeOK, Rows, Read, Snaps, Streaks
<1>4. edit' \in {Nothing} \cup [pc: {"put"}, streak: Streaks]
                          \cup [pc: {"resume"}, window: Windows]
    BY DEF Clock, ClaimDueHeartbeats, RecordBusySkip, DetachedTurnEnds, EditReads, Inv,
           Types, TypeOK, Rows, Streaks
<1>5. live' \in BOOLEAN
    BY DEF Clock, ClaimDueHeartbeats, RecordBusySkip, DetachedTurnEnds, EditReads, Inv,
           Types, TypeOK
<1>6. Types'
    BY <1>1, <1>2, <1>3, <1>4, <1>5 DEF Inv, Types, TypeOK
<1>7. MarkerHeld' /\ Judged' /\ (Applying' <=> Applying)
    BY <1>1, Still
<1>8. Counted' /\ StreakAgrees' /\ LongStreakAsked'
    BY <1>1, <1>2, <1>7 DEF Inv, Counted, After, StreakAgrees, LongStreakAsked
<1> QED
    BY <1>6, <1>7, <1>8 DEF Inv

LEMMA PutStep == ASSUME Inv, PutWrites PROVE Inv'
<1>1. PICK enabled \in BOOLEAN, w \in Windows :
        /\ WriteBack(enabled, edit.streak, w)
        /\ asked' = (asked \/ enabled)
    BY DEF PutWrites
<1>2. /\ UNCHANGED <<claimed, marker, fire, live, trail>>
      /\ edit.pc = "put" /\ edit' = Nothing
    BY DEF PutWrites
<1>3. edit.streak \in Streaks
    BY <1>2 DEF Inv, Types, Nothing
<1>4. /\ row' \in Rows /\ row'.enabled = enabled /\ row'.streak = edit.streak
      /\ row'.enabled <=> row'.next # "none"
    BY <1>1, <1>3 DEF WriteBack, NextRun, Rows, Streaks
<1>5. drift' = (drift \/ row'.streak # row.streak)
    BY <1>1, <1>4 DEF WriteBack
<1>6. Types'
    <2>1. drift' \in BOOLEAN /\ asked' \in BOOLEAN
        BY <1>1, <1>5
    <2> QED
        BY <1>2, <1>4, <2>1 DEF Inv, Types, TypeOK
<1>7. MarkerHeld' /\ Judged' /\ (Applying' <=> Applying)
    BY <1>2, Still
<1>8. ~drift' => ~drift /\ row'.streak = row.streak
    BY <1>5
<1>9. Counted'
    BY <1>2, <1>8 DEF Inv, Counted, After
<1>10. StreakAgrees'
    BY <1>2, <1>7, <1>8 DEF Inv, StreakAgrees
<1>11. LongStreakAsked'
    BY <1>1, <1>4 DEF LongStreakAsked
<1> QED
    BY <1>6, <1>7, <1>9, <1>10, <1>11 DEF Inv

LEMMA ResumeStep == ASSUME Inv, ResumeWrites PROVE Inv'
<1>1. /\ UNCHANGED <<claimed, marker, fire, live>>
      /\ edit.pc = "resume" /\ edit' = Nothing
      /\ row' = [enabled |-> TRUE, next |-> NextRun(TRUE), streak |-> 0,
                 window |-> edit.window]
      /\ trail' = 0 /\ asked' = TRUE /\ drift' = Applying
    BY DEF ResumeWrites, Applying
<1>2. edit.window \in Windows
    BY <1>1 DEF Inv, Types, Nothing
<1>3. row' \in Rows /\ row'.enabled /\ row'.next # "none" /\ row'.streak = 0
    BY <1>1, <1>2, Constants DEF NextRun, Rows, Streaks
<1>4. drift' \in BOOLEAN
    BY <1>1 DEF Applying
<1>5. Types'
    BY <1>1, <1>3, <1>4, Constants DEF Inv, Types, TypeOK, Streaks
<1>6. MarkerHeld' /\ Judged' /\ (Applying' <=> Applying)
    BY <1>1, Still
<1>7. Counted'
    BY <1>1 DEF Inv, Counted, Applying
<1>8. StreakAgrees' /\ LongStreakAsked'
    BY <1>1, <1>3 DEF StreakAgrees, LongStreakAsked
<1> QED
    BY <1>5, <1>6, <1>7, <1>8 DEF Inv

(* A crash between an outcome's two statements loses the second. *)
LEMMA RestartStep == ASSUME Inv, Restart PROVE Inv'
<1>1. /\ UNCHANGED <<row, trail, asked>>
      /\ fire' = [f \in Fires |-> Nothing] /\ claimed' = Nothing /\ marker' = FALSE
      /\ edit' = Nothing /\ live' = FALSE /\ drift' = (drift \/ Applying)
    BY DEF Restart, Applying
<1>2. \A f \in Fires : fire'[f].pc = "idle"
    BY <1>1 DEF Nothing
<1>3. fire' \in [Fires -> FireStates]
    BY <1>1 DEF FireStates
<1>4. drift' \in BOOLEAN
    BY <1>1 DEF Inv, Types, TypeOK, Applying
<1>5. Types'
    BY <1>1, <1>3, <1>4 DEF Inv, Types, TypeOK
<1>6. MarkerHeld' /\ Judged' /\ Counted'
    BY <1>1, <1>2 DEF MarkerHeld, Holds, Judged, Counted
<1>7. StreakAgrees' /\ LongStreakAsked'
    BY <1>1 DEF Inv, StreakAgrees, LongStreakAsked
<1> QED
    BY <1>5, <1>6, <1>7 DEF Inv

LEMMA NextStep == Inv /\ [Next]_vars => Inv'
<1> SUFFICES ASSUME Inv, [Next]_vars PROVE Inv'
    OBVIOUS
<1>1. CASE UNCHANGED vars
    BY <1>1 DEF vars, Inv, Types, TypeOK, MarkerHeld, Holds, Counted, After, StreakAgrees,
                LongStreakAsked, Judged, Applying
<1>2. CASE Clock \/ ClaimDueHeartbeats \/ RecordBusySkip \/ DetachedTurnEnds \/ EditReads
    BY <1>2, IdleStep
<1>3. ASSUME NEW f \in Fires,
             Dispatch(f) \/ RunNow(f) \/ MarkManual(f) \/ Guards(f) \/ Preflight(f)
      PROVE  Inv'
    BY <1>3, DispatchStep, RunNowStep, MarkManualStep, GuardsStep, PreflightStep
<1>4. ASSUME NEW f \in Fires,
             \/ Pause(f) \/ Submit(f) \/ Drained(f) \/ Watchdog(f)
             \/ FinishHeartbeatRun(f) \/ ApplyHeartbeatOutcome(f) \/ Release(f)
      PROVE  Inv'
    BY <1>4, PauseStep, SubmitStep, DrainStep, FinishStep, ApplyStep, ReleaseStep
<1>5. CASE PutWrites \/ ResumeWrites \/ Restart
    BY <1>5, PutStep, ResumeStep, RestartStep
<1> QED
    BY <1>1, <1>2, <1>3, <1>4, <1>5 DEF Next
-----------------------------------------------------------------------------
(* The properties. *)

\* Inv holds in every state that can be reached.
THEOREM Invariant == Spec => []Inv
<1>1. Init => Inv
    BY InitInv
<1>2. Inv /\ [Next]_vars => Inv'
    BY NextStep
<1> QED
    BY <1>1, <1>2, PTL DEF Spec

\* Every variable has its type; a paused heartbeat has no next tick.
THEOREM TypeCorrect == Spec => []TypeOK
<1>1. Inv => TypeOK
    BY DEF Inv, Types
<1> QED
    BY <1>1, Invariant, PTL

\* The streak that pauses the heartbeat is what the run rows count, but for
\* a lost outcome and a stale edit.
THEOREM StreakCounts == Spec => []StreakAgrees
<1>1. Inv => StreakAgrees
    BY DEF Inv
<1> QED
    BY <1>1, Invariant, PTL

\* AutoPause failures in a row pause the heartbeat until somebody asks for it.
THEOREM FailuresDoPause == Spec => []FailuresPause
<1>1. Inv => FailuresPause
    BY DEF Inv, StreakAgrees, LongStreakAsked, FailuresPause
<1> QED
    BY <1>1, Invariant, PTL

\* The marker keeps ticks apart: one is under way when it is set, none
\* when it is not, run-now and restarts included.
THEOREM OneTick == Spec => []OneTickAtATime
<1>1. ASSUME Inv PROVE OneTickAtATime
    <2> DEFINE Holding == {f \in Fires : fire[f].pc \notin {"idle", "asked"}}
    <2>1. CASE marker
        <3>1. PICK f \in Fires : Holds(f)
            BY <1>1, <2>1 DEF Inv, MarkerHeld
        <3>2. Holding = {f}
            BY <1>1, <3>1 DEF Inv, MarkerHeld, Holds
        <3>3. Cardinality(Holding) = 1
            BY <3>2, FS_Singleton
        <3> QED
            BY <2>1, <3>3 DEF OneTickAtATime
    <2>2. CASE ~marker
        <3>1. Holding = {}
            BY <1>1, <2>2 DEF Inv, MarkerHeld, Holds
        <3>2. Cardinality(Holding) = 0
            BY <3>1, FS_EmptySet
        <3> QED
            BY <2>2, <3>2 DEF OneTickAtATime
    <2> QED
        BY <2>1, <2>2
<1> QED
    BY <1>1, Invariant, PTL

\* The comparison the code makes, across midnight too, is membership in the
\* hours that follow the window's start.
LEMMA WindowHours ==
    ASSUME NEW w \in Windows, NEW t \in Hours, InActiveHours(w, t), w # NoWindow
    PROVE  t \in {(w[1] + k) % Day : k \in 0..(((w[2] - w[1]) % Day) - 1)}
<1>1. /\ w[1] \in Hours /\ w[2] \in Hours /\ w[1] # w[2]
      /\ Day \in Nat \ {0}
    BY HeartbeatAssumption DEF Hours
<1> DEFINE a == w[1]
           b == w[2]
<1>2. /\ a \in Int /\ b \in Int /\ t \in Int /\ Day \in Int
      /\ 0 <= a /\ a < Day /\ 0 <= b /\ b < Day /\ a # b /\ 0 <= t /\ t < Day
    BY <1>1 DEF Hours
<1>3. IF a < b THEN a <= t /\ t < b ELSE a <= t \/ t < b
    BY DEF InActiveHours
<1> HIDE DEF a, b
<1>4. CASE a < b
    <2>1. (b - a) % Day = b - a
        BY <1>2, <1>4
    <2>2. (a + (t - a)) % Day = t
        BY <1>2
    <2>3. t - a \in 0..(((b - a) % Day) - 1)
        BY <1>2, <1>3, <1>4, <2>1
    <2> QED
        BY <2>2, <2>3 DEF a, b
<1>5. CASE b < a /\ a <= t
    <2>1. (b - a) % Day = b - a + Day
        BY <1>2, <1>5
    <2>2. (a + (t - a)) % Day = t
        BY <1>2
    <2>3. t - a \in 0..(((b - a) % Day) - 1)
        BY <1>2, <1>5, <2>1
    <2> QED
        BY <2>2, <2>3 DEF a, b
<1>6. CASE b < a /\ t < a
    <2>1. (b - a) % Day = b - a + Day
        BY <1>2, <1>6
    <2>2. (a + (t - a + Day)) % Day = t
        BY <1>2
    <2>3. t - a + Day \in 0..(((b - a) % Day) - 1)
        BY <1>2, <1>3, <1>6, <2>1
    <2> QED
        BY <2>2, <2>3 DEF a, b
<1> QED
    BY <1>2, <1>4, <1>5, <1>6

\* A tick that reaches the model was judged within the active hours of the
\* row it read.
THEOREM WindowKept == Spec => []WindowRespected
<1>1. ASSUME Inv PROVE WindowRespected
    <2> SUFFICES ASSUME NEW f \in Fires, fire[f].pc \in {"submit", "drain"},
                        fire[f].window # NoWindow
                 PROVE  LET w == fire[f].window
                        IN  fire[f].at \in {(w[1] + k) % Day :
                                              k \in 0..(((w[2] - w[1]) % Day) - 1)}
        BY DEF WindowRespected
    <2>1. fire[f] \in [pc: {"submit", "drain"}, at: Hours, window: Windows]
        BY <1>1 DEF Inv, Types, FireStates, Nothing
    <2>2. InActiveHours(fire[f].window, fire[f].at)
        BY <1>1 DEF Inv, Judged
    <2>3. fire[f].window \in Windows /\ fire[f].at \in Hours
        BY <2>1
    <2> QED
        BY <2>2, <2>3, WindowHours
<1> QED
    BY <1>1, Invariant, PTL
=============================================================================
