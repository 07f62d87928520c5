----------------------------- MODULE Heartbeat -----------------------------
(***************************************************************************)
(* The heartbeat of one agent (src/internal/heartbeat/service.go) over its *)
(* row (src/internal/store/postgres/heartbeats.go): due ticks, the guards  *)
(* before the model is called, the drain, and the failure streak, which is *)
(* written by a statement of its own after the run row and which edits     *)
(* carry along when they write the whole row back.                         *)
(*                                                                         *)
(* A fire is a goroutine that is used again; the hour of the day is read   *)
(* where the code reads it, and a due time is due or ahead.  The semaphore *)
(* delays fires of different agents and is left out, as is last_tick.      *)
(***************************************************************************)
EXTENDS Integers, FiniteSets

CONSTANTS Fires,     \* goroutines that may fire this heartbeat
          Day,       \* hours of a day
          Windows,   \* active windows <<start, end>>, NoWindow for 24/7
          AutoPause, \* failures in a row that pause (the code has 5)
          MaxTrail   \* bound on failures in a row

NoWindow == <<>>

ASSUME HeartbeatAssumption ==
    /\ {Day, AutoPause, MaxTrail} \subseteq Nat \ {0}
    /\ AutoPause <= MaxTrail
    /\ Windows \subseteq {NoWindow} \cup
                         {w \in (0..Day-1) \X (0..Day-1) : w[1] # w[2]}

VARIABLES row,     \* enabled, next tick, failure streak, active window
          claimed, \* the tick has a claim to dispatch: the row it read, or none
          marker,  \* the in-flight marker
          fire,    \* goroutines: stage, the row they read, hour, outcome
          live,    \* the shared session runs a turn
          edit,    \* a PUT or Resume under way, with the row it read
          trail,   \* history: failed ticks in a row, as the run rows tell it
          drift,   \* history: an outcome was lost or a stale streak written
          asked    \* history: somebody asked for it since it last auto-paused

vars == <<row, claimed, marker, fire, live, edit, trail, drift, asked>>

-----------------------------------------------------------------------------
Rows == [enabled: BOOLEAN, next: {"none", "ahead", "due"}, streak: 0..MaxTrail,
         window: Windows]
Nothing == [pc |-> "idle"]
\* "none" stands for skipped and cancelled, which nothing here tells apart.
Outcomes == {"completed", "failed", "blocked", "none"}

\* What is used later of a row that was read.
Read(r) == [streak |-> r.streak, window |-> r.window]

NextRun(enabled) == IF enabled THEN "ahead" ELSE "none"

Init ==
    /\ \E w \in Windows :
        row = [enabled |-> TRUE, next |-> "ahead", streak |-> 0, window |-> w]
    /\ claimed = Nothing
    /\ marker = FALSE
    /\ fire = [f \in Fires |-> Nothing]
    /\ live = FALSE
    /\ edit = Nothing
    /\ trail = 0
    /\ drift = FALSE
    /\ asked = FALSE

\* Time passes, and the tick ahead becomes due.
Clock ==
    /\ row.next = "ahead"
    /\ row' = [row EXCEPT !.next = "due"]
    /\ UNCHANGED <<claimed, marker, fire, live, edit, trail, drift, asked>>

-----------------------------------------------------------------------------
(* The tick.                                                                *)

ClaimDueHeartbeats ==
    /\ claimed = Nothing
    /\ row.enabled /\ row.next = "due"
    /\ row' = [row EXCEPT !.next = "ahead"]
    /\ claimed' = [pc |-> "claimed", snap |-> Read(row)]
    /\ UNCHANGED <<marker, fire, live, edit, trail, drift, asked>>

\* A busy agent, in this session or in another, or a tick still in flight:
\* a skipped row, nothing else.
RecordBusySkip ==
    /\ claimed # Nothing
    /\ claimed' = Nothing
    /\ UNCHANGED <<row, marker, fire, live, edit, trail, drift, asked>>

Dispatch(f) ==
    /\ claimed # Nothing /\ fire[f] = Nothing
    /\ ~live /\ ~marker
    /\ marker' = TRUE
    /\ fire' = [fire EXCEPT ![f] = [pc |-> "start", snap |-> claimed.snap]]
    /\ claimed' = Nothing
    /\ UNCHANGED <<row, live, edit, trail, drift, asked>>

\* Run-now reads the row, then takes the marker or is refused.
RunNow(f) ==
    /\ fire[f] = Nothing
    /\ fire' = [fire EXCEPT ![f] = [pc |-> "asked", snap |-> Read(row)]]
    /\ UNCHANGED <<row, claimed, marker, live, edit, trail, drift, asked>>

\* A mutation of MarkManual: the marker of a tick in flight does not refuse.
MarkManualBlind(f) ==
    /\ fire[f].pc = "asked"
    /\ marker' = TRUE
    /\ fire' = [fire EXCEPT ![f].pc = "start"]
    /\ UNCHANGED <<row, claimed, live, edit, trail, drift, asked>>

MarkManual(f) ==
    /\ fire[f].pc = "asked"
    /\ marker' = TRUE
    /\ fire' = [fire EXCEPT ![f] = IF marker THEN Nothing ELSE [@ EXCEPT !.pc = "start"]]
    /\ UNCHANGED <<row, claimed, live, edit, trail, drift, asked>>

-----------------------------------------------------------------------------
(* begin and drainRun.                                                      *)

Go(f, pc) == fire' = [fire EXCEPT ![f].pc = pc]
Conclude(f, outcome) == fire' = [fire EXCEPT ![f] = [pc |-> "finish", outcome |-> outcome]]

\* A mutation of InActiveHours: the window includes its end.
InActiveHoursClosed(w, t) ==
    w # NoWindow =>
        IF w[1] < w[2] THEN w[1] <= t /\ t <= w[2] ELSE w[1] <= t \/ t <= w[2]

InActiveHours(w, t) ==
    w # NoWindow =>
        IF w[1] < w[2] THEN w[1] <= t /\ t < w[2] ELSE w[1] <= t \/ t < w[2]

\* The run row, then the guards that cost no tokens: the checklist, the
\* active hours of the row that was read, the busy agent.
Guards(f) ==
    /\ fire[f].pc = "start"
    /\ \/ Go(f, "release")                       \* the row could not be started
       \/ Conclude(f, "none")                    \* empty checklist
       \/ Conclude(f, "failed")                  \* workspace lookup failed
       \/ \E t \in 0..Day-1 :
           \/ ~InActiveHours(fire[f].snap.window, t) /\ Conclude(f, "none")
           \/ InActiveHours(fire[f].snap.window, t) /\ Conclude(f, "none")  \* busy
           \/ /\ InActiveHours(fire[f].snap.window, t) /\ ~live
              /\ fire' = [fire EXCEPT ![f] = [pc |-> "preflight", snap |-> @.snap, at |-> t]]
    /\ UNCHANGED <<row, claimed, marker, live, edit, trail, drift, asked>>

Preflight(f) ==
    /\ fire[f].pc = "preflight"
    /\ \/ fire' = [fire EXCEPT ![f] = [pc |-> "submit", at |-> @.at,
                                      window |-> @.snap.window]]
       \/ Go(f, "pause")                         \* creator gone or disabled
       \/ Conclude(f, "blocked")                 \* agent gone
       \/ Conclude(f, "failed")                  \* a lookup failed
    /\ UNCHANGED <<row, claimed, marker, live, edit, trail, drift, asked>>

\* A whole-row write: the streak that was read replaces the stored one.
WriteBack(enabled, streak, window) ==
    /\ row' = [enabled |-> enabled, next |-> NextRun(enabled), streak |-> streak,
               window |-> window]
    /\ drift' = (drift \/ streak # row.streak)

\* The automatic pause for creator grief; it may fail.
Pause(f) ==
    /\ fire[f].pc = "pause"
    /\ Conclude(f, "blocked")
    /\ \/ WriteBack(FALSE, fire[f].snap.streak, fire[f].snap.window)
       \/ UNCHANGED <<row, drift>>
    /\ UNCHANGED <<claimed, marker, live, edit, trail, asked>>

\* The shared session admits one turn.
Submit(f) ==
    /\ fire[f].pc = "submit"
    /\ \/ /\ ~live
          /\ live' = TRUE
          /\ Go(f, "drain")
       \/ Conclude(f, "blocked") /\ UNCHANGED live
    /\ UNCHANGED <<row, claimed, marker, edit, trail, drift, asked>>

\* The turn ends and the tap tells how; a hook's block outlives the
\* turn_completed that follows it.  After the watchdog only the turn ends.
Drained(f) ==
    /\ fire[f].pc = "drain"
    /\ live' = FALSE
    /\ \E o \in Outcomes : Conclude(f, o)
    /\ UNCHANGED <<row, claimed, marker, edit, trail, drift, asked>>

Watchdog(f) ==
    /\ fire[f].pc = "drain"
    /\ Conclude(f, "none")
    /\ UNCHANGED <<row, claimed, marker, live, edit, trail, drift, asked>>

DetachedTurnEnds ==
    /\ live /\ \A f \in Fires : fire[f].pc # "drain"
    /\ live' = FALSE
    /\ UNCHANGED <<row, claimed, marker, fire, edit, trail, drift, asked>>

-----------------------------------------------------------------------------
(* finishRun: the run row with its mirror, then the streak.                 *)

FinishHeartbeatRun(f) ==
    /\ fire[f].pc = "finish"
    /\ \/ /\ Go(f, "apply")
          /\ trail' = CASE fire[f].outcome = "completed" -> 0
                        [] fire[f].outcome = "failed"    -> trail + 1
                        [] OTHER                         -> trail
          /\ trail' <= MaxTrail
       \/ Go(f, "release") /\ UNCHANGED trail        \* the write failed
    /\ UNCHANGED <<row, claimed, marker, live, edit, drift, asked>>

\* Mutations of Outcome: a blocked tick counts as failed; the pause comes
\* one failure late.
OutcomeCountsBlocks(r, o) ==
    CASE o = "completed" -> [r EXCEPT !.streak = 0]
      [] o \in {"failed", "blocked"} /\ r.streak + 1 >= AutoPause
             -> [r EXCEPT !.enabled = FALSE, !.next = "none", !.streak = @ + 1]
      [] o \in {"failed", "blocked"} /\ r.streak + 1 < AutoPause
             -> [r EXCEPT !.streak = @ + 1]
      [] OTHER -> r

OutcomeLate(r, o) ==
    CASE o = "completed" -> [r EXCEPT !.streak = 0]
      [] o = "failed" /\ r.streak >= AutoPause
             -> [r EXCEPT !.enabled = FALSE, !.next = "none", !.streak = @ + 1]
      [] o = "failed" /\ r.streak < AutoPause -> [r EXCEPT !.streak = @ + 1]
      [] OTHER -> r

\* What the statement of ApplyHeartbeatOutcome makes of the row.
Outcome(r, o) ==
    CASE o = "completed" -> [r EXCEPT !.streak = 0]
      [] o = "failed" /\ r.streak + 1 >= AutoPause
             -> [r EXCEPT !.enabled = FALSE, !.next = "none", !.streak = @ + 1]
      [] o = "failed" /\ r.streak + 1 < AutoPause -> [r EXCEPT !.streak = @ + 1]
      [] OTHER -> r

ApplyHeartbeatOutcome(f) ==
    /\ fire[f].pc = "apply"
    /\ Go(f, "release")
    /\ \/ /\ row.streak < MaxTrail \/ fire[f].outcome # "failed"
          /\ row' = Outcome(row, fire[f].outcome)
          /\ drift' = (drift /\ fire[f].outcome # "completed")
          /\ asked' = (asked /\ ~(row.enabled /\ ~row'.enabled))
       \/ /\ drift' = (drift \/ fire[f].outcome \in {"completed", "failed"})
          /\ UNCHANGED <<row, asked>>
    /\ UNCHANGED <<claimed, marker, live, edit, trail>>

Release(f) ==
    /\ fire[f].pc = "release"
    /\ marker' = FALSE
    /\ fire' = [fire EXCEPT ![f] = Nothing]
    /\ UNCHANGED <<row, claimed, live, edit, trail, drift, asked>>

-----------------------------------------------------------------------------
(* Edits: PUT writes back the streak it read, Resume writes zero.           *)

EditReads ==
    /\ edit = Nothing
    /\ edit' \in {[pc |-> "put", streak |-> row.streak], [pc |-> "resume", window |-> row.window]}
    /\ UNCHANGED <<row, claimed, marker, fire, live, trail, drift, asked>>

PutWrites ==
    /\ edit.pc = "put"
    /\ edit' = Nothing
    /\ \E enabled \in BOOLEAN, w \in Windows :
        /\ WriteBack(enabled, edit.streak, w)
        /\ asked' = (asked \/ enabled)
    /\ UNCHANGED <<claimed, marker, fire, live, trail>>

\* A reset counts from here on; one that meets an outcome between its two
\* statements is caught by it.
ResumeWrites ==
    /\ edit.pc = "resume"
    /\ edit' = Nothing
    /\ row' = [enabled |-> TRUE, next |-> NextRun(TRUE), streak |-> 0,
               window |-> edit.window]
    /\ trail' = 0
    /\ drift' = (\E f \in Fires : fire[f].pc = "apply")
    /\ asked' = TRUE
    /\ UNCHANGED <<claimed, marker, fire, live>>

\* A restart loses the goroutines; an outcome that was not applied is lost.
Restart ==
    /\ drift' = (drift \/ \E f \in Fires : fire[f].pc = "apply")
    /\ fire' = [f \in Fires |-> Nothing]
    /\ claimed' = Nothing /\ marker' = FALSE /\ edit' = Nothing
    /\ live' = FALSE
    /\ UNCHANGED <<row, trail, asked>>

Next ==
    \/ Clock \/ ClaimDueHeartbeats \/ RecordBusySkip
    \/ \E f \in Fires :
        \/ Dispatch(f) \/ RunNow(f) \/ MarkManual(f) \/ Guards(f) \/ Preflight(f)
        \/ Pause(f) \/ Submit(f) \/ Drained(f) \/ Watchdog(f)
        \/ FinishHeartbeatRun(f) \/ ApplyHeartbeatOutcome(f) \/ Release(f)
    \/ DetachedTurnEnds \/ EditReads \/ PutWrites \/ ResumeWrites \/ Restart

Spec == Init /\ [][Next]_vars

-----------------------------------------------------------------------------
(* Properties.                                                              *)

\* Every variable has its type; a paused heartbeat has no next tick.
TypeOK ==
    /\ row \in Rows /\ (row.enabled <=> row.next # "none")
    /\ {marker, live, drift, asked} \subseteq BOOLEAN
    /\ trail \in 0..MaxTrail

Applying == \E f \in Fires : fire[f].pc = "apply"

\* The streak is the number of ticks that ended failed since the last that
\* completed or the last resume: skipped, blocked and cancelled ticks do not
\* count.  Excused is an outcome that was lost between its two statements and
\* an edit that wrote an old streak.
StreakAgrees == (~drift /\ ~Applying) => row.streak = trail

\* Enough failures in a row pause the heartbeat, and it stays paused until
\* somebody asks for it.
FailuresPause == (~drift /\ ~Applying /\ trail >= AutoPause /\ row.enabled) => asked

\* A tick that gets as far as the model was judged within the active hours
\* of the row it read: those that follow the window's start, up to its end.
WindowRespected ==
    \A f \in Fires :
        fire[f].pc \in {"submit", "drain"} =>
            LET w == fire[f].window
            IN  w # NoWindow =>
                  fire[f].at \in {(w[1] + k) % Day : k \in 0..(((w[2] - w[1]) % Day) - 1)}

\* The shared session is only entered with the marker held, and the marker
\* belongs to one fire.
OneTickAtATime ==
    LET Holding == {f \in Fires : fire[f].pc \notin {"idle", "asked"}}
    IN  Cardinality(Holding) = (IF marker THEN 1 ELSE 0)

\* What the handler's comment asks: an edit does not touch the streak.
EditsKeepStreak == [][PutWrites => row'.streak = row.streak]_vars
=============================================================================
