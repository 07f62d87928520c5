----------------------------- MODULE Scheduler -----------------------------
(***************************************************************************)
(* The scheduler (src/internal/scheduler/service.go) over its rows         *)
(* (src/internal/store/postgres/schedulers.go): the tick that claims due   *)
(* orders in one transaction, the fires it dispatches, run-now, the drain  *)
(* with its watchdog, edits that write a whole row back, deletes, and      *)
(* restarts of the process.                                                *)
(*                                                                         *)
(* A fire is one goroutine and the run row it writes; each is used once.   *)
(* Instants are counted; occurrences of a recurring order are the multiples*)
(* of Period.  The order in which one tick dispatches its claims is open.  *)
(***************************************************************************)
EXTENDS Integers, FiniteSets, Sequences

CONSTANTS Scheds,       \* standing orders
          Fires,        \* fires, numbered, and the run rows they write
          RunAt,        \* the instant of a once order
          Period,       \* distance of a recurring order's occurrences
          Grace,        \* how late a once order may still fire
          ClaimLimit,   \* rows one claim may take
          Concurrency,  \* scheduled fires that may execute at a time
          MaxTime,      \* bound on the clock
          MaxEdits,     \* bound on edits
          MaxRestarts   \* bound on restarts

ASSUME SchedulerAssumption ==
    /\ Fires \subseteq Nat \ {0}
    /\ {RunAt, Period, ClaimLimit, Concurrency} \subseteq Nat \ {0}
    /\ {Grace, MaxTime, MaxEdits, MaxRestarts} \subseteq Nat

VARIABLES now,       \* the clock
          row,       \* scheduler rows
          kind,      \* once or recurring, fixed when an order is made
          tick,      \* claims the running tick has still to dispatch
          inFlight,  \* the in-flight markers
          fire,      \* goroutines: stage, order, trigger, the row they read, watchdog
          runRow,    \* status of the run rows
          agent,     \* the agent's run: none, live or done
          edit,      \* the edit under way
          edits,     \* edits begun
          claims,    \* history: the occurrences claimed, per order
          restarts   \* restarts so far

vars == <<now, kind, row, tick, inFlight, fire, runRow, agent, edit,
          edits, claims, restarts>>

-----------------------------------------------------------------------------
NoTime == 0
NoFire == 0
Idle == [pc |-> "idle"]
Over(s) == [pc |-> "over", s |-> s]
Lost(s) == [pc |-> "lost", s |-> s]
Late(s) == [pc |-> "late", s |-> s]

\* A mutation of NextRun: the first occurrence at or after t.
NextRunNotAfter(s, t) ==
    IF kind[s] = "once" THEN RunAt ELSE ((t + Period - 1) \div Period) * Period

\* The instant an order fires next: strictly after t, or its one instant.
NextRun(s, t) ==
    IF kind[s] = "once" THEN RunAt ELSE ((t \div Period) + 1) * Period

\* What UpdateScheduler and the claim store as the next fire time.
ComputeNext(s, enabled, t) == IF enabled THEN NextRun(s, t) ELSE NoTime

\* What a reader of a row may write back later.
Snap(r) == [enabled |-> r.enabled, last |-> r.last]

Rows == [exists: BOOLEAN, enabled: BOOLEAN, next: Nat,
         last: Fires \cup {NoFire}, writes: Nat, overtaken: Nat, resumes: Nat]

Init ==
    /\ now = 0
    /\ kind \in [Scheds -> {"once", "recurring"}]
    /\ row = [s \in Scheds |->
                [exists |-> TRUE, enabled |-> TRUE, next |-> NextRun(s, 0),
                 last |-> NoFire, writes |-> 0, overtaken |-> 0, resumes |-> 0]]
    /\ tick = {}
    /\ inFlight = {}
    /\ fire = [f \in Fires |-> Idle]
    /\ runRow = [f \in Fires |-> "none"]
    /\ agent = [f \in Fires |-> "none"]
    /\ edit = Idle
    /\ edits = 0
    /\ claims = [s \in Scheds |-> <<>>]
    /\ restarts = 0

Clock ==
    /\ now < MaxTime
    /\ now' = now + 1
    /\ UNCHANGED <<kind, row, tick, inFlight, fire, runRow, agent, edit,
                   edits, claims, restarts>>

\* Fires are taken in the order of their numbers.
IsNext(f) == fire[f] = Idle /\ \A g \in Fires : g < f => fire[g] # Idle

-----------------------------------------------------------------------------
(* The claim: one transaction takes the earliest due rows, advances or      *)
(* archives them, and hands them to the tick's loop.                        *)

IsDue(s) ==
    /\ row[s].exists /\ row[s].enabled
    /\ row[s].next # NoTime /\ row[s].next <= now

Due == {s \in Scheds : IsDue(s)}

Missed(s) == kind[s] = "once" /\ now - RunAt > Grace

\* A missed claim writes its own outcome into the mirror, which names no run row.
ClaimedRow(s) ==
    LET stays == kind[s] # "once"
    IN  [row[s] EXCEPT !.enabled = stays, !.next = ComputeNext(s, stays, now),
                       !.last = IF Missed(s) THEN NoFire ELSE @]

Occurrence(s) == [at |-> row[s].next, writes |-> row[s].writes,
                  overtaken |-> row[s].overtaken, resumes |-> row[s].resumes]

\* The tick's loop records a missed claim itself, in two writes.
Recording == \E f \in Fires : fire[f].pc = "late"

ClaimDueSchedulers ==
    /\ tick = {} /\ ~Recording /\ Due # {}
    /\ \E D \in SUBSET Due :
        /\ IF Cardinality(Due) <= ClaimLimit THEN D = Due
                                             ELSE Cardinality(D) = ClaimLimit
        /\ \A s \in D, t \in Due \ D : row[s].next <= row[t].next
        /\ row' = [s \in Scheds |-> IF s \in D THEN ClaimedRow(s) ELSE row[s]]
        /\ tick' = {[s |-> s, missed |-> Missed(s), snap |-> Snap(ClaimedRow(s))] : s \in D}
        /\ claims' = [s \in Scheds |->
                        IF s \in D THEN Append(claims[s], Occurrence(s)) ELSE claims[s]]
    /\ UNCHANGED <<now, kind, inFlight, fire, runRow, agent, edit, edits, restarts>>

\* A claim whose order is still in flight is dropped: its occurrence is lost.
SkipClaim ==
    /\ ~Recording
    /\ \E c \in tick : ~c.missed /\ c.s \in inFlight /\ tick' = tick \ {c}
    /\ UNCHANGED <<now, kind, row, inFlight, fire, runRow, agent, edit,
                   edits, claims, restarts>>

Dispatch(f) ==
    /\ IsNext(f) /\ ~Recording
    /\ \E c \in tick :
        /\ ~c.missed /\ c.s \notin inFlight
        /\ tick' = tick \ {c}
        /\ inFlight' = inFlight \cup {c.s}
        /\ fire' = [fire EXCEPT ![f] =
                      [pc |-> "queued", s |-> c.s, manual |-> FALSE, snap |-> c.snap, timedOut |-> FALSE]]
    /\ UNCHANGED <<now, kind, row, runRow, agent, edit, edits, claims, restarts>>

\* recordMissed: a row that starts and finishes without executing anything.
RecordMissed(f) ==
    /\ IsNext(f) /\ ~Recording
    /\ \E c \in tick :
        /\ c.missed
        /\ tick' = tick \ {c}
        /\ \/ /\ row[c.s].exists
              /\ runRow' = [runRow EXCEPT ![f] = "running"]
              /\ fire' = [fire EXCEPT ![f] = Late(c.s)]
           \/ /\ fire' = [fire EXCEPT ![f] = Over(c.s)]
              /\ UNCHANGED runRow
    /\ UNCHANGED <<now, kind, row, inFlight, agent, edit, edits, claims, restarts>>

FinishMissed(f) ==
    /\ fire[f].pc = "late"
    /\ \/ /\ runRow[f] = "running"
          /\ runRow' = [runRow EXCEPT ![f] = "finished"]
          /\ row' = [row EXCEPT ![fire[f].s].last = f]
          /\ fire' = [fire EXCEPT ![f] = Over(@.s)]
       \/ /\ fire' = [fire EXCEPT ![f] = Lost(@.s)]
          /\ UNCHANGED <<runRow, row>>
    /\ UNCHANGED <<now, kind, tick, inFlight, agent, edit, edits, claims, restarts>>

-----------------------------------------------------------------------------
(* Run-now: any state of the order, no semaphore.                           *)

RunNow(f, s) ==
    /\ IsNext(f) /\ row[s].exists
    /\ fire' = [fire EXCEPT ![f] =
                  [pc |-> "asked", s |-> s, manual |-> TRUE, snap |-> Snap(row[s]), timedOut |-> FALSE]]
    /\ UNCHANGED <<now, kind, row, tick, inFlight, runRow, agent, edit,
                   edits, claims, restarts>>

\* A mutation of MarkManual: the refused request clears the marker as well.
MarkManualDeferred(f) ==
    /\ fire[f].pc = "asked"
    /\ IF fire[f].s \in inFlight
       THEN /\ fire' = [fire EXCEPT ![f] = Over(@.s)]
            /\ inFlight' = inFlight \ {fire[f].s}
       ELSE /\ fire' = [fire EXCEPT ![f].pc = "start"]
            /\ inFlight' = inFlight \cup {fire[f].s}
    /\ UNCHANGED <<now, kind, row, tick, runRow, agent, edit, edits,
                   claims, restarts>>

MarkManual(f) ==
    /\ fire[f].pc = "asked"
    /\ IF fire[f].s \in inFlight
       THEN /\ fire' = [fire EXCEPT ![f] = Over(@.s)]       \* the 409
            /\ UNCHANGED inFlight
       ELSE /\ fire' = [fire EXCEPT ![f].pc = "start"]
            /\ inFlight' = inFlight \cup {fire[f].s}
    /\ UNCHANGED <<now, kind, row, tick, runRow, agent, edit, edits,
                   claims, restarts>>

-----------------------------------------------------------------------------
(* begin: the run row, the preflight, the submission.                       *)

Executing == {f \in Fires : /\ fire[f].pc \notin {"idle", "asked", "queued", "late", "over", "lost"}
                            /\ ~fire[f].manual}

Acquire(f) ==
    /\ fire[f].pc = "queued"
    /\ Cardinality(Executing) < Concurrency
    /\ fire' = [fire EXCEPT ![f].pc = "start"]
    /\ UNCHANGED <<now, kind, row, tick, inFlight, runRow, agent, edit,
                   edits, claims, restarts>>

\* A row of a deleted order, or a failed insert, abandons the fire.
StartRun(f) ==
    /\ fire[f].pc = "start"
    /\ \/ /\ row[fire[f].s].exists
          /\ runRow' = [runRow EXCEPT ![f] = "running"]
          /\ fire' = [fire EXCEPT ![f].pc = "preflight"]
       \/ /\ fire' = [fire EXCEPT ![f].pc = "release"]
          /\ UNCHANGED runRow
    /\ UNCHANGED <<now, kind, row, tick, inFlight, agent, edit, edits, claims, restarts>>

\* A mutation of Preflight: a failed lookup leaves without finishing the row.
PreflightGivesUp(f) ==
    /\ fire[f].pc = "preflight"
    /\ \/ fire' = [fire EXCEPT ![f].pc = "submit"]
       \/ fire' = [fire EXCEPT ![f].pc = "release"]
    /\ UNCHANGED <<now, kind, row, tick, inFlight, runRow, agent, edit,
                   edits, claims, restarts>>

Preflight(f) ==
    /\ fire[f].pc = "preflight"
    /\ \/ fire' = [fire EXCEPT ![f].pc = "submit"]      \* creator and agent found
       \/ fire' = [fire EXCEPT ![f].pc = "pause"]       \* creator gone or disabled
       \/ fire' = [fire EXCEPT ![f].pc = "finish"]      \* agent gone, or a lookup failed
    /\ UNCHANGED <<now, kind, row, tick, inFlight, runRow, agent, edit,
                   edits, claims, restarts>>

\* A mutation of PausedRow: the row is written as it was read.
PausedRowAsRead(f) ==
    [row[fire[f].s] EXCEPT !.enabled = fire[f].snap.enabled, !.next = NoTime,
                           !.last = fire[f].snap.last]

\* pause writes back the row the fire read, disabled; it may fail.
PausedRow(f) ==
    [row[fire[f].s] EXCEPT !.enabled = FALSE, !.next = NoTime,
                           !.last = fire[f].snap.last]

Pause(f) ==
    /\ fire[f].pc = "pause"
    /\ fire' = [fire EXCEPT ![f].pc = "finish"]
    /\ \/ row[fire[f].s].exists /\ row' = [row EXCEPT ![fire[f].s] = PausedRow(f)]
       \/ UNCHANGED row
    /\ UNCHANGED <<now, kind, tick, inFlight, runRow, agent, edit, edits,
                   claims, restarts>>

\* The runner may refuse: its reasons are not the scheduler's.
Submit(f) ==
    /\ fire[f].pc = "submit"
    /\ \/ /\ agent' = [agent EXCEPT ![f] = "live"]
          /\ fire' = [fire EXCEPT ![f].pc = "drain"]
       \/ fire' = [fire EXCEPT ![f].pc = "finish"] /\ UNCHANGED agent
    /\ UNCHANGED <<now, kind, row, tick, inFlight, runRow, edit, edits,
                   claims, restarts>>

-----------------------------------------------------------------------------
(* The agent's run and the drain of its tap, whose status is a name only.   *)
(* The watchdog closes the tap and never the run.                           *)

RunEnds(f) ==
    /\ agent[f] = "live"
    /\ agent' = [agent EXCEPT ![f] = "done"]
    /\ UNCHANGED <<now, kind, row, tick, inFlight, fire, runRow, edit, edits,
                   claims, restarts>>

\* EOF, after the run's end or the watchdog's: a channel delivery changes no status.
DrainRun(f) ==
    /\ fire[f].pc = "drain"
    /\ fire[f].timedOut \/ agent[f] = "done"
    /\ fire' = [fire EXCEPT ![f].pc = "finish"]
    /\ UNCHANGED <<now, kind, row, tick, inFlight, runRow, agent, edit, edits,
                   claims, restarts>>

\* A mutation of Watchdog: it never fires.
WatchdogStopped(f) == FALSE /\ UNCHANGED vars

Watchdog(f) ==
    /\ fire[f].pc = "drain" /\ ~fire[f].timedOut
    /\ fire' = [fire EXCEPT ![f].timedOut = TRUE]
    /\ UNCHANGED <<now, kind, row, tick, inFlight, runRow, agent, edit, edits,
                   claims, restarts>>

\* FinishSchedulerRun writes the run row and its mirror in one transaction;
\* a failure is logged and the row stays.
FinishRun(f) ==
    /\ fire[f].pc = "finish"
    /\ \/ /\ runRow[f] = "running"
          /\ runRow' = [runRow EXCEPT ![f] = "finished"]
          /\ row' = [row EXCEPT ![fire[f].s].last = f]
          /\ fire' = [fire EXCEPT ![f].pc = "release"]
       \/ /\ fire' = [fire EXCEPT ![f].pc = "unrecorded"]
          /\ UNCHANGED <<runRow, row>>
    /\ UNCHANGED <<now, kind, tick, inFlight, agent, edit, edits, claims, restarts>>

Release(f) ==
    /\ fire[f].pc \in {"release", "unrecorded"}
    /\ inFlight' = inFlight \ {fire[f].s}
    /\ fire' = [fire EXCEPT ![f] = IF @.pc = "release" THEN Over(@.s) ELSE Lost(@.s)]
    /\ UNCHANGED <<now, kind, row, tick, runRow, agent, edit, edits,
                   claims, restarts>>

-----------------------------------------------------------------------------
(* PatchScheduler reads the row, overlays its fields, computes the next     *)
(* fire time from the clock and writes the whole row.  DeleteScheduler      *)
(* cascades to the run rows.                                                *)

PatchRead(s) ==
    /\ edit = Idle /\ edits < MaxEdits /\ row[s].exists
    /\ edits' = edits + 1
    /\ \E e \in BOOLEAN : edit' = [pc |-> "read", s |-> s, snap |-> Snap(row[s]), enabled |-> e]
    /\ UNCHANGED <<now, kind, row, tick, inFlight, fire, runRow, agent,
                   claims, restarts>>

PatchCompute ==
    /\ edit.pc = "read"
    /\ edit' = [pc |-> "computed", s |-> edit.s, snap |-> edit.snap, enabled |-> edit.enabled,
                next |-> ComputeNext(edit.s, edit.enabled, now), claimed |-> Len(claims[edit.s])]
    /\ UNCHANGED <<now, kind, row, tick, inFlight, fire, runRow, agent,
                   edits, claims, restarts>>

\* History: the order was claimed after the edit read the clock.
Overtaken == Len(claims[edit.s]) > edit.claimed

\* What an edit makes of the row it overwrites.
Patched(r) ==
    [r EXCEPT !.enabled = edit.enabled, !.next = edit.next, !.last = edit.snap.last,
              !.writes = @ + 1,
              !.overtaken = IF Overtaken THEN @ + 1 ELSE @,
              !.resumes = IF edit.enabled /\ ~edit.snap.enabled THEN @ + 1 ELSE @]

PatchWrite ==
    /\ edit.pc = "computed"
    /\ edit' = Idle
    /\ row' = IF row[edit.s].exists THEN [row EXCEPT ![edit.s] = Patched(@)] ELSE row
    /\ UNCHANGED <<now, kind, tick, inFlight, fire, runRow, agent, edits,
                   claims, restarts>>

DeleteScheduler(s) ==
    /\ row[s].exists /\ edits < MaxEdits
    /\ edits' = edits + 1
    /\ row' = [row EXCEPT ![s].exists = FALSE, ![s].last = NoFire]
    /\ runRow' = [f \in Fires |-> IF fire[f] # Idle /\ fire[f].s = s
                                  THEN "none" ELSE runRow[f]]
    /\ UNCHANGED <<now, kind, tick, inFlight, fire, agent, edit, claims, restarts>>

\* A restart loses the tick, the markers, the goroutines, the runs and the edit.
Restart ==
    /\ restarts < MaxRestarts
    /\ restarts' = restarts + 1
    /\ tick' = {} /\ inFlight' = {} /\ edit' = Idle
    /\ fire' = [f \in Fires |-> IF fire[f].pc \in {"idle", "over"} THEN fire[f]
                                ELSE Lost(fire[f].s)]
    /\ agent' = [f \in Fires |-> IF agent[f] = "live" THEN "done" ELSE agent[f]]
    /\ UNCHANGED <<now, kind, row, runRow, edits, claims>>

-----------------------------------------------------------------------------
FireStep(f) ==
    \/ Dispatch(f) \/ RecordMissed(f) \/ FinishMissed(f) \/ MarkManual(f) \/ Acquire(f)
    \/ StartRun(f) \/ Preflight(f) \/ Pause(f) \/ Submit(f) \/ Watchdog(f)
    \/ DrainRun(f) \/ FinishRun(f) \/ Release(f)

Next ==
    \/ Clock \/ ClaimDueSchedulers \/ SkipClaim
    \/ \E f \in Fires : FireStep(f) \/ RunEnds(f)
    \/ \E f \in Fires, s \in Scheds : RunNow(f, s)
    \/ \E s \in Scheds : PatchRead(s) \/ DeleteScheduler(s)
    \/ PatchCompute \/ PatchWrite \/ Restart

Spec == Init /\ [][Next]_vars

\* The fires are goroutines and their watchdogs are timers; neither the agent's
\* run nor a user owes anything.
FairSpec == Spec /\ \A f \in Fires : WF_vars(FireStep(f))

-----------------------------------------------------------------------------
(* Properties.                                                              *)

\* The stages in which a fire holds its order's marker.
Marked == {f \in Fires : fire[f].pc \notin {"idle", "asked", "late", "over", "lost"}}

\* Every variable has its type; a paused or archived order has no next fire time.
TypeOK ==
    /\ now \in 0..MaxTime
    /\ row \in [Scheds -> Rows]
    /\ \A s \in Scheds : row[s].enabled <=> row[s].next # NoTime
    /\ \A c \in tick : c.s \in Scheds /\ c.missed \in BOOLEAN /\ c.snap \in [enabled: BOOLEAN, last: Fires \cup {NoFire}]
    /\ inFlight \subseteq Scheds
    /\ runRow \in [Fires -> {"none", "running", "finished"}]
    /\ agent \in [Fires -> {"none", "live", "done"}]
    /\ edits \in 0..MaxEdits /\ restarts \in 0..MaxRestarts

\* The markers are exactly the fires under way, one per order: neither a
\* refused run-now nor a finished fire may free or leave a marker.
MarkersAreFires ==
    /\ inFlight = {fire[f].s : f \in Marked}
    /\ \A f, g \in Marked : f # g => fire[f].s # fire[g].s

\* An occurrence is claimed at most once, whatever pauses, restarts and manual
\* runs do, unless an edit wrote the row between the two claims; and that of a
\* recurring order only if a claim came between that edit's look at the clock
\* and its write.
ClaimOnce ==
    \A s \in Scheds : \A i, j \in 1..Len(claims[s]) :
        (i # j /\ claims[s][i].at = claims[s][j].at)
            => /\ claims[s][i].writes # claims[s][j].writes
               /\ kind[s] = "recurring" => claims[s][i].overtaken # claims[s][j].overtaken

\* What the requirement asks: an occurrence is claimed once, whatever the
\* edits, unless somebody resumed the order between the two claims.
OccurrenceOnce ==
    \A s \in Scheds : \A i, j \in 1..Len(claims[s]) :
        (i # j /\ claims[s][i].at = claims[s][j].at)
            => claims[s][i].resumes # claims[s][j].resumes

\* A run row that says running belongs to a fire under way, to the tick that
\* records it as missed, or to one whose process died or whose last write failed.
RunningRowHasOwner ==
    \A f \in Fires :
        runRow[f] = "running" => f \in Marked \/ fire[f].pc \in {"late", "lost"}

\* Only an edit that asks for it enables an order: not the automatic pause
\* with its stale row, not a claim, not a manual run.
OnlyEditsEnable ==
    [][\A s \in Scheds :
        (~row[s].enabled /\ row'[s].enabled)
            => edit.pc = "computed" /\ edit.s = s /\ edit.enabled]_vars

\* The scheduler implements the fires of SingleFlight: one in hand per order,
\* each with a record of its own that it opens and closes while the order exists.
PhaseOf(f) ==
    CASE fire[f].pc = "idle" -> "new"
      [] fire[f].pc = "asked" -> "asked"
      [] fire[f].pc = "late" -> "late"
      [] fire[f].pc = "over" -> "ended"
      [] fire[f].pc = "lost" -> "lost"
      [] OTHER -> "held"

OrderOf(f) == IF fire[f].pc = "idle" THEN "none" ELSE fire[f].s

Deleted == {s \in Scheds : ~row[s].exists}

Flight == INSTANCE SingleFlight WITH
    Order <- Scheds, Fire <- Fires, None <- "none",
    phase <- [f \in Fires |-> PhaseOf(f)],
    order <- [f \in Fires |-> OrderOf(f)],
    record <- runRow,
    gone <- Deleted

ImplementsSingleFlight == Flight!FlightSpec

\* No order is fired while an earlier run of it still executes.
NoOverlap ==
    \A f, g \in Fires :
        (f # g /\ agent[f] = "live" /\ agent[g] = "live") => fire[f].s # fire[g].s

\* Every marker is released in the end, even if the agent's run never ends.
FiresEnd == \A s \in Scheds : s \in inFlight ~> s \notin inFlight
=============================================================================
