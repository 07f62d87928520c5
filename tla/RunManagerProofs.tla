-------------------------- MODULE RunManagerProofs --------------------------
(***************************************************************************)
(* Safety of RunManager for every set of sessions, runs and viewers.       *)
(*                                                                         *)
(* None of the properties is inductive by itself.  Inv adds what the code  *)
(* relies on silently: the registry and the runs describe each other, a    *)
(* run closes streams only in the two windows of its unwinding, an open    *)
(* stream is always in somebody's hands, a swept task hub holds only       *)
(* latecomers, and ids are unique among the streams of a run's lane.       *)
(***************************************************************************)
EXTENDS RunManager, TLAPS

(* The registry and the runs describe each other: a run is registered from *)
(* start until it is gone, under its own key.                              *)
Registered ==
  /\ \A r \in Run : pc[r] \notin {"fresh", "gone"} => live[key[r]] = r
  /\ \A k \in Key : live[k] # None =>
       key[live[k]] = k /\ pc[live[k]] \notin {"fresh", "gone"}

(* A run holds streams to close only inside its two closing windows, and   *)
(* after the sweep no event viewer is registered with it.                  *)
ClosingWindows ==
  \A r \in Run :
    /\ pc[r] \in {"fresh", "running", "unwinding", "done", "gone"}
         => closing[r] = {}
    /\ pc[r] \in {"swept", "gone"} => subs[r] \cap EventViewer = {}

(* Viewers only know runs that were started; a viewer has a stream only    *)
(* once it attached, and only attached viewers are registered with a run,  *)
(* with the run they watch.                                                *)
HasId(v) == viewer[v].pc \notin {"idle", "looked"}

ViewersAttached ==
  /\ \A v \in Viewer :
       /\ viewer[v].run \in Run => pc[viewer[v].run] # "fresh"
       /\ ~HasId(v) => stream[v] = "none"
       /\ viewer[v].pc = "hitting" => HasId(viewer[v].hit)
  /\ \A r \in Run : \A v \in subs[r] \cup closing[r] :
       HasId(v) /\ viewer[v].run = r

(* An open stream is registered with its run, taken out by the run, or     *)
(* taken out by a consumer of its lane: somebody may still close it.       *)
InHand(v) ==
  \/ /\ viewer[v].run \in Run
     /\ v \in subs[viewer[v].run] \cup closing[viewer[v].run]
  \/ \E w \in Viewer :
       LaneOf(w) = LaneOf(v) /\ viewer[w].pc = "hitting" /\ viewer[w].hit = v

StreamsTracked == \A v \in Viewer : stream[v] = "open" => InHand(v)

(* Whoever is left in a swept hub came after the sweep. *)
LatecomersOnly ==
  \A r \in Run :
    HubIsSwept(r) => \A v \in subs[r] \cap TaskViewer : viewer[v].late

(* The ids handed out in one lane of one run are distinct. *)
UniqueIds ==
  /\ \A v \in Viewer :
       HasId(v) => viewer[v].id <= nextId[viewer[v].run][LaneOf(v)]
  /\ \A v, w \in Viewer :
       /\ HasId(v) /\ HasId(w)
       /\ viewer[v].run = viewer[w].run
       /\ LaneOf(v) = LaneOf(w)
       /\ viewer[v].id = viewer[w].id
       => v = w

(* Timers belong to cancelled runs, a run that was not started was neither *)
(* cancelled nor waited for, and once the drain began the intake is closed *)
(* and every run that still executes is one of those it waits for.         *)
CancelDrain ==
  /\ timers \subseteq asked
  /\ \A r \in Run : pc[r] = "fresh" =>
       ctx[r] = "alive" /\ r \notin asked /\ r \notin drain.waits
  /\ drain.phase # "off" =>
       draining /\ \A r \in Run : pc[r] = "running" => r \in drain.waits

Inv ==
  /\ TypeOK
  /\ Registered
  /\ ClosingWindows
  /\ ViewersAttached
  /\ StreamsTracked
  /\ LatecomersOnly
  /\ UniqueIds
  /\ CancelDrain
  /\ UnsubscribeHitsOwnStream
  /\ CancelHitsItsRun
  /\ DrainLeavesNoneRunning

(* One consumer's local state changes to a well-formed one. *)
LEMMA ViewerUpdate ==
  ASSUME ViewersOK, NEW v \in Viewer, NEW x \in ViewerState, WellFormed(x),
         viewer' = [viewer EXCEPT ![v] = x]
  PROVE  ViewersOK'
<1>1. viewer' \in [Viewer -> ViewerState]
  BY DEF ViewersOK
<1>2. ASSUME NEW w \in Viewer PROVE WellFormed(viewer'[w])
  <2>1. CASE w = v
    BY <2>1 DEF ViewersOK
  <2>2. CASE w # v
    BY <2>2 DEF ViewersOK
  <2> QED
    BY <2>1, <2>2
<1> QED
  BY <1>1, <1>2 DEF ViewersOK, WellFormed

(* A step keeps every variable's type. *)
LEMMA TypeStep == TypeOK /\ ViewersAttached /\ [Next]_vars => TypeOK'
<1> SUFFICES ASSUME TypeOK, ViewersAttached, [Next]_vars PROVE TypeOK'
  OBVIOUS
<1> USE NoneAssumption DEF TypeOK, ViewersAttached
<1>0. ASSUME NEW v \in Viewer, viewer[v].pc = "looked", Register(v)
      PROVE  TypeOK'
  <2> DEFINE n == nextId[viewer[v].run][LaneOf(v)] + 1
             late == HubIsSwept(viewer[v].run)
             x == [viewer[v] EXCEPT !.pc = "attached", !.id = n, !.late = late]
  <2>1. viewer[v] \in ViewerState /\ WellFormed(viewer[v])
    BY <1>0 DEF ViewersOK
  <2>2. viewer[v].run \in Run /\ n \in Nat /\ late \in BOOLEAN
    BY <1>0, <2>1 DEF WellFormed, LaneOf, HubIsSwept
  <2>3. viewer' = [viewer EXCEPT ![v] = x]
    BY <1>0, ZenonT(60) DEF Register
  <2>4. nextId' \in [Run -> [{"events", "tasks"} -> Nat]]
    BY <1>0, <2>2 DEF Register, LaneOf
  <2> HIDE DEF n, late
  <2>5. x \in ViewerState /\ WellFormed(x)
    BY <1>0, <2>1, <2>2 DEF ViewerState, ViewerPC, WellFormed
  <2> HIDE DEF x
  <2>6. ViewersOK'
    BY <2>3, <2>5, ViewerUpdate
  <2> QED
    BY <1>0, <2>2, <2>4, <2>6 DEF Register
<1>1. ASSUME NEW k \in Key, NEW r \in Run, Start(k, r) PROVE TypeOK'
  BY <1>1 DEF Start, RunPC, ViewersOK
<1>2. ASSUME NEW r \in Run, RunEnds(r) PROVE TypeOK'
  BY <1>2 DEF RunEnds, RunPC, ViewersOK
<1>3. ASSUME NEW r \in Run, CloseSubscribers(r) PROVE TypeOK'
  BY <1>3 DEF CloseSubscribers, TakeOut, RunPC, ViewersOK
<1>4. ASSUME NEW r \in Run, NEW v \in Viewer, CloseOne(r, v) PROVE TypeOK'
  BY <1>4 DEF CloseOne, RunPC, ViewersOK
<1>5. ASSUME NEW r \in Run, Finish(r) PROVE TypeOK'
  BY <1>5 DEF Finish, RunPC, ViewersOK
<1>6. ASSUME NEW r \in Run, SweepHub(r) PROVE TypeOK'
  BY <1>6 DEF SweepHub, TakeOut, RunPC, ViewersOK
<1>7. ASSUME NEW r \in Run, SweepSubscribers(r) PROVE TypeOK'
  BY <1>7 DEF SweepSubscribers, TakeOut, RunPC, ViewersOK
<1>8. ASSUME NEW r \in Run, Deregister(r) PROVE TypeOK'
  BY <1>8 DEF Deregister, RunPC, ViewersOK
<1>9. ASSUME NEW v \in Viewer, NEW k \in Key, LookUpEvents(v, k) PROVE TypeOK'
  <2> DEFINE x == [viewer[v] EXCEPT !.pc = "looked", !.run = live[k]]
  <2>1. viewer[v] \in ViewerState /\ WellFormed(viewer[v]) /\ live[k] \in Run
    BY <1>9 DEF ViewersOK, WellFormed, LookUpEvents
  <2>2. x \in ViewerState /\ WellFormed(x)
    BY <1>9, <2>1 DEF ViewerState, ViewerPC, WellFormed, LookUpEvents
  <2>3. viewer' = [viewer EXCEPT ![v] = x]
    BY <1>9, ZenonT(60) DEF LookUpEvents
  <2> HIDE DEF x
  <2>4. ViewersOK'
    BY <2>2, <2>3, ViewerUpdate
  <2> QED
    BY <1>9, <2>1, <2>4 DEF LookUpEvents
<1>10. ASSUME NEW v \in Viewer, NEW k \in Key, LookUpTasks(v, k) PROVE TypeOK'
  <2> DEFINE x == [viewer[v] EXCEPT !.pc = "looked", !.run = live[k]]
  <2>1. viewer[v] \in ViewerState /\ WellFormed(viewer[v]) /\ live[k] \in Run
    BY <1>10 DEF ViewersOK, WellFormed, LookUpTasks, IsLive
  <2>2. x \in ViewerState /\ WellFormed(x)
    BY <1>10, <2>1 DEF ViewerState, ViewerPC, WellFormed, LookUpTasks, IsLive
  <2>3. viewer' = [viewer EXCEPT ![v] = x]
    BY <1>10, ZenonT(60) DEF LookUpTasks, IsLive
  <2> HIDE DEF x
  <2>4. ViewersOK'
    BY <2>2, <2>3, ViewerUpdate
  <2> QED
    BY <1>10, <2>1, <2>4 DEF LookUpTasks, IsLive
<1>11. ASSUME NEW v \in Viewer, AttachEvents(v) PROVE TypeOK'
  BY <1>11, <1>0 DEF AttachEvents
<1>12. ASSUME NEW v \in Viewer, RefuseEvents(v) PROVE TypeOK'
  <2> DEFINE x == NewViewer
  <2>1. viewer[v] \in ViewerState /\ WellFormed(viewer[v])
    BY <1>12 DEF ViewersOK, WellFormed, RefuseEvents, NewViewer
  <2>2. x \in ViewerState /\ WellFormed(x)
    BY <1>12, <2>1 DEF ViewerState, ViewerPC, WellFormed, NewViewer
  <2>3. viewer' = [viewer EXCEPT ![v] = x]
    BY <1>12 DEF RefuseEvents
  <2> HIDE DEF x
  <2>4. ViewersOK'
    BY <2>2, <2>3, ViewerUpdate
  <2> QED
    BY <1>12, <2>1, <2>4 DEF RefuseEvents
<1>13. ASSUME NEW v \in Viewer, AttachTasks(v) PROVE TypeOK'
  BY <1>13, <1>0 DEF AttachTasks
<1>14. ASSUME NEW v \in Viewer, Leave(v) PROVE TypeOK'
  <2> DEFINE k == key[viewer[v].run]
             found == IF v \in EventViewer THEN live[k] # None ELSE IsLive(k)
             x == IF found
                    THEN [viewer[v] EXCEPT !.pc = "leaving", !.at = live[k]]
                    ELSE [viewer[v] EXCEPT !.pc = "left"]
  <2>1. /\ viewer[v] \in ViewerState /\ WellFormed(viewer[v])
        /\ viewer[v].pc = "attached" /\ viewer[v].run \in Run /\ k \in Key
    BY <1>14 DEF ViewersOK, WellFormed, Leave
  <2>2. found => live[k] \in Run
    BY <2>1 DEF IsLive
  <2>3. viewer' = [viewer EXCEPT ![v] = x]
    BY <1>14, <2>1 DEF Leave
  <2> HIDE DEF k, found
  <2>4. x \in ViewerState /\ WellFormed(x)
    BY <2>1, <2>2 DEF ViewerState, ViewerPC, WellFormed
  <2> HIDE DEF x
  <2>5. ViewersOK'
    BY <2>3, <2>4, ViewerUpdate
  <2> QED
    BY <1>14, <2>5 DEF Leave
<1>15. ASSUME NEW v \in Viewer, Detach(v) PROVE TypeOK'
  <2>1. CASE viewer' = [viewer EXCEPT ![v].pc = "left"] /\ UNCHANGED subs
    <3> DEFINE x == [viewer[v] EXCEPT !.pc = "left"]
    <3>1. viewer[v] \in ViewerState /\ WellFormed(viewer[v])
      BY <1>15, <2>1 DEF ViewersOK, WellFormed, Detach
    <3>2. x \in ViewerState /\ WellFormed(x)
      BY <1>15, <2>1, <3>1 DEF ViewerState, ViewerPC, WellFormed, Detach
    <3>3. viewer' = [viewer EXCEPT ![v] = x]
      BY <1>15, <2>1 DEF Detach
    <3> HIDE DEF x
    <3>4. ViewersOK'
      BY <3>2, <3>3, ViewerUpdate
    <3> QED
      BY <1>15, <2>1, <3>1, <3>4 DEF Detach
  <2>2. ASSUME NEW w \in Holders(viewer[v].at, v),
               subs' = [subs EXCEPT ![viewer[v].at] = @ \ {w}],
               viewer' = [viewer EXCEPT ![v].pc = "hitting", ![v].hit = w]
        PROVE  TypeOK'
    <3> DEFINE x == [viewer[v] EXCEPT !.pc = "hitting", !.hit = w]
    <3>1. viewer[v] \in ViewerState /\ WellFormed(viewer[v]) /\ w \in Viewer
      BY <1>15, <2>2 DEF ViewersOK, WellFormed, Detach, Holders
    <3>2. x \in ViewerState /\ WellFormed(x)
      BY <1>15, <2>2, <3>1 DEF ViewerState, ViewerPC, WellFormed, Detach
    <3>3. viewer' = [viewer EXCEPT ![v] = x]
      BY ONLY <2>2
    <3> HIDE DEF x
    <3>4. ViewersOK'
      BY <3>2, <3>3, ViewerUpdate
    <3> QED
      BY <1>15, <2>2, <3>1, <3>4 DEF Detach
  <2> QED
    BY <1>15, <2>1, <2>2 DEF Detach
<1>16. ASSUME NEW v \in Viewer, CloseDetached(v) PROVE TypeOK'
  <2> DEFINE x == [viewer[v] EXCEPT !.pc = "left"]
  <2>1. viewer[v] \in ViewerState /\ WellFormed(viewer[v]) /\ viewer[v].hit \in
    Viewer
    BY <1>16 DEF ViewersOK, WellFormed, CloseDetached
  <2>2. x \in ViewerState /\ WellFormed(x)
    BY <1>16, <2>1 DEF ViewerState, ViewerPC, WellFormed, CloseDetached
  <2>3. viewer' = [viewer EXCEPT ![v] = x]
    BY <1>16 DEF CloseDetached
  <2> HIDE DEF x
  <2>4. ViewersOK'
    BY <2>2, <2>3, ViewerUpdate
  <2> QED
    BY <1>16, <2>1, <2>4 DEF CloseDetached
<1>17. ASSUME NEW k \in Key, Cancel(k) PROVE TypeOK'
  BY <1>17 DEF Cancel, RunPC, ViewersOK
<1>18. ASSUME NEW r \in Run, EscalationFires(r) PROVE TypeOK'
  BY <1>18 DEF EscalationFires, IsDone, RunPC, ViewersOK
<1>19. CASE DrainBegins
  BY <1>19 DEF DrainBegins, RunPC, ViewersOK
<1>20. CASE DrainCompletes
  BY <1>20 DEF DrainCompletes, IsDone, RunPC, ViewersOK
<1>21. CASE DrainDeadline
  BY <1>21 DEF DrainDeadline, IsDone, RunPC, ViewersOK
<1>22. CASE UNCHANGED vars
  BY <1>22 DEF vars, ViewersOK
<1> QED
  BY <1>1, <1>2, <1>3, <1>4, <1>5, <1>6, <1>7, <1>8, <1>9, <1>10, <1>11,
     <1>12, <1>13, <1>14, <1>15, <1>16, <1>17, <1>18, <1>19, <1>20, <1>21,
     <1>22
  DEF Next, RunStep, ViewerStep

(* A step keeps the registry and the runs in agreement. *)
LEMMA RegisteredStep == TypeOK /\ Registered /\ [Next]_vars => Registered'
<1> SUFFICES ASSUME TypeOK, Registered, [Next]_vars PROVE Registered'
  OBVIOUS
<1> USE NoneAssumption DEF TypeOK, Registered
<1>1. ASSUME NEW k \in Key, NEW r \in Run, Start(k, r) PROVE Registered'
  BY <1>1 DEF Start
<1>2. ASSUME NEW r \in Run, RunEnds(r) PROVE Registered'
  BY <1>2 DEF RunEnds
<1>3. ASSUME NEW r \in Run, CloseSubscribers(r) PROVE Registered'
  BY <1>3 DEF CloseSubscribers, TakeOut
<1>4. ASSUME NEW r \in Run, NEW v \in Viewer, CloseOne(r, v) PROVE Registered'
  BY <1>4 DEF CloseOne
<1>5. ASSUME NEW r \in Run, Finish(r) PROVE Registered'
  BY <1>5 DEF Finish
<1>6. ASSUME NEW r \in Run, SweepHub(r) PROVE Registered'
  BY <1>6 DEF SweepHub, TakeOut
<1>7. ASSUME NEW r \in Run, SweepSubscribers(r) PROVE Registered'
  BY <1>7 DEF SweepSubscribers, TakeOut
<1>8. ASSUME NEW r \in Run, Deregister(r) PROVE Registered'
  BY <1>8 DEF Deregister
<1>9. ASSUME NEW v \in Viewer, NEW k \in Key, LookUpEvents(v, k)
      PROVE  Registered'
  BY <1>9 DEF LookUpEvents
<1>10. ASSUME NEW v \in Viewer, NEW k \in Key, LookUpTasks(v, k)
       PROVE  Registered'
  BY <1>10 DEF LookUpTasks, IsLive, IsDone
<1>11. ASSUME NEW v \in Viewer, AttachEvents(v) PROVE Registered'
  BY <1>11 DEF AttachEvents, Register, LaneOf, IsDone
<1>12. ASSUME NEW v \in Viewer, RefuseEvents(v) PROVE Registered'
  BY <1>12 DEF RefuseEvents, NewViewer, IsDone
<1>13. ASSUME NEW v \in Viewer, AttachTasks(v) PROVE Registered'
  BY <1>13 DEF AttachTasks, Register, LaneOf
<1>14. ASSUME NEW v \in Viewer, Leave(v) PROVE Registered'
  BY <1>14 DEF Leave, IsLive, IsDone
<1>15. ASSUME NEW v \in Viewer, Detach(v) PROVE Registered'
  BY <1>15 DEF Detach, Holders, LaneOf
<1>16. ASSUME NEW v \in Viewer, CloseDetached(v) PROVE Registered'
  BY <1>16 DEF CloseDetached
<1>17. ASSUME NEW k \in Key, Cancel(k) PROVE Registered'
  BY <1>17 DEF Cancel
<1>18. ASSUME NEW r \in Run, EscalationFires(r) PROVE Registered'
  BY <1>18 DEF EscalationFires, IsDone
<1>19. CASE DrainBegins
  BY <1>19 DEF DrainBegins
<1>20. CASE DrainCompletes
  BY <1>20 DEF DrainCompletes, IsDone
<1>21. CASE DrainDeadline
  BY <1>21 DEF DrainDeadline, IsDone
<1>22. CASE UNCHANGED vars
  BY <1>22 DEF vars
<1> QED
  BY <1>1, <1>2, <1>3, <1>4, <1>5, <1>6, <1>7, <1>8, <1>9, <1>10, <1>11,
     <1>12, <1>13, <1>14, <1>15, <1>16, <1>17, <1>18, <1>19, <1>20, <1>21,
     <1>22
  DEF Next, RunStep, ViewerStep

(* A step keeps streams to close inside the closing windows. *)
LEMMA ClosingStep == TypeOK /\ ClosingWindows /\ [Next]_vars => ClosingWindows'
<1> SUFFICES ASSUME TypeOK, ClosingWindows, [Next]_vars PROVE ClosingWindows'
  OBVIOUS
<1> USE NoneAssumption, ViewersAssumption DEF TypeOK, ClosingWindows
<1>1. ASSUME NEW k \in Key, NEW r \in Run, Start(k, r) PROVE ClosingWindows'
  BY <1>1 DEF Start
<1>2. ASSUME NEW r \in Run, RunEnds(r) PROVE ClosingWindows'
  BY <1>2 DEF RunEnds
<1>3. ASSUME NEW r \in Run, CloseSubscribers(r) PROVE ClosingWindows'
  BY <1>3 DEF CloseSubscribers, TakeOut
<1>4. ASSUME NEW r \in Run, NEW v \in Viewer, CloseOne(r, v)
      PROVE  ClosingWindows'
  BY <1>4 DEF CloseOne
<1>5. ASSUME NEW r \in Run, Finish(r) PROVE ClosingWindows'
  BY <1>5 DEF Finish
<1>6. ASSUME NEW r \in Run, SweepHub(r) PROVE ClosingWindows'
  BY <1>6 DEF SweepHub, TakeOut
<1>7. ASSUME NEW r \in Run, SweepSubscribers(r) PROVE ClosingWindows'
  BY <1>7 DEF SweepSubscribers, TakeOut
<1>8. ASSUME NEW r \in Run, Deregister(r) PROVE ClosingWindows'
  BY <1>8 DEF Deregister
<1>9. ASSUME NEW v \in Viewer, NEW k \in Key, LookUpEvents(v, k)
      PROVE  ClosingWindows'
  BY <1>9 DEF LookUpEvents
<1>10. ASSUME NEW v \in Viewer, NEW k \in Key, LookUpTasks(v, k)
       PROVE  ClosingWindows'
  BY <1>10 DEF LookUpTasks, IsLive, IsDone
<1>11. ASSUME NEW v \in Viewer, AttachEvents(v) PROVE ClosingWindows'
  BY <1>11 DEF AttachEvents, Register, LaneOf, IsDone
<1>12. ASSUME NEW v \in Viewer, RefuseEvents(v) PROVE ClosingWindows'
  BY <1>12 DEF RefuseEvents, NewViewer, IsDone
<1>13. ASSUME NEW v \in Viewer, AttachTasks(v) PROVE ClosingWindows'
  BY <1>13 DEF AttachTasks, Register, LaneOf
<1>14. ASSUME NEW v \in Viewer, Leave(v) PROVE ClosingWindows'
  BY <1>14 DEF Leave, IsLive, IsDone
<1>15. ASSUME NEW v \in Viewer, Detach(v) PROVE ClosingWindows'
  BY <1>15, SMTT(60) DEF Detach, Holders, LaneOf
<1>16. ASSUME NEW v \in Viewer, CloseDetached(v) PROVE ClosingWindows'
  BY <1>16 DEF CloseDetached
<1>17. ASSUME NEW k \in Key, Cancel(k) PROVE ClosingWindows'
  BY <1>17 DEF Cancel
<1>18. ASSUME NEW r \in Run, EscalationFires(r) PROVE ClosingWindows'
  BY <1>18 DEF EscalationFires, IsDone
<1>19. CASE DrainBegins
  BY <1>19 DEF DrainBegins
<1>20. CASE DrainCompletes
  BY <1>20 DEF DrainCompletes, IsDone
<1>21. CASE DrainDeadline
  BY <1>21 DEF DrainDeadline, IsDone
<1>22. CASE UNCHANGED vars
  BY <1>22 DEF vars
<1> QED
  BY <1>1, <1>2, <1>3, <1>4, <1>5, <1>6, <1>7, <1>8, <1>9, <1>10, <1>11,
     <1>12, <1>13, <1>14, <1>15, <1>16, <1>17, <1>18, <1>19, <1>20, <1>21,
     <1>22
  DEF Next, RunStep, ViewerStep

(* What the viewers' actions do, field by field. *)
Others(v) == \A w \in Viewer \ {v} : viewer'[w] = viewer[w]

Rest == UNCHANGED <<live, key, pc, closing>>

LookedEffect(v, k) ==
  /\ viewer[v].pc = "idle" /\ live[k] \in Run
  /\ viewer'[v].pc = "looked" /\ viewer'[v].run = live[k]
  /\ Others(v) /\ Rest /\ UNCHANGED <<subs, nextId, stream>>

AttachedEffect(v, r) ==
  /\ viewer[v].pc = "looked" /\ viewer[v].run = r /\ r \in Run
  /\ viewer'[v].pc = "attached" /\ viewer'[v].run = r
  /\ viewer'[v].id = nextId[r][LaneOf(v)] + 1
  /\ viewer'[v].late = HubIsSwept(r)
  /\ nextId[r][LaneOf(v)] \in Nat
  /\ subs' = [subs EXCEPT ![r] = @ \cup {v}]
  /\ nextId' = [nextId EXCEPT ![r][LaneOf(v)] = nextId[r][LaneOf(v)] + 1]
  /\ stream' = [stream EXCEPT ![v] = "open"]
  /\ Others(v) /\ Rest

LeftEffect(v) ==
  /\ viewer[v].pc = "attached"
  /\ viewer'[v].pc \in {"leaving", "left"}
  /\ viewer'[v].run = viewer[v].run /\ viewer'[v].id = viewer[v].id
  /\ viewer'[v].late = viewer[v].late
  /\ Others(v) /\ Rest /\ UNCHANGED <<subs, nextId, stream>>

DetachedEffect(v) ==
  /\ viewer[v].pc = "leaving" /\ viewer[v].at \in Run
  /\ viewer'[v].run = viewer[v].run /\ viewer'[v].id = viewer[v].id
  /\ viewer'[v].at = viewer[v].at /\ viewer'[v].late = viewer[v].late
  /\ \/ viewer'[v].pc = "left" /\ UNCHANGED subs
     \/ \E w \in Holders(viewer[v].at, v) :
          /\ subs' = [subs EXCEPT ![viewer[v].at] = @ \ {w}]
          /\ viewer'[v].pc = "hitting" /\ viewer'[v].hit = w
  /\ Others(v) /\ Rest /\ UNCHANGED <<nextId, stream>>

LEMMA Looked ==
  ASSUME TypeOK, NEW v \in Viewer, NEW k \in Key,
         LookUpEvents(v, k) \/ LookUpTasks(v, k)
  PROVE  LookedEffect(v, k)
<1>1. viewer' = [viewer EXCEPT ![v] = [viewer[v] EXCEPT !.pc = "looked",
                                                        !.run = live[k]]]
  BY DEF LookUpEvents, LookUpTasks
<1>2. viewer[v] \in ViewerState /\ viewer \in [Viewer -> ViewerState]
  BY DEF TypeOK, ViewersOK
<1>3. live[k] \in Run /\ viewer[v].pc = "idle"
  BY NoneAssumption DEF TypeOK, LookUpEvents, LookUpTasks, IsLive
<1>4. viewer'[v].pc = "looked" /\ viewer'[v].run = live[k] /\ Others(v)
  BY <1>1, <1>2 DEF ViewerState, Others
<1> QED
  BY <1>3, <1>4 DEF LookedEffect, Rest, LookUpEvents, LookUpTasks

LEMMA Attached ==
  ASSUME TypeOK, NEW v \in Viewer, AttachEvents(v) \/ AttachTasks(v)
  PROVE  AttachedEffect(v, viewer[v].run)
<1> DEFINE r == viewer[v].run
           n == nextId[r][LaneOf(v)] + 1
           late == HubIsSwept(r)
<1>1. viewer' = [viewer EXCEPT ![v] = [viewer[v] EXCEPT !.pc = "attached",
                                                        !.id = n,
                                                        !.late = late]]
  BY DEF AttachEvents, AttachTasks, Register
<1>2. viewer[v] \in ViewerState /\ viewer \in [Viewer -> ViewerState]
  BY DEF TypeOK, ViewersOK
<1>3. viewer[v].pc = "looked"
  BY DEF AttachEvents, AttachTasks
<1>4. r \in Run
  BY <1>3 DEF TypeOK, ViewersOK, WellFormed
<1>5. nextId[r][LaneOf(v)] \in Nat
  BY <1>4 DEF TypeOK, LaneOf
<1>6. /\ viewer'[v].pc = "attached" /\ viewer'[v].run = r
      /\ viewer'[v].id = n /\ viewer'[v].late = late /\ Others(v)
  <2> HIDE DEF n, late
  <2> QED
    BY <1>1, <1>2 DEF ViewerState, Others
<1> QED
  BY <1>3, <1>4, <1>5, <1>6
  DEF AttachedEffect, Rest, AttachEvents, AttachTasks, Register

LEMMA Left == ASSUME TypeOK, NEW v \in Viewer, Leave(v) PROVE LeftEffect(v)
<1>1. viewer[v] \in ViewerState /\ viewer \in [Viewer -> ViewerState]
  BY DEF TypeOK, ViewersOK
<1>2. \/ viewer' = [viewer EXCEPT ![v] = [viewer[v] EXCEPT !.pc = "left"]]
      \/ \E s : viewer' = [viewer EXCEPT ![v] =
                           [viewer[v] EXCEPT !.pc = "leaving", !.at = s]]
  BY DEF Leave
<1>3. /\ viewer'[v].pc \in {"leaving", "left"}
      /\ viewer'[v].run = viewer[v].run /\ viewer'[v].id = viewer[v].id
      /\ viewer'[v].late = viewer[v].late /\ Others(v)
  BY <1>1, <1>2 DEF ViewerState, Others
<1> QED
  BY <1>3 DEF LeftEffect, Rest, Leave

LEMMA Detached ==
  ASSUME TypeOK, NEW v \in Viewer, Detach(v) PROVE DetachedEffect(v)
<1>1. viewer[v] \in ViewerState /\ viewer \in [Viewer -> ViewerState]
  BY DEF TypeOK, ViewersOK
<1>2. viewer[v].pc = "leaving" /\ viewer[v].at \in Run
  BY DEF TypeOK, ViewersOK, WellFormed, Detach
<1>3. CASE viewer' = [viewer EXCEPT ![v].pc = "left"] /\ UNCHANGED subs
  <2>1. viewer' = [viewer EXCEPT ![v] = [viewer[v] EXCEPT !.pc = "left"]]
    BY <1>3
  <2>2. /\ viewer'[v].run = viewer[v].run /\ viewer'[v].id = viewer[v].id
        /\ viewer'[v].at = viewer[v].at /\ viewer'[v].late = viewer[v].late
        /\ viewer'[v].pc = "left" /\ Others(v)
    BY <1>1, <2>1 DEF ViewerState, Others
  <2> QED
    BY <1>2, <1>3, <2>2 DEF DetachedEffect, Rest, Detach
<1>4. ASSUME NEW w \in Holders(viewer[v].at, v),
             subs' = [subs EXCEPT ![viewer[v].at] = @ \ {w}],
             viewer' = [viewer EXCEPT ![v].pc = "hitting", ![v].hit = w]
      PROVE  DetachedEffect(v)
  <2>1. viewer' = [viewer EXCEPT ![v] = [viewer[v] EXCEPT !.pc = "hitting",
                                                          !.hit = w]]
    BY <1>4
  <2>2. /\ viewer'[v].run = viewer[v].run /\ viewer'[v].id = viewer[v].id
        /\ viewer'[v].at = viewer[v].at /\ viewer'[v].late = viewer[v].late
        /\ viewer'[v].pc = "hitting" /\ viewer'[v].hit = w /\ Others(v)
    BY <1>1, <2>1 DEF ViewerState, Others
  <2> QED
    BY <1>2, <1>4, <2>2 DEF DetachedEffect, Rest, Detach
<1> QED
  BY <1>3, <1>4 DEF Detach


LEMMA ViewerTypes ==
  ASSUME TypeOK, NEW v \in Viewer
  PROVE  /\ viewer[v].id \in Nat
         /\ LaneOf(v) \in {"events", "tasks"}
         /\ viewer[v].pc # "idle" =>
              viewer[v].run \in Run /\ nextId[viewer[v].run][LaneOf(v)] \in Nat
         /\ viewer[v].pc \in {"leaving", "hitting"} => viewer[v].at \in Run
         /\ viewer[v].pc = "hitting" => viewer[v].hit \in Viewer
<1>1. viewer[v] \in ViewerState /\ WellFormed(viewer[v])
  BY DEF TypeOK, ViewersOK
<1>2. viewer[v].id \in Nat
  BY <1>1 DEF ViewerState
<1>3. LaneOf(v) \in {"events", "tasks"}
  BY DEF LaneOf
<1>4. nextId \in [Run -> [{"events", "tasks"} -> Nat]]
  BY SMTT(60) DEF TypeOK
<1> QED
  BY <1>1, <1>2, <1>3, <1>4 DEF WellFormed


(* A step keeps the registered viewers attached. *)
LEMMA AttachedStep ==
  TypeOK /\ Registered /\ ViewersAttached /\ [Next]_vars => ViewersAttached'
<1> SUFFICES ASSUME TypeOK, Registered, ViewersAttached, [Next]_vars
             PROVE  ViewersAttached'
  OBVIOUS
<1> USE NoneAssumption DEF TypeOK, Registered, ViewersAttached, HasId
<1>v. \A v \in Viewer :
         /\ viewer[v].pc # "idle" => viewer[v].run \in Run
         /\ viewer[v].pc \in {"leaving", "hitting"} => viewer[v].at \in Run
         /\ viewer[v].pc = "hitting" => viewer[v].hit \in Viewer
  BY ViewerTypes
<1>a. ASSUME NEW v \in Viewer, NEW k \in Key, LookedEffect(v, k)
      PROVE  ViewersAttached'
  <2>1. \A w \in Viewer :
          /\ viewer'[w].run \in Run => pc[viewer'[w].run] # "fresh"
          /\ viewer'[w].pc \in {"idle", "looked"} => stream'[w] = "none"
    BY <1>a, <1>v DEF LookedEffect, Others, Rest
  <2>2. \A w \in Viewer : HasId(w) => HasId(w)'
    BY <1>a DEF LookedEffect, Others, Rest
  <2>3. \A w \in Viewer :
          viewer'[w].pc = "hitting" => viewer'[w].hit \in Viewer /\
            HasId(viewer'[w].hit)
    BY <1>a, <1>v DEF LookedEffect, Others, Rest
  <2>4. \A s \in Run : \A w \in subs'[s] \cup closing'[s] :
          w \in Viewer /\ viewer'[w].pc \notin {"idle", "looked"} /\
            viewer'[w].run = s
    BY <1>a DEF LookedEffect, Others, Rest
  <2> QED
    BY <2>1, <2>2, <2>3, <2>4, <1>a, SMTT(60) DEF Rest, LookedEffect
<1>b. ASSUME NEW v \in Viewer, AttachedEffect(v, viewer[v].run)
      PROVE  ViewersAttached'
  <2>1. \A w \in Viewer :
          /\ viewer'[w].run \in Run => pc[viewer'[w].run] # "fresh"
          /\ viewer'[w].pc \in {"idle", "looked"} => stream'[w] = "none"
    BY <1>b, <1>v DEF AttachedEffect, Others, Rest, LaneOf
  <2>2. \A w \in Viewer : HasId(w) => HasId(w)'
    BY <1>b DEF AttachedEffect, Others, Rest, LaneOf
  <2>3. \A w \in Viewer :
          viewer'[w].pc = "hitting" => viewer'[w].hit \in Viewer /\
            HasId(viewer'[w].hit)
    BY <1>b, <1>v DEF AttachedEffect, Others, Rest, LaneOf
  <2>4. \A s \in Run : \A w \in subs'[s] \cup closing'[s] :
          w \in Viewer /\ viewer'[w].pc \notin {"idle", "looked"} /\
            viewer'[w].run = s
    <3>1. \A s \in Run : subs'[s] \ {v} \subseteq subs[s] /\ closing'[s] =
      closing[s]
      BY <1>b DEF AttachedEffect, Rest
    <3>2. \A s \in Run : v \in subs'[s] => s = viewer[v].run
      BY <1>b DEF AttachedEffect
    <3>3. v \notin closing[viewer[v].run] /\ \A s \in Run : v \notin closing[s]
      BY <1>b DEF AttachedEffect
    <3>4. viewer'[v].pc = "attached" /\ viewer'[v].run = viewer[v].run
      BY <1>b DEF AttachedEffect
    <3>5. ASSUME NEW s \in Run, NEW w \in subs'[s] \cup closing'[s], w # v
          PROVE  /\ w \in Viewer /\ viewer'[w] = viewer[w]
                 /\ HasId(w) /\ viewer[w].run = s
      BY <1>b, <3>1, <3>5 DEF AttachedEffect, Others
    <3> QED
      BY <3>1, <3>2, <3>3, <3>4, <3>5
  <2> QED
    BY <2>1, <2>2, <2>3, <2>4, <1>b DEF Rest, AttachedEffect
<1>c. ASSUME NEW v \in Viewer, LeftEffect(v) PROVE ViewersAttached'
  <2>1. \A w \in Viewer :
          /\ viewer'[w].run \in Run => pc[viewer'[w].run] # "fresh"
          /\ viewer'[w].pc \in {"idle", "looked"} => stream'[w] = "none"
    BY <1>c, <1>v DEF LeftEffect, Others, Rest
  <2>2. \A w \in Viewer : HasId(w) => HasId(w)'
    BY <1>c DEF LeftEffect, Others, Rest
  <2>3. \A w \in Viewer :
          viewer'[w].pc = "hitting" => viewer'[w].hit \in Viewer /\
            HasId(viewer'[w].hit)
    BY <1>c, <1>v DEF LeftEffect, Others, Rest
  <2>4. \A s \in Run : \A w \in subs'[s] \cup closing'[s] :
          w \in Viewer /\ viewer'[w].pc \notin {"idle", "looked"} /\
            viewer'[w].run = s
    BY <1>c DEF LeftEffect, Others, Rest
  <2> QED
    BY <2>1, <2>2, <2>3, <2>4, <1>c DEF Rest, LeftEffect
<1>d. ASSUME NEW v \in Viewer, DetachedEffect(v) PROVE ViewersAttached'
  <2>1. \A w \in Viewer :
          /\ viewer'[w].run \in Run => pc[viewer'[w].run] # "fresh"
          /\ viewer'[w].pc \in {"idle", "looked"} => stream'[w] = "none"
    BY <1>d, <1>v DEF DetachedEffect, Others, Rest, Holders, LaneOf
  <2>2. \A w \in Viewer : HasId(w) => HasId(w)'
    BY <1>d DEF DetachedEffect, Others, Rest, Holders, LaneOf
  <2>3. \A w \in Viewer :
          viewer'[w].pc = "hitting" => viewer'[w].hit \in Viewer /\
            HasId(viewer'[w].hit)
    BY <1>d, <1>v DEF DetachedEffect, Others, Rest, Holders, LaneOf
  <2>4. \A s \in Run : \A w \in subs'[s] \cup closing'[s] :
          w \in Viewer /\ viewer'[w].pc \notin {"idle", "looked"} /\
            viewer'[w].run = s
    <3>1. \A s \in Run : subs'[s] \subseteq subs[s] /\ closing'[s] = closing[s]
      BY <1>d DEF DetachedEffect, Rest
    <3> QED
      BY <1>d, <3>1 DEF DetachedEffect, Others
  <2> QED
    BY <2>1, <2>2, <2>3, <2>4, <1>d DEF Rest, DetachedEffect
<1>1. ASSUME NEW k \in Key, NEW r \in Run, Start(k, r) PROVE ViewersAttached'
  BY <1>1 DEF Start
<1>2. ASSUME NEW r \in Run, RunEnds(r) PROVE ViewersAttached'
  BY <1>2 DEF RunEnds
<1>3. ASSUME NEW r \in Run, CloseSubscribers(r) PROVE ViewersAttached'
  BY <1>3 DEF CloseSubscribers, TakeOut
<1>4. ASSUME NEW r \in Run, NEW v \in Viewer, CloseOne(r, v)
      PROVE  ViewersAttached'
  BY <1>4 DEF CloseOne
<1>5. ASSUME NEW r \in Run, Finish(r) PROVE ViewersAttached'
  BY <1>5 DEF Finish
<1>6. ASSUME NEW r \in Run, SweepHub(r) PROVE ViewersAttached'
  BY <1>6 DEF SweepHub, TakeOut
<1>7. ASSUME NEW r \in Run, SweepSubscribers(r) PROVE ViewersAttached'
  BY <1>7 DEF SweepSubscribers, TakeOut
<1>8. ASSUME NEW r \in Run, Deregister(r) PROVE ViewersAttached'
  BY <1>8 DEF Deregister
<1>9. ASSUME NEW v \in Viewer, NEW k \in Key, LookUpEvents(v, k)
      PROVE  ViewersAttached'
  BY <1>9, <1>a, Looked
<1>10. ASSUME NEW v \in Viewer, NEW k \in Key, LookUpTasks(v, k)
       PROVE  ViewersAttached'
  BY <1>10, <1>a, Looked
<1>11. ASSUME NEW v \in Viewer, AttachEvents(v) PROVE ViewersAttached'
  BY <1>11, <1>b, Attached
<1>12. ASSUME NEW v \in Viewer, RefuseEvents(v) PROVE ViewersAttached'
  BY <1>12 DEF RefuseEvents, NewViewer, IsDone
<1>13. ASSUME NEW v \in Viewer, AttachTasks(v) PROVE ViewersAttached'
  BY <1>13, <1>b, Attached
<1>14. ASSUME NEW v \in Viewer, Leave(v) PROVE ViewersAttached'
  BY <1>14, <1>c, Left
<1>15. ASSUME NEW v \in Viewer, Detach(v) PROVE ViewersAttached'
  BY <1>15, <1>d, Detached
<1>16. ASSUME NEW v \in Viewer, CloseDetached(v) PROVE ViewersAttached'
  BY <1>16 DEF CloseDetached
<1>17. ASSUME NEW k \in Key, Cancel(k) PROVE ViewersAttached'
  BY <1>17 DEF Cancel
<1>18. ASSUME NEW r \in Run, EscalationFires(r) PROVE ViewersAttached'
  BY <1>18 DEF EscalationFires, IsDone
<1>19. CASE DrainBegins
  BY <1>19 DEF DrainBegins
<1>20. CASE DrainCompletes
  BY <1>20 DEF DrainCompletes, IsDone
<1>21. CASE DrainDeadline
  BY <1>21 DEF DrainDeadline, IsDone
<1>22. CASE UNCHANGED vars
  BY <1>22 DEF vars
<1> QED
  BY <1>1, <1>2, <1>3, <1>4, <1>5, <1>6, <1>7, <1>8, <1>9, <1>10, <1>11,
     <1>12, <1>13, <1>14, <1>15, <1>16, <1>17, <1>18, <1>19, <1>20, <1>21,
     <1>22
  DEF Next, RunStep, ViewerStep

(* A step keeps every open stream in somebody's hands. *)
LEMMA TrackedStep ==
  TypeOK /\ ClosingWindows /\ ViewersAttached /\ StreamsTracked
    /\ [Next]_vars => StreamsTracked'
<1> SUFFICES ASSUME TypeOK, ClosingWindows, ViewersAttached, StreamsTracked,
                    [Next]_vars
             PROVE  StreamsTracked'
  OBVIOUS
<1> USE NoneAssumption, ViewersAssumption DEF TypeOK, ClosingWindows,
  ViewersAttached, StreamsTracked, HasId, LaneOf
<1>a. ASSUME NEW v \in Viewer, NEW k \in Key, LookedEffect(v, k)
      PROVE  StreamsTracked'
  <2>1. SUFFICES ASSUME NEW u \in Viewer, stream[u] = "open"
                 PROVE  InHand(u)'
    BY <1>a DEF LookedEffect
  <2>2. u # v /\ InHand(u)
    BY <2>1, <1>a DEF LookedEffect
  <2> QED
    BY <2>2, <1>a DEF InHand, LookedEffect, Others, Rest
<1>b. ASSUME NEW v \in Viewer, AttachedEffect(v, viewer[v].run)
      PROVE  StreamsTracked'
  <2>1. SUFFICES ASSUME NEW u \in Viewer, stream'[u] = "open"
                 PROVE  InHand(u)'
    OBVIOUS
  <2>2. CASE u = v
    BY <2>2, <1>b DEF InHand, AttachedEffect
  <2>3. CASE u # v
    <3>1. InHand(u) /\ viewer'[u] = viewer[u]
      BY <2>1, <2>3, <1>b DEF AttachedEffect, Others
    <3>2. \A s \in Run : subs[s] \subseteq subs'[s] /\ closing'[s] = closing[s]
      BY <1>b DEF AttachedEffect, Rest
    <3>3. ASSUME NEW x \in Viewer, LaneOf(x) = LaneOf(u), viewer[x].pc = "hitting", viewer[x].hit
      = u
          PROVE  InHand(u)'
      BY <3>3, <1>b DEF InHand, AttachedEffect, Others
    <3> QED
      BY <3>1, <3>2, <3>3 DEF InHand
  <2> QED
    BY <2>2, <2>3
<1>c. ASSUME NEW v \in Viewer, LeftEffect(v) PROVE StreamsTracked'
  <2>1. SUFFICES ASSUME NEW u \in Viewer, stream[u] = "open"
                 PROVE  InHand(u)'
    BY <1>c DEF LeftEffect
  <2>2. viewer'[u].run = viewer[u].run /\ InHand(u)
    BY <2>1, <1>c DEF LeftEffect, Others
  <2> QED
    BY <2>2, <1>c DEF InHand, LeftEffect, Others, Rest
<1>d. ASSUME NEW v \in Viewer, DetachedEffect(v) PROVE StreamsTracked'
  <2>1. SUFFICES ASSUME NEW u \in Viewer, stream[u] = "open"
                 PROVE  InHand(u)'
    BY <1>d DEF DetachedEffect
  <2>2. viewer'[u].run = viewer[u].run /\ InHand(u)
    BY <2>1, <1>d DEF DetachedEffect, Others
  <2>3. CASE viewer'[v].pc = "left" /\ UNCHANGED subs
    BY <2>2, <2>3, <1>d DEF InHand, DetachedEffect, Others, Rest
  <2>4. ASSUME NEW w \in Holders(viewer[v].at, v),
               subs' = [subs EXCEPT ![viewer[v].at] = @ \ {w}],
               viewer'[v].pc = "hitting", viewer'[v].hit = w
        PROVE  InHand(u)'
    <3>1. CASE w = u
      <4>1. LaneOf(v) = LaneOf(u)
        BY <3>1, <1>d DEF Holders
      <4> QED
        BY <4>1, <3>1, <2>4 DEF InHand
    <3>2. CASE w # u
      <4>1. \A s \in Run : u \in subs[s] \cup closing[s]
                            => u \in subs'[s] \cup closing'[s]
        BY <3>2, <2>4, <1>d DEF DetachedEffect, Rest
      <4>2. viewer[u].run \in Run /\ u \in subs[viewer[u].run] \cup
        closing[viewer[u].run]
            => InHand(u)'
        BY <4>1, <2>2 DEF InHand
      <4>3. ASSUME NEW x \in Viewer, LaneOf(x) = LaneOf(u), viewer[x].pc = "hitting",
        viewer[x].hit = u
            PROVE  InHand(u)'
        BY <4>3, <1>d DEF InHand, DetachedEffect, Others
      <4> QED
        BY <4>2, <4>3, <2>2 DEF InHand
    <3> QED
      BY <3>1, <3>2
  <2> QED
    BY <2>3, <2>4, <1>d DEF DetachedEffect
<1>1. ASSUME NEW k \in Key, NEW r \in Run, Start(k, r) PROVE StreamsTracked'
  BY <1>1 DEF InHand, Start
<1>2. ASSUME NEW r \in Run, RunEnds(r) PROVE StreamsTracked'
  BY <1>2 DEF InHand, RunEnds
<1>3. ASSUME NEW r \in Run, CloseSubscribers(r) PROVE StreamsTracked'
  BY <1>3 DEF InHand, CloseSubscribers, TakeOut
<1>4. ASSUME NEW r \in Run, NEW v \in Viewer, CloseOne(r, v)
      PROVE  StreamsTracked'
  BY <1>4 DEF InHand, CloseOne
<1>5. ASSUME NEW r \in Run, Finish(r) PROVE StreamsTracked'
  BY <1>5 DEF InHand, Finish
<1>6. ASSUME NEW r \in Run, SweepHub(r) PROVE StreamsTracked'
  BY <1>6 DEF InHand, SweepHub, TakeOut
<1>7. ASSUME NEW r \in Run, SweepSubscribers(r) PROVE StreamsTracked'
  BY <1>7 DEF InHand, SweepSubscribers, TakeOut
<1>8. ASSUME NEW r \in Run, Deregister(r) PROVE StreamsTracked'
  BY <1>8 DEF InHand, Deregister
<1>9. ASSUME NEW v \in Viewer, NEW k \in Key, LookUpEvents(v, k)
      PROVE  StreamsTracked'
  BY <1>9, <1>a, Looked
<1>10. ASSUME NEW v \in Viewer, NEW k \in Key, LookUpTasks(v, k)
       PROVE  StreamsTracked'
  BY <1>10, <1>a, Looked
<1>11. ASSUME NEW v \in Viewer, AttachEvents(v) PROVE StreamsTracked'
  BY <1>11, <1>b, Attached
<1>12. ASSUME NEW v \in Viewer, RefuseEvents(v) PROVE StreamsTracked'
  BY <1>12 DEF InHand, RefuseEvents, NewViewer, IsDone
<1>13. ASSUME NEW v \in Viewer, AttachTasks(v) PROVE StreamsTracked'
  BY <1>13, <1>b, Attached
<1>14. ASSUME NEW v \in Viewer, Leave(v) PROVE StreamsTracked'
  BY <1>14, <1>c, Left
<1>15. ASSUME NEW v \in Viewer, Detach(v) PROVE StreamsTracked'
  BY <1>15, <1>d, Detached
<1>16. ASSUME NEW v \in Viewer, CloseDetached(v) PROVE StreamsTracked'
  BY <1>16 DEF InHand, CloseDetached
<1>17. ASSUME NEW k \in Key, Cancel(k) PROVE StreamsTracked'
  BY <1>17 DEF InHand, Cancel
<1>18. ASSUME NEW r \in Run, EscalationFires(r) PROVE StreamsTracked'
  BY <1>18 DEF InHand, EscalationFires, IsDone
<1>19. CASE DrainBegins
  BY <1>19 DEF InHand, DrainBegins
<1>20. CASE DrainCompletes
  BY <1>20 DEF InHand, DrainCompletes, IsDone
<1>21. CASE DrainDeadline
  BY <1>21 DEF InHand, DrainDeadline, IsDone
<1>22. CASE UNCHANGED vars
  BY <1>22 DEF InHand, vars
<1> QED
  BY <1>1, <1>2, <1>3, <1>4, <1>5, <1>6, <1>7, <1>8, <1>9, <1>10, <1>11,
     <1>12, <1>13, <1>14, <1>15, <1>16, <1>17, <1>18, <1>19, <1>20, <1>21,
     <1>22
  DEF Next, RunStep, ViewerStep

(* A step leaves nobody but latecomers in a swept hub. *)
LEMMA LateStep ==
  TypeOK /\ ViewersAttached /\ LatecomersOnly /\ [Next]_vars => LatecomersOnly'
<1> SUFFICES ASSUME TypeOK, ViewersAttached, LatecomersOnly, [Next]_vars
             PROVE  LatecomersOnly'
  OBVIOUS
<1> USE NoneAssumption, ViewersAssumption
    DEF TypeOK, ViewersAttached, LatecomersOnly, HasId, HubIsSwept
<1>a. ASSUME NEW v \in Viewer, NEW k \in Key, LookedEffect(v, k)
      PROVE  LatecomersOnly'
  BY <1>a DEF LookedEffect, Others, Rest
<1>b. ASSUME NEW v \in Viewer, AttachedEffect(v, viewer[v].run)
      PROVE  LatecomersOnly'
  <2> SUFFICES ASSUME NEW r \in Run, HubIsSwept(r)',
                      NEW w \in subs'[r] \cap TaskViewer
               PROVE  viewer'[w].late
    BY DEF LatecomersOnly
  <2>1. HubIsSwept(r)
    BY <1>b DEF AttachedEffect, Rest
  <2>2. CASE w = v
    <3>1. r = viewer[v].run
      BY <1>b, <2>2 DEF AttachedEffect
    <3> QED
      BY <1>b, <2>1, <2>2, <3>1 DEF AttachedEffect
  <2>3. CASE w # v
    <3>1. w \in subs[r] /\ w \in Viewer
      BY <1>b, <2>3 DEF AttachedEffect, Viewer
    <3> QED
      BY <1>b, <2>1, <2>3, <3>1 DEF AttachedEffect, Others
  <2> QED
    BY <2>2, <2>3
<1>c. ASSUME NEW v \in Viewer, LeftEffect(v) PROVE LatecomersOnly'
  BY <1>c DEF LeftEffect, Others, Rest
<1>d. ASSUME NEW v \in Viewer, DetachedEffect(v) PROVE LatecomersOnly'
  <2>1. \A s \in Run : subs'[s] \subseteq subs[s]
    BY <1>d DEF DetachedEffect
  <2>2. \A w \in Viewer : viewer'[w].late = viewer[w].late
    BY <1>d DEF DetachedEffect, Others
  <2> QED
    BY <1>d, <2>1, <2>2 DEF DetachedEffect, Rest, Viewer
<1>1. ASSUME NEW k \in Key, NEW r \in Run, Start(k, r) PROVE LatecomersOnly'
  BY <1>1 DEF Start
<1>2. ASSUME NEW r \in Run, RunEnds(r) PROVE LatecomersOnly'
  BY <1>2 DEF RunEnds
<1>3. ASSUME NEW r \in Run, CloseSubscribers(r) PROVE LatecomersOnly'
  BY <1>3 DEF CloseSubscribers, TakeOut
<1>4. ASSUME NEW r \in Run, NEW v \in Viewer, CloseOne(r, v)
      PROVE  LatecomersOnly'
  BY <1>4 DEF CloseOne
<1>5. ASSUME NEW r \in Run, Finish(r) PROVE LatecomersOnly'
  BY <1>5 DEF Finish
<1>6. ASSUME NEW r \in Run, SweepHub(r) PROVE LatecomersOnly'
  BY <1>6 DEF SweepHub, TakeOut
<1>7. ASSUME NEW r \in Run, SweepSubscribers(r) PROVE LatecomersOnly'
  BY <1>7 DEF SweepSubscribers, TakeOut
<1>8. ASSUME NEW r \in Run, Deregister(r) PROVE LatecomersOnly'
  BY <1>8 DEF Deregister
<1>9. ASSUME NEW v \in Viewer, NEW k \in Key, LookUpEvents(v, k)
      PROVE  LatecomersOnly'
  BY <1>9, <1>a, Looked
<1>10. ASSUME NEW v \in Viewer, NEW k \in Key, LookUpTasks(v, k)
       PROVE  LatecomersOnly'
  BY <1>10, <1>a, Looked
<1>11. ASSUME NEW v \in Viewer, AttachEvents(v) PROVE LatecomersOnly'
  BY <1>11, <1>b, Attached
<1>12. ASSUME NEW v \in Viewer, RefuseEvents(v) PROVE LatecomersOnly'
  BY <1>12 DEF RefuseEvents, NewViewer
<1>13. ASSUME NEW v \in Viewer, AttachTasks(v) PROVE LatecomersOnly'
  BY <1>13, <1>b, Attached
<1>14. ASSUME NEW v \in Viewer, Leave(v) PROVE LatecomersOnly'
  BY <1>14, <1>c, Left
<1>15. ASSUME NEW v \in Viewer, Detach(v) PROVE LatecomersOnly'
  BY <1>15, <1>d, Detached
<1>16. ASSUME NEW v \in Viewer, CloseDetached(v) PROVE LatecomersOnly'
  BY <1>16 DEF CloseDetached
<1>17. ASSUME NEW k \in Key, Cancel(k) PROVE LatecomersOnly'
  BY <1>17 DEF Cancel
<1>18. ASSUME NEW r \in Run, EscalationFires(r) PROVE LatecomersOnly'
  BY <1>18 DEF EscalationFires
<1>19. CASE DrainBegins
  BY <1>19 DEF DrainBegins
<1>20. CASE DrainCompletes
  BY <1>20 DEF DrainCompletes
<1>21. CASE DrainDeadline
  BY <1>21 DEF DrainDeadline
<1>22. CASE UNCHANGED vars
  BY <1>22 DEF vars
<1> QED
  BY <1>1, <1>2, <1>3, <1>4, <1>5, <1>6, <1>7, <1>8, <1>9, <1>10, <1>11,
     <1>12, <1>13, <1>14, <1>15, <1>16, <1>17, <1>18, <1>19, <1>20, <1>21,
     <1>22
  DEF Next, RunStep, ViewerStep

(* A step keeps the ids of a lane distinct. *)
LEMMA UniqueStep ==
  TypeOK /\ ViewersAttached /\ UniqueIds /\ [Next]_vars => UniqueIds'
<1> SUFFICES ASSUME TypeOK, ViewersAttached, UniqueIds, [Next]_vars
             PROVE  UniqueIds'
  OBVIOUS
<1> USE DEF UniqueIds, HasId
<1>v. \A v \in Viewer :
        /\ viewer[v].id \in Nat /\ LaneOf(v) \in {"events", "tasks"}
        /\ viewer[v].pc # "idle" =>
             viewer[v].run \in Run /\ nextId[viewer[v].run][LaneOf(v)] \in Nat
  BY ViewerTypes
<1>a. ASSUME NEW v \in Viewer, NEW k \in Key, LookedEffect(v, k)
      PROVE  UniqueIds'
  <2>1. \A w \in Viewer : HasId(w)' => w # v /\ viewer'[w] = viewer[w] /\
    HasId(w)
    BY <1>a DEF LookedEffect, Others
  <2> QED
    BY <2>1, <1>a DEF LookedEffect, LaneOf
<1>b. ASSUME NEW v \in Viewer, AttachedEffect(v, viewer[v].run)
      PROVE  UniqueIds'
  <2> DEFINE r == viewer[v].run
             n == nextId[r][LaneOf(v)]
  <2>1. /\ r \in Run /\ n \in Nat /\ ~HasId(v)
        /\ viewer'[v].run = r /\ viewer'[v].id = n + 1
    BY <1>b DEF AttachedEffect
  <2>2. \A w \in Viewer \ {v} : viewer'[w] = viewer[w] /\ (HasId(w)' <=>
    HasId(w))
    BY <1>b DEF AttachedEffect, Others
  <2>3. /\ \A s \in Run, lane \in {"events", "tasks"} :
             s # r \/ lane # LaneOf(v) => nextId'[s][lane] = nextId[s][lane]
        /\ nextId'[r][LaneOf(v)] = n + 1
    <3>1. nextId \in [Run -> [{"events", "tasks"} -> Nat]]
      BY DEF TypeOK
    <3>2. nextId' = [nextId EXCEPT ![r] = [nextId[r] EXCEPT ![LaneOf(v)] = n +
      1]]
      BY <1>b DEF AttachedEffect
    <3>3. LaneOf(v) \in {"events", "tasks"}
      BY <1>v
    <3> HIDE DEF r, n
    <3> QED
      BY <2>1, <3>1, <3>2, <3>3
  <2> HIDE DEF n, r
  <2>4. ASSUME NEW w \in Viewer, HasId(w)'
        PROVE  viewer'[w].id <= nextId'[viewer'[w].run][LaneOf(w)]
    <3>1. CASE w = v
      BY <3>1, <2>1, <2>3
    <3>2. CASE w # v /\ (viewer[w].run # r \/ LaneOf(w) # LaneOf(v))
      BY <3>2, <2>2, <2>3, <2>4, <1>v
    <3>3. CASE w # v /\ viewer[w].run = r /\ LaneOf(w) = LaneOf(v)
      <4>1. viewer[w].id <= n /\ viewer[w].id \in Nat
        BY <3>3, <2>2, <2>4, <1>v DEF n, r
      <4> QED
        BY <4>1, <3>3, <2>1, <2>2, <2>3
    <3> QED
      BY <3>1, <3>2, <3>3
  <2>5. ASSUME NEW w \in Viewer \ {v}, HasId(w), viewer[w].run = r,
               LaneOf(w) = LaneOf(v)
        PROVE  viewer'[w].id # viewer'[v].id
    <3>1. viewer[w].id <= n /\ viewer[w].id \in Nat
      BY <2>5, <1>v DEF n, r
    <3> QED
      BY <3>1, <2>1, <2>2
  <2>6. ASSUME NEW u \in Viewer, NEW w \in Viewer, HasId(u)', HasId(w)',
               viewer'[u].run = viewer'[w].run, LaneOf(u) = LaneOf(w),
               viewer'[u].id = viewer'[w].id
        PROVE  u = w
    BY <2>1, <2>2, <2>5, <2>6
  <2> QED
    BY <2>4, <2>6 DEF LaneOf
<1>c. ASSUME NEW v \in Viewer, LeftEffect(v) PROVE UniqueIds'
  <2>1. \A w \in Viewer :
          /\ HasId(w)' => HasId(w)
          /\ viewer'[w].run = viewer[w].run /\ viewer'[w].id = viewer[w].id
    BY <1>c DEF LeftEffect, Others
  <2> QED
    BY <2>1, <1>c DEF LeftEffect, LaneOf
<1>d. ASSUME NEW v \in Viewer, DetachedEffect(v) PROVE UniqueIds'
  <2>1. \A w \in Viewer :
          /\ HasId(w)' => HasId(w)
          /\ viewer'[w].run = viewer[w].run /\ viewer'[w].id = viewer[w].id
    BY <1>d DEF DetachedEffect, Others
  <2> QED
    BY <2>1, <1>d DEF DetachedEffect, LaneOf
<1>1. ASSUME NEW k \in Key, NEW r \in Run, Start(k, r) PROVE UniqueIds'
  BY <1>1 DEF LaneOf, Start
<1>2. ASSUME NEW r \in Run, RunEnds(r) PROVE UniqueIds'
  BY <1>2 DEF LaneOf, RunEnds
<1>3. ASSUME NEW r \in Run, CloseSubscribers(r) PROVE UniqueIds'
  BY <1>3 DEF LaneOf, CloseSubscribers, TakeOut
<1>4. ASSUME NEW r \in Run, NEW v \in Viewer, CloseOne(r, v) PROVE UniqueIds'
  BY <1>4 DEF LaneOf, CloseOne
<1>5. ASSUME NEW r \in Run, Finish(r) PROVE UniqueIds'
  BY <1>5 DEF LaneOf, Finish
<1>6. ASSUME NEW r \in Run, SweepHub(r) PROVE UniqueIds'
  BY <1>6 DEF LaneOf, SweepHub, TakeOut
<1>7. ASSUME NEW r \in Run, SweepSubscribers(r) PROVE UniqueIds'
  BY <1>7 DEF LaneOf, SweepSubscribers, TakeOut
<1>8. ASSUME NEW r \in Run, Deregister(r) PROVE UniqueIds'
  BY <1>8 DEF LaneOf, Deregister
<1>9. ASSUME NEW v \in Viewer, NEW k \in Key, LookUpEvents(v, k)
      PROVE  UniqueIds'
  BY <1>9, <1>a, Looked
<1>10. ASSUME NEW v \in Viewer, NEW k \in Key, LookUpTasks(v, k)
       PROVE  UniqueIds'
  BY <1>10, <1>a, Looked
<1>11. ASSUME NEW v \in Viewer, AttachEvents(v) PROVE UniqueIds'
  BY <1>11, <1>b, Attached
<1>12. ASSUME NEW v \in Viewer, RefuseEvents(v) PROVE UniqueIds'
  BY <1>12 DEF LaneOf, RefuseEvents, NewViewer, IsDone
<1>13. ASSUME NEW v \in Viewer, AttachTasks(v) PROVE UniqueIds'
  BY <1>13, <1>b, Attached
<1>14. ASSUME NEW v \in Viewer, Leave(v) PROVE UniqueIds'
  BY <1>14, <1>c, Left
<1>15. ASSUME NEW v \in Viewer, Detach(v) PROVE UniqueIds'
  BY <1>15, <1>d, Detached
<1>16. ASSUME NEW v \in Viewer, CloseDetached(v) PROVE UniqueIds'
  BY <1>16 DEF LaneOf, CloseDetached
<1>17. ASSUME NEW k \in Key, Cancel(k) PROVE UniqueIds'
  BY <1>17 DEF LaneOf, Cancel
<1>18. ASSUME NEW r \in Run, EscalationFires(r) PROVE UniqueIds'
  BY <1>18 DEF LaneOf, EscalationFires, IsDone
<1>19. CASE DrainBegins
  BY <1>19 DEF LaneOf, DrainBegins
<1>20. CASE DrainCompletes
  BY <1>20 DEF LaneOf, DrainCompletes, IsDone
<1>21. CASE DrainDeadline
  BY <1>21 DEF LaneOf, DrainDeadline, IsDone
<1>22. CASE UNCHANGED vars
  BY <1>22 DEF LaneOf, vars
<1> QED
  BY <1>1, <1>2, <1>3, <1>4, <1>5, <1>6, <1>7, <1>8, <1>9, <1>10, <1>11,
     <1>12, <1>13, <1>14, <1>15, <1>16, <1>17, <1>18, <1>19, <1>20, <1>21,
     <1>22
  DEF Next, RunStep, ViewerStep

(* A detaching consumer takes its own stream out of the run it watched. *)
LEMMA OwnStep ==
  TypeOK /\ ViewersAttached /\ UniqueIds /\ UnsubscribeHitsOwnStream
    /\ [Next]_vars => UnsubscribeHitsOwnStream'
<1> SUFFICES ASSUME TypeOK, ViewersAttached, UniqueIds,
                    UnsubscribeHitsOwnStream, [Next]_vars
             PROVE  UnsubscribeHitsOwnStream'
  OBVIOUS
<1> USE DEF UnsubscribeHitsOwnStream
<1>a. ASSUME NEW v \in Viewer, NEW k \in Key, LookedEffect(v, k)
      PROVE  UnsubscribeHitsOwnStream'
  <2>1. \A w \in Viewer : viewer'[w].pc = "hitting" => viewer'[w] = viewer[w]
    BY <1>a DEF LookedEffect, Others
  <2> QED
    BY <2>1
<1>b. ASSUME NEW v \in Viewer, AttachedEffect(v, viewer[v].run)
      PROVE  UnsubscribeHitsOwnStream'
  <2>1. \A w \in Viewer : viewer'[w].pc = "hitting" => viewer'[w] = viewer[w]
    BY <1>b DEF AttachedEffect, Others
  <2> QED
    BY <2>1
<1>c. ASSUME NEW v \in Viewer, LeftEffect(v) PROVE UnsubscribeHitsOwnStream'
  <2>1. \A w \in Viewer : viewer'[w].pc = "hitting" => viewer'[w] = viewer[w]
    BY <1>c DEF LeftEffect, Others
  <2> QED
    BY <2>1
<1>d. ASSUME NEW v \in Viewer, DetachedEffect(v)
      PROVE  UnsubscribeHitsOwnStream'
  <2>1. \A w \in Viewer \ {v} : viewer'[w] = viewer[w]
    BY <1>d DEF DetachedEffect, Others
  <2>2. ASSUME viewer'[v].pc = "hitting", viewer'[v].at = viewer'[v].run
        PROVE  viewer'[v].hit = v
    <3>1. PICK w \in Holders(viewer[v].at, v) : viewer'[v].hit = w
      BY <2>2, <1>d DEF DetachedEffect
    <3>2. /\ w \in Viewer /\ HasId(w) /\ HasId(v)
          /\ viewer[w].run = viewer[v].run /\ viewer[w].id = viewer[v].id
          /\ LaneOf(w) = LaneOf(v)
      <4>1. viewer[v].at = viewer[v].run /\ viewer[v].at \in Run /\ HasId(v)
        BY <2>2, <1>d DEF DetachedEffect, HasId
      <4>2. /\ w \in subs[viewer[v].at] /\ LaneOf(w) = LaneOf(v)
            /\ viewer[w].id = viewer[v].id
        BY DEF Holders
      <4> QED
        BY <4>1, <4>2 DEF TypeOK, ViewersAttached
    <3> QED
      BY <3>1, <3>2 DEF UniqueIds
  <2> QED
    BY <2>1, <2>2
<1>1. ASSUME NEW k \in Key, NEW r \in Run, Start(k, r)
      PROVE  UnsubscribeHitsOwnStream'
  BY <1>1 DEF Start
<1>2. ASSUME NEW r \in Run, RunEnds(r) PROVE UnsubscribeHitsOwnStream'
  BY <1>2 DEF RunEnds
<1>3. ASSUME NEW r \in Run, CloseSubscribers(r) PROVE UnsubscribeHitsOwnStream'
  BY <1>3 DEF CloseSubscribers, TakeOut
<1>4. ASSUME NEW r \in Run, NEW v \in Viewer, CloseOne(r, v)
      PROVE  UnsubscribeHitsOwnStream'
  BY <1>4 DEF CloseOne
<1>5. ASSUME NEW r \in Run, Finish(r) PROVE UnsubscribeHitsOwnStream'
  BY <1>5 DEF Finish
<1>6. ASSUME NEW r \in Run, SweepHub(r) PROVE UnsubscribeHitsOwnStream'
  BY <1>6 DEF SweepHub, TakeOut
<1>7. ASSUME NEW r \in Run, SweepSubscribers(r) PROVE UnsubscribeHitsOwnStream'
  BY <1>7 DEF SweepSubscribers, TakeOut
<1>8. ASSUME NEW r \in Run, Deregister(r) PROVE UnsubscribeHitsOwnStream'
  BY <1>8 DEF Deregister
<1>9. ASSUME NEW v \in Viewer, NEW k \in Key, LookUpEvents(v, k)
      PROVE  UnsubscribeHitsOwnStream'
  BY <1>9, <1>a, Looked
<1>10. ASSUME NEW v \in Viewer, NEW k \in Key, LookUpTasks(v, k)
       PROVE  UnsubscribeHitsOwnStream'
  BY <1>10, <1>a, Looked
<1>11. ASSUME NEW v \in Viewer, AttachEvents(v) PROVE UnsubscribeHitsOwnStream'
  BY <1>11, <1>b, Attached
<1>12. ASSUME NEW v \in Viewer, RefuseEvents(v) PROVE UnsubscribeHitsOwnStream'
  BY <1>12 DEF RefuseEvents, NewViewer, IsDone
<1>13. ASSUME NEW v \in Viewer, AttachTasks(v) PROVE UnsubscribeHitsOwnStream'
  BY <1>13, <1>b, Attached
<1>14. ASSUME NEW v \in Viewer, Leave(v) PROVE UnsubscribeHitsOwnStream'
  BY <1>14, <1>c, Left
<1>15. ASSUME NEW v \in Viewer, Detach(v) PROVE UnsubscribeHitsOwnStream'
  BY <1>15, <1>d, Detached
<1>16. ASSUME NEW v \in Viewer, CloseDetached(v)
       PROVE  UnsubscribeHitsOwnStream'
  BY <1>16 DEF CloseDetached
<1>17. ASSUME NEW k \in Key, Cancel(k) PROVE UnsubscribeHitsOwnStream'
  BY <1>17 DEF Cancel
<1>18. ASSUME NEW r \in Run, EscalationFires(r) PROVE UnsubscribeHitsOwnStream'
  BY <1>18 DEF EscalationFires, IsDone
<1>19. CASE DrainBegins
  BY <1>19 DEF DrainBegins
<1>20. CASE DrainCompletes
  BY <1>20 DEF DrainCompletes, IsDone
<1>21. CASE DrainDeadline
  BY <1>21 DEF DrainDeadline, IsDone
<1>22. CASE UNCHANGED vars
  BY <1>22 DEF vars
<1> QED
  BY <1>1, <1>2, <1>3, <1>4, <1>5, <1>6, <1>7, <1>8, <1>9, <1>10, <1>11,
     <1>12, <1>13, <1>14, <1>15, <1>16, <1>17, <1>18, <1>19, <1>20, <1>21,
     <1>22
  DEF Next, RunStep, ViewerStep

(* A step keeps the bookkeeping of cancels and drain. *)
LEMMA CancelStep ==
  TypeOK /\ Registered /\ CancelDrain /\ [Next]_vars => CancelDrain'
<1> SUFFICES ASSUME TypeOK, Registered, CancelDrain, [Next]_vars
             PROVE  CancelDrain'
  OBVIOUS
<1> USE NoneAssumption DEF TypeOK, Registered, CancelDrain
<1>1. ASSUME NEW k \in Key, NEW r \in Run, Start(k, r) PROVE CancelDrain'
  BY <1>1 DEF Start
<1>2. ASSUME NEW r \in Run, RunEnds(r) PROVE CancelDrain'
  BY <1>2 DEF RunEnds
<1>3. ASSUME NEW r \in Run, CloseSubscribers(r) PROVE CancelDrain'
  BY <1>3 DEF CloseSubscribers, TakeOut
<1>4. ASSUME NEW r \in Run, NEW v \in Viewer, CloseOne(r, v) PROVE CancelDrain'
  BY <1>4 DEF CloseOne
<1>5. ASSUME NEW r \in Run, Finish(r) PROVE CancelDrain'
  BY <1>5 DEF Finish
<1>6. ASSUME NEW r \in Run, SweepHub(r) PROVE CancelDrain'
  BY <1>6 DEF SweepHub, TakeOut
<1>7. ASSUME NEW r \in Run, SweepSubscribers(r) PROVE CancelDrain'
  BY <1>7 DEF SweepSubscribers, TakeOut
<1>8. ASSUME NEW r \in Run, Deregister(r) PROVE CancelDrain'
  BY <1>8 DEF Deregister
<1>9. ASSUME NEW v \in Viewer, NEW k \in Key, LookUpEvents(v, k)
      PROVE  CancelDrain'
  BY <1>9 DEF LookUpEvents
<1>10. ASSUME NEW v \in Viewer, NEW k \in Key, LookUpTasks(v, k)
       PROVE  CancelDrain'
  BY <1>10 DEF LookUpTasks, IsLive, IsDone
<1>11. ASSUME NEW v \in Viewer, AttachEvents(v) PROVE CancelDrain'
  BY <1>11 DEF AttachEvents, Register, LaneOf, IsDone
<1>12. ASSUME NEW v \in Viewer, RefuseEvents(v) PROVE CancelDrain'
  BY <1>12 DEF RefuseEvents, NewViewer, IsDone
<1>13. ASSUME NEW v \in Viewer, AttachTasks(v) PROVE CancelDrain'
  BY <1>13 DEF AttachTasks, Register, LaneOf
<1>14. ASSUME NEW v \in Viewer, Leave(v) PROVE CancelDrain'
  BY <1>14 DEF Leave, IsLive, IsDone
<1>15. ASSUME NEW v \in Viewer, Detach(v) PROVE CancelDrain'
  BY <1>15 DEF Detach, Holders, LaneOf
<1>16. ASSUME NEW v \in Viewer, CloseDetached(v) PROVE CancelDrain'
  BY <1>16 DEF CloseDetached
<1>17. ASSUME NEW k \in Key, Cancel(k) PROVE CancelDrain'
  BY <1>17 DEF Cancel
<1>18. ASSUME NEW r \in Run, EscalationFires(r) PROVE CancelDrain'
  <2>1. \A s \in Run : ctx'[s] # ctx[s] => s = r
    BY <1>18 DEF EscalationFires
  <2>2. pc[r] # "fresh"
    BY <1>18 DEF EscalationFires
  <2> QED
    BY <1>18, <2>1, <2>2 DEF EscalationFires
<1>19. CASE DrainBegins
  <2>1. ASSUME NEW r \in Run, pc[r] # "fresh", pc[r] # "gone"
        PROVE  r \in drain'.waits
    BY <2>1, <1>19 DEF DrainBegins
  <2>2. ASSUME NEW r \in Run, pc[r] = "fresh" PROVE r \notin drain'.waits
    BY <2>2, <1>19 DEF DrainBegins
  <2> QED
    BY <2>1, <2>2, <1>19 DEF DrainBegins
<1>20. CASE DrainCompletes
  BY <1>20 DEF DrainCompletes, IsDone
<1>21. CASE DrainDeadline
  <2>1. \A s \in Run : ctx'[s] # ctx[s] => s \in drain.waits
    BY <1>21 DEF DrainDeadline
  <2>2. drain'.waits = drain.waits
    BY <1>21 DEF DrainDeadline
  <2> QED
    BY <1>21, <2>1, <2>2 DEF DrainDeadline
<1>22. CASE UNCHANGED vars
  BY <1>22 DEF vars
<1> QED
  BY <1>1, <1>2, <1>3, <1>4, <1>5, <1>6, <1>7, <1>8, <1>9, <1>10, <1>11,
     <1>12, <1>13, <1>14, <1>15, <1>16, <1>17, <1>18, <1>19, <1>20, <1>21,
     <1>22
  DEF Next, RunStep, ViewerStep

(* Only the drain or its own cancel stops a run. *)
LEMMA CancelHitsStep ==
  TypeOK /\ CancelDrain /\ CancelHitsItsRun /\ [Next]_vars => CancelHitsItsRun'
<1> SUFFICES ASSUME TypeOK, CancelDrain, CancelHitsItsRun, [Next]_vars
             PROVE  CancelHitsItsRun'
  OBVIOUS
<1> USE NoneAssumption DEF TypeOK, CancelDrain, CancelHitsItsRun
<1>1. ASSUME NEW k \in Key, NEW r \in Run, Start(k, r) PROVE CancelHitsItsRun'
  BY <1>1 DEF Start
<1>2. ASSUME NEW r \in Run, RunEnds(r) PROVE CancelHitsItsRun'
  BY <1>2 DEF RunEnds
<1>3. ASSUME NEW r \in Run, CloseSubscribers(r) PROVE CancelHitsItsRun'
  BY <1>3 DEF CloseSubscribers, TakeOut
<1>4. ASSUME NEW r \in Run, NEW v \in Viewer, CloseOne(r, v)
      PROVE  CancelHitsItsRun'
  BY <1>4 DEF CloseOne
<1>5. ASSUME NEW r \in Run, Finish(r) PROVE CancelHitsItsRun'
  BY <1>5 DEF Finish
<1>6. ASSUME NEW r \in Run, SweepHub(r) PROVE CancelHitsItsRun'
  BY <1>6 DEF SweepHub, TakeOut
<1>7. ASSUME NEW r \in Run, SweepSubscribers(r) PROVE CancelHitsItsRun'
  BY <1>7 DEF SweepSubscribers, TakeOut
<1>8. ASSUME NEW r \in Run, Deregister(r) PROVE CancelHitsItsRun'
  BY <1>8 DEF Deregister
<1>9. ASSUME NEW v \in Viewer, NEW k \in Key, LookUpEvents(v, k)
      PROVE  CancelHitsItsRun'
  BY <1>9 DEF LookUpEvents
<1>10. ASSUME NEW v \in Viewer, NEW k \in Key, LookUpTasks(v, k)
       PROVE  CancelHitsItsRun'
  BY <1>10 DEF LookUpTasks, IsLive, IsDone
<1>11. ASSUME NEW v \in Viewer, AttachEvents(v) PROVE CancelHitsItsRun'
  BY <1>11 DEF AttachEvents, Register, LaneOf, IsDone
<1>12. ASSUME NEW v \in Viewer, RefuseEvents(v) PROVE CancelHitsItsRun'
  BY <1>12 DEF RefuseEvents, NewViewer, IsDone
<1>13. ASSUME NEW v \in Viewer, AttachTasks(v) PROVE CancelHitsItsRun'
  BY <1>13 DEF AttachTasks, Register, LaneOf
<1>14. ASSUME NEW v \in Viewer, Leave(v) PROVE CancelHitsItsRun'
  BY <1>14 DEF Leave, IsLive, IsDone
<1>15. ASSUME NEW v \in Viewer, Detach(v) PROVE CancelHitsItsRun'
  BY <1>15 DEF Detach, Holders, LaneOf
<1>16. ASSUME NEW v \in Viewer, CloseDetached(v) PROVE CancelHitsItsRun'
  BY <1>16 DEF CloseDetached
<1>17. ASSUME NEW k \in Key, Cancel(k) PROVE CancelHitsItsRun'
  BY <1>17 DEF Cancel
<1>18. ASSUME NEW r \in Run, EscalationFires(r) PROVE CancelHitsItsRun'
  BY <1>18 DEF EscalationFires, IsDone
<1>19. CASE DrainBegins
  BY <1>19 DEF DrainBegins
<1>20. CASE DrainCompletes
  BY <1>20 DEF DrainCompletes, IsDone
<1>21. CASE DrainDeadline
  BY <1>21 DEF DrainDeadline, IsDone
<1>22. CASE UNCHANGED vars
  BY <1>22 DEF vars
<1> QED
  BY <1>1, <1>2, <1>3, <1>4, <1>5, <1>6, <1>7, <1>8, <1>9, <1>10, <1>11,
     <1>12, <1>13, <1>14, <1>15, <1>16, <1>17, <1>18, <1>19, <1>20, <1>21,
     <1>22
  DEF Next, RunStep, ViewerStep

(* A drain that returned left nothing running untold. *)
LEMMA DrainStep ==
  TypeOK /\ CancelDrain /\ DrainLeavesNoneRunning
    /\ [Next]_vars => DrainLeavesNoneRunning'
<1> SUFFICES ASSUME TypeOK, CancelDrain, DrainLeavesNoneRunning, [Next]_vars
             PROVE  DrainLeavesNoneRunning'
  OBVIOUS
<1> USE NoneAssumption DEF TypeOK, CancelDrain, DrainLeavesNoneRunning
<1>1. ASSUME NEW k \in Key, NEW r \in Run, Start(k, r)
      PROVE  DrainLeavesNoneRunning'
  BY <1>1 DEF Start
<1>2. ASSUME NEW r \in Run, RunEnds(r) PROVE DrainLeavesNoneRunning'
  BY <1>2 DEF RunEnds
<1>3. ASSUME NEW r \in Run, CloseSubscribers(r) PROVE DrainLeavesNoneRunning'
  BY <1>3 DEF CloseSubscribers, TakeOut
<1>4. ASSUME NEW r \in Run, NEW v \in Viewer, CloseOne(r, v)
      PROVE  DrainLeavesNoneRunning'
  BY <1>4 DEF CloseOne
<1>5. ASSUME NEW r \in Run, Finish(r) PROVE DrainLeavesNoneRunning'
  BY <1>5 DEF Finish
<1>6. ASSUME NEW r \in Run, SweepHub(r) PROVE DrainLeavesNoneRunning'
  BY <1>6 DEF SweepHub, TakeOut
<1>7. ASSUME NEW r \in Run, SweepSubscribers(r) PROVE DrainLeavesNoneRunning'
  BY <1>7 DEF SweepSubscribers, TakeOut
<1>8. ASSUME NEW r \in Run, Deregister(r) PROVE DrainLeavesNoneRunning'
  BY <1>8 DEF Deregister
<1>9. ASSUME NEW v \in Viewer, NEW k \in Key, LookUpEvents(v, k)
      PROVE  DrainLeavesNoneRunning'
  BY <1>9 DEF LookUpEvents
<1>10. ASSUME NEW v \in Viewer, NEW k \in Key, LookUpTasks(v, k)
       PROVE  DrainLeavesNoneRunning'
  BY <1>10 DEF LookUpTasks, IsLive, IsDone
<1>11. ASSUME NEW v \in Viewer, AttachEvents(v) PROVE DrainLeavesNoneRunning'
  BY <1>11 DEF AttachEvents, Register, LaneOf, IsDone
<1>12. ASSUME NEW v \in Viewer, RefuseEvents(v) PROVE DrainLeavesNoneRunning'
  BY <1>12 DEF RefuseEvents, NewViewer, IsDone
<1>13. ASSUME NEW v \in Viewer, AttachTasks(v) PROVE DrainLeavesNoneRunning'
  BY <1>13 DEF AttachTasks, Register, LaneOf
<1>14. ASSUME NEW v \in Viewer, Leave(v) PROVE DrainLeavesNoneRunning'
  BY <1>14 DEF Leave, IsLive, IsDone
<1>15. ASSUME NEW v \in Viewer, Detach(v) PROVE DrainLeavesNoneRunning'
  BY <1>15 DEF Detach, Holders, LaneOf
<1>16. ASSUME NEW v \in Viewer, CloseDetached(v) PROVE DrainLeavesNoneRunning'
  BY <1>16 DEF CloseDetached
<1>17. ASSUME NEW k \in Key, Cancel(k) PROVE DrainLeavesNoneRunning'
  BY <1>17 DEF Cancel
<1>18. ASSUME NEW r \in Run, EscalationFires(r) PROVE DrainLeavesNoneRunning'
  BY <1>18 DEF EscalationFires, IsDone
<1>19. CASE DrainBegins
  BY <1>19 DEF DrainBegins
<1>20. CASE DrainCompletes
  BY <1>20 DEF DrainCompletes, IsDone
<1>21. CASE DrainDeadline
  BY <1>21 DEF DrainDeadline, IsDone
<1>22. CASE UNCHANGED vars
  BY <1>22 DEF vars
<1> QED
  BY <1>1, <1>2, <1>3, <1>4, <1>5, <1>6, <1>7, <1>8, <1>9, <1>10, <1>11,
     <1>12, <1>13, <1>14, <1>15, <1>16, <1>17, <1>18, <1>19, <1>20, <1>21,
     <1>22
  DEF Next, RunStep, ViewerStep

(***************************************************************************)
(* The theorems                                                            *)
(***************************************************************************)
LEMMA InitInv == Init => Inv
<1> SUFFICES ASSUME Init PROVE Inv
  OBVIOUS
<1>1. TypeOK
  <2>1. ViewersOK
    BY DEF Init, ViewersOK, WellFormed, NewViewer, ViewerState, ViewerPC
  <2> QED
    BY <2>1 DEF Init, TypeOK, RunPC
<1>2. Registered /\ ClosingWindows
  BY NoneAssumption DEF Init, Registered, ClosingWindows
<1>3. ViewersAttached
  BY NoneAssumption DEF Init, ViewersAttached, HasId, NewViewer
<1>4. StreamsTracked /\ LatecomersOnly /\ UniqueIds
  BY DEF Init, StreamsTracked, LatecomersOnly, HubIsSwept, UniqueIds, HasId,
         NewViewer, Viewer
<1>5. CancelDrain /\ CancelHitsItsRun /\ DrainLeavesNoneRunning
  BY DEF Init, CancelDrain, CancelHitsItsRun, DrainLeavesNoneRunning
<1>6. UnsubscribeHitsOwnStream
  BY DEF Init, UnsubscribeHitsOwnStream, NewViewer
<1> QED
  BY <1>1, <1>2, <1>3, <1>4, <1>5, <1>6 DEF Inv

LEMMA StepInv == Inv /\ [Next]_vars => Inv'
  BY TypeStep, RegisteredStep, ClosingStep, AttachedStep, TrackedStep,
     LateStep, UniqueStep, CancelStep, OwnStep, CancelHitsStep, DrainStep DEF Inv

LEMMA Invariance == Spec => []Inv
  BY InitInv, StepInv, PTL DEF Spec

(* Every reachable state is well typed. *)
THEOREM TypeCorrect == Spec => []TypeOK
<1>1. Inv => TypeOK
  BY DEF Inv
<1> QED
  BY <1>1, Invariance, PTL

(* One run per session, whatever start, finish and sweep interleave: two   *)
(* registered runs of one key are both the registry's entry for it.        *)
THEOREM OneRun == Spec => []OneRunPerSession
<1>1. Inv => OneRunPerSession
  BY DEF Inv, Registered, OneRunPerSession
<1> QED
  BY <1>1, Invariance, PTL

(* A deregistered run leaves no event stream open: an open one is in       *)
(* somebody's hands (StreamsTracked), and the sweep emptied the run's        *)
(* (ClosingWindows).                                                       *)
THEOREM StreamsClose == Spec => []EventStreamsClose
<1>1. Inv => EventStreamsClose
  <2> SUFFICES ASSUME Inv, NEW v \in EventViewer, stream[v] = "open",
                      pc[viewer[v].run] = "gone"
               PROVE  \E w \in EventViewer : viewer[w].pc = "hitting" /\
                 viewer[w].hit = v
    BY DEF EventStreamsClose
  <2>1. InHand(v)
    BY DEF Inv, StreamsTracked, Viewer
  <2>2. viewer[v].run \in Run =>
          v \notin subs[viewer[v].run] \cup closing[viewer[v].run]
    BY DEF Inv, ClosingWindows
  <2>3. PICK w \in Viewer : /\ LaneOf(w) = LaneOf(v)
                            /\ viewer[w].pc = "hitting" /\ viewer[w].hit = v
    BY <2>1, <2>2 DEF InHand
  <2> QED
    BY <2>3 DEF LaneOf
<1> QED
  BY <1>1, Invariance, PTL

(* A task stream that outlives its run is a latecomer's, or is being       *)
(* closed: SweepHub left nobody else in the hub (LatecomersOnly), and what *)
(* it took out was closed before the entry went (ClosingWindows).          *)
THEOREM OnlyLatecomersStay == Spec => []OnlyLateTaskStreamsStay
<1>1. Inv => OnlyLateTaskStreamsStay
  <2> SUFFICES ASSUME Inv, NEW v \in TaskViewer, stream[v] = "open",
                      pc[viewer[v].run] = "gone", ~viewer[v].late
               PROVE  \E w \in TaskViewer : viewer[w].pc = "hitting" /\
                 viewer[w].hit = v
    BY DEF OnlyLateTaskStreamsStay
  <2>1. InHand(v)
    BY DEF Inv, StreamsTracked, Viewer
  <2>2. viewer[v].run \in Run =>
          v \notin subs[viewer[v].run] \cup closing[viewer[v].run]
    BY DEF Inv, ClosingWindows, LatecomersOnly, HubIsSwept
  <2>3. PICK w \in Viewer : /\ LaneOf(w) = LaneOf(v)
                            /\ viewer[w].pc = "hitting" /\ viewer[w].hit = v
    BY <2>1, <2>2 DEF InHand
  <2> QED
    BY <2>3, ViewersAssumption DEF LaneOf, Viewer
<1> QED
  BY <1>1, Invariance, PTL

(* A consumer that detaches from the run it watched closes its own stream. *)
THEOREM HitsOwnStream == Spec => []UnsubscribeHitsOwnStream
<1>1. Inv => UnsubscribeHitsOwnStream
  BY DEF Inv
<1> QED
  BY <1>1, Invariance, PTL

(* A cancel or a late escalation never reaches a later run of the session. *)
THEOREM CancelIsExact == Spec => []CancelHitsItsRun
<1>1. Inv => CancelHitsItsRun
  BY DEF Inv
<1> QED
  BY <1>1, Invariance, PTL

(* No run slips past the drain. *)
THEOREM DrainIsComplete == Spec => []DrainLeavesNoneRunning
<1>1. Inv => DrainLeavesNoneRunning
  BY DEF Inv
<1> QED
  BY <1>1, Invariance, PTL

(* How the abstract variables follow the concrete ones. *)
LEMMA SameSlots ==
  ASSUME UNCHANGED <<live, draining>>,
         \A r \in Run : StageOf(r)' = StageOf(r),
         \A r \in Run : AudienceOf(r)' = AudienceOf(r)
  PROVE  UNCHANGED Slots!slotVars
  BY DEF Slots!slotVars

LEMMA SlotsStep == Inv /\ [Next]_vars => [Slots!SlotsNext]_(Slots!slotVars)
<1> SUFFICES ASSUME Inv, [Next]_vars
             PROVE  Slots!SlotsNext \/ UNCHANGED Slots!slotVars
  OBVIOUS
<1> DEFINE Goal == Slots!SlotsNext \/ UNCHANGED Slots!slotVars
<1>0. TypeOK /\ Registered /\ ClosingWindows /\ ViewersAttached
  BY DEF Inv
<1>1. ASSUME NEW k \in Key, NEW r \in Run, Start(k, r) PROVE Goal
  <2>1. /\ [s \in Run |-> StageOf(s)]'
           = [[s \in Run |-> StageOf(s)] EXCEPT ![r] = "on"]
        /\ StageOf(r) = "new"
    BY <1>0, <1>1 DEF Start, StageOf, IsDone, TypeOK
  <2>2. \A s \in Run : AudienceOf(s)' = AudienceOf(s)
    BY <1>1 DEF Start, AudienceOf
  <2>3. Slots!Admit(k, r)
    BY <1>1, <2>1, <2>2 DEF Start, Slots!Admit
  <2> QED
    BY <2>3 DEF Slots!SlotsNext
<1>2. ASSUME NEW r \in Run, RunEnds(r) PROVE Goal
  <2>1. UNCHANGED <<live, draining>> /\ \A s \in Run : StageOf(s)' = StageOf(s)
    BY <1>0, <1>2 DEF RunEnds, StageOf, IsDone, TypeOK
  <2>2. \A s \in Run : AudienceOf(s)' = AudienceOf(s)
    BY <1>0, <1>2, ViewersAssumption DEF RunEnds, AudienceOf, TypeOK,
      ClosingWindows
  <2> QED
    BY <2>1, <2>2, SameSlots
<1>3. ASSUME NEW r \in Run, CloseSubscribers(r) PROVE Goal
  <2>1. UNCHANGED <<live, draining>> /\ \A s \in Run : StageOf(s)' = StageOf(s)
    BY <1>0, <1>3 DEF CloseSubscribers, TakeOut, StageOf, IsDone, TypeOK
  <2>2. \A s \in Run : AudienceOf(s)' = AudienceOf(s)
    BY <1>0, <1>3, ViewersAssumption DEF CloseSubscribers, TakeOut, AudienceOf,
      TypeOK, ClosingWindows
  <2> QED
    BY <2>1, <2>2, SameSlots
<1>4. ASSUME NEW r \in Run, NEW v \in Viewer, CloseOne(r, v) PROVE Goal
  <2>1. UNCHANGED <<live, draining>> /\ \A s \in Run : StageOf(s)' = StageOf(s)
    BY <1>4 DEF CloseOne, StageOf, IsDone
  <2>2. CASE v \in EventViewer /\ v \notin subs[r]
    <3>1. [s \in Run |-> AudienceOf(s)]'
            = [[s \in Run |-> AudienceOf(s)] EXCEPT ![r] = @ \ {v}]
      BY <1>0, <1>4, <2>2, ZenonT(60) DEF CloseOne, AudienceOf, TypeOK
    <3>2. Slots!Unwatch(r, v)
      BY <2>1, <3>1 DEF Slots!Unwatch
    <3> QED
      BY <2>2, <3>2 DEF Slots!SlotsNext
  <2>3. CASE v \notin EventViewer \/ v \in subs[r]
    <3>1. \A s \in Run : AudienceOf(s)' = AudienceOf(s)
      BY <1>0, <1>4, <2>3 DEF CloseOne, AudienceOf, TypeOK
    <3> QED
      BY <2>1, <3>1, SameSlots
  <2> QED
    BY <2>2, <2>3
<1>5. ASSUME NEW r \in Run, Finish(r) PROVE Goal
  <2>1. /\ [s \in Run |-> StageOf(s)]'
           = [[s \in Run |-> StageOf(s)] EXCEPT ![r] = "over"]
        /\ StageOf(r) = "on"
    BY <1>0, <1>5 DEF Finish, StageOf, IsDone, TypeOK
  <2>2. \A s \in Run : AudienceOf(s)' = AudienceOf(s)
    BY <1>5 DEF Finish, AudienceOf
  <2>3. Slots!End(r)
    BY <1>5, <2>1, <2>2 DEF Finish, Slots!End
  <2> QED
    BY <2>3 DEF Slots!SlotsNext
<1>6. ASSUME NEW r \in Run, SweepHub(r) PROVE Goal
  <2>1. UNCHANGED <<live, draining>> /\ \A s \in Run : StageOf(s)' = StageOf(s)
    BY <1>0, <1>6 DEF SweepHub, TakeOut, StageOf, IsDone, TypeOK
  <2>2. \A s \in Run : AudienceOf(s)' = AudienceOf(s)
    BY <1>0, <1>6, ViewersAssumption DEF SweepHub, TakeOut, AudienceOf, TypeOK,
      ClosingWindows
  <2> QED
    BY <2>1, <2>2, SameSlots
<1>7. ASSUME NEW r \in Run, SweepSubscribers(r) PROVE Goal
  <2>1. UNCHANGED <<live, draining>> /\ \A s \in Run : StageOf(s)' = StageOf(s)
    BY <1>0, <1>7 DEF SweepSubscribers, TakeOut, StageOf, IsDone, TypeOK
  <2>2. \A s \in Run : AudienceOf(s)' = AudienceOf(s)
    BY <1>0, <1>7, ViewersAssumption DEF SweepSubscribers, TakeOut, AudienceOf,
      TypeOK, ClosingWindows
  <2> QED
    BY <2>1, <2>2, SameSlots
<1>8. ASSUME NEW r \in Run, Deregister(r) PROVE Goal
  <2>1. /\ key[r] \in Key /\ live[key[r]] = r
        /\ live' = [live EXCEPT ![key[r]] = None]
    BY <1>0, <1>8 DEF Deregister, TypeOK, Registered
  <2>2. AudienceOf(r) = {} /\ \A s \in Run : AudienceOf(s)' = AudienceOf(s)
    BY <1>0, <1>8 DEF Deregister, AudienceOf, ClosingWindows
  <2>3. StageOf(r) = "over" /\ \A s \in Run : StageOf(s)' = StageOf(s)
    BY <1>0, <1>8 DEF Deregister, StageOf, IsDone, TypeOK
  <2>4. Slots!Vacate(key[r])
    BY <1>8, <2>1, <2>2, <2>3 DEF Deregister, Slots!Vacate
  <2> QED
    BY <2>1, <2>4 DEF Slots!SlotsNext
<1>9. ASSUME NEW v \in Viewer, NEW k \in Key, LookUpEvents(v, k) PROVE Goal
  <2>1. UNCHANGED <<live, draining>> /\ \A s \in Run : StageOf(s)' = StageOf(s)
    BY <1>0, <1>9 DEF LookUpEvents, StageOf, IsDone, TypeOK
  <2>2. \A s \in Run : AudienceOf(s)' = AudienceOf(s)
    BY <1>0, <1>9, ViewersAssumption DEF LookUpEvents, AudienceOf, TypeOK,
      ClosingWindows
  <2> QED
    BY <2>1, <2>2, SameSlots
<1>10. ASSUME NEW v \in Viewer, NEW k \in Key, LookUpTasks(v, k) PROVE Goal
  <2>1. UNCHANGED <<live, draining>> /\ \A s \in Run : StageOf(s)' = StageOf(s)
    BY <1>0, <1>10 DEF LookUpTasks, StageOf, IsDone, TypeOK
  <2>2. \A s \in Run : AudienceOf(s)' = AudienceOf(s)
    BY <1>0, <1>10, ViewersAssumption DEF LookUpTasks, AudienceOf, TypeOK,
      ClosingWindows
  <2> QED
    BY <2>1, <2>2, SameSlots
<1>11. ASSUME NEW v \in Viewer, AttachEvents(v) PROVE Goal
  <2> DEFINE r == viewer[v].run
  <2>1. AttachedEffect(v, r) /\ v \in EventViewer /\ ~IsDone(r)
    BY <1>0, <1>11, Attached DEF AttachEvents
  <2>2. r \in Run /\ UNCHANGED <<live, draining, closing, pc>>
        /\ subs' = [subs EXCEPT ![r] = @ \cup {v}]
    BY <1>11, <2>1 DEF AttachedEffect, Rest, AttachEvents, Register
  <2>3. pc[r] # "fresh"
    BY <1>0, <2>2 DEF ViewersAttached
  <2> HIDE DEF r
  <2>4. StageOf(r) = "on" /\ \A s \in Run : StageOf(s)' = StageOf(s)
    BY <2>1, <2>2, <2>3 DEF StageOf, IsDone
  <2>5. [s \in Run |-> AudienceOf(s)]'
          = [[s \in Run |-> AudienceOf(s)] EXCEPT ![r] = @ \cup {v}]
    BY <1>0, <2>1, <2>2, ZenonT(60) DEF AudienceOf, TypeOK
  <2>6. Slots!Watch(r, v)
    BY <2>2, <2>4, <2>5 DEF Slots!Watch
  <2> QED
    BY <2>1, <2>2, <2>6 DEF Slots!SlotsNext
<1>12. ASSUME NEW v \in Viewer, RefuseEvents(v) PROVE Goal
  <2>1. UNCHANGED <<live, draining>> /\ \A s \in Run : StageOf(s)' = StageOf(s)
    BY <1>0, <1>12 DEF RefuseEvents, StageOf, IsDone, TypeOK
  <2>2. \A s \in Run : AudienceOf(s)' = AudienceOf(s)
    BY <1>0, <1>12, ViewersAssumption DEF RefuseEvents, AudienceOf, TypeOK,
      ClosingWindows
  <2> QED
    BY <2>1, <2>2, SameSlots
<1>13. ASSUME NEW v \in Viewer, AttachTasks(v) PROVE Goal
  <2> DEFINE r == viewer[v].run
  <2>1. r \in Run /\ v \notin EventViewer /\ UNCHANGED <<live, draining,
    closing, pc>>
        /\ subs' = [subs EXCEPT ![r] = @ \cup {v}]
    BY <1>0, <1>13, Attached, ViewersAssumption
    DEF AttachedEffect, Rest, AttachTasks, Register
  <2> HIDE DEF r
  <2>2. \A s \in Run : StageOf(s)' = StageOf(s)
    BY <2>1 DEF StageOf, IsDone
  <2>3. \A s \in Run : AudienceOf(s)' = AudienceOf(s)
    BY <1>0, <2>1 DEF AudienceOf, TypeOK
  <2> QED
    BY <2>1, <2>2, <2>3, SameSlots
<1>14. ASSUME NEW v \in Viewer, Leave(v) PROVE Goal
  <2>1. UNCHANGED <<live, draining>> /\ \A s \in Run : StageOf(s)' = StageOf(s)
    BY <1>0, <1>14 DEF Leave, StageOf, IsDone, TypeOK
  <2>2. \A s \in Run : AudienceOf(s)' = AudienceOf(s)
    BY <1>0, <1>14, ViewersAssumption DEF Leave, AudienceOf, TypeOK,
      ClosingWindows
  <2> QED
    BY <2>1, <2>2, SameSlots
<1>15. ASSUME NEW v \in Viewer, Detach(v) PROVE Goal
  <2>0. PICK r \in Run : r = viewer[v].at
    BY <1>0, <1>15, Detached DEF DetachedEffect
  <2>1. /\ UNCHANGED <<live, draining, closing, pc>> /\ r \in Run
        /\ \/ UNCHANGED subs
           \/ \E w \in Viewer : subs' = [subs EXCEPT ![r] = @ \ {w}]
    <3>1. DetachedEffect(v)
      BY <1>0, <1>15, Detached
    <3>2. Holders(r, v) \subseteq Viewer
      BY <1>0, <2>0 DEF Holders, TypeOK
    <3> QED
      BY <1>15, <2>0, <3>1, <3>2 DEF Detach, DetachedEffect, Rest
  <2>2. \A s \in Run : StageOf(s)' = StageOf(s)
    BY <2>1 DEF StageOf, IsDone
  <2>3. CASE \A s \in Run : AudienceOf(s)' = AudienceOf(s)
    BY <2>1, <2>2, <2>3, SameSlots
  <2>4. ASSUME NEW w \in EventViewer, subs' = [subs EXCEPT ![r] = @ \ {w}],
               w \notin closing[r]
        PROVE  Goal
    <3>1. [s \in Run |-> AudienceOf(s)]'
            = [[s \in Run |-> AudienceOf(s)] EXCEPT ![r] = @ \ {w}]
      <4>1. /\ subs'[r] = subs[r] \ {w} /\ closing'[r] = closing[r]
            /\ \A s \in Run \ {r} : subs'[s] = subs[s] /\ closing'[s] =
              closing[s]
        BY <1>0, <2>1, <2>4 DEF TypeOK
      <4>2. AudienceOf(r)' = AudienceOf(r) \ {w}
        BY <2>4, <4>1 DEF AudienceOf
      <4>3. \A s \in Run \ {r} : AudienceOf(s)' = AudienceOf(s)
        BY <4>1 DEF AudienceOf
      <4> QED
        BY <2>1, <4>2, <4>3
    <3>2. Slots!Unwatch(r, w)
      BY <2>1, <2>2, <3>1 DEF Slots!Unwatch
    <3> QED
      BY <2>1, <3>2 DEF Slots!SlotsNext
  <2>5. ASSUME NEW w \in Viewer, subs' = [subs EXCEPT ![r] = @ \ {w}],
               w \notin EventViewer \/ w \in closing[r]
        PROVE  \A s \in Run : AudienceOf(s)' = AudienceOf(s)
    BY <1>0, <2>1, <2>5 DEF AudienceOf, TypeOK
  <2>6. UNCHANGED subs => \A s \in Run : AudienceOf(s)' = AudienceOf(s)
    BY <2>1 DEF AudienceOf
  <2> QED
    BY <2>1, <2>3, <2>4, <2>5, <2>6
<1>16. ASSUME NEW v \in Viewer, CloseDetached(v) PROVE Goal
  <2>1. UNCHANGED <<live, draining>> /\ \A s \in Run : StageOf(s)' = StageOf(s)
    BY <1>0, <1>16 DEF CloseDetached, StageOf, IsDone, TypeOK
  <2>2. \A s \in Run : AudienceOf(s)' = AudienceOf(s)
    BY <1>0, <1>16, ViewersAssumption DEF CloseDetached, AudienceOf, TypeOK,
      ClosingWindows
  <2> QED
    BY <2>1, <2>2, SameSlots
<1>17. ASSUME NEW k \in Key, Cancel(k) PROVE Goal
  <2>1. UNCHANGED <<live, draining>> /\ \A s \in Run : StageOf(s)' = StageOf(s)
    BY <1>0, <1>17 DEF Cancel, StageOf, IsDone, TypeOK
  <2>2. \A s \in Run : AudienceOf(s)' = AudienceOf(s)
    BY <1>0, <1>17, ViewersAssumption DEF Cancel, AudienceOf, TypeOK,
      ClosingWindows
  <2> QED
    BY <2>1, <2>2, SameSlots
<1>18. ASSUME NEW r \in Run, EscalationFires(r) PROVE Goal
  <2>1. UNCHANGED <<live, draining>> /\ \A s \in Run : StageOf(s)' = StageOf(s)
    BY <1>0, <1>18 DEF EscalationFires, StageOf, IsDone, TypeOK
  <2>2. \A s \in Run : AudienceOf(s)' = AudienceOf(s)
    BY <1>0, <1>18, ViewersAssumption DEF EscalationFires, AudienceOf, TypeOK,
      ClosingWindows
  <2> QED
    BY <2>1, <2>2, SameSlots
<1>19. CASE DrainBegins
  <2>1. \A s \in Run : StageOf(s)' = StageOf(s) /\ AudienceOf(s)' =
    AudienceOf(s)
    BY <1>19 DEF DrainBegins, StageOf, IsDone, AudienceOf
  <2>2. Slots!StopAdmitting
    BY <1>19, <2>1 DEF DrainBegins, Slots!StopAdmitting
  <2> QED
    BY <2>2 DEF Slots!SlotsNext
<1>20. CASE DrainCompletes
  <2>1. UNCHANGED <<live, draining>> /\ \A s \in Run : StageOf(s)' = StageOf(s)
    BY <1>0, <1>20 DEF DrainCompletes, StageOf, IsDone, TypeOK
  <2>2. \A s \in Run : AudienceOf(s)' = AudienceOf(s)
    BY <1>0, <1>20, ViewersAssumption DEF DrainCompletes, AudienceOf, TypeOK,
      ClosingWindows
  <2> QED
    BY <2>1, <2>2, SameSlots
<1>21. CASE DrainDeadline
  <2>1. UNCHANGED <<live, draining>> /\ \A s \in Run : StageOf(s)' = StageOf(s)
    BY <1>0, <1>21 DEF DrainDeadline, StageOf, IsDone, TypeOK
  <2>2. \A s \in Run : AudienceOf(s)' = AudienceOf(s)
    BY <1>0, <1>21, ViewersAssumption DEF DrainDeadline, AudienceOf, TypeOK,
      ClosingWindows
  <2> QED
    BY <2>1, <2>2, SameSlots
<1>22. CASE UNCHANGED vars
  <2>1. UNCHANGED <<live, draining>> /\ \A s \in Run : StageOf(s)' = StageOf(s)
    BY <1>0, <1>22 DEF vars, StageOf, IsDone, TypeOK
  <2>2. \A s \in Run : AudienceOf(s)' = AudienceOf(s)
    BY <1>0, <1>22, ViewersAssumption DEF vars, AudienceOf, TypeOK,
      ClosingWindows
  <2> QED
    BY <2>1, <2>2, SameSlots
<1> QED
  BY <1>1, <1>2, <1>3, <1>4, <1>5, <1>6, <1>7, <1>8, <1>9, <1>10, <1>11,
     <1>12, <1>13, <1>14, <1>15, <1>16, <1>17, <1>18, <1>19, <1>20, <1>21,
     <1>22
  DEF Next, RunStep, ViewerStep

(* The manager implements the session slots it promises: every step admits,*)
(* lets watch, ends, vacates or stutters, and a session is vacated only    *)
(* when nobody is left watching the ended run.                             *)
THEOREM Implementation == Spec => ImplementsRunSlots
<1>1. Init => Slots!SlotsInit
  BY DEF Init, Slots!SlotsInit, StageOf, AudienceOf
<1>2. Inv /\ [Next]_vars => [Slots!SlotsNext]_(Slots!slotVars)
  BY SlotsStep
<1> QED
  BY <1>1, <1>2, Invariance, PTL DEF Spec, ImplementsRunSlots, Slots!SlotsSpec
=============================================================================
