----------------------------- MODULE RunManager -----------------------------
(***************************************************************************)
(* The run registry of src/internal/agents/runmanager.go with the run      *)
(* goroutine's unwinding (runner.go, streamRun / streamResume) and the     *)
(* task-progress hub (taskprogress.go): one live run per session, viewers  *)
(* that attach and detach while it runs, explicit cancel with its late     *)
(* escalation timer, and the shutdown drain.                               *)
(*                                                                         *)
(* Every critical section of the code (m.mu, lr.mu, hub.mu) is one action; *)
(* what the code does between two critical sections interleaves.           *)
(***************************************************************************)
EXTENDS Naturals, FiniteSets

CONSTANTS
  Key,          \* session coordinates (RunKey)
  Run,          \* liveRun instances, each started at most once
  EventViewer,  \* consumers of Subscribe
  TaskViewer,   \* consumers of subscribeTaskProgress
  None          \* no run, no key, no viewer

ASSUME ViewersAssumption == EventViewer \cap TaskViewer = {}
ASSUME NoneAssumption == None \notin Key \cup Run \cup EventViewer \cup TaskViewer

Viewer == EventViewer \cup TaskViewer

(* Life of a run: executing, its deferred unwinding (the own stream and    *)
(* the context, then the subscribers), done closed, and the sweep          *)
(* goroutine that closes what is left and deregisters.                     *)
RunPC == {"fresh", "running", "unwinding", "closing", "done", "hubSwept",
          "swept", "gone"}

ViewerPC == {"idle", "looked", "attached", "leaving", "hitting", "left"}

VARIABLES
  live,      \* runManager.live
  draining,  \* runManager.draining
  key,       \* the key a run was started under
  pc,        \* where a run and its sweep goroutine stand
  ctx,       \* whether a run's context is cancelled
  asked,     \* runs whose agentCancel was committed
  timers,    \* runs with a pending last-resort cancel timer
  subs,      \* liveRun.subscribers and taskProgressHub.subs: who is registered
  nextId,    \* liveRun.nextSubID and taskProgressHub.nextSub, per lane
  closing,   \* streams a run or its sweep took out of subs and still must close
  stream,    \* each viewer's stream: "none", "open" or "closed"
  viewer,    \* each consumer's local state
  drain      \* the drain call: its phase and the runs it snapshot

vars == <<live, draining, key, pc, ctx, asked, timers, subs, nextId, closing,
          stream, viewer, drain>>

LaneOf(v) == IF v \in EventViewer THEN "events" ELSE "tasks"

(* liveRun.done is closed. *)
IsDone(r) == pc[r] \in {"done", "hubSwept", "swept", "gone"}

(* Registered and done not closed: isLive, agentBusy, ActiveRunSessionIDs. *)
IsLive(k) == live[k] # None /\ ~IsDone(live[k])

(* The hub of r's tasks was already swept. *)
HubIsSwept(r) == pc[r] \in {"hubSwept", "swept", "gone"}

(* A consumer's local state: the run it watches, its id there and whether  *)
(* it registered after the hub's sweep (history); the run it found when it *)
(* detaches, and the stream it is about to close.                          *)
ViewerState == [pc : ViewerPC, run : Run \cup {None}, id : Nat,
                late : BOOLEAN,
                at : Run \cup {None}, hit : Viewer \cup {None}]

WellFormed(x) ==
  /\ x.pc # "idle" => x.run \in Run
  /\ x.pc \in {"leaving", "hitting"} => x.at \in Run
  /\ x.pc = "hitting" => x.hit \in Viewer

NewViewer == [pc |-> "idle", run |-> None, id |-> 0, late |-> FALSE,
              at |-> None, hit |-> None]

Init ==
  /\ live = [k \in Key |-> None]
  /\ draining = FALSE
  /\ key = [r \in Run |-> None]
  /\ pc = [r \in Run |-> "fresh"]
  /\ ctx = [r \in Run |-> "alive"]
  /\ asked = {}
  /\ timers = {}
  /\ subs = [r \in Run |-> {}]
  /\ nextId = [r \in Run |-> [lane \in {"events", "tasks"} |-> 0]]
  /\ closing = [r \in Run |-> {}]
  /\ stream = [v \in Viewer |-> "none"]
  /\ viewer = [v \in Viewer |-> NewViewer]
  /\ drain = [phase |-> "off", waits |-> {}]

-----------------------------------------------------------------------------
(* The life of a run *)

(* Mutant: a session whose run has ended but is not yet deregistered is    *)
(* taken for free.                                                         *)
StartOverUnswept(k, r) ==
  /\ ~draining
  /\ ~IsLive(k)
  /\ pc[r] = "fresh"
  /\ live' = [live EXCEPT ![k] = r]
  /\ key' = [key EXCEPT ![r] = k]
  /\ pc' = [pc EXCEPT ![r] = "running"]
  /\ UNCHANGED <<draining, ctx, asked, timers, subs, nextId, closing, stream,
                 viewer, drain>>

(* Mutant: the intake stays open during a drain. *)
StartWhileDraining(k, r) ==
  /\ live[k] = None
  /\ pc[r] = "fresh"
  /\ live' = [live EXCEPT ![k] = r]
  /\ key' = [key EXCEPT ![r] = k]
  /\ pc' = [pc EXCEPT ![r] = "running"]
  /\ UNCHANGED <<draining, ctx, asked, timers, subs, nextId, closing, stream,
                 viewer, drain>>

(* start refuses while draining and while the session is registered. *)
Start(k, r) ==
  /\ ~draining
  /\ live[k] = None
  /\ pc[r] = "fresh"
  /\ live' = [live EXCEPT ![k] = r]
  /\ key' = [key EXCEPT ![r] = k]
  /\ pc' = [pc EXCEPT ![r] = "running"]
  /\ UNCHANGED <<draining, ctx, asked, timers, subs, nextId, closing, stream,
                 viewer, drain>>

(* The turn ended, for whatever reason: the deferred stream.Close and      *)
(* handle.cancel.  From here the run's own consumer can see EOF.           *)
RunEnds(r) ==
  /\ pc[r] = "running"
  /\ pc' = [pc EXCEPT ![r] = "unwinding"]
  /\ ctx' = [ctx EXCEPT ![r] = "cancelled"]
  /\ UNCHANGED <<live, draining, key, asked, timers, subs, nextId, closing,
                 stream, viewer, drain>>

(* Take every registered stream of one lane out of subs, to be closed      *)
(* outside the lock.                                                       *)
TakeOut(r, lane) ==
  /\ closing' = [closing EXCEPT ![r] = subs[r] \cap lane]
  /\ subs' = [subs EXCEPT ![r] = @ \ lane]

(* The deferred CloseSubscribers. It finds the run by key; the run is      *)
(* still registered.                                                       *)
CloseSubscribers(r) ==
  /\ pc[r] = "unwinding"
  /\ live[key[r]] = r
  /\ TakeOut(r, EventViewer)
  /\ pc' = [pc EXCEPT ![r] = "closing"]
  /\ UNCHANGED <<live, draining, key, ctx, asked, timers, nextId, stream,
                 viewer, drain>>

(* Close one stream of the snapshot (EventStream.Close is idempotent). *)
CloseOne(r, v) ==
  /\ v \in closing[r]
  /\ closing' = [closing EXCEPT ![r] = @ \ {v}]
  /\ stream' = [stream EXCEPT ![v] = "closed"]
  /\ UNCHANGED <<live, draining, key, pc, ctx, asked, timers, subs, nextId,
                 viewer, drain>>

(* handle.finish closes done. *)
Finish(r) ==
  /\ pc[r] = "closing"
  /\ closing[r] = {}
  /\ pc' = [pc EXCEPT ![r] = "done"]
  /\ UNCHANGED <<live, draining, key, ctx, asked, timers, subs, nextId,
                 closing, stream, viewer, drain>>

(* Mutant: the hub is dropped with the streams still registered in it. *)
DropHub(r) ==
  /\ pc[r] = "done"
  /\ closing' = [closing EXCEPT ![r] = {}]
  /\ subs' = [subs EXCEPT ![r] = @ \ TaskViewer]
  /\ pc' = [pc EXCEPT ![r] = "hubSwept"]
  /\ UNCHANGED <<live, draining, key, ctx, asked, timers, nextId, stream,
                 viewer, drain>>

(* The sweep goroutine: first the task-progress hub, *)
SweepHub(r) ==
  /\ pc[r] = "done"
  /\ TakeOut(r, TaskViewer)
  /\ pc' = [pc EXCEPT ![r] = "hubSwept"]
  /\ UNCHANGED <<live, draining, key, ctx, asked, timers, nextId, stream,
                 viewer, drain>>

(* Mutant: the sweep trusts the run's own CloseSubscribers. *)
SweepNobody(r) ==
  /\ pc[r] = "hubSwept"
  /\ closing[r] = {}
  /\ pc' = [pc EXCEPT ![r] = "swept"]
  /\ UNCHANGED <<live, draining, key, ctx, asked, timers, subs, nextId,
                 closing, stream, viewer, drain>>

(* then every subscriber that attached after CloseSubscribers, *)
SweepSubscribers(r) ==
  /\ pc[r] = "hubSwept"
  /\ closing[r] = {}
  /\ TakeOut(r, EventViewer)
  /\ pc' = [pc EXCEPT ![r] = "swept"]
  /\ UNCHANGED <<live, draining, key, ctx, asked, timers, nextId, stream,
                 viewer, drain>>

(* Mutant: the entry goes before the swept streams are closed. *)
DeregisterEarly(r) ==
  /\ pc[r] = "swept"
  /\ pc' = [pc EXCEPT ![r] = "gone"]
  /\ live' = [live EXCEPT ![key[r]] = None]
  /\ UNCHANGED <<draining, key, ctx, asked, timers, subs, nextId, closing,
                 stream, viewer, drain>>

(* and last the registry entry. *)
Deregister(r) ==
  /\ pc[r] = "swept"
  /\ closing[r] = {}
  /\ pc' = [pc EXCEPT ![r] = "gone"]
  /\ live' = IF live[key[r]] = r THEN [live EXCEPT ![key[r]] = None] ELSE live
  /\ UNCHANGED <<draining, key, ctx, asked, timers, subs, nextId, closing,
                 stream, viewer, drain>>

-----------------------------------------------------------------------------
(* Viewers *)

(* Subscribe reads the registry, then drops m.mu. *)
LookUpEvents(v, k) ==
  /\ v \in EventViewer
  /\ viewer[v].pc = "idle"
  /\ live[k] # None
  /\ viewer' = [viewer EXCEPT ![v].pc = "looked", ![v].run = live[k]]
  /\ UNCHANGED <<live, draining, key, pc, ctx, asked, timers, subs, nextId,
                 closing, stream, drain>>

(* taskSpace also tests done, outside every lock. *)
LookUpTasks(v, k) ==
  /\ v \in TaskViewer
  /\ viewer[v].pc = "idle"
  /\ IsLive(k)
  /\ viewer' = [viewer EXCEPT ![v].pc = "looked", ![v].run = live[k]]
  /\ UNCHANGED <<live, draining, key, pc, ctx, asked, timers, subs, nextId,
                 closing, stream, drain>>

(* Mutant: ids are the current number of subscribers plus one. *)
RegisterByCount(v) ==
  LET r == viewer[v].run
  IN /\ subs' = [subs EXCEPT ![r] = @ \cup {v}]
     /\ stream' = [stream EXCEPT ![v] = "open"]
     /\ viewer' = [viewer EXCEPT ![v].pc = "attached",
                                 ![v].id = Cardinality(subs[r]) + 1,
                                 ![v].late = HubIsSwept(r)]
     /\ UNCHANGED <<live, draining, key, pc, ctx, asked, timers, nextId,
                    closing, drain>>

(* Register v's fresh stream with the run it looked up. *)
Register(v) ==
  LET r == viewer[v].run
      n == nextId[r][LaneOf(v)] + 1
  IN /\ subs' = [subs EXCEPT ![r] = @ \cup {v}]
     /\ nextId' = [nextId EXCEPT ![r][LaneOf(v)] = n]
     /\ stream' = [stream EXCEPT ![v] = "open"]
     /\ viewer' = [viewer EXCEPT ![v].pc = "attached", ![v].id = n,
                                 ![v].late = HubIsSwept(r)]
     /\ UNCHANGED <<live, draining, key, pc, ctx, asked, timers, closing, drain>>

(* Mutant: done is not tested again under lr.mu. *)
AttachUnchecked(v) ==
  /\ v \in EventViewer
  /\ viewer[v].pc = "looked"
  /\ Register(v)

(* Subscribe tests done again under lr.mu before it registers. *)
AttachEvents(v) ==
  /\ v \in EventViewer
  /\ viewer[v].pc = "looked"
  /\ ~IsDone(viewer[v].run)
  /\ Register(v)

RefuseEvents(v) ==
  /\ v \in EventViewer
  /\ viewer[v].pc = "looked"
  /\ IsDone(viewer[v].run)
  /\ viewer' = [viewer EXCEPT ![v] = NewViewer]
  /\ UNCHANGED <<live, draining, key, pc, ctx, asked, timers, subs, nextId,
                 closing, stream, drain>>

(* taskProgressHub.subscribe registers without any test. *)
AttachTasks(v) ==
  /\ v \in TaskViewer
  /\ viewer[v].pc = "looked"
  /\ Register(v)

(* The consumer goes away (disconnect, EOF or a terminal frame):           *)
(* Unsubscribe looks its session up by key, unsubscribeTaskProgress        *)
(* through taskSpace.                                                      *)
Leave(v) ==
  /\ viewer[v].pc = "attached"
  /\ LET k == key[viewer[v].run]
         found == IF v \in EventViewer THEN live[k] # None ELSE IsLive(k)
     IN viewer' = IF found
                  THEN [viewer EXCEPT ![v].pc = "leaving", ![v].at = live[k]]
                  ELSE [viewer EXCEPT ![v].pc = "left"]
  /\ UNCHANGED <<live, draining, key, pc, ctx, asked, timers, subs, nextId,
                 closing, stream, drain>>

(* The stream registered at run r under v's subscription id, in v's lane. *)
Holders(r, v) ==
  {w \in subs[r] : LaneOf(w) = LaneOf(v) /\ viewer[w].id = viewer[v].id}

(* Unsubscribe removes subID from the run it found; the stream is closed   *)
(* after the lock is dropped.                                              *)
Detach(v) ==
  /\ viewer[v].pc = "leaving"
  /\ \/ /\ Holders(viewer[v].at, v) = {}
        /\ viewer' = [viewer EXCEPT ![v].pc = "left"]
        /\ UNCHANGED subs
     \/ \E w \in Holders(viewer[v].at, v) :
          /\ subs' = [subs EXCEPT ![viewer[v].at] = @ \ {w}]
          /\ viewer' = [viewer EXCEPT ![v].pc = "hitting", ![v].hit = w]
  /\ UNCHANGED <<live, draining, key, pc, ctx, asked, timers, nextId, closing,
                 stream, drain>>

CloseDetached(v) ==
  /\ viewer[v].pc = "hitting"
  /\ stream' = [stream EXCEPT ![viewer[v].hit] = "closed"]
  /\ viewer' = [viewer EXCEPT ![v].pc = "left"]
  /\ UNCHANGED <<live, draining, key, pc, ctx, asked, timers, subs, nextId,
                 closing, drain>>

-----------------------------------------------------------------------------
(* Cancel and drain *)

(* cancel commits the safe-point cancel on the run it looked up and leaves *)
(* a timer goroutine behind that holds that run, not its key.              *)
Cancel(k) ==
  /\ live[k] # None
  /\ asked' = asked \cup {live[k]}
  /\ timers' = timers \cup {live[k]}
  /\ UNCHANGED <<live, draining, key, pc, ctx, subs, nextId, closing, stream,
                 viewer, drain>>

(* Mutant: the timer looks its session up again when it fires. *)
EscalationByKey(r) ==
  /\ r \in timers
  /\ timers' = timers \ {r}
  /\ ctx' = IF IsLive(key[r]) THEN [ctx EXCEPT ![live[key[r]]] = "cancelled"]
                             ELSE ctx
  /\ UNCHANGED <<live, draining, key, pc, asked, subs, nextId, closing,
                 stream, viewer, drain>>

(* Mutant: the timer stands down without cancelling. *)
EscalationGivesUp(r) ==
  /\ r \in timers
  /\ timers' = timers \ {r}
  /\ UNCHANGED <<live, draining, key, pc, ctx, asked, subs, nextId, closing,
                 stream, viewer, drain>>

(* The escalation window and its grace elapsed. *)
EscalationFires(r) ==
  /\ r \in timers
  /\ timers' = timers \ {r}
  /\ ctx' = IF IsDone(r) THEN ctx ELSE [ctx EXCEPT ![r] = "cancelled"]
  /\ UNCHANGED <<live, draining, key, pc, asked, subs, nextId, closing,
                 stream, viewer, drain>>

(* drain closes the intake and snapshots the live runs in one section. *)
DrainBegins ==
  /\ drain.phase = "off"
  /\ draining' = TRUE
  /\ drain' = [phase |-> "waiting", waits |-> {live[k] : k \in Key} \ {None}]
  /\ UNCHANGED <<live, key, pc, ctx, asked, timers, subs, nextId, closing,
                 stream, viewer>>

DrainCompletes ==
  /\ drain.phase = "waiting"
  /\ \A r \in drain.waits : IsDone(r)
  /\ drain' = [drain EXCEPT !.phase = "returned"]
  /\ UNCHANGED <<live, draining, key, pc, ctx, asked, timers, subs, nextId,
                 closing, stream, viewer>>

(* The deadline fires: the contexts of all stragglers are cancelled and    *)
(* drain returns without waiting for them.                                 *)
DrainDeadline ==
  /\ drain.phase = "waiting"
  /\ ctx' = [r \in Run |-> IF r \in drain.waits /\ ~IsDone(r)
                           THEN "cancelled" ELSE ctx[r]]
  /\ drain' = [drain EXCEPT !.phase = "returned"]
  /\ UNCHANGED <<live, draining, key, pc, asked, timers, subs, nextId,
                 closing, stream, viewer>>

-----------------------------------------------------------------------------
RunStep(r) ==
  \/ RunEnds(r) \/ CloseSubscribers(r) \/ Finish(r)
  \/ SweepHub(r) \/ SweepSubscribers(r) \/ Deregister(r)
  \/ EscalationFires(r)
  \/ \E v \in Viewer : CloseOne(r, v)

ViewerStep(v) ==
  \/ \E k \in Key : LookUpEvents(v, k) \/ LookUpTasks(v, k)
  \/ AttachEvents(v) \/ RefuseEvents(v) \/ AttachTasks(v)
  \/ Leave(v) \/ Detach(v) \/ CloseDetached(v)

Next ==
  \/ \E k \in Key : Cancel(k) \/ \E r \in Run : Start(k, r)
  \/ \E r \in Run : RunStep(r)
  \/ \E v \in Viewer : ViewerStep(v)
  \/ DrainBegins \/ DrainCompletes \/ DrainDeadline

Spec == Init /\ [][Next]_vars

(* Goroutines keep running and timers fire.  A turn is never obliged to    *)
(* end by itself (a model or tool call may hang); it does end once its     *)
(* context is cancelled.  Nobody is obliged to start, watch or cancel.     *)
Fairness ==
  /\ \A r \in Run :
       /\ WF_vars(ctx[r] = "cancelled" /\ RunEnds(r))
       /\ WF_vars(CloseSubscribers(r))
       /\ WF_vars(Finish(r))
       /\ WF_vars(SweepHub(r))
       /\ WF_vars(SweepSubscribers(r))
       /\ WF_vars(Deregister(r))
       /\ WF_vars(EscalationFires(r))
       /\ WF_vars(\E v \in Viewer : CloseOne(r, v))
  /\ \A v \in Viewer :
       WF_vars(AttachEvents(v) \/ RefuseEvents(v) \/ AttachTasks(v)
               \/ Detach(v) \/ CloseDetached(v))
  /\ WF_vars(DrainCompletes \/ DrainDeadline)

FairSpec == Spec /\ Fairness

-----------------------------------------------------------------------------
(* Properties *)

ViewersOK ==
  /\ viewer \in [Viewer -> ViewerState]
  /\ \A v \in Viewer : WellFormed(viewer[v])

(* Every variable has its type; a viewer past its lookup knows its run, a  *)
(* detaching viewer the run it found, and a started run its key.           *)
TypeOK ==
  /\ live \in [Key -> Run \cup {None}]
  /\ draining \in BOOLEAN
  /\ key \in [Run -> Key \cup {None}]
  /\ pc \in [Run -> RunPC]
  /\ ctx \in [Run -> {"alive", "cancelled"}]
  /\ asked \subseteq Run
  /\ timers \subseteq Run
  /\ subs \in [Run -> SUBSET Viewer]
  /\ nextId \in [Run -> [{"events", "tasks"} -> Nat]]
  /\ closing \in [Run -> SUBSET Viewer]
  /\ stream \in [Viewer -> {"none", "open", "closed"}]
  /\ ViewersOK
  /\ drain \in [phase : {"off", "waiting", "returned"}, waits : SUBSET Run]
  /\ \A r \in Run : pc[r] # "fresh" => key[r] \in Key

(* "One run is active per session at a time" (RunKey, runmanager.go:25):   *)
(* from start until the sweep goroutine has deregistered it, a run shares  *)
(* its session with no other run, whatever the two goroutines interleave.  *)
OneRunPerSession ==
  \A r, s \in Run :
    /\ pc[r] \notin {"fresh", "gone"} /\ pc[s] \notin {"fresh", "gone"}
    /\ key[r] = key[s]
    => r = s

(* "every subscriber stream is guaranteed to close when the run ends"      *)
(* (runmanager.go:125): a deregistered run leaves no event stream open,    *)
(* except one that a detaching consumer already took out and is closing.   *)
EventStreamsClose ==
  \A v \in EventViewer :
    stream[v] = "open" /\ pc[viewer[v].run] = "gone"
      => \E w \in EventViewer : viewer[w].pc = "hitting" /\ viewer[w].hit = v

(* The same guarantee for the task lane: "every progress subscriber drains *)
(* to EOF when the run's task space dies with the run" (runmanager.go:128).*)
TaskStreamsClose ==
  \A v \in TaskViewer :
    stream[v] = "open" /\ pc[viewer[v].run] = "gone"
      => \E w \in TaskViewer : viewer[w].pc = "hitting" /\ viewer[w].hit = v

(* What the hub does guarantee, since subscribe tests nothing under its    *)
(* lock: a task stream that outlives its run belongs to a consumer that    *)
(* registered after the sweep had passed, or is being closed right now.    *)
OnlyLateTaskStreamsStay ==
  \A v \in TaskViewer :
    stream[v] = "open" /\ pc[viewer[v].run] = "gone"
      => \/ viewer[v].late
         \/ \E w \in TaskViewer : viewer[w].pc = "hitting" /\ viewer[w].hit = v

(* Within one run a subscription id names one stream: a consumer that      *)
(* detaches from the run it watched closes its own stream, never that of   *)
(* another consumer of the same run.                                       *)
UnsubscribeHitsOwnStream ==
  \A v \in Viewer :
    viewer[v].pc = "hitting" /\ viewer[v].at = viewer[v].run => viewer[v].hit = v

(* UnsubscribeRun "detaches a subscriber ... without affecting the run or  *)
(* other subscribers" (runner.go:1707): a stream closes under a running    *)
(* run only because its own consumer detached it.                          *)
UnsubscribeIsolation ==
  [][\A v \in Viewer :
       stream[v] = "open" /\ stream'[v] = "closed"
         => \/ pc[viewer[v].run] # "running"
            \/ viewer[v].pc = "hitting" /\ viewer[v].hit = v]_vars

(* A cancel or an escalation timer armed for one run never stops a later   *)
(* run of the same session: a run that is still executing has a cancelled  *)
(* context only if it was itself cancelled, or outlived the drain window.  *)
CancelHitsItsRun ==
  \A r \in Run :
    pc[r] = "running" /\ ctx[r] = "cancelled"
      => r \in asked \/ (drain.phase = "returned" /\ r \in drain.waits)

(* The intake closes in the same section that snapshots the live runs, so  *)
(* no run slips between them: once drain has returned, every run that is   *)
(* still executing has been told to stop.                                  *)
DrainLeavesNoneRunning ==
  drain.phase = "returned"
    => \A r \in Run : pc[r] = "running" => ctx[r] = "cancelled"

(* An explicit cancel frees the session in the end, also when the turn     *)
(* ignores the safe point: the last-resort timer cancels the context, the  *)
(* run unwinds and the sweep deregisters it (cancel, runmanager.go:356).   *)
CancelFreesSession == \A r \in Run : r \in asked ~> pc[r] = "gone"

(* Whoever watches a run that has ended reaches EOF: an event viewer also  *)
(* when it attached after the run's own CloseSubscribers, a task viewer if *)
(* it registered before the hub was swept (TaskStreamsClose asks for all). *)
SubscribersDrainToEOF ==
  \A v \in Viewer :
    (/\ stream[v] = "open" /\ IsDone(viewer[v].run)
     /\ v \in TaskViewer => pc[viewer[v].run] = "done")
      ~> stream[v] = "closed"

(* The manager implements the slots of RunSlots: who holds which session,  *)
(* who watches, and a session that is vacated only when no event viewer of *)
(* the ended run is left in the registry or waiting to be closed.          *)
StageOf(r) ==
  IF pc[r] = "fresh" THEN "new" ELSE IF IsDone(r) THEN "over" ELSE "on"

AudienceOf(r) == (subs[r] \cup closing[r]) \cap EventViewer

Slots == INSTANCE RunSlots WITH
  Watcher <- EventViewer,
  slot <- live,
  stage <- [r \in Run |-> StageOf(r)],
  audience <- [r \in Run |-> AudienceOf(r)],
  open <- ~draining

ImplementsRunSlots == Slots!SlotsSpec
=============================================================================
