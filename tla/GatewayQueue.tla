---------------------------- MODULE GatewayQueue ----------------------------
(***************************************************************************)
(* One chat session of a gateway: internal/gateways service.go (submit,    *)
(* resubmit, drain), queue.go (BusyQueue), approvals.go (ApprovalBridge)   *)
(* and the way streamer.go ends a drain, on top of the session slots the   *)
(* run manager provides (RunSlots).  The busy queue, the bridge and the    *)
(* registry all key their state by session, so sessions do not interact.   *)
(*                                                                         *)
(* A turn is the life of one inbound message.  Its run may be interrupted  *)
(* for an approval and resumed; every run of the turn is one leg.          *)
(***************************************************************************)
EXTENDS Naturals, Sequences, FiniteSets

CONSTANTS
  Session,  \* the chat session
  Msg,      \* inbound messages
  Foreign,  \* runs that other surfaces (web, API) start on the session
  Press,    \* button presses on approval cards
  Depth,    \* BusyQueue.depth
  MaxLegs,  \* bound: runs per turn
  None

Leg == Msg \X (1..MaxLegs)

ASSUME BoundsAssumption == Depth \in Nat \ {0} /\ MaxLegs \in Nat \ {0}
ASSUME NamesAssumption ==
  None \notin Msg \cup Leg \cup Foreign /\ Foreign \cap Leg = {}

VARIABLES
  slot, stage, audience, open,  \* the run manager's promise, see RunSlots
  attached,     \* whether the gateway's adapter is attached
  turn,         \* where each message stands
  leg,          \* the number of runs each turn has had
  out,          \* the last terminal event each leg has sent
  queue,        \* BusyQueue.queues[Session]
  returned,     \* turns that were put back in front of the queue
  drain,        \* the drain goroutine of each leg
  pending,      \* ApprovalBridge.pending[Session]: the leg its card is for
  coords,       \* Service.approvalChats: legs whose card can be drained
  press         \* each button press: its progress, its card, what it resumed

vars == <<slot, stage, audience, open, attached, turn, leg, out, queue, returned, drain,
          pending, coords, press>>

runs == <<slot, stage, audience, open>>
approvals == <<pending, coords, press>>

Slots == INSTANCE RunSlots WITH
  Key <- {Session}, Run <- Leg \cup Foreign, Watcher <- {}

Turn == {"new", "routed", "command", "conflicted", "queued", "taken",
         "returning", "on", "blocked", "refused", "failed", "dropped"}
Out == {"none", "completed", "error", "approval"}
Drain == {"off", "starting", "reading", "releasing", "presenting", "carded",
          "recording", "over"}
Pc == {"idle", "found", "resumed", "cleared", "drained", "failed"}

Busy == slot[Session] # None
First(m) == <<m, 1>>
Ended(l) == stage[l] = "over"

Init ==
  /\ Slots!SlotsInit
  /\ attached = TRUE
  /\ turn = [m \in Msg |-> "new"]
  /\ leg = [m \in Msg |-> 1]
  /\ out = [l \in Leg |-> "none"]
  /\ queue = <<>>
  /\ returned = {}
  /\ drain = [l \in Leg |-> "off"]
  /\ pending = None
  /\ coords = {}
  /\ press = [p \in Press |-> [pc |-> "idle", card |-> None, run |-> None]]

-----------------------------------------------------------------------------
(* Submission *)

(* HandleMessage up to the pending check of submitTurn: the breaker, the   *)
(* loop guard or a disabled gateway may drop any message, and while a card *)
(* is pending only slash commands pass.                                    *)
Arrive(m) ==
  /\ turn[m] = "new"
  /\ \E t \in {"dropped"} \cup
       IF ~attached THEN {}
       ELSE IF pending = None THEN {"routed"} ELSE {"refused", "command"} :
         turn' = [turn EXCEPT ![m] = t]
  /\ UNCHANGED <<runs, attached, leg, out, queue, returned, drain, approvals>>

(* submitter.Run accepts the turn, and its drain is on its way. *)
Accepted(m) ==
  /\ Slots!Admit(Session, First(m))
  /\ turn' = [turn EXCEPT ![m] = "on"]
  /\ drain' = [drain EXCEPT ![First(m)] = "starting"]
  /\ UNCHANGED out

(* A hook blocks the prompt: before the session guard is consulted, Run    *)
(* returns a closed stream that holds a completed turn, and no run starts. *)
Blocked(m) ==
  /\ turn' = [turn EXCEPT ![m] = "blocked"]
  /\ drain' = [drain EXCEPT ![First(m)] = "starting"]
  /\ out' = [out EXCEPT ![First(m)] = "completed"]
  /\ UNCHANGED runs

(* submitter.Run refuses a busy session or a draining runner, or fails for *)
(* another reason and the chat is told.                                    *)
Rejected(m, conflict) ==
  /\ \E t \in {"failed"} \cup IF Busy \/ ~open THEN {conflict} ELSE {} :
       turn' = [turn EXCEPT ![m] = t]
  /\ UNCHANGED <<runs, drain, out>>

(* submitTurn. The compact command is never shown to the prompt hooks. *)
Submit(m) ==
  /\ turn[m] \in {"routed", "command"}
  /\ Accepted(m) \/ Rejected(m, "conflicted") \/ (turn[m] = "routed" /\ Blocked(m))
  /\ UNCHANGED <<attached, leg, queue, returned, approvals>>

(* Mutant: the bound is off by one. *)
EnqueueOneMore(m) ==
  /\ turn[m] = "conflicted"
  /\ IF Len(queue) <= Depth
       THEN /\ queue' = Append(queue, m)
            /\ turn' = [turn EXCEPT ![m] = "queued"]
       ELSE /\ turn' = [turn EXCEPT ![m] = "refused"]
            /\ UNCHANGED queue
  /\ UNCHANGED <<runs, attached, leg, out, returned, drain, approvals>>

(* BusyQueue.Enqueue, after the conflict was reported. *)
Enqueue(m) ==
  /\ turn[m] = "conflicted"
  /\ IF Len(queue) < Depth
       THEN /\ queue' = Append(queue, m)
            /\ turn' = [turn EXCEPT ![m] = "queued"]
       ELSE /\ turn' = [turn EXCEPT ![m] = "refused"]
            /\ UNCHANGED queue
  /\ UNCHANGED <<runs, attached, leg, out, returned, drain, approvals>>

(* Mutant: the head stays in the queue until its resubmission succeeded. *)
ReleaseByPeek(l) ==
  /\ drain[l] = "releasing"
  /\ drain' = [drain EXCEPT ![l] = "over"]
  /\ turn' = IF queue = <<>> THEN turn
             ELSE [turn EXCEPT ![Head(queue)] = "taken"]
  /\ UNCHANGED <<runs, attached, leg, out, queue, returned, approvals>>

(* NotifyRunFinished by the drain of l: take the head, if there is one. *)
Release(l) ==
  /\ drain[l] = "releasing"
  /\ drain' = [drain EXCEPT ![l] = "over"]
  /\ IF queue = <<>>
       THEN UNCHANGED <<queue, turn>>
       ELSE /\ queue' = Tail(queue)
            /\ turn' = [turn EXCEPT ![Head(queue)] = "taken"]
  /\ UNCHANGED <<runs, attached, leg, out, returned, approvals>>

(* resubmitQueued: NotifyRunFinished submits the turn it took. *)
Resubmit(m) ==
  /\ turn[m] = "taken"
  /\ Accepted(m) \/ Rejected(m, "returning") \/ Blocked(m)
  /\ UNCHANGED <<attached, leg, queue, returned, approvals>>

(* The session was grabbed again in between: back to the front. *)
PutBack(m) ==
  /\ turn[m] = "returning"
  /\ queue' = <<m>> \o queue
  /\ turn' = [turn EXCEPT ![m] = "queued"]
  /\ returned' = returned \cup {m}
  /\ UNCHANGED <<runs, attached, leg, out, drain, approvals>>

-----------------------------------------------------------------------------
(* Runs (RunSlots) and the drains that watch them *)

(* The leg sends its last event; the run itself is still registered. *)
SendsLast(l) ==
  /\ stage[l] = "on" /\ out[l] = "none"
  /\ \E e \in Out \ {"none"} :
       /\ e = "approval" => l[2] < MaxLegs
       /\ out' = [out EXCEPT ![l] = e]
  /\ UNCHANGED <<runs, attached, turn, leg, queue, returned, drain, approvals>>

(* The run closes its stream and unwinds. *)
Ends(r) ==
  /\ r \in Leg => out[r] # "none"
  /\ Slots!End(r)
  /\ UNCHANGED <<attached, turn, leg, out, queue, returned, drain, approvals>>

(* The sweep goroutine deregisters it. *)
Deregisters ==
  /\ Slots!Vacate(Session)
  /\ UNCHANGED <<attached, turn, leg, out, queue, returned, drain, approvals>>

(* Another surface runs a turn on the session; the gateway drains nothing. *)
ForeignRun(r) ==
  /\ Slots!Admit(Session, r)
  /\ UNCHANGED <<attached, turn, leg, out, queue, returned, drain, approvals>>

(* Streamer.Stream opens with a placeholder message; without it the drain  *)
(* is over at once, and without an adapter it ends silently.               *)
DrainStarts(l) ==
  /\ drain[l] = "starting"
  /\ \E d \in IF attached THEN {"reading", "releasing"} ELSE {"over"} :
       drain' = [drain EXCEPT ![l] = d]
  /\ UNCHANGED <<runs, attached, turn, leg, out, queue, returned, approvals>>

(* A terminal result: turn_completed was read (the loop does not wait for  *)
(* EOF), or EOF was reached without an approval event.                     *)
DrainEnds(l) ==
  /\ drain[l] = "reading"
  /\ out[l] = "completed" \/ (out[l] = "error" /\ Ended(l))
  /\ drain' = [drain EXCEPT ![l] = "releasing"]
  /\ UNCHANGED <<runs, attached, turn, leg, out, queue, returned, approvals>>

(* Mutant: the card is presented as soon as the approval event was read. *)
DrainPausesAtOnce(l) ==
  /\ drain[l] = "reading"
  /\ out[l] = "approval"
  /\ drain' = [drain EXCEPT ![l] = "presenting"]
  /\ UNCHANGED <<runs, attached, turn, leg, out, queue, returned, approvals>>

(* EOF after an approval event. *)
DrainPauses(l) ==
  /\ drain[l] = "reading"
  /\ out[l] = "approval" /\ Ended(l)
  /\ drain' = [drain EXCEPT ![l] = "presenting"]
  /\ UNCHANGED <<runs, attached, turn, leg, out, queue, returned, approvals>>

(* The server drains its runs before it exits. *)
Shutdown ==
  /\ open
  /\ Slots!StopAdmitting
  /\ UNCHANGED <<attached, turn, leg, out, queue, returned, drain, approvals>>

Detach ==
  /\ attached
  /\ attached' = FALSE
  /\ UNCHANGED <<runs, turn, leg, out, queue, returned, drain, approvals>>

-----------------------------------------------------------------------------
(* Approvals.  Every leg that pauses raises an interrupt of its own, so a  *)
(* card and its drain coordinates are named by the leg.                    *)

(* SendApprovalCard. If it fails the session stays blocked. *)
SendCard(l) ==
  /\ drain[l] = "presenting"
  /\ \E d \in {"carded", "over"} : drain' = [drain EXCEPT ![l] = d]
  /\ UNCHANGED <<runs, attached, turn, leg, out, queue, returned, approvals>>

(* Present marks the session pending, *)
MarkPending(l) ==
  /\ drain[l] = "carded"
  /\ pending' = l
  /\ drain' = [drain EXCEPT ![l] = "recording"]
  /\ UNCHANGED <<runs, attached, turn, leg, out, queue, returned, coords, press>>

(* and the drain keeps the coordinates for the resumed turn. *)
RecordCoords(l) ==
  /\ drain[l] = "recording"
  /\ coords' = coords \cup {l}
  /\ drain' = [drain EXCEPT ![l] = "over"]
  /\ UNCHANGED <<runs, attached, turn, leg, out, queue, returned, pending, press>>

(* A paired member presses a button: the bridge finds the card pending.  A *)
(* press on any other card is refused.                                     *)
Answer(p) ==
  /\ press[p].pc = "idle" /\ pending # None
  /\ press' = [press EXCEPT ![p] = [pc |-> "found", card |-> pending, run |-> None]]
  /\ UNCHANGED <<runs, attached, turn, leg, out, queue, returned, drain,
                 pending, coords>>

(* Runner.Resume: a new leg, whatever became of the card since it was      *)
(* found, or an error that leaves the card pending.                        *)
Resume(p) ==
  /\ press[p].pc = "found"
  /\ LET c == press[p].card
         m == c[1]
         next == <<m, leg[m] + 1>>
     IN \/ /\ leg[m] < MaxLegs
           /\ Slots!Admit(Session, next)
           /\ leg' = [leg EXCEPT ![m] = @ + 1]
           /\ press' = [press EXCEPT ![p] = [pc |-> "resumed", card |-> c, run |-> next]]
        \/ /\ press' = [press EXCEPT ![p] = [pc |-> "failed", card |-> c, run |-> None]]
           /\ UNCHANGED <<runs, leg>>
  /\ UNCHANGED <<attached, turn, out, queue, returned, drain, pending, coords>>

At(p, pc) == [pc |-> pc, card |-> press[p].card, run |-> press[p].run]

(* Mutant: the answered card stays pending. *)
ForgetToClear(p) ==
  /\ press[p].pc = "resumed"
  /\ press' = [press EXCEPT ![p] = At(p, "cleared")]
  /\ UNCHANGED <<runs, attached, turn, leg, out, queue, returned, drain,
                 pending, coords>>

(* HandleCallback forgets the session's card once the turn is resumed. *)
ClearPending(p) ==
  /\ press[p].pc = "resumed"
  /\ pending' = None
  /\ press' = [press EXCEPT ![p] = At(p, "cleared")]
  /\ UNCHANGED <<runs, attached, turn, leg, out, queue, returned, drain, coords>>

(* HandleCallback drains the resumed turn if its coordinates are known. *)
DrainResumed(p) ==
  /\ press[p].pc = "cleared"
  /\ press' = [press EXCEPT ![p] = At(p, "drained")]
  /\ coords' = coords \ {press[p].card}
  /\ drain' = IF press[p].card \in coords
                THEN [drain EXCEPT ![press[p].run] = "starting"]
                ELSE drain
  /\ UNCHANGED <<runs, attached, turn, leg, out, queue, returned, pending>>

-----------------------------------------------------------------------------
TurnStep(m) == Submit(m) \/ Enqueue(m) \/ Resubmit(m) \/ PutBack(m)

DrainStep(l) ==
  \/ DrainStarts(l) \/ DrainEnds(l) \/ DrainPauses(l) \/ Release(l)
  \/ SendCard(l) \/ MarkPending(l) \/ RecordCoords(l)

PressStep(p) == Resume(p) \/ ClearPending(p) \/ DrainResumed(p)

Next ==
  \/ \E m \in Msg : Arrive(m) \/ TurnStep(m)
  \/ \E l \in Leg : SendsLast(l) \/ DrainStep(l)
  \/ \E r \in Leg \cup Foreign : Ends(r)
  \/ Deregisters
  \/ \E r \in Foreign : ForeignRun(r)
  \/ \E p \in Press : Answer(p) \/ PressStep(p)
  \/ Detach \/ Shutdown

Spec == Init /\ [][Next]_vars

(* Goroutines keep running, a run that was started sends its last event    *)
(* and unwinds, a card that is pressed is handled.  Nobody is obliged to   *)
(* write, to press a button or to use the session from elsewhere.          *)
Fairness ==
  /\ \A m \in Msg : WF_vars(TurnStep(m))
  /\ \A l \in Leg : WF_vars(SendsLast(l)) /\ WF_vars(DrainStep(l))
  /\ \A r \in Leg \cup Foreign : WF_vars(Ends(r))
  /\ WF_vars(Deregisters)
  /\ \A p \in Press : WF_vars(PressStep(p))

FairSpec == Spec /\ Fairness

-----------------------------------------------------------------------------
(* Properties *)

(* Every variable has its type. *)
TypeOK ==
  /\ open \in BOOLEAN /\ audience \in [Leg \cup Foreign -> {{}}]
  /\ slot \in [{Session} -> Leg \cup Foreign \cup {None}]
  /\ stage \in [Leg \cup Foreign -> {"new", "on", "over"}]
  /\ attached \in BOOLEAN
  /\ turn \in [Msg -> Turn]
  /\ leg \in [Msg -> 1..MaxLegs]
  /\ out \in [Leg -> Out]
  /\ queue \in Seq(Msg)
  /\ returned \subseteq Msg
  /\ drain \in [Leg -> Drain]
  /\ pending \in Leg \cup {None}
  /\ coords \subseteq Leg
  /\ press \in [Press -> [pc : Pc, card : Leg \cup {None}, run : Leg \cup {None}]]

(* A turn is in one place only, whichever goroutines pass it around: it is *)
(* in the queue exactly when it is parked, never twice, and the run that   *)
(* holds the session belongs to a turn that was accepted and parked no     *)
(* more (Enqueue, NotifyRunFinished and its put-back, queue.go:68-115).    *)
EachTurnOnce ==
  /\ \A m \in Msg : turn[m] = "queued" <=> \E i \in 1..Len(queue) : queue[i] = m
  /\ \A i, j \in 1..Len(queue) : queue[i] = queue[j] => i = j
  /\ \A l \in Leg : slot[Session] = l => turn[l[1]] = "on"

(* The queue is bounded (queue.go:68): it exceeds its depth only by turns  *)
(* that had been released once and came back because the session was       *)
(* grabbed again in between.                                               *)
OnlyReturnsExceedDepth ==
  Cardinality({m \in Msg : turn[m] = "queued" /\ m \notin returned}) <= Depth

(* The turn of l is paused on l's approval and was not resumed since. *)
Paused(l) == out[l] = "approval" /\ Ended(l) /\ l[2] = leg[l[1]]

(* Two presses found the same card of m, and both resumed the turn. *)
ResumedTwice(m) ==
  \E p, q \in Press :
    /\ p # q /\ press[p].run # None /\ press[q].run # None
    /\ press[p].card = press[q].card /\ press[p].card[1] = m

(* A pending card blocks the session for a reason: its turn is really      *)
(* paused on it, or an answer resumed the turn and is about to clear the   *)
(* card (approvals.go: Present, HandleCallback).  The bridge reads the     *)
(* card and clears it under two locks, so the one exception is a turn that *)
(* two presses of one card have both resumed.                              *)
CardIsLive ==
  pending # None =>
    \/ Paused(pending)
    \/ \E p \in Press : press[p].pc = "resumed" /\ press[p].card = pending
    \/ ResumedTwice(pending[1])

(* The gateway implements the turns of TurnBook: a message becomes a turn  *)
(* at most once, its runs and those of others take the session one at a    *)
(* time, and every run after the first continues one that is paused.       *)
FateOf(m) ==
  CASE turn[m] = "on" -> "running"
    [] turn[m] \in {"blocked", "refused", "failed", "dropped"} -> "answered"
    [] OTHER -> "waiting"

LegsOf(m) == IF turn[m] = "on" THEN leg[m] ELSE 0

OverRuns == {r \in Leg \cup Foreign : Ended(r)}

PausedLegs == {l \in Leg : out[l] = "approval" /\ Ended(l)}

Book == INSTANCE TurnBook WITH
  Other <- Foreign,
  fate <- [m \in Msg |-> FateOf(m)],
  legs <- [m \in Msg |-> LegsOf(m)],
  holder <- slot[Session],
  over <- OverRuns,
  paused <- PausedLegs,
  card <- pending

ImplementsTurnBook == Book!BookSpec

(* "While a card is unanswered for a session, new turns on that session    *)
(* are refused" (approvals.go:72): no ordinary message becomes a run while *)
(* the session's card is pending.                                          *)
TurnsRefusedWhilePending ==
  [][\A m \in Msg :
       turn[m] = "routed" /\ turn'[m] = "on" => pending = None]_vars

(* "Queued - I'll run this right after the current turn finishes"          *)
(* (service.go:24): a parked turn is submitted in the end, unless the      *)
(* server shuts down or the gateway is detached.                           *)
QueuedTurnsRun ==
  \A m \in Msg :
    turn[m] = "queued"
      ~> turn[m] \in {"on", "blocked", "failed"} \/ ~open \/ ~attached
=============================================================================
