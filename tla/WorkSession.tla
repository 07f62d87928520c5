---------------------------- MODULE WorkSession -----------------------------
(***************************************************************************)
(* The work sessions of one channel: internal/channels chokepoint.go and   *)
(* sessions.go over internal/store/postgres work_sessions.go.  A human     *)
(* kicks a session off; posts summon agents against its hop budget; it     *)
(* pauses for a human or when the budget is spent, a human post resumes    *)
(* it, the facilitator closes it; a stall watchdog wakes the facilitator.  *)
(*                                                                         *)
(* Each SQL statement, each section of watchdogMu and each submission is   *)
(* one action.  A call is one execution of Post, PostKickoff,              *)
(* CloseWorkSession or onWatchdogFire; calls interleave between actions,   *)
(* and a call keeps the session it read when it began.  Any statement may  *)
(* fail; what the code does then is the last disjunct of its action.       *)
(***************************************************************************)
EXTENDS Naturals, FiniteSets

CONSTANTS
  Call,         \* goroutines in the entry points, each in one call at a time
  MaxCalls,     \* bound: executions in all
  MaxSessions,  \* bound: rows
  MaxSummons,   \* bound: agents one post summons
  MaxRestarts,  \* bound: process restarts
  Budget        \* WorkSession.Budget

ASSUME BudgetAssumption == Budget \in Nat \ {0}
ASSUME CallAssumption == IsFiniteSet(Call)
ASSUME BoundsAssumption ==
  /\ MaxCalls \in Nat /\ MaxRestarts \in Nat
  /\ MaxSessions \in Nat \ {0} /\ MaxSummons \in Nat \ {0}

Session == 1..MaxSessions  \* in the order of created_at

VARIABLES
  stamped,   \* rows whose created_at was taken
  rows,      \* channel_work_sessions
  watch,     \* Chokepoint.watchdogTimers: off, armed, or fired
  begun,     \* calls that began
  call,      \* each call: where it stands, its session and what it knows of it
  minted,    \* runs submitted for a billed hop, per session
  notified,  \* free facilitator runs, per session
  resumed,   \* how often a human resumed each session
  overlaps,  \* history: pairs of sessions whose INSERTs ran at the same time
  boot       \* process restarts left, and the boot scan of the watchdog

vars == <<stamped, rows, watch, begun, call, minted, notified, resumed, overlaps,
          boot>>

runs == <<minted, notified>>

Op == {"none", "human", "agent", "kickoff", "close", "fire"}
Status == {"none", "open", "paused", "closed"}
Reason == {"none", "awaiting-human", "budget-exhausted"}
PC == {"idle", "checked", "stamped", "resume", "persist", "gate", "summon",
       "mint", "exhaust", "exhausted", "notify", "close", "disarm", "rearm",
       "fired"}

NoCall == [op |-> "none", pc |-> "idle", s |-> 0, status |-> "none", left |-> 0]
NoRow == [status |-> "none", reason |-> "none", hops |-> 0]

Init ==
  /\ stamped = 0
  /\ rows = [s \in Session |-> NoRow]
  /\ watch = [s \in Session |-> "off"]
  /\ begun = 0
  /\ call = [c \in Call |-> NoCall]
  /\ minted = [s \in Session |-> 0]
  /\ notified = [s \in Session |-> 0]
  /\ resumed = [s \in Session |-> 0]
  /\ overlaps = {}
  /\ boot = [restarts |-> MaxRestarts, phase |-> "up", todo |-> {}]

(* A goroutine begins, continues and finishes a call. *)
Begins(c) == call[c] = NoCall /\ begun < MaxCalls /\ begun' = begun + 1
At(c, p) == call[c].pc = p
Goto(c, p) == call' = [call EXCEPT ![c].pc = p]
Return(c) == call' = [call EXCEPT ![c] = NoCall]

-----------------------------------------------------------------------------
(* The store: the guards that ride in its UPDATE statements *)

Active == {s \in Session : rows[s].status \in {"open", "paused"}}

(* ActiveWorkSession: the newest non-closed session, or none. Callers take *)
(* a failed lookup for a channel without a session.                        *)
Lookup == {0} \cup {s \in Active : \A t \in Active : t <= s}

(* Mutant: the guard is that the session is not paused already. *)
CanPauseClosed(s) == rows[s].status # "paused"

CanPause(s) == rows[s].status = "open"

(* Mutant: whatever is not open is reopened. *)
CanResumeClosed(s) == rows[s].status # "open"

CanResume(s) == rows[s].status = "paused"

(* Mutant: the budget is not part of the guard. *)
CanBillBeyond(s) == rows[s].status = "open"

CanBill(s) == rows[s].status = "open" /\ rows[s].hops < Budget

(* PauseWorkSession. *)
Pause(s, reason) ==
  rows' = [rows EXCEPT ![s].status = "paused", ![s].reason = reason]

(* ResumeWorkSession clears the pause reason. *)
Reopen(s) ==
  rows' = [rows EXCEPT ![s].status = "open", ![s].reason = "none"]

(* The summons of a call are over: rearmWatchdog looks at the session value *)
(* the call holds, and a pause by the call's own summons has not reached   *)
(* it.  A call of the watchdog itself never rearms.                        *)
Ending(x) ==
  IF x.op # "fire" /\ x.status = "open" THEN [x EXCEPT !.pc = "rearm"] ELSE NoCall

(* The call, knowing the session as it does, is to summon n agents. *)
Summoning(x, status, n) ==
  LET y == [x EXCEPT !.status = status, !.left = n]
  IN IF n = 0 THEN Ending(y) ELSE [y EXCEPT !.pc = "summon"]

-----------------------------------------------------------------------------
(* Kickoff *)

(* PostKickoff finds no active session and persists its message. *)
Kickoff(c) ==
  /\ Begins(c) /\ stamped < MaxSessions
  /\ 0 \in Lookup
  /\ call' = [call EXCEPT ![c].op = "kickoff", ![c].pc = "checked"]
  /\ UNCHANGED <<stamped, rows, watch, runs, resumed, overlaps, boot>>

(* Calls whose INSERT has its snapshot and has not committed. *)
Inserting == {d \in Call : At(d, "stamped")}

(* Mutant: a paused session is no session. *)
NoneOpen == \A s \in Session : rows[s].status # "open"

(* The NOT EXISTS of the INSERT. *)
NoneActive == Active = {}

(* CreateWorkSession takes created_at and its statement its snapshot; the  *)
(* NOT EXISTS is evaluated on that snapshot, whatever commits meanwhile.   *)
Stamp(c) ==
  /\ At(c, "checked") /\ stamped < MaxSessions
  /\ stamped' = stamped + 1
  /\ IF NoneActive
       THEN /\ call' = [call EXCEPT ![c].s = stamped', ![c].pc = "stamped"]
            /\ overlaps' = overlaps \cup {{call[d].s, stamped'} : d \in Inserting}
       ELSE Return(c) /\ UNCHANGED overlaps
  /\ UNCHANGED <<rows, watch, begun, runs, resumed, boot>>

(* The statement holds the channel row and inserts. An agent facilitator   *)
(* is summoned next, a human one is not.                                   *)
Create(c) ==
  /\ At(c, "stamped")
  /\ \/ /\ rows' = [rows EXCEPT ![call[c].s].status = "open"]
        /\ \E n \in {0, 1} : call' = [call EXCEPT ![c] = Summoning(@, "open", n)]
     \/ /\ Return(c)
        /\ UNCHANGED rows
  /\ UNCHANGED <<stamped, begun, watch, runs, resumed, overlaps, boot>>

-----------------------------------------------------------------------------
(* Posts *)

(* Post reads the active session. Without one the post follows the v1      *)
(* rules, or is the plain last word of a run whose session closed; neither *)
(* touches a work session. A human finds a paused session: resume first.   *)
Post(c) ==
  /\ Begins(c)
  /\ \E s \in Lookup, op \in {"human", "agent"} :
       call' = [call EXCEPT
         ![c] = IF s = 0 THEN NoCall
                ELSE [op |-> op, s |-> s, status |-> rows[s].status, left |-> 0,
                      pc |-> IF op = "human" /\ rows[s].status = "paused"
                             THEN "resume" ELSE "persist"]]
  /\ UNCHANGED <<stamped, rows, watch, runs, resumed, overlaps, boot>>

(* ResumeWorkSession; an open session is an accepted no-op, and after an   *)
(* error the post goes on with the paused session it read.                 *)
Resume(c) ==
  /\ At(c, "resume")
  /\ LET s == call[c].s
     IN \/ /\ CanResume(s)
           /\ Reopen(s)
           /\ resumed' = [resumed EXCEPT ![s] = @ + 1]
           /\ call' = [call EXCEPT ![c].status = "open", ![c].pc = "persist"]
        \/ /\ rows[s].status = "open"
           /\ call' = [call EXCEPT ![c].status = "open", ![c].pc = "persist"]
           /\ UNCHANGED <<rows, resumed>>
        \/ /\ Goto(c, "persist")
           /\ UNCHANGED <<rows, resumed>>
  /\ UNCHANGED <<stamped, begun, watch, runs, overlaps, boot>>

(* The message is inserted, or the post fails. An agent that knows the     *)
(* session as paused summons nobody; one that tags a human gates it; all   *)
(* others summon who they mention or whom the deciders elect.              *)
Persist(c) ==
  /\ At(c, "persist")
  /\ LET x == call[c]
     IN \/ Return(c)
        \/ /\ x.op = "agent" /\ x.status = "paused"
           /\ Return(c)
        \/ /\ x.op = "agent" /\ x.status = "open"
           /\ Goto(c, "gate")
        \/ /\ x.op = "human" \/ x.status = "open"
           /\ \E n \in 0..MaxSummons :
                call' = [call EXCEPT ![c] = Summoning(x, x.status, n)]
  /\ UNCHANGED <<stamped, begun, rows, watch, runs, resumed, overlaps, boot>>

(* The human gate pauses the session; if that fails the post ends with the *)
(* session it read.                                                        *)
Gate(c) ==
  /\ At(c, "gate")
  /\ \/ /\ CanPause(call[c].s)
        /\ Pause(call[c].s, "awaiting-human")
        /\ Goto(c, "disarm")
     \/ /\ Goto(c, "rearm")
        /\ UNCHANGED rows
  /\ UNCHANGED <<stamped, begun, watch, runs, resumed, overlaps, boot>>

-----------------------------------------------------------------------------
(* Summons *)

(* Mutant: every failure takes the budget-exhaustion path. *)
MayExhaustAlways(s) == TRUE

(* ConsumeWorkSessionHop reports no hop for a spent budget, and also for a *)
(* paused session.                                                         *)
MayExhaust(s) == rows[s].status \in {"open", "paused"} /\ ~CanBill(s)

(* billSessionHop, and the plain ConsumeWorkSessionHop of a kickoff, which *)
(* never pauses. Any other failure ends the summons.                       *)
Bill(c) ==
  /\ At(c, "summon")
  /\ LET s == call[c].s
     IN \/ /\ CanBill(s)
           /\ rows' = [rows EXCEPT ![s].hops = @ + 1]
           /\ Goto(c, "mint")
        \/ /\ MayExhaust(s) /\ call[c].op # "kickoff"
           /\ Goto(c, "exhaust")
           /\ UNCHANGED rows
        \/ /\ call' = [call EXCEPT ![c] = Ending(@)]
           /\ UNCHANGED rows
  /\ UNCHANGED <<stamped, begun, watch, runs, resumed, overlaps, boot>>

(* submitRun for the billed hop: the run starts, or it is refused (a busy  *)
(* agent, no agent facilitator left to wake) and the hop stays spent.      *)
Mint(c) ==
  /\ At(c, "mint")
  /\ \E n \in {0, 1} : minted' = [minted EXCEPT ![call[c].s] = @ + n]
  /\ call' = [call EXCEPT ![c] = Summoning(@, @.status, @.left - 1)]
  /\ UNCHANGED <<stamped, begun, rows, watch, notified, resumed, overlaps, boot>>

(* pauseForBudgetExhaustion; a raced pause is skipped. *)
Exhaust(c) ==
  /\ At(c, "exhaust")
  /\ \/ /\ CanPause(call[c].s)
        /\ Pause(call[c].s, "budget-exhausted")
        /\ Goto(c, "exhausted")
     \/ /\ call' = [call EXCEPT ![c] = Ending(@)]
        /\ UNCHANGED rows
  /\ UNCHANGED <<stamped, begun, watch, runs, resumed, overlaps, boot>>

(* The free status summons of the facilitator, if it is an agent and free. *)
Notify(c) ==
  /\ At(c, "notify")
  /\ \E n \in {0, 1} : notified' = [notified EXCEPT ![call[c].s] = @ + n]
  /\ call' = [call EXCEPT ![c] = Ending(@)]
  /\ UNCHANGED <<stamped, begun, rows, watch, minted, resumed, overlaps, boot>>

-----------------------------------------------------------------------------
(* The watchdog *)

(* cancelWatchdog, after a gate, a close or a budget pause. *)
Disarm(c) ==
  /\ call[c].pc \in {"disarm", "exhausted"}
  /\ watch' = [watch EXCEPT ![call[c].s] = "off"]
  /\ IF At(c, "exhausted") THEN Goto(c, "notify") ELSE Return(c)
  /\ UNCHANGED <<stamped, begun, rows, runs, resumed, overlaps, boot>>

(* rearmWatchdog. *)
Rearm(c) ==
  /\ At(c, "rearm")
  /\ watch' = [watch EXCEPT ![call[c].s] = "armed"]
  /\ Return(c)
  /\ UNCHANGED <<stamped, begun, rows, runs, resumed, overlaps, boot>>

(* The idle period elapsed: the timer's goroutine starts. *)
Fire(c) ==
  /\ Begins(c)
  /\ \E s \in Session :
       /\ watch[s] = "armed"
       /\ watch' = [watch EXCEPT ![s] = "fired"]
       /\ call' = [call EXCEPT ![c].op = "fire", ![c].pc = "fired", ![c].s = s]
  /\ UNCHANGED <<stamped, rows, runs, resumed, overlaps, boot>>

(* onWatchdogFire looks at the session again, then bills and summons. *)
OnFire(c) ==
  /\ At(c, "fired")
  /\ \/ Return(c)
     \/ /\ rows[call[c].s].status = "open"
        /\ call' = [call EXCEPT ![c] = Summoning(@, "open", 1)]
  /\ UNCHANGED <<stamped, begun, rows, watch, runs, resumed, overlaps, boot>>

-----------------------------------------------------------------------------
(* Close and restart *)

(* session.close, in a run of some session: it acts on the active one. *)
Closing(c) ==
  /\ Begins(c)
  /\ \E s \in Session : minted[s] + notified[s] > 0
  /\ \E s \in Lookup \ {0} :
       call' = [call EXCEPT ![c].op = "close", ![c].pc = "close", ![c].s = s]
  /\ UNCHANGED <<stamped, rows, watch, runs, resumed, overlaps, boot>>

Close(c) ==
  /\ At(c, "close")
  /\ \/ /\ call[c].s \in Active
        /\ rows' = [rows EXCEPT ![call[c].s].status = "closed",
                                ![call[c].s].reason = "none"]
        /\ Goto(c, "disarm")
     \/ /\ Return(c)
        /\ UNCHANGED rows
  /\ UNCHANGED <<stamped, begun, watch, runs, resumed, overlaps, boot>>

(* The process dies with its calls and timers and starts again. *)
Restart ==
  /\ boot.restarts > 0
  /\ boot' = [restarts |-> boot.restarts - 1, phase |-> "scan", todo |-> {}]
  /\ watch' = [s \in Session |-> "off"]
  /\ call' = [c \in Call |-> NoCall]
  /\ UNCHANGED <<stamped, begun, rows, runs, resumed, overlaps>>

(* StartWatchdog lists the open sessions, if the listing succeeds, *)
BootScan ==
  /\ boot.phase = "scan"
  /\ \E todo \in {{}, {s \in Session : rows[s].status = "open"}} :
       boot' = [boot EXCEPT !.phase = "up", !.todo = todo]
  /\ UNCHANGED <<stamped, begun, rows, watch, call, runs, resumed, overlaps>>

(* and arms a timer for each. *)
BootArm(s) ==
  /\ s \in boot.todo
  /\ watch' = [watch EXCEPT ![s] = "armed"]
  /\ boot' = [boot EXCEPT !.todo = @ \ {s}]
  /\ UNCHANGED <<stamped, begun, rows, call, runs, resumed, overlaps>>

-----------------------------------------------------------------------------
Next ==
  \/ \E c \in Call :
       \/ Kickoff(c) \/ Stamp(c) \/ Create(c)
       \/ Post(c) \/ Resume(c) \/ Persist(c) \/ Gate(c)
       \/ Bill(c) \/ Mint(c) \/ Exhaust(c) \/ Notify(c)
       \/ Disarm(c) \/ Rearm(c) \/ Fire(c) \/ OnFire(c)
       \/ Closing(c) \/ Close(c)
  \/ Restart \/ BootScan \/ \E s \in Session : BootArm(s)

Spec == Init /\ [][Next]_vars

-----------------------------------------------------------------------------
(* Properties *)

(* Every variable has its type, and a row has a pause reason exactly while *)
(* it is paused (WorkSession.Validate, domain/channels.go:357).            *)
TypeOK ==
  /\ stamped \in 0..MaxSessions
  /\ rows \in [Session -> [status : Status, reason : Reason, hops : Nat]]
  /\ watch \in [Session -> {"off", "armed", "fired"}]
  /\ begun \in 0..MaxCalls
  /\ call \in [Call -> [op : Op, pc : PC, s : 0..MaxSessions, status : Status,
                        left : 0..MaxSummons]]
  /\ minted \in [Session -> Nat] /\ notified \in [Session -> Nat]
  /\ resumed \in [Session -> Nat] /\ overlaps \subseteq SUBSET Session
  /\ boot \in [restarts : 0..MaxRestarts, phase : {"up", "scan"},
               todo : SUBSET Session]
  /\ \A s \in Session : rows[s].status = "paused" <=> rows[s].reason # "none"

InFlight(s, pcs) == Cardinality({c \in Call : call[c].s = s /\ call[c].pc \in pcs})

(* "Hop accounting stays exact" (sessions.go:356): whatever posts,         *)
(* kickoffs and watchdogs bill at once, every run that is submitted for a  *)
(* session, or about to be, has a hop of its own, and the budget is never  *)
(* overshot (work_sessions.go:278).                                        *)
HopsCoverRuns ==
  \A s \in Session :
    /\ minted[s] + InFlight(s, {"mint"}) <= rows[s].hops
    /\ rows[s].hops <= Budget

(* "ONE free status summons" (sessions.go:376): many calls may            *)
(* find the budget spent, yet between two human resumes only the one whose *)
(* pause won notifies the facilitator free of charge.                      *)
OneFreeNotice ==
  \A s \in Session :
    notified[s] + InFlight(s, {"notify"}) <= resumed[s] + 1

(* A closed session is never touched again, however stale the session is   *)
(* that a running call still holds (work_sessions.go:309).                 *)
ClosedIsTerminal ==
  [][\A s \in Session : rows[s].status = "closed" => rows'[s] = rows[s]]_vars

(* A session that is paused as exhausted has spent its budget, unless a    *)
(* human resumed it: a hop refused because the session was paused leads to *)
(* a budget pause only if a resume comes in between (sessions.go:370-381). *)
BudgetPauseHasCause ==
  \A s \in Session :
    rows[s].reason = "budget-exhausted" => rows[s].hops = Budget \/ resumed[s] > 0

(* "The loser inserts zero rows" (work_sessions.go:101-104), but for a     *)
(* loser whose statement began before the winner's committed: two sessions *)
(* of a channel are open or paused at once only if their INSERTs ran at    *)
(* the same time, however their messages, summons and posts interleave.    *)
OnlyOverlapsCoexist ==
  \A s, t \in Active : s # t => {s, t} \in overlaps

(* What a channel is promised: each session's life, hops, runs and notices *)
(* are those of the ledger, whatever runs at once, fails or is restarted.  *)
Ledger == INSTANCE SessionLedger WITH
  status <- [t \in Session |-> rows[t].status],
  spent <- [t \in Session |-> rows[t].hops],
  paid <- minted,
  notices <- notified,
  resumes <- resumed

ImplementsLedger == Ledger!LedgerSpec

(* "At most one non-closed session per channel (D1)", and of two kickoffs  *)
(* "the loser inserts zero rows" (work_sessions.go:101-104).               *)
OneActiveSession == Cardinality(Active) <= 1

(* "An open session with no agent activity for an idle period SHALL        *)
(* trigger exactly one watchdog" (openspec/specs/channel-teams/spec.md:60, *)
(* sessions.go:447): once its calls are over, an open session has a timer, *)
(* or its timer has fired.                                                 *)
OpenIsWatched ==
  \A s \in Session :
    rows[s].status = "open" /\ InFlight(s, PC) = 0
      => watch[s] # "off" \/ boot.phase = "scan" \/ s \in boot.todo
=============================================================================
