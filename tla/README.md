# OnClaw: formal models and proofs

This directory specifies the concurrent core of OnClaw in TLA+. OnClaw is a Go server that runs
AI agents: a turn runner executes one turn of an agent per session, and several surfaces feed it
with turns (the web API, an OpenAI-compatible facade, chat gateways, shared channels, a scheduler
and a heartbeat). The models are written from the code in `src/`; each definition names the
lines it stands for in `PROJECT.json` under `map`. TLC checks small instances; TLAPS proves the
safety properties of all eight detailed models for every value of their constants.

```
tlc -workers 2 -config MCRunManager.cfg MCRunManager     # one of the runs of section 3
tlapm RunManagerProofs.tla                               # one of the proof modules of section 5
```

## 1. The system

`A/` stands for `src/internal/agents/`, `G/` for `src/internal/gateways/`, `C/` for
`src/internal/channels/`, `S/` for `src/internal/store/postgres/`.

| Part | State | Operations | What makes it correct | Model |
|---|---|---|---|---|
| Run manager (`A/runmanager.go`) | `live` registry under `mu`; per run `done`, subscribers, ids; `draining` | start and its sweep goroutine, Subscribe, Unsubscribe, task lookups, cancel with a late timer, drain | one run per session; every viewer reaches EOF; a cancel stops only its run; a drain forgets nobody | `RunManager` |
| Task-progress hub (`A/taskprogress.go`) | subscribers, task records | subscribe, unsubscribe, close, fan | subscribers drain to EOF with the run | `RunManager`, in part |
| Turn runner (`A/runner.go`) | per-session hook chains, checkpoints, mounts | Run, Resume, Compact, streamRun, DrainRuns | admission before side effects, unwinding in an order the sweep relies on | `RunManager`, `GatewayQueue`, in part |
| Gateway turns (`G/service.go`, `G/queue.go`, `G/streamer.go`) | busy queue per session | submit, enqueue, drain, release, resubmit, put back | a parked turn is neither lost nor run twice, and runs in the end | `GatewayQueue` |
| Approval bridge (`G/approvals.go`) | pending card per session, drain coordinates | Present, HandleCallback, Pending | the session is blocked exactly while a turn waits for an answer | `GatewayQueue` |
| Gateway guards (`G/guard.go`) | windows and counters | loop guard, circuit breaker | bounded answer loops | a choice to drop |
| Gateway outbox (`G/outbox.go`, `G/streamer.go`, `S/gateways.go`) | rows with attempts and due times | Enqueue, MarkDelivered, DeliverDue, Prune | a reply is delivered at least once, or dead-lettered after its attempts | `Outbox` |
| Gateway lifecycle (`G/lifecycle.go`) and adapters | running adapters | Sync, attach, detach | the adapters that run are those configured | none |
| Channel work sessions (`C/chokepoint.go`, `C/sessions.go`, `S/work_sessions.go`) | session rows, stall timers | Post, PostKickoff, CloseWorkSession, watchdog | exact hop accounting, pauses that hold, nobody idles unnoticed | `WorkSession` |
| Channel runs outside a session (`C/chokepoint.go`, `C/fanout.go`) | run links, messages | post, submitRun, drain, auto-post | chains are bounded and act for the human who began them | `ChannelRuns` |
| Channel hub, mentions, decider | subscribers of a lossy broadcast | Broadcast, parse, Decide | no state others depend on | none |
| Scheduler (`src/internal/scheduler`) | scheduler and run rows, in-flight markers | tick, RunNow, fire, drain, finish | a due occurrence is claimed once; a run row is finished | `Scheduler` |
| Heartbeat (`src/internal/heartbeat`) | one row per agent, markers | tick, RunNow, outcome, pause, resume | one tick at a time; the streak agrees with the outcomes | `Heartbeat` |
| MCP manager (`A/mcp/manager.go`) | cached connections, shared attempts, janitor | Tools, Invalidate, sweep, Close | connections are shared, closed once, never lost, and dropped when their row is edited | `McpManager` |
| Ingest worker, memory, skill curation | queues and rows | background cycles | bounded queue; consumers have cursors of their own | none |
| Hooks, tools, webhooks | request-local; a delivery queue | per-turn calls | bounded concurrency | none |
| HTTP server, auth, stores, domain, CLI, web app, providers | request-local, or rows | handlers, statements | validation and encoding | none |

How they interact: every surface calls `Runner.Run` or `Resume`, which asks the run manager for
the session's slot (`start`); a refusal is the only signal a surface gets that the session is
busy. Runs report through event streams: the caller drains its own, viewers subscribe to the
registry's. When a gateway's drain ends it releases the queue head into the runner again; the
reply it has collected goes through the outbox. A channel's drain posts the agent's reply, which
may summon further agents. The scheduler and the heartbeat claim rows in the database and submit
runs like everyone else. A run asks the MCP manager for the tools of its servers when it is
resolved. PostgreSQL is reached with single statements that carry their guards, at READ
COMMITTED, or with the transactions the code writes.

The hard behaviours, listed with their lines in `PROJECT.json` under `hazards`, come from four
sources: locks that are dropped between a lookup and its use (run manager, approval bridge, MCP
manager); state read before a call and used after it (queue, work sessions, whole-row edits of
schedulers and heartbeats); steps of two goroutines that end a run, a drain, a claim or a pause
in either order; and restarts, lost answers and failed writes between a row and what it announces.

## 2. What is modelled

| Module | Models |
|---|---|
| `RunSlots` | abstract: a slot per session, an audience per run |
| `RunManager` | `A/runmanager.go`, the unwinding in `A/runner.go`, the subscriber side of the hub |
| `TurnBook` | abstract: the life of a session's turns, their runs and their cards |
| `GatewayQueue` | one chat session: service, busy queue, approval bridge, ends of drains, over `RunSlots` |
| `SessionLedger` | abstract: the life of a work session, its hops, paid runs and free notices |
| `WorkSession` | one channel's work sessions: kickoffs, posts, hop billing, pauses, close, watchdog |
| `ChannelRuns` | the same channel outside a session: chains of posts and runs, and their links |
| `SingleFlight` | abstract: one fire of an order in hand, each with a record of its own |
| `Scheduler` | standing orders: claim, fire, run-now, drain and watchdog, edits, restarts |
| `Heartbeat` | one agent's heartbeat: the same, with guards, active hours and the failure streak |
| `AtLeastOnce` | abstract: what a durable outbox promises |
| `Outbox` | one reply: the streamer's flush against the delivery loop |
| `McpManager` | the connection cache: shared attempts, failures, expiry, edits and renewals of rows, both Closes |
| `*Proofs` | the theorems about the module of that name (section 5) |
| `MC*` | the instances TLC checks (section 3) |

Refinements, each checked on an instance and proved for all: `RunManager` implements `RunSlots`
(`ImplementsRunSlots`), `GatewayQueue` implements `TurnBook` (`ImplementsTurnBook`), `WorkSession`
implements `SessionLedger` (`ImplementsLedger`), `Scheduler` implements `SingleFlight`
(`ImplementsSingleFlight`), and `Outbox` implements `AtLeastOnce` (`ImplementsAtLeastOnce`). The
abstract modules say what a component promises without the goroutines, queues, stale reads and
restarts with which it keeps the promise:

- `TurnBook`: a message is answered without a run or becomes a turn, once; the session's runs take
  it one at a time; a turn runs again only because an earlier run of it ended for an approval, and
  a card is shown only for such a run. The queue, the drains and the put-backs are stutters.
- `SessionLedger`: a session is opened once and closed once; while open it spends hops of its
  budget, starts no run that a hop has not paid, and notifies its facilitator free of charge at
  most once more than a human resumed it. Calls, snapshots, timers and restarts are stutters.
- `SingleFlight`: an order has one fire in hand; a fire opens and closes its own record, for an
  order that exists, and ends with no open record unless it was lost. An occurrence that came too
  late is recorded without being in hand. The claim, the semaphore, the agent's run and the edits
  are stutters.

Composition: `GatewayQueue` is built on `RunSlots` instead of `RunManager`: its session is
admitted, ended and vacated by the actions of `RunSlots`, so the goroutines of the registry are
analysed once and not again under the queue. `ChannelRuns`, `Scheduler` and `Heartbeat` keep the slot as a small variable of their
own (`session`, `agent`, `live`), because all they ask of it is whether it is taken.

### RunManager

Every section under `m.mu`, `lr.mu` or the hub's lock is one action, and what lies between two
sections interleaves. A run's `pc` walks through the code's stages: `running`, `unwinding` (the
deferred `stream.Close` and context cancel happened), `closing` (`CloseSubscribers` took its
snapshot), `done`, `hubSwept`, `swept`, `gone` (the three sections of the sweep goroutine).
`Subscribe` is `LookUpEvents` followed by `AttachEvents` or `RefuseEvents`; `Unsubscribe` is
`Leave`, `Detach`, `CloseDetached`; the task lane has `LookUpTasks`, which tests `done` outside
every lock, and `AttachTasks`, which tests nothing. `Cancel` leaves a timer behind that holds the
run (`EscalationFires`); the drain snapshots, waits and gives up (`DrainBegins`,
`DrainCompletes`, `DrainDeadline`). `EventStream.Send` never blocks and drops when full, so
broadcasting changes nothing here.

### GatewayQueue

A turn is the life of one inbound message; a leg is one of its runs, since a run that pauses for
an approval is resumed as another. `Submit` asks for the slot; on a conflict the turn is parked
by a later action (`Enqueue`), because the code reports the conflict and takes the queue's lock
separately. `Release`, `Resubmit` and `PutBack` are the three parts of `NotifyRunFinished`. Every
leg has a drain goroutine of its own: it ends when it reads the run's terminal event, which is
before the run has left the registry, or at EOF. A prompt that a hook blocks is answered by a
closed stream without asking for the slot (`Blocked`). Approval cards are sent, marked pending
and given coordinates in three steps; a press finds the card, resumes, clears and drains in four,
and two presses may be under way. Other surfaces run turns on the session (`ForeignRun`), the
adapter may detach, the server may stop admitting.

### WorkSession

A call is one execution of `Post`, `PostKickoff`, `CloseWorkSession` or `onWatchdogFire`, cut at
each SQL statement, each section of `watchdogMu` and each submission. It keeps the session it
read when it began, as the Go code does: `Ending` re-arms the timer from that value. The rows'
guards (`CanPause`, `CanResume`, `CanBill`) are those of the UPDATE statements. `Stamp` and
`Create` are the snapshot and the insert of `CreateWorkSession`: the statement waits for the
channel row between them, and READ COMMITTED does not refresh a snapshot for a subquery on
another table. A post that sees no session follows the rules for unbounded channels
(`ChannelRuns`), which touch no session, and ends the call. `Restart` loses calls and timers;
`BootScan` and `BootArm` are the start of `StartWatchdog`.

### ChannelRuns

A message is the chain it belongs to and its depth; whom it mentions, and who elects to answer
an untagged one, is chosen by `\E`. A post is inserted, then summons agent by agent:
`RegisterLink` writes the agent's link before `Submit` or `Refuse` learns whether the agent's
session was free. The link is what tells a later post of the run which chain it continues. A
run's post during its turn and the drain's post at its end are both `AgentPost`; the second comes
after `RunEnds` has begun to free the session, so a newer run of the agent may have replaced the
link. `Finish` removes the link only if it is still the run's own.

### Scheduler

`ClaimDueSchedulers` is the whole claim transaction: rows in order of their due time, up to
`ClaimLimit`, advanced past now, once orders archived or missed beyond the grace. `SkipClaim`
drops a claim whose marker is taken. A missed claim is recorded by the tick's own loop in two
writes, `RecordMissed` and `FinishMissed`, and the other claims wait (`Recording`). A fire goes through semaphore, `begin` with the preflight
that may pause the order, submit, drain (against the watchdog, which gives up on the run without
ending it) and finish. An edit reads the whole row (`PatchRead`), computes and writes it back
(`PatchWrite`) over whatever happened in between; so does the automatic pause. `Restart` loses
everything but the rows. `row`, `runRow` are the tables, `inFlight` the in-process marker.

### Heartbeat

One agent's row. A due tick is claimed and dispatched, or skipped with the marker; a manual run
looks at the row (`RunNow`) before it takes the marker (`MarkManual`), as the handler does.
`Guards` judges active hours and the busy session, `Preflight` the prerequisites. The outcome is
two statements: `FinishHeartbeatRun` on the run row, `ApplyHeartbeatOutcome` on the streak. The
hour is read where the code reads it, and a window may wrap midnight. A due time is due or ahead;
`trail`, `drift` and `asked` are history.

### Outbox

The streamer commits a row for every part before the first is sent, edits the preview into the
first part, then sends and marks part by part (`Commit`, `Edit`, `Send`, `Mark`). The delivery
loop claims due rows, and counts the attempt in the claim (`ClaimDue`); `Deliver` sends or not,
and its answer may be lost; `Record` writes the outcome and `RecordMissed` is that write failing.
`Ageing` passes the freshness window and the retention, `Prune` deletes, `Restart` stops both
senders anywhere. `shown` says who showed a part in the chat, `bare` who had shown it already
when the loop repeated it without the duplicate notice.

### McpManager

A connection is named after the call that dialed it. A call reads its server's row, hits the
cache, joins an attempt or starts one; the leader dials, then stores, and the waiters are woken.
`Invalidate` and its close, the janitor's sweep and its close, and the two `Close`s (the one the
assembly defers, and the one at the exit) take entries out under the lock and close them after
it. A row has two kinds of writers. An edit is a request, served once the assembly has returned:
it writes the row (`WriteRow`) and then invalidates. A renewal (`RenewRow`) writes a token or a
registration into the row and tells the cache nothing: `writeServerToken`, reached from a token
replacement, a reauthorization and a refresh, and `stampRegistration`. `row` counts the writes,
`edited` is the version the last edit wrote. Entries age; a cached failure older than `ErrorRetry` is no answer any more.

## 3. Runs

| Run | Checks | Bounds |
|---|---|---|
| `run_manager` | `EventStreamsClose`, `UnsubscribeHitsOwnStream`, `CancelHitsItsRun`, `DrainLeavesNoneRunning`, `ImplementsRunSlots` | 1 session, 2 runs, 2 viewers |
| `run_manager_live` | `OnlyLateTaskStreamsStay`, `CancelFreesSession`, `SubscribersDrainToEOF` | 1 run, 1 viewer per lane |
| `gateway_queue` | `EachTurnOnce`, `OnlyReturnsExceedDepth`, `CardIsLive`, `ImplementsTurnBook` | 2 messages, 1 foreign run, 2 presses, depth 1, 3 legs per turn |
| `gateway_queue_stranded` | violation of `QueuedTurnsRun` | 2 messages |
| `work_session` | `HopsCoverRuns`, `BudgetPauseHasCause`, `OnlyOverlapsCoexist`, `ClosedIsTerminal`, `ImplementsLedger` | 2 goroutines, 4 calls, 2 rows, 2 summons per post, budget 2, 1 restart |
| `channel_runs` | `LinksHaveRuns`, `LoneRunKeepsLink`, `RunsActForTheirRoot`, `LonePostContinues` | 2 human posts, 2 agents, 2 submissions or drains at once, depth cap 1, 1 responder |
| `scheduler` | `MarkersAreFires`, `ClaimOnce`, `OnlyEditsEnable`, `ImplementsSingleFlight` | 1 order of either kind, 2 fires, clock to 2, 1 edit, 1 restart |
| `scheduler_live` | `FiresEnd` | 2 orders, 2 fires, claim limit and semaphore 1 |
| `heartbeat` | `StreakAgrees`, `FailuresPause`, `WindowRespected`, `OneTickAtATime` | 2 goroutines used again, a day of 3 hours, one window inside it and one that wraps, pause at 2 failures, trail to 3 |
| `outbox` | `RedeliveryBounded`, `RedeliveryWarned`, `ImplementsAtLeastOnce`, `RowsSettle` | 2 parts, 2 attempts, 1 restart |
| `mcp_manager` | `ClosedOnce`, `NoneLost`, `OneDial`, `EditsTakeEffect`, `WaitersHaveAttempt`, `CallsReturn` | 1 server, 2 calls, 1 edit, 1 renewal, both Closes |
| `mcp_idle` | violation of `IdleOut` | 1 server, 1 call |

Proved and spending no run of their own: the type invariants of all eight models, and
`OneRunPerSession`, `OneFreeNotice` and `RunningRowHasOwner`, each a part of what the refinement
checked in the same run says.

Why the bounds are enough. Sessions of the registry are independent except for the drain, and two
runs on one session are what a turnover needs: the first is being swept while the second wants
to start, and both viewers may watch either. In the queue, two messages and a foreign run let one
turn run, one wait and one overtake; two presses find one card; three legs are two pauses and a
resumed run. A queue filled past its depth by a returned turn needs a third message: that
case is the theorem `DepthHolds`. Four calls on two goroutines of a channel let a
kickoff open a session, one call hold a stale value and two others pause and resume or close it
meanwhile. Two submissions of one agent are a link that is replaced; depth cap 1 makes a chain
end. Two fires of one order are a manual run against a tick, or an occurrence against its
neighbour; one edit covers a read before and a write after a claim; the second order exists for
the liveness run, where two compete for one place. A day of three hours has a window inside it,
one that wraps and all boundaries. Two parts separate what is committed together and sent one by
one; two attempts are a repeat and the last. Two calls of one server are a leader and a waiter, or
a call against its successor; an edit and a renewal write the row in either order, before, between
and after their reads; servers share nothing but the janitor and Close.

Deadlock is not checked: runs, messages and calls are bounded instances, and a system that has
used them up is finished.

### What the code does not give

Two runs end in a violation; `PROJECT.json` quotes what they contradict under `findings`.

- `QueuedTurnsRun`: the run in the way ends between the conflict and the enqueue; its drain finds
  an empty queue, and the parked turn waits for a turn that may never come, although its
  acknowledgement says it runs next.
- `IdleOut`: `assembleServerRuntime` defers the manager's `Close`, so the janitor has stopped
  before the server listens, and no connection idles out.

Further statements of the documentation are written down in the modules, have no run, and do not
hold. Each can be checked by naming it in a cfg.

- `RunManager!UnsubscribeIsolation` (runner.go:1707): subscription ids restart in every run and
  Unsubscribe finds the run by session; a viewer that leaves after a turnover closes somebody
  else's stream on the next run.
- `RunManager!TaskStreamsClose` (runmanager.go:127): a task viewer that passed the `done` test
  registers with a hub that was already closed, and its stream stays open. What does hold is
  `OnlyLateTaskStreamsStay`: no other task stream outlives its run, and none of the viewers that
  came in time is missed, whoever leaves meanwhile.
- `GatewayQueue!TurnsRefusedWhilePending` (approvals.go:72): the pending test comes before the
  run, and the card is recorded after the paused run has freed the session.
- `WorkSession!OneActiveSession` (work_sessions.go:101): two kickoffs take their snapshots before
  either commits; both insert. What does hold is `OnlyOverlapsCoexist`: two sessions are active at
  once only if their INSERTs ran at the same time; no restart, close or resume makes a second one.
- `WorkSession!OpenIsWatched` (channel-teams/spec.md:60): a human post resumes a paused session
  and fails to insert its message; the timer was cancelled by the pause and nobody arms it.
- `ChannelRuns!PostContinues` (fanout.go:161-164): the run of an agent that was summoned again
  posts after its link was replaced or removed, and starts or continues another chain.
- `Scheduler!OccurrenceOnce` (scheduler/spec.md:45): an edit writes back the row it read before a
  claim, and the occurrence is claimed again.
- `Scheduler!NoOverlap`: the watchdog releases the marker while the agent's run goes on.
- `Heartbeat!EditsKeepStreak`: an edit that overlaps an outcome writes the old streak back.
- `McpManager!CacheIsCurrent` (manager.go:310, "Called on every mutating config write"): a token
  replacement (services/connections.go:963), a reauthorization and a refresh
  (connections_oauth.go:475 and :758) and a registration (handlers/mcp_oauth.go:401) write the row
  that a connection was dialed from and never call `Invalidate`, so a connection in steady use
  keeps the token it was dialed with. What does hold is `EditsTakeEffect`, for the writers that
  invalidate.
- `Outbox!DuplicatesWarned` (telegram-gateway/spec.md:176): the loop repeats what the streamer
  has just shown, without the notice.

Observations made while modelling, which are behaviour and not properties here: two posts of one
chain that run concurrently can each summon an agent the other has summoned, since neither is yet
among the prior authors (agent-channels/spec.md:78 forbids it in sequence); the depth cap admits
one more run per chain than it admits hops; two presses of one card may leave a stale card
pending or clear a newer one; a hit refreshes the age of a cached MCP failure, so a failed server
in steady use is not dialed again; a renewal writes back the whole row it read, over an edit made
since; an `Invalidate` does not reach an attempt under way; waiters
get the failure of a leader whose context was cancelled, and cannot leave before it; a `Close`
forgets attempts under way.

The exceptions inside the properties say the same with precision. `BudgetPauseHasCause` excuses a
human's resume between the refused hop and the pause; `CardIsLive` a turn resumed by two presses;
`ClaimOnce` an edit that wrote the row between the claims, for a recurring order only one that a
claim overtook between its look at the clock and its write; `StreakAgrees` an outcome lost between its
two statements; `NoneLost` and `OneDial` a server whose attempt a `Close` forgot; `EditsTakeEffect`
a call that read before the edit and stored after the invalidation, and it is not about renewals.

## 4. Fairness

Safety runs use `Spec` without fairness. Each `FairSpec` assumes only what goroutines, timers and
tickers do on their own; nobody must write, press, watch, cancel, edit or ask.

| Module | Weakly fair | Why the code justifies it |
|---|---|---|
| `RunManager` | unwinding after a cancelled context, closing, sweeping, deregistering, timers, the middle of a viewer's call | model and tool calls take the context; everything else is straight-line code. A turn is not obliged to end by itself |
| `GatewayQueue` | each turn's next step, a run's last event and its unwinding, each drain and press that has begun | goroutines that block on nothing but the run. With this, `QueuedTurnsRun` fails on the interleaving and not for lack of progress |
| `Scheduler` | each fire's next step, the watchdog among them | the watchdog is a timer; the agent's run owes nothing |
| `Outbox` | the poll, the working through of a batch, time until a row is due; strongly fair: recording an outcome, which may fail any finite number of times | the loop's ticker, the back-off, and a store that is not down for ever |
| `McpManager` | each call's next step, the clock, the janitor, the assembly's return, what a Close has begun | the connect timeout bounds a dial; the janitor has a ticker |

`WorkSession`, `ChannelRuns` and `Heartbeat` are checked for safety only.

## 5. Proofs

Each proof module extends the module of its name and proves, for all values of the constants
under the named assumptions of that module (positive bounds, names that differ, nothing else),
every invariant, action property and refinement its runs check, and its type correctness. All
follow one plan: an invariant `Inv` that contains the properties and what makes them inductive,
one lemma per action or per conjunct, and a temporal theorem per property. A refinement has one
lemma for what leaves the abstract variables alone, one per abstract action, and one that maps
each step. The invariants were model-checked first.

| Module | Theorems (property) |
|---|---|
| `RunManagerProofs` | `TypeCorrect`, `OneRun` (`OneRunPerSession`), `StreamsClose` (`EventStreamsClose`), `OnlyLatecomersStay` (`OnlyLateTaskStreamsStay`), `HitsOwnStream` (`UnsubscribeHitsOwnStream`), `CancelIsExact` (`CancelHitsItsRun`), `DrainIsComplete` (`DrainLeavesNoneRunning`), `Implementation` (`ImplementsRunSlots`) |
| `GatewayQueueProofs` | `TypeCorrect`, `TurnsOnce` (`EachTurnOnce`), `DepthHolds` (`OnlyReturnsExceedDepth`), `CardsLive` (`CardIsLive`), `KeepsTurnBook` (`ImplementsTurnBook`) |
| `WorkSessionProofs` | `TypeCorrect`, `HopsAreExact` (`HopsCoverRuns`), `NoticeIsFreeOnce` (`OneFreeNotice`), `BudgetPausesHaveCause` (`BudgetPauseHasCause`), `ClosedStaysClosed` (`ClosedIsTerminal`), `LosersInsertNothing` (`OnlyOverlapsCoexist`), `KeepsLedger` (`ImplementsLedger`) |
| `ChannelRunsProofs` | `TypeCorrect`, `LinksFollowRuns` (`LinksHaveRuns`), `LoneLinkStays` (`LoneRunKeepsLink`), `RunsActForRoots` (`RunsActForTheirRoot`), `LonePostsContinue` (`LonePostContinues`) |
| `SchedulerProofs` | `TypeCorrect`, `MarkersExact` (`MarkersAreFires`), `ClaimedOnce` (`ClaimOnce`), `RunningRowsOwned` (`RunningRowHasOwner`), `EditsEnable` (`OnlyEditsEnable`), `KeepsSingleFlight` (`ImplementsSingleFlight`) |
| `HeartbeatProofs` | `TypeCorrect`, `StreakCounts` (`StreakAgrees`), `FailuresDoPause` (`FailuresPause`), `WindowKept` (`WindowRespected`), `OneTick` (`OneTickAtATime`) |
| `OutboxProofs` | `TypeCorrect`, `BoundedRedelivery` (`RedeliveryBounded`), `WarnedRedelivery` (`RedeliveryWarned`), `Refines` (`ImplementsAtLeastOnce`) |
| `McpManagerProofs` | `TypeCorrect`, `ClosesOnce` (`ClosedOnce`), `NoneGetsLost` (`NoneLost`), `AttemptsShared` (`OneDial`), `EditsDropOldRows` (`EditsTakeEffect`), `WaitersAreWoken` (`WaitersHaveAttempt`) |

What the invariants add to the properties, and why it is needed:

- `RunManager`: none of its properties is inductive. `Registered`: a run is in the registry, under
  its own key, from start until it is gone; the sweep and `CloseSubscribers` find runs by key, so
  this is what makes them find the right one. `ClosingWindows`: a run has streams to close only in
  its two closing windows, and no event stream is registered after the sweep. `ViewersAttached`,
  `StreamsTracked`: an open stream of either lane is registered, or taken out by the run or a
  consumer, which turns "nobody left it open" into a statement each step can preserve.
  `LatecomersOnly`: what is registered with a hub that was swept came late; the registration tests
  nothing, so this needs the moment of the sweep and not a flag of the hub. `UniqueIds` and
  `CancelDrain` are the same for ids, timers and the drain's snapshot.
- `GatewayQueue`: `QueueInv` alone carries the queue. A live card needs `CardInv`: legs begin in
  order (`LegsBegin`), each is drained once and only the latest leg presents (`DrainsFollow`), a
  press holds a card that was presented and a run it alone started (`PressesHold`, `RunsDiffer`),
  and a card whose leg was superseded was answered (`CardsAnswered`). The refinement adds
  `RunsHold`: a run that is on holds the session, which no property of the queue needs, and
  `TurnBook` does, because there only the holder ends.
- `WorkSession`: hops and notices count calls in flight, so the steps need lemmas on how
  cardinalities change with one call (`InFlightOneMore`, `InFlightOneLess`). `Fresh`: a stamped
  row has one inserting call. `Exhausting`: who is about to pause for a spent budget is right or
  too late. `Notices`: an open session has one free notice to spare; `Watching`:
  only sessions that exist have timers or await one at boot. `Coexist` is `OnlyOverlapsCoexist` for the inserts still under way: each of them overlaps with every active
  session, and with each other; a snapshot that saw no session is what makes it true when the
  insert begins. `SessionLedger` follows from `Inv`.
- `ChannelRuns`: every message and run acts for its chain's root (`RunsAreKnown`, `PostsAreSound`,
  `Vouched`), a submission holds a run of its own (`SubmitsHoldRuns`), and the post of a lone run
  continues its chain from its lookup on (`LonePosts`).
- `Scheduler`: `ClaimOnce` is about the past of a row. `ClaimsBehind` keeps what makes it true in
  the row itself: a row that nobody wrote since a claim is disabled or due after it. `Overtakings`
  is the half for recurring orders: every claim of theirs lies in the past of the clock and behind
  the row, and `EditAhead` says that an edit which no claim has overtaken will write a time after
  all of them. `NextAgrees`: enabled rows have a next fire time, also those an edit has computed.
  `SingleFlight` needs `Recorded` (an open record has a fire that can still close it) and
  `Unopened` (a fire that has not begun has no record).
- `Heartbeat`: the streak and the run rows agree only between ticks. `MarkerHeld`: one tick at a
  time; `Counted`: it knows the outcome by which they differ; `LongStreakAsked`: a long streak is
  explained also while an outcome is being applied; `Judged`: the hour was judged against the
  window the tick is recorded with.
- `Outbox`: `PartOK` per part (an uncommitted part has no row and was never sent by the loop; one
  that the loop holds is not dead; its claim is counted before its send), `Committing` and
  `Truthful` (who is about to record a delivery has seen one). The refinement maps each action to
  `Settle`, `See` or a stutter.
- `McpManager`: `Homes`: every open connection is in one place, with its dialer, in the cache or
  with one closer. `Single`: an attempt's server has no entry and no other attempt. `Judged`: an
  attempt made from a row edited since has an edit to come that will see to it, or is excused;
  `Known` adds that an edit's version is one the row has had, whatever renewals came later. `Shared`: what the manager
  has in flight for a server is a call that dials for it, so who joins waits for a dialing call and
  goes on doing so when a `Close` forgets the attempt.

Out of the prover's reach, and only model-checked: liveness (`CancelFreesSession`,
`SubscribersDrainToEOF`, `FiresEnd`, `RowsSettle`, `CallsReturn`), and the violations.

## 6. Not modelled, and why

- What a turn does (prompts, tools, transcripts) is an arbitrary delay with an arbitrary end:
  nothing in the modelled parts depends on more. Agent hooks are visible as a blocked prompt.
- Task records, their cursors and the notification pump decide what a lossy stream carries; every
  viewer reads the records again when it reconnects.
- Gateway lifecycle: `Sync` swaps a map of adapters under one lock. The list it applies is read
  before the lock, so of two concurrent syncs the older may win until the next one; there is no
  more state to check than that. Adapters are platform I/O.
- Loop guard and circuit breaker: a message may be dropped before it becomes a turn; their
  windows are arithmetic on times.
- The turn ingest worker drops a job when its queue is full, and loses nothing by it: consumers
  read the session's raw events from a cursor of their own, under one lock per session.
- Memory (gister, gate, consolidator, search) and skill curation: what they compute is decided by
  model calls, and no modelled part reads their rows.
- Webhooks: a delivery id is recorded before its job is queued. An `Enqueue` that overlaps
  `Close` can send on a closed channel; both are a few lines and only meet at shutdown.
- MCP dialing, credentials, probes and tool calls: an attempt succeeds or fails. What is renewed in
  a row, and why, is left out; that it is written, and the cache not told, is modelled.
- The heartbeat's digest and its report, the scheduler's cron parsing and its delivery text.
- Channel and member upkeep, mention parsing, the decider's answer, chains that cross the start
  of a work session.
- Rendering, validation, encoding, permission checks, OAuth, API keys, HTTP routing and the
  OpenAI-compatible facade are request-local. Create, read, update and delete of teams, skills,
  prompts, references and attachments are single statements.
- Store statements appear where a component uses them, as one atomic step or as the transaction
  the code writes. The in-memory store is a test double.
- Providers, object storage, observability and the web app are outside the process or pure I/O.

These parts are most of the repository's lines; the models cover the part of it in which
goroutines, rows and restarts meet. `PROJECT.json` lists every part with its status and reason.
