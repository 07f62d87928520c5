---------------------------- MODULE McpManager ----------------------------
(***************************************************************************)
(* The cache of MCP connections (src/internal/agents/mcp/manager.go): one  *)
(* entry per server, dialed by the first call that misses, shared by the   *)
(* calls that come meanwhile, dropped by the idle janitor, by the handlers *)
(* that edit a server's row, and by Close, which the composition root      *)
(* calls twice: deferred when the assembly returns, and at the exit.  The  *)
(* writers of tokens and registrations change the row a connection was     *)
(* dialed from as well, and drop nothing.                                  *)
(*                                                                         *)
(* A connection is named after the call that dialed it.  An entry's age is *)
(* the time since it was last used, up to the first age past the idle TTL; *)
(* a failure is an entry without a connection.  Status only reads, and     *)
(* probes dial for themselves: neither is here.                            *)
(***************************************************************************)
EXTENDS Integers

CONSTANTS Server,     \* keys: the servers of all workspaces
          Call,       \* calls of Tools
          Edit,       \* requests that edit, delete or disconnect a server
          Renewal,    \* writes of a server's token or registration
          ErrorRetry, \* the age at which a failure is no answer any more
          IdleTTL,    \* an entry older than this has expired
          None

ASSUME TimesAssumption == ErrorRetry \in Nat /\ IdleTTL \in Nat

VARIABLES phase,    \* of the process that owns the manager
          janitor,  \* "on" until the janitor has returned
          row,      \* how often a server's row was written
          renewed,  \* the renewals that were written
          edited,   \* history: the version of the row that its last edit wrote
          pc,       \* calls: where they are,
          server,   \*   the server they are for,
          ver,      \*   the version of the row they read,
          lead,     \*   the call whose attempt they share,
          failed,   \*   and whether their own attempt failed
          conn,     \* the connection a call dialed
          entries,  \* the cache
          inflight, \* the call that dials a server
          sweeping, \* connections the janitor took out and has yet to close
          shutting, \* connections Close took out and has yet to close
          edit,     \* edits: where they are,
          target,   \*   the server they write,
          taken,    \*   and the connection they took out
          late,     \* history: calls that an Invalidate of their server overtook
          cut       \* history: calls whose attempt a Close forgot

calls == <<pc, server, ver, lead, failed>>
edits == <<edit, target, taken>>
rows == <<row, renewed, edited>>
cache == <<entries, inflight>>
closers == <<sweeping, shutting>>
vars == <<phase, janitor, rows, calls, conn, cache, closers, edits, late, cut>>

CallPC == {"idle", "asked", "waiting", "dialing", "dialed", "stored", "done"}
EditPC == {"idle", "wrote", "closing", "done"}
Phase == {"assembling", "returning", "serving", "stopping", "stopped"}
Entry == [by : Call, age : 0..IdleTTL + 1]

ASSUME NoneAssumption == None \notin Call \cup Server \cup Entry

Init ==
  /\ phase = "assembling" /\ janitor = "on"
  /\ row = [s \in Server |-> 0]
  /\ renewed = {} /\ edited = [s \in Server |-> 0]
  /\ pc = [c \in Call |-> "idle"]
  /\ server = [c \in Call |-> None]
  /\ ver = [c \in Call |-> 0]
  /\ lead = [c \in Call |-> None]
  /\ failed = [c \in Call |-> FALSE]
  /\ conn = [c \in Call |-> "none"]
  /\ entries = [s \in Server |-> None]
  /\ inflight = [s \in Server |-> None]
  /\ sweeping = {} /\ shutting = {}
  /\ edit = [e \in Edit |-> "idle"]
  /\ target = [e \in Edit |-> None]
  /\ taken = [e \in Edit |-> None]
  /\ late = {} /\ cut = {}

-----------------------------------------------------------------------------
(* Time, and what is done with an entry that was taken out.                 *)

Cached(s) == entries[s] # None
Expired(s) == Cached(s) /\ entries[s].age > IdleTTL

Older(en) ==
  IF en # None /\ en.age =< IdleTTL THEN [by |-> en.by, age |-> en.age + 1] ELSE en

Tick ==
  /\ \E s \in Server : Cached(s) /\ ~Expired(s)
  /\ entries' = [s \in Server |-> Older(entries[s])]
  /\ UNCHANGED <<phase, janitor, rows, calls, conn, inflight, closers, edits, late, cut>>

\* The connections of the entries of some servers: a failure has none.
Connections(S) == {entries[s].by : s \in {t \in S : Cached(t) /\ ~failed[entries[t].by]}}

Shut(c) == conn' = [conn EXCEPT ![c] = IF @ = "open" THEN "closed" ELSE "twice"]

-----------------------------------------------------------------------------
(* Tools.                                                                   *)

\* The caller reads the server's row, and then asks for its tools.
ReadRow(c, s) ==
  /\ pc[c] = "idle"
  /\ phase # "stopped"
  /\ pc' = [pc EXCEPT ![c] = "asked"]
  /\ server' = [server EXCEPT ![c] = s]
  /\ ver' = [ver EXCEPT ![c] = row[s]]
  /\ UNCHANGED <<phase, janitor, rows, lead, failed, conn, cache, closers, edits, late, cut>>

\* Whether what is cached answers a call.
Answers(s) ==
  Cached(s) /\ (failed[entries[s].by] => entries[s].age < ErrorRetry)

Hit(c) ==
  /\ pc[c] = "asked"
  /\ Answers(server[c])
  /\ entries' = [entries EXCEPT ![server[c]] = [by |-> @.by, age |-> 0]]
  /\ pc' = [pc EXCEPT ![c] = "done"]
  /\ UNCHANGED <<phase, janitor, rows, server, ver, lead, failed, conn, inflight,
                 closers, edits, late, cut>>

\* A mutation of Wait: whether the lookup found an attempt is not checked.
WaitUnchecked(c) ==
  /\ pc[c] = "asked"
  /\ ~Answers(server[c])
  /\ entries' = [entries EXCEPT ![server[c]] = None]
  /\ pc' = [pc EXCEPT ![c] = "waiting"]
  /\ lead' = [lead EXCEPT ![c] = inflight[server[c]]]
  /\ UNCHANGED <<phase, janitor, rows, server, ver, failed, conn, inflight,
                 closers, edits, late, cut>>

\* Without an answer the entry, a failure of some age, is dropped, and the
\* call waits for the one that is dialing, or dials.
Wait(c) ==
  /\ pc[c] = "asked"
  /\ ~Answers(server[c]) /\ inflight[server[c]] # None
  /\ entries' = [entries EXCEPT ![server[c]] = None]
  /\ pc' = [pc EXCEPT ![c] = "waiting"]
  /\ lead' = [lead EXCEPT ![c] = inflight[server[c]]]
  /\ UNCHANGED <<phase, janitor, rows, server, ver, failed, conn, inflight,
                 closers, edits, late, cut>>

\* A mutation of Dials: the attempt under way is not looked up.
DialsUnasked(c) ==
  /\ pc[c] = "asked"
  /\ ~Answers(server[c])
  /\ entries' = [entries EXCEPT ![server[c]] = None]
  /\ inflight' = [inflight EXCEPT ![server[c]] = c]
  /\ pc' = [pc EXCEPT ![c] = "dialing"]
  /\ UNCHANGED <<phase, janitor, rows, server, ver, lead, failed, conn, closers,
                 edits, late, cut>>

Dials(c) ==
  /\ pc[c] = "asked"
  /\ ~Answers(server[c]) /\ inflight[server[c]] = None
  /\ entries' = [entries EXCEPT ![server[c]] = None]
  /\ inflight' = [inflight EXCEPT ![server[c]] = c]
  /\ pc' = [pc EXCEPT ![c] = "dialing"]
  /\ UNCHANGED <<phase, janitor, rows, server, ver, lead, failed, conn, closers,
                 edits, late, cut>>

\* connect: a connection, or an error, at the latest when its time is up.
Connect(c) ==
  /\ pc[c] = "dialing"
  /\ pc' = [pc EXCEPT ![c] = "dialed"]
  /\ \/ conn' = [conn EXCEPT ![c] = "open"] /\ UNCHANGED failed
     \/ failed' = [failed EXCEPT ![c] = TRUE] /\ UNCHANGED conn
  /\ UNCHANGED <<phase, janitor, rows, server, ver, lead, cache, closers, edits, late, cut>>

Store(c) ==
  /\ pc[c] = "dialed"
  /\ inflight' = [inflight EXCEPT ![server[c]] = None]
  /\ entries' = [entries EXCEPT ![server[c]] = [by |-> c, age |-> 0]]
  /\ pc' = [pc EXCEPT ![c] = "stored"]
  /\ UNCHANGED <<phase, janitor, rows, server, ver, lead, failed, conn, closers,
                 edits, late, cut>>

\* A mutation of Publish: an error returns before the waiting are told.
PublishSuccess(c) ==
  /\ pc[c] = "stored" /\ ~failed[c]
  /\ pc' = [pc EXCEPT ![c] = "done"]
  /\ UNCHANGED <<phase, janitor, rows, server, ver, lead, failed, conn, cache, closers,
                 edits, late, cut>>

Publish(c) ==
  /\ pc[c] = "stored"
  /\ pc' = [pc EXCEPT ![c] = "done"]
  /\ UNCHANGED <<phase, janitor, rows, server, ver, lead, failed, conn, cache, closers,
                 edits, late, cut>>

Wake(c) ==
  /\ pc[c] = "waiting" /\ pc[lead[c]] = "done"
  /\ pc' = [pc EXCEPT ![c] = "done"]
  /\ UNCHANGED <<phase, janitor, rows, server, ver, lead, failed, conn, cache, closers,
                 edits, late, cut>>

-----------------------------------------------------------------------------
(* The janitor.                                                             *)

\* A mutation of SweepIdle: expired entries are dropped and not closed.
SweepForgets ==
  /\ janitor = "on" /\ sweeping = {}
  /\ \E s \in Server : Expired(s)
  /\ entries' = [s \in Server |-> IF Expired(s) THEN None ELSE entries[s]]
  /\ UNCHANGED <<phase, janitor, rows, calls, conn, inflight, closers, edits, late, cut>>

SweepIdle ==
  /\ janitor = "on" /\ sweeping = {}
  /\ \E s \in Server : Expired(s)
  /\ entries' = [s \in Server |-> IF Expired(s) THEN None ELSE entries[s]]
  /\ sweeping' = Connections({s \in Server : Expired(s)})
  /\ UNCHANGED <<phase, janitor, rows, calls, conn, inflight, shutting, edits, late, cut>>

SweepCloses(c) ==
  /\ c \in sweeping
  /\ sweeping' = sweeping \ {c}
  /\ Shut(c)
  /\ UNCHANGED <<phase, janitor, rows, calls, cache, shutting, edits, late, cut>>

\* The stop channel is closed and the janitor looks at it.
JanitorReturns ==
  /\ janitor = "on" /\ sweeping = {}
  /\ phase # "assembling"
  /\ janitor' = "off"
  /\ UNCHANGED <<phase, rows, calls, conn, cache, closers, edits, late, cut>>

-----------------------------------------------------------------------------
(* Edits, which are requests and so served after the assembly: the row is   *)
(* written, then the entry is dropped and closed.                           *)
(* Renewals: a replaced token, the token of a reauthorization or of a       *)
(* refresh, which a run that is about to read its rows does first, or a     *)
(* fresh registration is written into the row, and the cache is not told.   *)

WriteRow(e, s) ==
  /\ edit[e] = "idle"
  /\ phase \in {"serving", "stopping"}
  /\ edit' = [edit EXCEPT ![e] = "wrote"]
  /\ target' = [target EXCEPT ![e] = s]
  /\ row' = [row EXCEPT ![s] = @ + 1]
  /\ edited' = [edited EXCEPT ![s] = row[s] + 1]
  /\ UNCHANGED <<phase, janitor, renewed, calls, conn, cache, closers, taken, late, cut>>

RenewRow(w, s) ==
  /\ w \notin renewed
  /\ phase # "stopped"
  /\ renewed' = renewed \cup {w}
  /\ row' = [row EXCEPT ![s] = @ + 1]
  /\ UNCHANGED <<phase, janitor, edited, calls, conn, cache, closers, edits, late, cut>>

\* Calls that read the row and whose attempt may still be cached.
UnderWay(s) == {c \in Call : server[c] = s /\ pc[c] \in {"asked", "dialing", "dialed"}}

\* A mutation of Invalidate: the entry is closed and stays in the cache.
InvalidateKeeps(e) ==
  /\ edit[e] = "wrote"
  /\ edit' = [edit EXCEPT ![e] = "closing"]
  /\ LET took == Connections({target[e]}) IN
       taken' = [taken EXCEPT ![e] = IF took = {} THEN None ELSE CHOOSE c \in took : TRUE]
  /\ late' = late \cup UnderWay(target[e])
  /\ UNCHANGED <<phase, janitor, rows, calls, conn, cache, closers, target, cut>>

\* A mutation of Invalidate: the write is answered and nothing is dropped.
InvalidateSkipped(e) ==
  /\ edit[e] = "wrote"
  /\ edit' = [edit EXCEPT ![e] = "done"]
  /\ UNCHANGED <<phase, janitor, rows, calls, conn, cache, closers, target, taken, late, cut>>

Invalidate(e) ==
  /\ edit[e] = "wrote"
  /\ edit' = [edit EXCEPT ![e] = "closing"]
  /\ entries' = [entries EXCEPT ![target[e]] = None]
  /\ taken' = [taken EXCEPT ![e] =
       IF Connections({target[e]}) = {} THEN None ELSE entries[target[e]].by]
  /\ late' = late \cup UnderWay(target[e])
  /\ UNCHANGED <<phase, janitor, rows, calls, conn, inflight, closers, target, cut>>

EditCloses(e) ==
  /\ edit[e] = "closing"
  /\ edit' = [edit EXCEPT ![e] = "done"]
  /\ taken' = [taken EXCEPT ![e] = None]
  /\ IF taken[e] = None THEN UNCHANGED conn ELSE Shut(taken[e])
  /\ UNCHANGED <<phase, janitor, rows, calls, cache, closers, target, late, cut>>

-----------------------------------------------------------------------------
(* Close: both maps are replaced; an attempt under way is forgotten, and    *)
(* goes on.                                                                 *)

Close ==
  /\ shutting' = Connections(Server)
  /\ entries' = [s \in Server |-> None]
  /\ inflight' = [s \in Server |-> None]
  /\ cut' = cut \cup {c \in Call : pc[c] \in {"dialing", "dialed"}}
  /\ UNCHANGED <<janitor, rows, calls, conn, sweeping, edits, late>>

\* The Close that assembleServerRuntime defers runs when it returns.
AssemblyReturns == phase = "assembling" /\ phase' = "returning" /\ Close

\* The Close of the process's exit.
ProcessStops == phase = "serving" /\ phase' = "stopping" /\ Close

ShutCloses(c) ==
  /\ c \in shutting
  /\ shutting' = shutting \ {c}
  /\ Shut(c)
  /\ UNCHANGED <<phase, janitor, rows, calls, cache, sweeping, edits, late, cut>>

\* Close waits for its connections and for the janitor.
CloseReturns ==
  /\ phase \in {"returning", "stopping"}
  /\ shutting = {} /\ janitor = "off"
  /\ phase' = IF phase = "returning" THEN "serving" ELSE "stopped"
  /\ UNCHANGED <<janitor, rows, calls, conn, cache, closers, edits, late, cut>>

-----------------------------------------------------------------------------
CallStep(c) ==
  \/ Hit(c) \/ Wait(c) \/ Dials(c) \/ Connect(c) \/ Store(c) \/ Publish(c) \/ Wake(c)

JanitorStep == SweepIdle \/ (\E c \in Call : SweepCloses(c)) \/ JanitorReturns

CloseGoesOn == AssemblyReturns \/ (\E c \in Call : ShutCloses(c)) \/ CloseReturns

CloseStep == CloseGoesOn \/ ProcessStops

Next ==
  \/ Tick
  \/ \E c \in Call, s \in Server : ReadRow(c, s)
  \/ \E c \in Call : CallStep(c)
  \/ JanitorStep
  \/ \E e \in Edit, s \in Server : WriteRow(e, s)
  \/ \E w \in Renewal, s \in Server : RenewRow(w, s)
  \/ \E e \in Edit : Invalidate(e) \/ EditCloses(e)
  \/ CloseStep

Spec == Init /\ [][Next]_vars

(* Goroutines run on, a dial ends within the connect timeout, the janitor's *)
(* ticker ticks, and the assembly and its Close return.  Nobody has to ask, *)
(* to write or to stop the process.                                        *)
Fairness ==
  /\ \A c \in Call : WF_vars(CallStep(c))
  /\ WF_vars(Tick)
  /\ WF_vars(JanitorStep)
  /\ WF_vars(CloseGoesOn)

FairSpec == Spec /\ Fairness

-----------------------------------------------------------------------------
(* Properties *)

(* Every variable has its type.                                            *)
TypeOK ==
  /\ phase \in Phase /\ janitor \in {"on", "off"}
  /\ row \in [Server -> Nat] /\ edited \in [Server -> Nat]
  /\ renewed \subseteq Renewal
  /\ pc \in [Call -> CallPC]
  /\ server \in [Call -> Server \cup {None}]
  /\ ver \in [Call -> Nat]
  /\ lead \in [Call -> Call \cup {None}]
  /\ failed \in [Call -> BOOLEAN]
  /\ conn \in [Call -> {"none", "open", "closed", "twice"}]
  /\ entries \in [Server -> Entry \cup {None}]
  /\ inflight \in [Server -> Call \cup {None}]
  /\ sweeping \subseteq Call /\ shutting \subseteq Call
  /\ edit \in [Edit -> EditPC]
  /\ target \in [Edit -> Server \cup {None}]
  /\ taken \in [Edit -> Call \cup {None}]
  /\ late \subseteq Call /\ cut \subseteq Call

\* Where the connection of c is: with the call that dialed it, in the cache,
\* or with one of those who took it out to close it.
Dialing(c) == pc[c] \in {"dialing", "dialed"}
InHand(c) == pc[c] = "dialed" /\ ~failed[c]
InCache(c) == \E s \in Server : Cached(s) /\ entries[s].by = c /\ ~failed[c]
TakenBy(c) == {e \in Edit : taken[e] = c}

\* Two attempts for one server need a Close that forgot one of that server.
Forgotten(s) == \E c \in cut : server[c] = s

(* Sweep, Invalidate and Close each take entries out under the lock and    *)
(* close them after it: a connection is closed once, by the one who took   *)
(* it, and what the cache hands out was not closed.                        *)
ClosedOnce ==
  \A c \in Call :
    /\ conn[c] # "twice"
    /\ InCache(c) => conn[c] = "open" /\ c \notin sweeping \cup shutting /\ TakenBy(c) = {}

(* "Every entry's Close reaps stdio child processes and tears down HTTP    *)
(* connections alike" (manager.go:73): no open connection gets lost, unless *)
(* a Close came between a dial of that server and its entry.               *)
NoneLost ==
  \A c \in Call :
    conn[c] = "open" =>
      \/ InHand(c) \/ InCache(c) \/ c \in sweeping \cup shutting \/ TakenBy(c) # {}
      \/ Forgotten(server[c])

(* "concurrent first Gets for the same server share one connection attempt" *)
(* (manager.go:64), unless a Close forgot an attempt for that server.      *)
OneDial ==
  \A c, d \in Call :
    Dialing(c) /\ Dialing(d) /\ server[c] = server[d] => c = d \/ Forgotten(server[c])

(* Whoever shares an attempt (manager.go:241) is woken by it: the record a  *)
(* call found is that of an attempt for its own server whose call does not *)
(* wait itself, and it dials, or is over, also when a Close has forgotten  *)
(* the record or another call has taken its place.                         *)
WaitersHaveAttempt ==
  \A c \in Call : pc[c] = "waiting" =>
    /\ lead[c] \in Call /\ server[lead[c]] = server[c]
    /\ Dialing(lead[c]) \/ pc[lead[c]] \in {"stored", "done"}

(* "config changes take effect immediately" (manager.go:310), for those    *)
(* that call Invalidate: a connection made from a row older than its last  *)
(* edit is cached only until that edit has invalidated it, or when its     *)
(* caller had read the row before and stored it after that.  Renewals that *)
(* come before, between and after the edits change nothing about it.       *)
EditsTakeEffect ==
  \A s \in Server :
    Cached(s) /\ ver[entries[s].by] < edited[s] =>
      \/ entries[s].by \in late
      \/ \E e \in Edit : edit[e] = "wrote" /\ target[e] = s

(* What the comment says of "every mutating config write", renewals too.   *)
(* It does not hold: a connection dialed before a renewal stays cached for *)
(* as long as it is used, with the token it was dialed with.               *)
CacheIsCurrent ==
  \A s \in Server :
    Cached(s) /\ ver[entries[s].by] < row[s] =>
      \/ entries[s].by \in late
      \/ \E e \in Edit : edit[e] = "wrote" /\ target[e] = s

(* Every call returns: the one that dials when its time is up at the       *)
(* latest, those that share the attempt with it, also after a Close.       *)
CallsReturn == \A c \in Call : pc[c] = "asked" ~> pc[c] = "done"

(* "connections idle out after ten minutes of disuse" (manager.go:15): an  *)
(* expired entry is swept, or used again.                                  *)
IdleOut == \A s \in Server : Expired(s) ~> ~Expired(s)
=============================================================================
