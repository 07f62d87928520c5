------------------------- MODULE WorkSessionProofs -------------------------
(***************************************************************************)
(* Safety of WorkSession for every number of calls, sessions and summons   *)
(* and every budget.                                                       *)
(*                                                                         *)
(* Inv adds to the properties: a session is created once, by the call that *)
(* stamped it, and no other call knows it before; a call that found the    *)
(* budget spent is not refuted by the row unless a human resumed it; and   *)
(* an open session still has its next free notice to give.                 *)
(***************************************************************************)
EXTENDS WorkSession, FiniteSetTheorems, TLAPS

Calls == [op : Op, pc : PC, s : 0..MaxSessions, status : Status, left : 0..MaxSummons]

(* A call that stands anywhere but at its beginning has a session, and one *)
(* that summons has somebody left to summon.                               *)
CallOK(x) ==
  /\ x \in Calls
  /\ x.pc \notin {"idle", "checked"} => x.s \in Session
  /\ x.pc \in {"summon", "mint"} => x.left > 0

Types ==
  /\ stamped \in 0..MaxSessions
  /\ rows \in [Session -> [status : Status, reason : Reason, hops : Nat]]
  /\ call \in [Call -> Calls]
  /\ \A c \in Call : CallOK(call[c])
  /\ minted \in [Session -> Nat] /\ notified \in [Session -> Nat]
  /\ resumed \in [Session -> Nat]
  /\ \A s \in Session : rows[s].status = "paused" <=> rows[s].reason # "none"

(* A stamped row is inserted by one call; a row that is not there yet was  *)
(* never touched.                                                          *)
Fresh ==
  /\ \A c \in Call : call[c].pc = "stamped" =>
       /\ rows[call[c].s].status = "none" /\ call[c].s <= stamped
       /\ \A d \in Call : (call[d].pc = "stamped" /\ call[d].s = call[c].s) => c = d
  /\ \A s \in Session : s > stamped => rows[s].status = "none"

Knows(x) == x.pc \notin {"idle", "checked", "stamped"}

Known == \A c \in Call : Knows(call[c]) => rows[call[c].s].status # "none"

Untouched == \A s \in Session : rows[s].status = "none" => notified[s] = 0

Cause(s) == rows[s].hops = Budget \/ resumed[s] > 0

(* A call that is about to pause for a spent budget is right, or too late. *)
Exhausting ==
  \A c \in Call : call[c].pc = "exhaust" =>
    Cause(call[c].s) \/ rows[call[c].s].status # "open"

(* Free notices given and under way; an open session has one to spare. *)
Noticing == {"exhausted", "notify"}
Spare(s) == IF rows[s].status = "open" THEN 1 ELSE 0

Notices ==
  \A s \in Session : notified[s] + InFlight(s, Noticing) + Spare(s) <= resumed[s] + 1

Inv ==
  /\ Types
  /\ Fresh
  /\ Known
  /\ Untouched
  /\ Exhausting
  /\ HopsCoverRuns
  /\ Notices
  /\ BudgetPauseHasCause

(* The variables that no other conjunct mentions; a timer watches a row    *)
(* that exists.                                                            *)
Watching ==
  /\ watch \in [Session -> {"off", "armed", "fired"}]
  /\ begun \in 0..MaxCalls
  /\ boot \in [restarts : 0..MaxRestarts, phase : {"up", "scan"}, todo : SUBSET Session]
  /\ \A s \in Session : watch[s] # "off" \/ s \in boot.todo => rows[s].status # "none"

-----------------------------------------------------------------------------
(* Counting calls *)

In(x, s, pcs) == x.s = s /\ x.pc \in pcs
Those(f, s, pcs) == {c \in Call : f[c].s = s /\ f[c].pc \in pcs}

(* How the number of calls at some places changes with one call. *)
LEMMA InFlightStep ==
  ASSUME call \in [Call -> Calls], NEW c \in Call, NEW y \in Calls,
         call' = [call EXCEPT ![c] = y], NEW s \in Session, NEW pcs
  PROVE  /\ InFlight(s, pcs) \in Nat /\ InFlight(s, pcs)' \in Nat
         /\ (In(y, s, pcs) <=> In(call[c], s, pcs)) => InFlight(s, pcs)' = InFlight(s, pcs)
         /\ (In(y, s, pcs) /\ ~In(call[c], s, pcs)) => InFlight(s, pcs)' = InFlight(s, pcs) + 1
         /\ (~In(y, s, pcs) /\ In(call[c], s, pcs)) => InFlight(s, pcs) = InFlight(s, pcs)' + 1
<1> DEFINE A == Those(call, s, pcs)
           B == Those(call', s, pcs)
<1>1. IsFiniteSet(A) /\ IsFiniteSet(B)
  BY CallAssumption, FS_Subset DEF Those
<1>2. InFlight(s, pcs) = Cardinality(A) /\ InFlight(s, pcs)' = Cardinality(B)
  BY DEF InFlight, Those
<1>3. Cardinality(A) \in Nat /\ Cardinality(B) \in Nat
  BY <1>1, FS_CardinalityType
<1>4. /\ c \in A <=> In(call[c], s, pcs)
      /\ c \in B <=> In(y, s, pcs)
      /\ \A d \in Call : d # c => (d \in A <=> d \in B)
      /\ A \subseteq Call /\ B \subseteq Call
  BY DEF Those, In
<1> HIDE DEF A, B
<1>5. CASE In(y, s, pcs) <=> In(call[c], s, pcs)
  <2>1. A = B
    BY <1>4, <1>5
  <2> QED
    BY <1>2, <1>3, <1>5, <2>1
<1>6. CASE In(y, s, pcs) /\ ~In(call[c], s, pcs)
  <2>1. B = A \cup {c} /\ c \notin A
    BY <1>4, <1>6
  <2>2. Cardinality(B) = Cardinality(A) + 1
    BY <1>1, <2>1, FS_AddElement
  <2> QED
    BY <1>2, <1>3, <1>6, <2>2
<1>7. CASE ~In(y, s, pcs) /\ In(call[c], s, pcs)
  <2>1. A = B \cup {c} /\ c \notin B
    BY <1>4, <1>7
  <2>2. Cardinality(A) = Cardinality(B) + 1
    BY <1>1, <2>1, FS_AddElement
  <2> QED
    BY <1>2, <1>3, <1>7, <2>2
<1> QED
  BY <1>5, <1>6, <1>7

LEMMA InFlightNoMore ==
  ASSUME call \in [Call -> Calls], NEW c \in Call, NEW y \in Calls,
         call' = [call EXCEPT ![c] = y], NEW s \in Session, NEW pcs,
         In(y, s, pcs) => In(call[c], s, pcs)
  PROVE  /\ InFlight(s, pcs) \in Nat /\ InFlight(s, pcs)' \in Nat
         /\ InFlight(s, pcs)' <= InFlight(s, pcs)
<1> DEFINE a == InFlight(s, pcs)
           b == InFlight(s, pcs)'
<1>1. /\ a \in Nat /\ b \in Nat
      /\ (In(y, s, pcs) <=> In(call[c], s, pcs)) => b = a
      /\ (~In(y, s, pcs) /\ In(call[c], s, pcs)) => a = b + 1
  BY InFlightStep, ZenonT(60)
<1> HIDE DEF a, b
<1>2. b = a \/ a = b + 1
  BY <1>1, Zenon
<1>3. a \in Nat /\ b \in Nat /\ b <= a
  BY <1>1, <1>2
<1> QED
  BY <1>3 DEF a, b

LEMMA InFlightOneMore ==
  ASSUME call \in [Call -> Calls], NEW c \in Call, NEW y \in Calls,
         call' = [call EXCEPT ![c] = y], NEW s \in Session, NEW pcs,
         ~In(call[c], s, pcs)
  PROVE  /\ InFlight(s, pcs) \in Nat /\ InFlight(s, pcs)' \in Nat
         /\ \/ InFlight(s, pcs)' = InFlight(s, pcs)
            \/ InFlight(s, pcs)' = InFlight(s, pcs) + 1 /\ In(y, s, pcs)
<1> DEFINE a == InFlight(s, pcs)
           b == InFlight(s, pcs)'
<1>1. /\ a \in Nat /\ b \in Nat
      /\ (In(y, s, pcs) <=> In(call[c], s, pcs)) => b = a
      /\ (In(y, s, pcs) /\ ~In(call[c], s, pcs)) => b = a + 1
  BY InFlightStep
<1> HIDE DEF a, b
<1>2. b = a \/ (b = a + 1 /\ In(y, s, pcs))
  BY <1>1, Zenon
<1> QED
  BY <1>1, <1>2, Zenon DEF a, b

LEMMA InFlightOneLess ==
  ASSUME call \in [Call -> Calls], NEW c \in Call, NEW y \in Calls,
         call' = [call EXCEPT ![c] = y], NEW s \in Session, NEW pcs,
         In(call[c], s, pcs), ~In(y, s, pcs)
  PROVE  /\ InFlight(s, pcs) \in Nat /\ InFlight(s, pcs)' \in Nat
         /\ InFlight(s, pcs)' + 1 <= InFlight(s, pcs)
<1> DEFINE a == InFlight(s, pcs)
           b == InFlight(s, pcs)'
<1>1. /\ a \in Nat /\ b \in Nat
      /\ (~In(y, s, pcs) /\ In(call[c], s, pcs)) => a = b + 1
  BY InFlightStep
<1> HIDE DEF a, b
<1>2. a = b + 1
  BY <1>1, Zenon
<1>3. a \in Nat /\ b \in Nat /\ b + 1 <= a
  BY <1>1, <1>2
<1> QED
  BY <1>3 DEF a, b

(* No call, nobody in flight. *)
LEMMA InFlightNone ==
  ASSUME NEW s \in Session, NEW pcs, \A c \in Call : ~In(call[c], s, pcs)
  PROVE  InFlight(s, pcs) = 0
<1>1. {c \in Call : call[c].s = s /\ call[c].pc \in pcs} = {}
  BY DEF In
<1> QED
  BY <1>1, FS_EmptySet DEF InFlight

-----------------------------------------------------------------------------
(* Where a summons leaves its call *)

LEMMA EndingShape ==
  ASSUME NEW x \in Calls, x.s \in Session
  PROVE  /\ CallOK(Ending(x))
         /\ Ending(x).pc \in {"rearm", "idle"}
         /\ Ending(x).pc # "idle" => Ending(x).s = x.s
<1>1. CallOK(NoCall) /\ NoCall.pc = "idle"
  BY BoundsAssumption DEF CallOK, NoCall, Calls, Op, PC, Status
<1>2. LET y == [x EXCEPT !.pc = "rearm"]
      IN CallOK(y) /\ y.pc = "rearm" /\ y.s = x.s
  BY DEF CallOK, Calls, PC
<1> QED
  BY <1>1, <1>2 DEF Ending

LEMMA SummoningShape ==
  ASSUME NEW x \in Calls, x.s \in Session, NEW status \in Status, NEW n \in 0..MaxSummons
  PROVE  /\ CallOK(Summoning(x, status, n))
         /\ Summoning(x, status, n).pc \in {"summon", "rearm", "idle"}
         /\ Summoning(x, status, n).pc # "idle" => Summoning(x, status, n).s = x.s
<1> DEFINE y == [x EXCEPT !.status = status, !.left = n]
           z == [y EXCEPT !.pc = "summon"]
<1>1. y \in Calls /\ y.s = x.s /\ y.left = n
  BY DEF Calls
<1>2. ASSUME n # 0
      PROVE CallOK(z) /\ z.pc = "summon" /\ z.s = x.s
  <2> HIDE DEF y
  <2> QED
    BY <1>1, <1>2, BoundsAssumption DEF CallOK, Calls, PC
<1>3. /\ CallOK(Ending(y))
      /\ Ending(y).pc \in {"rearm", "idle"}
      /\ Ending(y).pc # "idle" => Ending(y).s = x.s
  <2> HIDE DEF y
  <2> QED
    BY <1>1, EndingShape
<1>4. Summoning(x, status, n) = IF n = 0 THEN Ending(y) ELSE z
  BY DEF Summoning
<1> HIDE DEF y, z
<1> QED
  BY <1>2, <1>3, <1>4

LEMMA NoCallShape == CallOK(NoCall) /\ NoCall.pc = "idle" /\ NoCall.s = 0
  BY BoundsAssumption DEF CallOK, NoCall, Calls, Op, PC, Status

-----------------------------------------------------------------------------
(* The call moves on, the rows and the counts stay *)

LEMMA Quiet ==
  ASSUME Inv, NEW c \in Call, NEW y, CallOK(y),
         call' = [call EXCEPT ![c] = y],
         UNCHANGED <<stamped, rows, minted, notified, resumed>>,
         y.pc \notin {"stamped", "mint"},
         y.pc \in Noticing => call[c].pc \in Noticing /\ y.s = call[c].s,
         y.pc = "exhaust" => Cause(y.s) \/ rows[y.s].status # "open",
         Knows(y) => rows[y.s].status # "none"
  PROVE  Inv'
<1>1. call \in [Call -> Calls] /\ y \in Calls /\ call' \in [Call -> Calls]
  BY DEF Inv, Types, CallOK
<1>2. \A d \in Call : call'[d] = IF d = c THEN y ELSE call[d]
  BY <1>1
<1>3. Types'
  BY <1>1, <1>2 DEF Inv, Types, CallOK
<1>4. Fresh'
  BY <1>2 DEF Inv, Fresh
<1>5. Known' /\ Untouched'
  BY <1>2 DEF Inv, Known, Untouched, Knows
<1>6. Exhausting'
  BY <1>2 DEF Inv, Exhausting, Cause
<1>7. HopsCoverRuns'
  <2> SUFFICES ASSUME NEW s \in Session
               PROVE  minted'[s] + InFlight(s, {"mint"})' <= rows'[s].hops
                      /\ rows'[s].hops <= Budget
    BY DEF HopsCoverRuns
  <2>1. ~In(y, s, {"mint"})
    BY DEF In
  <2>2. /\ InFlight(s, {"mint"}) \in Nat /\ InFlight(s, {"mint"})' \in Nat
        /\ InFlight(s, {"mint"})' <= InFlight(s, {"mint"})
    BY <1>1, <2>1, InFlightNoMore
  <2> QED
    BY <2>2, BudgetAssumption DEF Inv, HopsCoverRuns, Types
<1>8. Notices'
  <2> SUFFICES ASSUME NEW s \in Session
               PROVE  notified'[s] + InFlight(s, Noticing)' + Spare(s)' <= resumed'[s] + 1
    BY DEF Notices
  <2>1. In(y, s, Noticing) => In(call[c], s, Noticing)
    BY DEF In
  <2>2. /\ InFlight(s, Noticing) \in Nat /\ InFlight(s, Noticing)' \in Nat
        /\ InFlight(s, Noticing)' <= InFlight(s, Noticing)
    BY <1>1, <2>1, InFlightNoMore
  <2> QED
    BY <2>2 DEF Inv, Notices, Types, Spare
<1>9. BudgetPauseHasCause'
  BY DEF Inv, BudgetPauseHasCause
<1> QED
  BY <1>3, <1>4, <1>5, <1>6, <1>7, <1>8, <1>9 DEF Inv

-----------------------------------------------------------------------------
(* The row of a session that exists changes with the call *)

LEMMA RowStep ==
  ASSUME Inv, NEW c \in Call, NEW y, CallOK(y),
         call' = [call EXCEPT ![c] = y],
         NEW s \in Session, rows[s].status # "none",
         NEW r \in [status : Status, reason : Reason, hops : Nat],
         rows' = [rows EXCEPT ![s] = r],
         r.status # "none", r.status = "paused" <=> r.reason # "none",
         NEW k \in {0, 1}, resumed' = [resumed EXCEPT ![s] = @ + k],
         UNCHANGED <<stamped, minted, notified>>,
         call[c].pc \notin {"stamped", "mint"} \cup Noticing,
         y.pc \notin {"stamped", "exhaust"},
         Knows(y) => y.s = s,
         rows[s].hops <= r.hops, r.hops <= Budget,
         y.pc = "mint" => r.hops = rows[s].hops + 1,
         y.pc \in Noticing => rows[s].status = "open" /\ r.status # "open",
         (r.status = "open" /\ rows[s].status # "open") => k = 1,
         r.reason = "budget-exhausted" => r.hops = Budget \/ resumed[s] + k > 0
  PROVE  Inv'
<1>1. call \in [Call -> Calls] /\ y \in Calls /\ call' \in [Call -> Calls]
  BY DEF Inv, Types, CallOK
<1>2. \A d \in Call : call'[d] = IF d = c THEN y ELSE call[d]
  BY <1>1
<1>3. \A u \in Session : /\ rows'[u] = IF u = s THEN r ELSE rows[u]
                         /\ resumed'[u] = IF u = s THEN resumed[u] + k ELSE resumed[u]
                         /\ resumed[u] \in Nat /\ rows[u].hops \in Nat
                         /\ minted[u] \in Nat /\ notified[u] \in Nat
  BY DEF Inv, Types
<1>4. Types'
  BY <1>1, <1>2, <1>3 DEF Inv, Types, CallOK
<1>5. \A d \in Call : (Knows(call[d]) \/ call[d].pc = "stamped") => call[d].s \in Session
  BY DEF Inv, Types, CallOK, Knows
<1>6. Fresh'
  <2>1. ASSUME NEW d \in Call, call'[d].pc = "stamped"
        PROVE /\ d # c /\ call'[d] = call[d] /\ rows[call[d].s].status = "none"
              /\ call[d].s # s /\ call[d].s <= stamped /\ call[d].s \in Session
    BY <1>2, <1>5, <2>1 DEF Inv, Fresh
  <2>2. \A u \in Session : u > stamped => u # s
    BY DEF Inv, Fresh
  <2> QED
    BY <1>2, <1>3, <2>1, <2>2 DEF Inv, Fresh
<1>7. Known'
  BY <1>2, <1>3, <1>5 DEF Inv, Known, Knows, Types, CallOK
<1>8. Untouched'
  BY <1>3 DEF Inv, Untouched
<1>9. Exhausting'
  <2> SUFFICES ASSUME NEW d \in Call, call'[d].pc = "exhaust"
               PROVE  \/ rows'[call'[d].s].hops = Budget \/ resumed'[call'[d].s] > 0
                      \/ rows'[call'[d].s].status # "open"
    BY DEF Exhausting, Cause
  <2>1. d # c /\ call'[d] = call[d] /\ call[d].s \in Session
    BY <1>2, <1>5 DEF Knows
  <2> DEFINE u == call[d].s
  <2>2. Cause(u) \/ rows[u].status # "open"
    BY <2>1 DEF Inv, Exhausting
  <2>3. (rows'[u].hops = Budget \/ resumed'[u] > 0) \/ rows'[u].status # "open"
    <3>1. CASE u = s
      BY <1>3, <2>1, <2>2, <3>1, BudgetAssumption DEF Cause
    <3>2. CASE u # s
      BY <1>3, <2>1, <2>2, <3>2 DEF Cause
    <3> QED
      BY <3>1, <3>2
  <2> QED
    BY <2>1, <2>3
<1>10. HopsCoverRuns'
  <2> SUFFICES ASSUME NEW u \in Session
               PROVE  minted'[u] + InFlight(u, {"mint"})' <= rows'[u].hops
                      /\ rows'[u].hops <= Budget
    BY DEF HopsCoverRuns
  <2> DEFINE a == InFlight(u, {"mint"})
             b == InFlight(u, {"mint"})'
  <2>1. minted[u] + a <= rows[u].hops /\ rows[u].hops <= Budget
    BY DEF Inv, HopsCoverRuns
  <2>2. ~In(call[c], u, {"mint"})
    BY DEF In
  <2>3. In(y, u, {"mint"}) => u = s /\ r.hops = rows[s].hops + 1
    BY DEF In, Knows
  <2>4. /\ a \in Nat /\ b \in Nat
        /\ b = a \/ (b = a + 1 /\ In(y, u, {"mint"}))
    BY <1>1, <2>2, InFlightOneMore
  <2> HIDE DEF a, b
  <2>5. b = a \/ (b = a + 1 /\ u = s /\ r.hops = rows[s].hops + 1)
    BY <2>3, <2>4, Zenon
  <2>6. minted'[u] + b <= rows'[u].hops /\ rows'[u].hops <= Budget
    BY <1>3, <2>1, <2>4, <2>5, BudgetAssumption
  <2> QED
    BY <2>6 DEF b
<1>11. Notices'
  <2> SUFFICES ASSUME NEW u \in Session
               PROVE  notified'[u] + InFlight(u, Noticing)' + Spare(u)' <= resumed'[u] + 1
    BY DEF Notices
  <2> DEFINE a == InFlight(u, Noticing)
             b == InFlight(u, Noticing)'
  <2>1. notified[u] + a + Spare(u) <= resumed[u] + 1
    BY DEF Inv, Notices
  <2>2. ~In(call[c], u, Noticing)
    BY DEF In
  <2>3. In(y, u, Noticing) => u = s /\ rows[s].status = "open" /\ r.status # "open"
    BY DEF In, Knows, Noticing
  <2>4. /\ a \in Nat /\ b \in Nat
        /\ b = a \/ (b = a + 1 /\ In(y, u, Noticing))
    BY <1>1, <2>2, InFlightOneMore
  <2> HIDE DEF a, b
  <2>5. b = a \/ (b = a + 1 /\ u = s /\ rows[s].status = "open" /\ r.status # "open")
    BY <2>3, <2>4, Zenon
  <2>6. notified'[u] + b + (IF rows'[u].status = "open" THEN 1 ELSE 0) <= resumed'[u] + 1
    BY <1>3, <2>1, <2>4, <2>5 DEF Spare
  <2> QED
    BY <2>6 DEF b, Spare
<1>12. BudgetPauseHasCause'
  BY <1>3 DEF Inv, BudgetPauseHasCause
<1> QED
  BY <1>4, <1>6, <1>7, <1>8, <1>9, <1>10, <1>11, <1>12 DEF Inv

-----------------------------------------------------------------------------
(* The actions *)

(* What the invariant says of one call. *)
LEMMA CallFacts ==
  ASSUME Inv, NEW c \in Call
  PROVE  /\ call[c] \in Calls
         /\ call[c].pc \notin {"idle", "checked"} => call[c].s \in Session
         /\ Knows(call[c]) => rows[call[c].s].status # "none"
         /\ call[c].pc \in {"summon", "mint"} => call[c].left \in 1..MaxSummons
BY BoundsAssumption DEF Inv, Types, CallOK, Known, Calls

LEMMA RowFacts ==
  ASSUME Inv, NEW s \in Session
  PROVE  /\ rows[s] \in [status : Status, reason : Reason, hops : Nat]
         /\ rows[s].hops <= Budget /\ resumed[s] \in Nat
         /\ rows[s].status = "paused" <=> rows[s].reason # "none"
<1>1. /\ rows[s] \in [status : Status, reason : Reason, hops : Nat]
      /\ resumed[s] \in Nat
      /\ rows[s].status = "paused" <=> rows[s].reason # "none"
  BY DEF Inv, Types
<1>2. rows[s].hops <= Budget
  BY DEF Inv, HopsCoverRuns
<1> QED
  BY <1>1, <1>2

(* A call that ends, or goes where nothing is counted. *)
LEMMA ReturnStep ==
  ASSUME Inv, NEW c \in Call, Return(c),
         UNCHANGED <<stamped, rows, minted, notified, resumed>>
  PROVE  Inv'
<1>1. CallOK(NoCall) /\ NoCall.pc = "idle" /\ NoCall.s = 0
  BY NoCallShape
<1>2. call' = [call EXCEPT ![c] = NoCall]
  BY DEF Return
<1>3. NoCall.pc \notin Noticing /\ ~Knows(NoCall)
  BY <1>1 DEF Noticing, Knows
<1> QED
  BY <1>1, <1>2, <1>3, Quiet

LEMMA GotoStep ==
  ASSUME Inv, NEW c \in Call, NEW p \in PC \ {"stamped", "mint", "summon", "idle", "checked"},
         Goto(c, p), Knows(call[c]),
         p \in Noticing => call[c].pc \in Noticing,
         p = "exhaust" => Cause(call[c].s) \/ rows[call[c].s].status # "open",
         UNCHANGED <<stamped, rows, minted, notified, resumed>>
  PROVE  Inv'
<1> DEFINE y == [call[c] EXCEPT !.pc = p]
<1>1. /\ call[c] \in Calls /\ call[c].s \in Session
      /\ rows[call[c].s].status # "none"
  BY CallFacts DEF Knows
<1>2. CallOK(y) /\ y.pc = p /\ y.s = call[c].s
  BY <1>1 DEF CallOK, Calls
<1>3. call' = [call EXCEPT ![c] = y]
  BY DEF Goto
<1> HIDE DEF y
<1> QED
  BY <1>1, <1>2, <1>3, Quiet

(* A call that summons, or is done with its summons. *)
LEMMA SummonStep ==
  ASSUME Inv, NEW c \in Call, NEW y, CallOK(y),
         call' = [call EXCEPT ![c] = y],
         y.pc \in {"summon", "rearm", "idle"}, y.pc # "idle" => y.s = call[c].s,
         Knows(call[c]),
         UNCHANGED <<stamped, rows, minted, notified, resumed>>
  PROVE  Inv'
<1>1. rows[call[c].s].status # "none"
  BY CallFacts
<1>2. Knows(y) => y.s = call[c].s
  BY DEF Knows
<1> QED
  BY <1>1, <1>2, Quiet DEF Noticing

LEMMA KickoffStep ==
  ASSUME Inv, NEW c \in Call, Kickoff(c)
  PROVE  Inv'
<1> DEFINE y == [NoCall EXCEPT !.op = "kickoff", !.pc = "checked"]
<1>1. CallOK(y) /\ y.pc = "checked"
  BY NoCallShape DEF CallOK, Calls, Op, PC
<1>2. call' = [call EXCEPT ![c] = y]
  <2>1. call[c] = NoCall /\ c \in DOMAIN call
    BY DEF Kickoff, Begins, Inv, Types
  <2>2. call' = [call EXCEPT ![c].op = "kickoff", ![c].pc = "checked"]
    BY DEF Kickoff
  <2> QED
    BY <2>1, <2>2 DEF NoCall
<1>3. UNCHANGED <<stamped, rows, minted, notified, resumed>>
  BY DEF Kickoff, runs
<1> HIDE DEF y
<1>4. ~Knows(y) /\ y.pc \notin Noticing
  BY <1>1 DEF Knows, Noticing
<1> QED
  BY <1>1, <1>2, <1>3, <1>4, Quiet

LEMMA PostStep ==
  ASSUME Inv, NEW c \in Call, Post(c)
  PROVE  Inv'
<1>1. PICK s \in Lookup, op \in {"human", "agent"} :
        call' = [call EXCEPT
          ![c] = IF s = 0 THEN NoCall
                 ELSE [op |-> op, s |-> s, status |-> rows[s].status, left |-> 0,
                       pc |-> IF op = "human" /\ rows[s].status = "paused"
                              THEN "resume" ELSE "persist"]]
  BY DEF Post
<1>2. UNCHANGED <<stamped, rows, minted, notified, resumed>>
  BY DEF Post, runs
<1>3. CASE s = 0
  BY <1>1, <1>2, <1>3, ReturnStep DEF Return
<1>4. CASE s # 0
  <2> DEFINE p == IF op = "human" /\ rows[s].status = "paused" THEN "resume" ELSE "persist"
             y == [op |-> op, s |-> s, status |-> rows[s].status, left |-> 0, pc |-> p]
  <2>1. s \in Session /\ rows[s].status \in {"open", "paused"}
    BY <1>4 DEF Lookup, Active
  <2>2. p \in {"resume", "persist"}
    OBVIOUS
  <2>3. call' = [call EXCEPT ![c] = y]
    BY <1>1, <1>4
  <2> HIDE DEF p
  <2>4. CallOK(y) /\ y.s = s /\ y.pc = p
    BY <2>1, <2>2, BoundsAssumption DEF CallOK, Calls, Op, PC, Status, Session
  <2> HIDE DEF y
  <2>5. y.pc \notin Noticing \cup {"stamped", "mint", "exhaust"}
    BY <2>2, <2>4 DEF Noticing
  <2> QED
    BY <1>2, <2>1, <2>3, <2>4, <2>5, Quiet
<1> QED
  BY <1>3, <1>4

LEMMA StampStep ==
  ASSUME Inv, NEW c \in Call, Stamp(c)
  PROVE  Inv'
<1>1. call[c].pc = "checked" /\ UNCHANGED <<rows, minted, notified, resumed>>
  BY DEF Stamp, NoneActive, At, runs
<1>2. /\ stamped' = stamped + 1 /\ stamped' \in Session /\ stamped \in Nat
      /\ stamped' \in 0..MaxSessions
  BY BoundsAssumption DEF Stamp, NoneActive, Session, Inv, Types
<1> DEFINE y == IF Active = {} THEN [call[c] EXCEPT !.s = stamped', !.pc = "stamped"]
                ELSE NoCall
<1>3. call' = [call EXCEPT ![c] = y]
  BY DEF Stamp, NoneActive, Return
<1>4. /\ CallOK(y) /\ y.pc \in {"stamped", "idle"}
      /\ y.pc = "stamped" => y.s = stamped'
  <2>1. call[c] \in Calls
    BY CallFacts
  <2>2. CallOK([call[c] EXCEPT !.s = stamped', !.pc = "stamped"])
    BY <1>2, <2>1 DEF CallOK, Calls, PC
  <2>3. LET z == [call[c] EXCEPT !.s = stamped', !.pc = "stamped"]
        IN z.pc = "stamped" /\ z.s = stamped'
    BY <2>1 DEF Calls
  <2> QED
    BY <2>2, <2>3, NoCallShape
<1> HIDE DEF y
<1>5. call \in [Call -> Calls] /\ y \in Calls /\ call' \in [Call -> Calls]
  BY <1>3, <1>4 DEF Inv, Types, CallOK
<1>6. \A d \in Call : call'[d] = IF d = c THEN y ELSE call[d]
  BY <1>3, <1>5
<1>7. Types'
  BY <1>1, <1>2, <1>4, <1>5, <1>6 DEF Inv, Types, CallOK
<1>8. rows[stamped'].status = "none"
  BY <1>2 DEF Inv, Fresh
<1>9. \A d \in Call : call[d].pc = "stamped" => call[d].s \in Session /\ call[d].s # stamped'
  <2> TAKE d \in Call
  <2>1. call[d].s \in 0..MaxSessions
    BY <1>5 DEF Calls
  <2> QED
    BY <1>2, <2>1, BoundsAssumption DEF Inv, Types, CallOK, Fresh
<1>10. Fresh'
  <2>1. ASSUME NEW d \in Call, call'[d].pc = "stamped"
        PROVE /\ rows[call'[d].s].status = "none" /\ call'[d].s <= stamped'
              /\ \A e \in Call : (call'[e].pc = "stamped" /\ call'[e].s = call'[d].s) => d = e
    <3>1. CASE d = c
      BY <1>2, <1>4, <1>6, <1>8, <1>9, <2>1, <3>1
    <3>2. CASE d # c
      <4>1. call'[d] = call[d] /\ call[d].s \in Session
        BY <1>6, <1>9, <2>1, <3>2
      <4>2. call[d].s <= stamped /\ rows[call[d].s].status = "none"
        BY <2>1, <4>1 DEF Inv, Fresh
      <4>3. ASSUME NEW e \in Call, call'[e].pc = "stamped", call'[e].s = call[d].s
            PROVE  d = e
        BY <1>4, <1>6, <1>9, <2>1, <4>1, <4>3 DEF Inv, Fresh
      <4> QED
        BY <1>2, <4>1, <4>2, <4>3, BoundsAssumption DEF Session
    <3> QED
      BY <3>1, <3>2
  <2>2. \A s \in Session : s > stamped' => rows[s].status = "none"
    BY <1>2, BoundsAssumption DEF Inv, Fresh, Session
  <2> QED
    BY <1>1, <2>1, <2>2 DEF Fresh
<1>11. Known' /\ Untouched' /\ Exhausting'
  BY <1>1, <1>4, <1>6 DEF Inv, Known, Untouched, Exhausting, Cause, Knows
<1>12. ASSUME NEW s \in Session, NEW pcs, y.pc \notin pcs
       PROVE  /\ InFlight(s, pcs) \in Nat /\ InFlight(s, pcs)' \in Nat
              /\ InFlight(s, pcs)' <= InFlight(s, pcs)
  BY <1>3, <1>5, <1>12, InFlightNoMore DEF In
<1>13. HopsCoverRuns'
  <2> SUFFICES ASSUME NEW s \in Session
               PROVE  minted'[s] + InFlight(s, {"mint"})' <= rows'[s].hops
                      /\ rows'[s].hops <= Budget
    BY DEF HopsCoverRuns
  <2>1. /\ InFlight(s, {"mint"}) \in Nat /\ InFlight(s, {"mint"})' \in Nat
        /\ InFlight(s, {"mint"})' <= InFlight(s, {"mint"})
    BY <1>4, <1>12
  <2> QED
    BY <1>1, <2>1, BudgetAssumption DEF Inv, HopsCoverRuns, Types
<1>14. Notices'
  <2> SUFFICES ASSUME NEW s \in Session
               PROVE  notified'[s] + InFlight(s, Noticing)' + Spare(s)' <= resumed'[s] + 1
    BY DEF Notices
  <2>1. y.pc \notin Noticing
    BY <1>4 DEF Noticing
  <2>2. /\ InFlight(s, Noticing) \in Nat /\ InFlight(s, Noticing)' \in Nat
        /\ InFlight(s, Noticing)' <= InFlight(s, Noticing)
    BY <1>12, <2>1
  <2> QED
    BY <1>1, <2>2 DEF Inv, Notices, Types, Spare
<1>15. BudgetPauseHasCause'
  BY <1>1 DEF Inv, BudgetPauseHasCause
<1> QED
  BY <1>7, <1>10, <1>11, <1>13, <1>14, <1>15 DEF Inv

LEMMA CreateStep ==
  ASSUME Inv, NEW c \in Call, Create(c)
  PROVE  Inv'
<1>1. call[c].pc = "stamped" /\ UNCHANGED <<stamped, minted, notified, resumed>>
  BY DEF Create, At, runs
<1>2. CASE Return(c) /\ UNCHANGED rows
  BY <1>1, <1>2, ReturnStep
<1>3. ASSUME NEW n \in {0, 1},
             rows' = [rows EXCEPT ![call[c].s].status = "open"],
             call' = [call EXCEPT ![c] = Summoning(call[c], "open", n)]
      PROVE  Inv'
  <2> DEFINE s == call[c].s
             y == Summoning(call[c], "open", n)
  <2>1. call[c] \in Calls /\ s \in Session /\ n \in 0..MaxSummons
    BY <1>1, CallFacts, BoundsAssumption
  <2>2. /\ CallOK(y)
        /\ y.pc \in {"summon", "rearm", "idle"}
        /\ y.pc # "idle" => y.s = s
    BY <2>1, SummoningShape DEF Status
  <2>3. rows[s].status = "none" /\ s <= stamped
    BY <1>1 DEF Inv, Fresh
  <2>4. call' = [call EXCEPT ![c] = y]
    BY <1>3
  <2>5. rows' = [rows EXCEPT ![s] = [rows[s] EXCEPT !.status = "open"]]
    BY <1>3
  <2>6. \A d \in Call : d # c =>
          /\ call[d].pc = "stamped" => call[d].s # s
          /\ Knows(call[d]) => call[d].s # s
    BY <1>1, <2>3 DEF Inv, Fresh, Known
  <2> HIDE DEF s, y
  <2>7. call \in [Call -> Calls] /\ y \in Calls /\ call' \in [Call -> Calls]
    BY <2>2, <2>4 DEF Inv, Types, CallOK
  <2>8. \A d \in Call : call'[d] = IF d = c THEN y ELSE call[d]
    BY <2>4, <2>7
  <2>9. /\ rows[s].reason = "none" /\ notified[s] = 0
        /\ rows[s] \in [status : Status, reason : Reason, hops : Nat]
    BY <2>1, <2>3 DEF Inv, Types, Untouched
  <2>10. /\ rows'[s].status = "open" /\ rows'[s].reason = "none"
         /\ rows'[s].hops = rows[s].hops
         /\ rows'[s] \in [status : Status, reason : Reason, hops : Nat]
         /\ rows' \in [Session -> [status : Status, reason : Reason, hops : Nat]]
         /\ \A u \in Session : u # s => rows'[u] = rows[u]
    BY <2>1, <2>5, <2>9 DEF Inv, Types, Status
  <2>11. Types'
    BY <1>1, <2>2, <2>7, <2>8, <2>10 DEF Inv, Types
  <2>12. Fresh'
    <3>1. \A d \in Call : call'[d].pc = "stamped" =>
            d # c /\ call'[d] = call[d] /\ call[d].s # s /\ call[d].s \in Session
      BY <2>2, <2>6, <2>8 DEF Inv, Types, CallOK
    <3>2. \A u \in Session : u > stamped => u # s
      BY <2>1, <2>3 DEF Session, Inv, Types
    <3> QED
      BY <1>1, <2>8, <2>10, <3>1, <3>2 DEF Inv, Fresh
  <2>13. \A d \in Call : Knows(call'[d]) =>
           \/ d = c /\ call'[d].s = s
           \/ d # c /\ call'[d] = call[d] /\ call[d].s # s /\ call[d].s \in Session
    BY <2>2, <2>6, <2>8 DEF Inv, Types, CallOK, Knows
  <2>14. Known'
    BY <2>8, <2>10, <2>13 DEF Inv, Known, Knows
  <2>15. Untouched'
    BY <1>1, <2>10 DEF Inv, Untouched
  <2>16. Exhausting'
    <3> SUFFICES ASSUME NEW d \in Call, call'[d].pc = "exhaust"
                 PROVE  \/ rows'[call'[d].s].hops = Budget \/ resumed'[call'[d].s] > 0
                        \/ rows'[call'[d].s].status # "open"
      BY DEF Exhausting, Cause
    <3>1. d # c /\ call'[d] = call[d] /\ rows'[call[d].s] = rows[call[d].s]
      BY <2>2, <2>8, <2>10, <2>13 DEF Knows
    <3> QED
      BY <1>1, <3>1 DEF Inv, Exhausting, Cause
  <2>17. HopsCoverRuns'
    <3> SUFFICES ASSUME NEW u \in Session
                 PROVE  minted'[u] + InFlight(u, {"mint"})' <= rows'[u].hops
                        /\ rows'[u].hops <= Budget
      BY DEF HopsCoverRuns
    <3>1. /\ InFlight(u, {"mint"}) \in Nat /\ InFlight(u, {"mint"})' \in Nat
          /\ InFlight(u, {"mint"})' <= InFlight(u, {"mint"})
      <4>1. ~In(y, u, {"mint"})
        BY <2>2 DEF In
      <4> QED
        BY <2>4, <2>7, <4>1, InFlightNoMore
    <3>2. rows'[u].hops = rows[u].hops
      BY <2>10
    <3> QED
      BY <1>1, <3>1, <3>2, BudgetAssumption DEF Inv, HopsCoverRuns, Types
  <2>18. Notices'
    <3> SUFFICES ASSUME NEW u \in Session
                 PROVE  notified'[u] + InFlight(u, Noticing)' + Spare(u)' <= resumed'[u] + 1
      BY DEF Notices
    <3>1. ~In(y, u, Noticing)
      BY <2>2 DEF In, Noticing
    <3>2. /\ InFlight(u, Noticing) \in Nat /\ InFlight(u, Noticing)' \in Nat
          /\ InFlight(u, Noticing)' <= InFlight(u, Noticing)
      BY <2>4, <2>7, <3>1, InFlightNoMore
    <3>3. CASE u = s
      <4>1. \A d \in Call : ~In(call[d], s, Noticing)
        BY <1>1, <2>6 DEF In, Noticing, Knows
      <4>2. InFlight(s, Noticing) = 0
        BY <2>1, <4>1, InFlightNone
      <4>3. resumed[u] \in Nat /\ resumed'[u] = resumed[u] /\ notified'[u] = 0
        BY <1>1, <2>1, <2>9, <3>3 DEF Inv, Types
      <4>4. InFlight(u, Noticing)' = 0
        BY <3>2, <3>3, <4>2
      <4>5. Spare(u)' = 1
        BY <2>10, <3>3 DEF Spare
      <4> QED
        BY <4>3, <4>4, <4>5
    <3>4. CASE u # s
      BY <1>1, <2>10, <3>2, <3>4 DEF Inv, Notices, Types, Spare
    <3> QED
      BY <3>3, <3>4
  <2>19. BudgetPauseHasCause'
    BY <1>1, <2>10 DEF Inv, BudgetPauseHasCause
  <2> QED
    BY <2>11, <2>12, <2>14, <2>15, <2>16, <2>17, <2>18, <2>19 DEF Inv
<1> QED
  BY <1>2, <1>3 DEF Create

(* What a row becomes in the store's statements. *)
LEMMA PauseShape ==
  ASSUME Inv, NEW s \in Session, NEW reason \in Reason \ {"none"}, Pause(s, reason)
  PROVE  \E r \in [status : Status, reason : Reason, hops : Nat] :
           /\ rows' = [rows EXCEPT ![s] = r]
           /\ r.status = "paused" /\ r.reason = reason /\ r.hops = rows[s].hops
<1> DEFINE r == [rows[s] EXCEPT !.status = "paused", !.reason = reason]
<1>1. rows[s] \in [status : Status, reason : Reason, hops : Nat] /\ s \in DOMAIN rows
  BY DEF Inv, Types
<1>2. rows' = [rows EXCEPT ![s] = r]
  BY <1>1 DEF Pause
<1>3. /\ r \in [status : Status, reason : Reason, hops : Nat]
      /\ r.status = "paused" /\ r.reason = reason /\ r.hops = rows[s].hops
  BY <1>1 DEF Status
<1> QED
  BY <1>2, <1>3

LEMMA ReopenShape ==
  ASSUME Inv, NEW s \in Session, Reopen(s)
  PROVE  \E r \in [status : Status, reason : Reason, hops : Nat] :
           /\ rows' = [rows EXCEPT ![s] = r]
           /\ r.status = "open" /\ r.reason = "none" /\ r.hops = rows[s].hops
<1> DEFINE r == [rows[s] EXCEPT !.status = "open", !.reason = "none"]
<1>1. rows[s] \in [status : Status, reason : Reason, hops : Nat] /\ s \in DOMAIN rows
  BY DEF Inv, Types
<1>2. rows' = [rows EXCEPT ![s] = r]
  BY <1>1 DEF Reopen
<1>3. /\ r \in [status : Status, reason : Reason, hops : Nat]
      /\ r.status = "open" /\ r.reason = "none" /\ r.hops = rows[s].hops
  BY <1>1 DEF Status, Reason
<1> QED
  BY <1>2, <1>3

LEMMA SameResumed ==
  ASSUME Inv, NEW s \in Session, UNCHANGED resumed
  PROVE  resumed' = [resumed EXCEPT ![s] = @ + 0]
BY DEF Inv, Types

LEMMA ResumeStep ==
  ASSUME Inv, NEW c \in Call, Resume(c)
  PROVE  Inv'
<1> DEFINE s == call[c].s
           y == [call[c] EXCEPT !.status = "open", !.pc = "persist"]
<1>1. call[c].pc = "resume" /\ UNCHANGED <<stamped, minted, notified>>
  BY DEF Resume, At, runs
<1>2. /\ call[c] \in Calls /\ s \in Session /\ c \in DOMAIN call
      /\ rows[s].status # "none" /\ Knows(call[c])
  BY <1>1, CallFacts DEF Knows, Inv, Types
<1>3. CallOK(y) /\ y.pc = "persist" /\ y.s = s
  BY <1>2 DEF CallOK, Calls, PC, Status
<1>4. CASE /\ CanResume(s) /\ Reopen(s)
           /\ resumed' = [resumed EXCEPT ![s] = @ + 1]
           /\ call' = [call EXCEPT ![c].status = "open", ![c].pc = "persist"]
  <2>1. call' = [call EXCEPT ![c] = y]
    BY <1>2, <1>4
  <2>2. PICK r \in [status : Status, reason : Reason, hops : Nat] :
          /\ rows' = [rows EXCEPT ![s] = r]
          /\ r.status = "open" /\ r.reason = "none" /\ r.hops = rows[s].hops
    BY <1>2, <1>4, ReopenShape
  <2>3. rows[s].hops \in Nat /\ rows[s].hops <= Budget /\ resumed[s] \in Nat
    BY <1>2, RowFacts
  <2> HIDE DEF s, y
  <2>4. y.pc \notin Noticing
    BY <1>3 DEF Noticing
  <2>5. call[c].pc \notin {"stamped", "mint"} \cup Noticing
    BY <1>1 DEF Noticing
  <2>6. resumed' = [resumed EXCEPT ![s] = @ + 1] /\ 1 \in {0, 1}
    BY <1>4
  <2>7. /\ r.status # "none" /\ (r.status = "paused" <=> r.reason # "none")
        /\ y.pc \notin {"stamped", "exhaust"} /\ (Knows(y) => y.s = s)
        /\ rows[s].hops <= r.hops /\ r.hops <= Budget
        /\ y.pc = "mint" => r.hops = rows[s].hops + 1
        /\ y.pc \in Noticing => rows[s].status = "open" /\ r.status # "open"
        /\ (r.status = "open" /\ rows[s].status # "open") => 1 = 1
        /\ r.reason = "budget-exhausted" => r.hops = Budget \/ resumed[s] + 1 > 0
    BY <1>3, <2>2, <2>3, <2>4, BudgetAssumption
  <2> QED
    BY <1>1, <1>2, <1>3, <2>1, <2>2, <2>5, <2>6, <2>7, RowStep
<1>5. CASE /\ rows[s].status = "open"
           /\ call' = [call EXCEPT ![c].status = "open", ![c].pc = "persist"]
           /\ UNCHANGED <<rows, resumed>>
  <2>1. call' = [call EXCEPT ![c] = y]
    BY <1>2, <1>5
  <2> HIDE DEF s, y
  <2> QED
    BY <1>1, <1>2, <1>3, <1>5, <2>1, Quiet DEF Noticing
<1>6. CASE Goto(c, "persist") /\ UNCHANGED <<rows, resumed>>
  BY <1>1, <1>2, <1>6, GotoStep DEF Noticing, PC
<1> QED
  BY <1>4, <1>5, <1>6 DEF Resume

LEMMA PersistStep ==
  ASSUME Inv, NEW c \in Call, Persist(c)
  PROVE  Inv'
<1>1. call[c].pc = "persist" /\ UNCHANGED <<stamped, rows, minted, notified, resumed>>
  BY DEF Persist, At, runs
<1>2. call[c] \in Calls /\ call[c].s \in Session /\ Knows(call[c])
  BY <1>1, CallFacts DEF Knows
<1>3. CASE Return(c)
  BY <1>1, <1>3, ReturnStep
<1>4. CASE Goto(c, "gate")
  BY <1>1, <1>2, <1>4, GotoStep DEF Noticing, PC
<1>5. ASSUME NEW n \in 0..MaxSummons,
             call' = [call EXCEPT ![c] = Summoning(call[c], call[c].status, n)]
      PROVE  Inv'
  <2> DEFINE y == Summoning(call[c], call[c].status, n)
  <2>1. /\ CallOK(y) /\ y.pc \in {"summon", "rearm", "idle"}
        /\ y.pc # "idle" => y.s = call[c].s
    BY <1>2, SummoningShape DEF Calls
  <2>2. call' = [call EXCEPT ![c] = y]
    BY <1>5
  <2> HIDE DEF y
  <2> QED
    BY <1>1, <1>2, <2>1, <2>2, SummonStep
<1> QED
  BY <1>3, <1>4, <1>5 DEF Persist

LEMMA GateStep ==
  ASSUME Inv, NEW c \in Call, Gate(c)
  PROVE  Inv'
<1> DEFINE s == call[c].s
           y == [call[c] EXCEPT !.pc = "disarm"]
<1>1. call[c].pc = "gate" /\ UNCHANGED <<stamped, minted, notified, resumed>>
  BY DEF Gate, At, runs
<1>2. /\ call[c] \in Calls /\ s \in Session
      /\ rows[s].status # "none" /\ Knows(call[c])
  BY <1>1, CallFacts DEF Knows
<1>3. CASE CanPause(s) /\ Pause(s, "awaiting-human") /\ Goto(c, "disarm")
  <2>1. CallOK(y) /\ y.pc = "disarm" /\ y.s = s
    BY <1>2 DEF CallOK, Calls, PC
  <2>2. call' = [call EXCEPT ![c] = y]
    BY <1>3 DEF Goto
  <2>3. PICK r \in [status : Status, reason : Reason, hops : Nat] :
          /\ rows' = [rows EXCEPT ![s] = r]
          /\ r.status = "paused" /\ r.reason = "awaiting-human" /\ r.hops = rows[s].hops
    BY <1>2, <1>3, PauseShape DEF Reason
  <2>4. rows[s].hops \in Nat /\ rows[s].hops <= Budget /\ resumed[s] \in Nat
    BY <1>2, RowFacts
  <2>5. resumed' = [resumed EXCEPT ![s] = @ + 0] /\ 0 \in {0, 1}
    BY <1>1, <1>2, SameResumed
  <2> HIDE DEF s, y
  <2>6. y.pc \notin Noticing /\ call[c].pc \notin {"stamped", "mint"} \cup Noticing
    BY <1>1, <2>1 DEF Noticing
  <2>7. /\ r.status # "none" /\ (r.status = "paused" <=> r.reason # "none")
        /\ y.pc \notin {"stamped", "exhaust"} /\ (Knows(y) => y.s = s)
        /\ rows[s].hops <= r.hops /\ r.hops <= Budget
        /\ y.pc = "mint" => r.hops = rows[s].hops + 1
        /\ y.pc \in Noticing => rows[s].status = "open" /\ r.status # "open"
        /\ (r.status = "open" /\ rows[s].status # "open") => 0 = 1
        /\ r.reason = "budget-exhausted" => r.hops = Budget \/ resumed[s] + 0 > 0
    BY <2>1, <2>3, <2>4, <2>6, BudgetAssumption
  <2> QED
    BY <1>1, <1>2, <2>1, <2>2, <2>3, <2>5, <2>6, <2>7, RowStep
<1>4. CASE Goto(c, "rearm") /\ UNCHANGED rows
  BY <1>1, <1>2, <1>4, GotoStep DEF Noticing, PC
<1> QED
  BY <1>3, <1>4 DEF Gate

LEMMA BillStep ==
  ASSUME Inv, NEW c \in Call, Bill(c)
  PROVE  Inv'
<1> DEFINE s == call[c].s
           y == [call[c] EXCEPT !.pc = "mint"]
           r == [rows[s] EXCEPT !.hops = rows[s].hops + 1]
<1>1. call[c].pc = "summon" /\ UNCHANGED <<stamped, minted, notified, resumed>>
  BY DEF Bill, At, runs
<1>2. /\ call[c] \in Calls /\ s \in Session /\ call[c].left \in 1..MaxSummons
      /\ rows[s].status # "none" /\ Knows(call[c])
  BY <1>1, CallFacts DEF Knows
<1>3. /\ rows[s] \in [status : Status, reason : Reason, hops : Nat]
      /\ rows[s].hops <= Budget /\ resumed[s] \in Nat
      /\ rows[s].status = "paused" <=> rows[s].reason # "none"
  BY <1>2, RowFacts
<1>4. CASE CanBill(s) /\ rows' = [rows EXCEPT ![s].hops = @ + 1] /\ Goto(c, "mint")
  <2>1. CallOK(y) /\ y.pc = "mint" /\ y.s = s
    BY <1>2 DEF CallOK, Calls, PC
  <2>2. call' = [call EXCEPT ![c] = y]
    BY <1>4 DEF Goto
  <2>3. rows' = [rows EXCEPT ![s] = r]
    BY <1>4
  <2>4. /\ r \in [status : Status, reason : Reason, hops : Nat]
        /\ r.status = "open" /\ rows[s].status = "open"
        /\ r.reason = rows[s].reason /\ r.hops = rows[s].hops + 1
        /\ r.hops <= Budget
    BY <1>3, <1>4, BudgetAssumption DEF CanBill
  <2>5. resumed' = [resumed EXCEPT ![s] = @ + 0] /\ 0 \in {0, 1}
    BY <1>1, <1>2, SameResumed
  <2> HIDE DEF s, y, r
  <2>6. y.pc \notin Noticing /\ call[c].pc \notin {"stamped", "mint"} \cup Noticing
    BY <1>1, <2>1 DEF Noticing
  <2>7. /\ r.status # "none" /\ (r.status = "paused" <=> r.reason # "none")
        /\ y.pc \notin {"stamped", "exhaust"} /\ (Knows(y) => y.s = s)
        /\ rows[s].hops <= r.hops /\ r.hops <= Budget
        /\ y.pc = "mint" => r.hops = rows[s].hops + 1
        /\ y.pc \in Noticing => rows[s].status = "open" /\ r.status # "open"
        /\ (r.status = "open" /\ rows[s].status # "open") => 0 = 1
        /\ r.reason = "budget-exhausted" => r.hops = Budget \/ resumed[s] + 0 > 0
    BY <1>3, <2>1, <2>4, <2>6, BudgetAssumption
  <2> QED
    BY <1>1, <1>2, <2>1, <2>2, <2>3, <2>4, <2>5, <2>6, <2>7, RowStep
<1>5. CASE MayExhaust(s) /\ Goto(c, "exhaust") /\ UNCHANGED rows
  <2>1. Cause(s) \/ rows[s].status # "open"
    BY <1>3, <1>5, BudgetAssumption DEF MayExhaust, CanBill, Cause
  <2> QED
    BY <1>1, <1>2, <1>5, <2>1, GotoStep DEF Noticing, PC
<1>6. CASE call' = [call EXCEPT ![c] = Ending(call[c])] /\ UNCHANGED rows
  <2>1. /\ CallOK(Ending(call[c]))
        /\ Ending(call[c]).pc \in {"summon", "rearm", "idle"}
        /\ Ending(call[c]).pc # "idle" => Ending(call[c]).s = call[c].s
    BY <1>2, EndingShape
  <2> QED
    BY <1>1, <1>2, <1>6, <2>1, SummonStep
<1> QED
  BY <1>4, <1>5, <1>6 DEF Bill

LEMMA ExhaustStep ==
  ASSUME Inv, NEW c \in Call, Exhaust(c)
  PROVE  Inv'
<1> DEFINE s == call[c].s
           y == [call[c] EXCEPT !.pc = "exhausted"]
<1>1. call[c].pc = "exhaust" /\ UNCHANGED <<stamped, minted, notified, resumed>>
  BY DEF Exhaust, At, runs
<1>2. /\ call[c] \in Calls /\ s \in Session
      /\ rows[s].status # "none" /\ Knows(call[c])
  BY <1>1, CallFacts DEF Knows
<1>3. Cause(s) \/ rows[s].status # "open"
  BY <1>1 DEF Inv, Exhausting
<1>4. CASE CanPause(s) /\ Pause(s, "budget-exhausted") /\ Goto(c, "exhausted")
  <2>1. CallOK(y) /\ y.pc = "exhausted" /\ y.s = s
    BY <1>2 DEF CallOK, Calls, PC
  <2>2. call' = [call EXCEPT ![c] = y]
    BY <1>4 DEF Goto
  <2>3. PICK r \in [status : Status, reason : Reason, hops : Nat] :
          /\ rows' = [rows EXCEPT ![s] = r]
          /\ r.status = "paused" /\ r.reason = "budget-exhausted" /\ r.hops = rows[s].hops
    BY <1>2, <1>4, PauseShape DEF Reason
  <2>4. rows[s].hops \in Nat /\ rows[s].hops <= Budget /\ resumed[s] \in Nat
    BY <1>2, RowFacts
  <2>5. resumed' = [resumed EXCEPT ![s] = @ + 0] /\ 0 \in {0, 1}
    BY <1>1, <1>2, SameResumed
  <2>6. rows[s].status = "open" /\ Cause(s)
    BY <1>3, <1>4 DEF CanPause
  <2> HIDE DEF s, y
  <2>7. call[c].pc \notin {"stamped", "mint"} \cup Noticing
    BY <1>1 DEF Noticing
  <2>8. /\ r.status # "none" /\ (r.status = "paused" <=> r.reason # "none")
        /\ y.pc \notin {"stamped", "exhaust"} /\ (Knows(y) => y.s = s)
        /\ rows[s].hops <= r.hops /\ r.hops <= Budget
        /\ y.pc = "mint" => r.hops = rows[s].hops + 1
        /\ y.pc \in Noticing => rows[s].status = "open" /\ r.status # "open"
        /\ (r.status = "open" /\ rows[s].status # "open") => 0 = 1
        /\ r.reason = "budget-exhausted" => r.hops = Budget \/ resumed[s] + 0 > 0
    BY <2>1, <2>3, <2>4, <2>6, BudgetAssumption DEF Cause
  <2> QED
    BY <1>1, <1>2, <2>1, <2>2, <2>3, <2>5, <2>7, <2>8, RowStep
<1>5. CASE call' = [call EXCEPT ![c] = Ending(call[c])] /\ UNCHANGED rows
  <2>1. /\ CallOK(Ending(call[c]))
        /\ Ending(call[c]).pc \in {"summon", "rearm", "idle"}
        /\ Ending(call[c]).pc # "idle" => Ending(call[c]).s = call[c].s
    BY <1>2, EndingShape
  <2> QED
    BY <1>1, <1>2, <1>5, <2>1, SummonStep
<1> QED
  BY <1>4, <1>5 DEF Exhaust

LEMMA CloseStep ==
  ASSUME Inv, NEW c \in Call, Close(c)
  PROVE  Inv'
<1> DEFINE s == call[c].s
           y == [call[c] EXCEPT !.pc = "disarm"]
           r == [rows[s] EXCEPT !.status = "closed", !.reason = "none"]
<1>1. call[c].pc = "close" /\ UNCHANGED <<stamped, minted, notified, resumed>>
  BY DEF Close, At, runs
<1>2. /\ call[c] \in Calls /\ s \in Session
      /\ rows[s].status # "none" /\ Knows(call[c])
  BY <1>1, CallFacts DEF Knows
<1>3. CASE /\ rows' = [rows EXCEPT ![s].status = "closed", ![s].reason = "none"]
           /\ Goto(c, "disarm")
  <2>1. CallOK(y) /\ y.pc = "disarm" /\ y.s = s
    BY <1>2 DEF CallOK, Calls, PC
  <2>2. call' = [call EXCEPT ![c] = y]
    BY <1>3 DEF Goto
  <2>3. /\ rows[s] \in [status : Status, reason : Reason, hops : Nat]
        /\ s \in DOMAIN rows
    BY <1>2 DEF Inv, Types
  <2>4. rows' = [rows EXCEPT ![s] = r]
    BY <1>3, <2>3
  <2>5. /\ r \in [status : Status, reason : Reason, hops : Nat]
        /\ r.status = "closed" /\ r.reason = "none" /\ r.hops = rows[s].hops
    BY <2>3 DEF Status, Reason
  <2>6. rows[s].hops \in Nat /\ rows[s].hops <= Budget /\ resumed[s] \in Nat
    BY <1>2, RowFacts
  <2>7. resumed' = [resumed EXCEPT ![s] = @ + 0] /\ 0 \in {0, 1}
    BY <1>1, <1>2, SameResumed
  <2> HIDE DEF s, y, r
  <2>8. y.pc \notin Noticing /\ call[c].pc \notin {"stamped", "mint"} \cup Noticing
    BY <1>1, <2>1 DEF Noticing
  <2>9. /\ r.status # "none" /\ (r.status = "paused" <=> r.reason # "none")
        /\ y.pc \notin {"stamped", "exhaust"} /\ (Knows(y) => y.s = s)
        /\ rows[s].hops <= r.hops /\ r.hops <= Budget
        /\ y.pc = "mint" => r.hops = rows[s].hops + 1
        /\ y.pc \in Noticing => rows[s].status = "open" /\ r.status # "open"
        /\ (r.status = "open" /\ rows[s].status # "open") => 0 = 1
        /\ r.reason = "budget-exhausted" => r.hops = Budget \/ resumed[s] + 0 > 0
    BY <2>1, <2>5, <2>6, <2>8, BudgetAssumption
  <2> QED
    BY <1>1, <1>2, <2>1, <2>2, <2>4, <2>5, <2>7, <2>8, <2>9, RowStep
<1>4. CASE Return(c) /\ UNCHANGED rows
  BY <1>1, <1>4, ReturnStep
<1> QED
  BY <1>3, <1>4 DEF Close

LEMMA MintStep ==
  ASSUME Inv, NEW c \in Call, Mint(c)
  PROVE  Inv'
<1> DEFINE s == call[c].s
           y == Summoning(call[c], call[c].status, call[c].left - 1)
<1>1. call[c].pc = "mint" /\ UNCHANGED <<stamped, rows, notified, resumed>>
  BY DEF Mint, At, runs
<1>2. /\ call[c] \in Calls /\ s \in Session
      /\ rows[s].status # "none" /\ call[c].left - 1 \in 0..MaxSummons
  BY <1>1, CallFacts, BoundsAssumption DEF Knows
<1>3. /\ CallOK(y) /\ y.pc \in {"summon", "rearm", "idle"}
      /\ y.pc # "idle" => y.s = s
  BY <1>2, SummoningShape DEF Calls
<1>4. call' = [call EXCEPT ![c] = y]
  BY DEF Mint
<1>5. PICK n \in {0, 1} : minted' = [minted EXCEPT ![s] = @ + n]
  BY DEF Mint
<1> HIDE DEF s, y
<1>6. call \in [Call -> Calls] /\ y \in Calls /\ call' \in [Call -> Calls]
  BY <1>3, <1>4 DEF Inv, Types, CallOK
<1>7. \A d \in Call : call'[d] = IF d = c THEN y ELSE call[d]
  BY <1>4, <1>6
<1>8. \A u \in Session :
        /\ minted'[u] = IF u = s THEN minted[u] + n ELSE minted[u]
        /\ minted[u] \in Nat /\ notified[u] \in Nat
        /\ resumed[u] \in Nat /\ rows[u].hops \in Nat
  BY <1>5 DEF Inv, Types
<1>9. Types'
  <2>1. minted' \in [Session -> Nat]
    BY <1>2, <1>5 DEF Inv, Types
  <2> QED
    BY <1>1, <1>3, <1>6, <1>7, <2>1 DEF Inv, Types
<1>10. Fresh'
  BY <1>1, <1>3, <1>7 DEF Inv, Fresh
<1>11. Known' /\ Exhausting' /\ BudgetPauseHasCause'
  BY <1>1, <1>2, <1>3, <1>7 DEF Inv, Known, Exhausting, Cause, Knows, BudgetPauseHasCause
<1>12. Untouched'
  BY <1>1, <1>2, <1>8 DEF Inv, Untouched
<1>13. HopsCoverRuns'
  <2> SUFFICES ASSUME NEW u \in Session
               PROVE  minted'[u] + InFlight(u, {"mint"})' <= rows'[u].hops
                      /\ rows'[u].hops <= Budget
    BY DEF HopsCoverRuns
  <2>1. ~In(y, u, {"mint"})
    BY <1>3 DEF In
  <2>2. minted[u] + InFlight(u, {"mint"}) <= rows[u].hops /\ rows[u].hops <= Budget
    BY DEF Inv, HopsCoverRuns
  <2>3. CASE u = s
    <3>1. In(call[c], u, {"mint"})
      BY <1>1, <2>3 DEF In, s
    <3>2. /\ InFlight(u, {"mint"}) \in Nat /\ InFlight(u, {"mint"})' \in Nat
          /\ InFlight(u, {"mint"})' + 1 <= InFlight(u, {"mint"})
      BY <1>4, <1>6, <2>1, <3>1, InFlightOneLess
    <3> QED
      BY <1>1, <1>8, <2>2, <3>2, BudgetAssumption
  <2>4. CASE u # s
    <3>1. /\ InFlight(u, {"mint"}) \in Nat /\ InFlight(u, {"mint"})' \in Nat
          /\ InFlight(u, {"mint"})' <= InFlight(u, {"mint"})
      BY <1>4, <1>6, <2>1, InFlightNoMore
    <3> QED
      BY <1>1, <1>8, <2>2, <2>4, <3>1, BudgetAssumption
  <2> QED
    BY <2>3, <2>4
<1>14. Notices'
  <2> SUFFICES ASSUME NEW u \in Session
               PROVE  notified'[u] + InFlight(u, Noticing)' + Spare(u)' <= resumed'[u] + 1
    BY DEF Notices
  <2>1. ~In(y, u, Noticing)
    BY <1>3 DEF In, Noticing
  <2>2. /\ InFlight(u, Noticing) \in Nat /\ InFlight(u, Noticing)' \in Nat
        /\ InFlight(u, Noticing)' <= InFlight(u, Noticing)
    BY <1>4, <1>6, <2>1, InFlightNoMore
  <2> QED
    BY <1>1, <1>8, <2>2 DEF Inv, Notices, Spare
<1> QED
  BY <1>9, <1>10, <1>11, <1>12, <1>13, <1>14 DEF Inv


LEMMA NotifyStep ==
  ASSUME Inv, NEW c \in Call, Notify(c)
  PROVE  Inv'
<1> DEFINE s == call[c].s
           y == Ending(call[c])
<1>1. call[c].pc = "notify" /\ UNCHANGED <<stamped, rows, minted, resumed>>
  BY DEF Notify, At, runs
<1>2. /\ call[c] \in Calls /\ s \in Session
      /\ rows[s].status # "none"
  BY <1>1, CallFacts DEF Knows
<1>3. /\ CallOK(y) /\ y.pc \in {"summon", "rearm", "idle"}
      /\ y.pc # "idle" => y.s = s
  BY <1>2, EndingShape DEF Calls
<1>4. call' = [call EXCEPT ![c] = y]
  BY DEF Notify
<1>5. PICK n \in {0, 1} : notified' = [notified EXCEPT ![s] = @ + n]
  BY DEF Notify
<1> HIDE DEF s, y
<1>6. call \in [Call -> Calls] /\ y \in Calls /\ call' \in [Call -> Calls]
  BY <1>3, <1>4 DEF Inv, Types, CallOK
<1>7. \A d \in Call : call'[d] = IF d = c THEN y ELSE call[d]
  BY <1>4, <1>6
<1>8. \A u \in Session :
        /\ notified'[u] = IF u = s THEN notified[u] + n ELSE notified[u]
        /\ minted[u] \in Nat /\ notified[u] \in Nat
        /\ resumed[u] \in Nat /\ rows[u].hops \in Nat
  BY <1>5 DEF Inv, Types
<1>9. Types'
  <2>1. notified' \in [Session -> Nat]
    BY <1>2, <1>5 DEF Inv, Types
  <2> QED
    BY <1>1, <1>3, <1>6, <1>7, <2>1 DEF Inv, Types
<1>10. Fresh'
  BY <1>1, <1>3, <1>7 DEF Inv, Fresh
<1>11. Known' /\ Exhausting' /\ BudgetPauseHasCause'
  BY <1>1, <1>2, <1>3, <1>7 DEF Inv, Known, Exhausting, Cause, Knows, BudgetPauseHasCause
<1>12. Untouched'
  BY <1>1, <1>2, <1>8 DEF Inv, Untouched
<1>13. HopsCoverRuns'
  <2> SUFFICES ASSUME NEW u \in Session
               PROVE  minted'[u] + InFlight(u, {"mint"})' <= rows'[u].hops
                      /\ rows'[u].hops <= Budget
    BY DEF HopsCoverRuns
  <2>1. ~In(y, u, {"mint"})
    BY <1>3 DEF In
  <2>2. minted[u] + InFlight(u, {"mint"}) <= rows[u].hops /\ rows[u].hops <= Budget
    BY DEF Inv, HopsCoverRuns
  <2>3. /\ InFlight(u, {"mint"}) \in Nat /\ InFlight(u, {"mint"})' \in Nat
        /\ InFlight(u, {"mint"})' <= InFlight(u, {"mint"})
    BY <1>4, <1>6, <2>1, InFlightNoMore
  <2> QED
    BY <1>1, <1>8, <2>2, <2>3, BudgetAssumption
<1>14. Notices'
  <2> SUFFICES ASSUME NEW u \in Session
               PROVE  notified'[u] + InFlight(u, Noticing)' + Spare(u)' <= resumed'[u] + 1
    BY DEF Notices
  <2>1. ~In(y, u, Noticing)
    BY <1>3 DEF In, Noticing
  <2>2. notified[u] + InFlight(u, Noticing) + Spare(u) <= resumed[u] + 1
        /\ Spare(u) \in Nat /\ Spare(u)' = Spare(u)
    BY <1>1 DEF Inv, Notices, Spare
  <2>3. CASE u = s
    <3>1. In(call[c], u, Noticing)
      BY <1>1, <2>3 DEF In, Noticing, s
    <3>2. /\ InFlight(u, Noticing) \in Nat /\ InFlight(u, Noticing)' \in Nat
          /\ InFlight(u, Noticing)' + 1 <= InFlight(u, Noticing)
      BY <1>4, <1>6, <2>1, <3>1, InFlightOneLess
    <3> QED
      BY <1>1, <1>8, <2>2, <3>2
  <2>4. CASE u # s
    <3>1. /\ InFlight(u, Noticing) \in Nat /\ InFlight(u, Noticing)' \in Nat
          /\ InFlight(u, Noticing)' <= InFlight(u, Noticing)
      BY <1>4, <1>6, <2>1, InFlightNoMore
    <3> QED
      BY <1>1, <1>8, <2>2, <2>4, <3>1
  <2> QED
    BY <2>3, <2>4
<1> QED
  BY <1>9, <1>10, <1>11, <1>12, <1>13, <1>14 DEF Inv

LEMMA DisarmStep ==
  ASSUME Inv, NEW c \in Call, Disarm(c)
  PROVE  Inv'
<1>1. call[c].pc \in {"disarm", "exhausted"} /\ UNCHANGED <<stamped, rows, minted, notified, resumed>>
  BY DEF Disarm, runs
<1>2. CASE At(c, "exhausted") /\ Goto(c, "notify")
  BY <1>1, <1>2, GotoStep DEF At, Noticing, PC, Knows
<1>3. CASE Return(c)
  BY <1>1, <1>3, ReturnStep
<1> QED
  BY <1>2, <1>3 DEF Disarm

LEMMA RearmStep ==
  ASSUME Inv, NEW c \in Call, Rearm(c)
  PROVE  Inv'
BY ReturnStep DEF Rearm, runs

LEMMA FireStep ==
  ASSUME Inv, Watching, NEW c \in Call, Fire(c)
  PROVE  Inv'
<1>1. /\ call[c] = NoCall /\ c \in DOMAIN call
      /\ UNCHANGED <<stamped, rows, minted, notified, resumed>>
  BY DEF Fire, Begins, runs, Inv, Types
<1>2. PICK s \in Session :
        /\ watch[s] = "armed"
        /\ call' = [call EXCEPT ![c].op = "fire", ![c].pc = "fired", ![c].s = s]
  BY DEF Fire
<1> DEFINE y == [NoCall EXCEPT !.op = "fire", !.pc = "fired", !.s = s]
<1>3. call' = [call EXCEPT ![c] = y]
  BY <1>1, <1>2 DEF NoCall
<1>4. CallOK(y) /\ y.s = s /\ y.pc = "fired"
  <2>1. NoCall \in Calls
    BY NoCallShape DEF CallOK
  <2>2. s \in Session /\ s \in 0..MaxSessions
    BY BoundsAssumption DEF Session
  <2>3. y \in Calls /\ y.s = s /\ y.pc = "fired"
    BY <2>1, <2>2 DEF Calls, Op, PC
  <2> HIDE DEF y
  <2> QED
    BY <2>2, <2>3 DEF CallOK
<1>5. rows[s].status # "none"
  BY <1>2 DEF Watching
<1> HIDE DEF y
<1> QED
  BY <1>1, <1>3, <1>4, <1>5, Quiet DEF Noticing

LEMMA OnFireStep ==
  ASSUME Inv, NEW c \in Call, OnFire(c)
  PROVE  Inv'
<1>1. call[c].pc = "fired" /\ UNCHANGED <<stamped, rows, minted, notified, resumed>>
  BY DEF OnFire, At, runs
<1>2. call[c] \in Calls /\ call[c].s \in Session /\ Knows(call[c])
  BY <1>1, CallFacts DEF Knows
<1>3. CASE Return(c)
  BY <1>1, <1>3, ReturnStep
<1>4. CASE call' = [call EXCEPT ![c] = Summoning(call[c], "open", 1)]
  <2> DEFINE y == Summoning(call[c], "open", 1)
  <2>1. /\ CallOK(y) /\ y.pc \in {"summon", "rearm", "idle"}
        /\ y.pc # "idle" => y.s = call[c].s
    BY <1>2, SummoningShape, BoundsAssumption DEF Status
  <2> HIDE DEF y
  <2>2. call' = [call EXCEPT ![c] = y]
    BY <1>4 DEF y
  <2> QED
    BY <1>1, <1>2, <2>1, <2>2, SummonStep
<1> QED
  BY <1>3, <1>4 DEF OnFire

LEMMA ClosingStep ==
  ASSUME Inv, NEW c \in Call, Closing(c)
  PROVE  Inv'
<1>1. /\ call[c] = NoCall /\ c \in DOMAIN call
      /\ UNCHANGED <<stamped, rows, minted, notified, resumed>>
  BY DEF Closing, Begins, runs, Inv, Types
<1>2. PICK s \in Lookup \ {0} :
        call' = [call EXCEPT ![c].op = "close", ![c].pc = "close", ![c].s = s]
  BY DEF Closing
<1>3. s \in Session /\ rows[s].status # "none"
  BY <1>2 DEF Lookup, Active
<1> DEFINE y == [NoCall EXCEPT !.op = "close", !.pc = "close", !.s = s]
<1>4. call' = [call EXCEPT ![c] = y]
  BY <1>1, <1>2 DEF NoCall
<1>5. CallOK(y) /\ y.s = s /\ y.pc = "close"
  <2>1. NoCall \in Calls
    BY NoCallShape DEF CallOK
  <2>2. s \in Session /\ s \in 0..MaxSessions
    BY <1>3, BoundsAssumption DEF Session
  <2>3. y \in Calls /\ y.s = s /\ y.pc = "close"
    BY <2>1, <2>2 DEF Calls, Op, PC
  <2> HIDE DEF y
  <2> QED
    BY <2>2, <2>3 DEF CallOK
<1> HIDE DEF y
<1> QED
  BY <1>1, <1>3, <1>4, <1>5, Quiet DEF Noticing

(* No call survives a restart. *)
LEMMA RestartStep ==
  ASSUME Inv, Restart
  PROVE  Inv'
<1>1. /\ call' = [c \in Call |-> NoCall]
      /\ UNCHANGED <<stamped, rows, minted, notified, resumed>>
  BY DEF Restart, runs
<1>2. NoCall \in Calls /\ CallOK(NoCall) /\ NoCall.pc = "idle" /\ NoCall.s = 0
  BY NoCallShape DEF CallOK
<1>3. Types' /\ Fresh' /\ Known' /\ Untouched' /\ Exhausting' /\ BudgetPauseHasCause'
  BY <1>1, <1>2 DEF Inv, Types, Fresh, Known, Untouched, Exhausting, BudgetPauseHasCause, Knows, Cause
<1>4. ASSUME NEW s \in Session, NEW pcs
      PROVE  /\ InFlight(s, pcs)' = 0
             /\ InFlight(s, pcs) \in Nat
  <2>1. {c \in Call : call'[c].s = s /\ call'[c].pc \in pcs} = {}
    BY <1>1, <1>2, BoundsAssumption DEF Session
  <2>2. IsFiniteSet({c \in Call : call[c].s = s /\ call[c].pc \in pcs})
    BY CallAssumption, FS_Subset
  <2> QED
    BY <2>1, <2>2, FS_EmptySet, FS_CardinalityType DEF InFlight
<1>5. HopsCoverRuns'
  <2> SUFFICES ASSUME NEW s \in Session
               PROVE  minted'[s] + InFlight(s, {"mint"})' <= rows'[s].hops
                      /\ rows'[s].hops <= Budget
    BY DEF HopsCoverRuns
  <2>1. InFlight(s, {"mint"}) \in Nat /\ InFlight(s, {"mint"})' = 0
    BY <1>4
  <2> QED
    BY <1>1, <2>1, BudgetAssumption DEF Inv, HopsCoverRuns, Types
<1>6. Notices'
  <2> SUFFICES ASSUME NEW s \in Session
               PROVE  notified'[s] + InFlight(s, Noticing)' + Spare(s)' <= resumed'[s] + 1
    BY DEF Notices
  <2>1. InFlight(s, Noticing) \in Nat /\ InFlight(s, Noticing)' = 0
    BY <1>4
  <2> QED
    BY <1>1, <2>1 DEF Inv, Notices, Types, Spare
<1> QED
  BY <1>3, <1>5, <1>6 DEF Inv

(* Rows, calls and counts untouched. *)
LEMMA SameStep ==
  ASSUME Inv, UNCHANGED <<stamped, rows, call, minted, notified, resumed>>
  PROVE  Inv'
<1>1. Types' /\ Fresh' /\ Known' /\ Untouched' /\ Exhausting' /\ BudgetPauseHasCause'
  BY DEF Inv, Types, Fresh, Known, Untouched, Exhausting, BudgetPauseHasCause, Cause
<1>2. HopsCoverRuns'
  BY DEF Inv, HopsCoverRuns, InFlight
<1>3. Notices'
  BY DEF Inv, Notices, InFlight, Spare
<1> QED
  BY <1>1, <1>2, <1>3 DEF Inv

-----------------------------------------------------------------------------
(* Rows and timers *)

(* A closed row stays as it is, and a row stays. *)
LEMMA RowsStay ==
  ASSUME Inv, [Next]_vars, NEW s \in Session
  PROVE  /\ rows[s].status = "closed" => rows'[s] = rows[s]
         /\ rows[s].status # "none" => rows'[s].status # "none"
<1>1. rows[s] \in [status : Status, reason : Reason, hops : Nat] /\ s \in DOMAIN rows
  BY DEF Inv, Types
<1>2. CASE UNCHANGED rows
  BY <1>2
<1>3. ASSUME NEW c \in Call,
             \/ Create(c) \/ Resume(c) \/ Gate(c) \/ Bill(c) \/ Exhaust(c) \/ Close(c)
      PROVE  /\ rows[s].status = "closed" => rows'[s] = rows[s]
             /\ rows[s].status # "none" => rows'[s].status # "none"
  <2> DEFINE u == call[c].s
  <2>1. CASE Create(c)
    <3>1. rows[u].status = "none"
      BY <2>1 DEF Create, At, Inv, Fresh
    <3>2. rows' = [rows EXCEPT ![u].status = "open"] \/ rows' = rows
      BY <2>1 DEF Create
    <3> HIDE DEF u
    <3> QED
      BY <1>1, <3>1, <3>2
  <2>2. CASE Resume(c)
    <3>1. \/ rows[u].status = "paused" /\ Reopen(u)
          \/ rows' = rows
      BY <2>2 DEF Resume, CanResume
    <3> HIDE DEF u
    <3> QED
      BY <1>1, <3>1 DEF Reopen
  <2>3. CASE Gate(c)
    <3>1. \/ rows[u].status = "open" /\ Pause(u, "awaiting-human")
          \/ rows' = rows
      BY <2>3 DEF Gate, CanPause
    <3> HIDE DEF u
    <3> QED
      BY <1>1, <3>1 DEF Pause
  <2>4. CASE Bill(c)
    <3>1. \/ rows[u].status = "open" /\ rows' = [rows EXCEPT ![u].hops = @ + 1]
          \/ rows' = rows
      BY <2>4 DEF Bill, CanBill
    <3> HIDE DEF u
    <3> QED
      BY <1>1, <3>1
  <2>5. CASE Exhaust(c)
    <3>1. \/ rows[u].status = "open" /\ Pause(u, "budget-exhausted")
          \/ rows' = rows
      BY <2>5 DEF Exhaust, CanPause
    <3> HIDE DEF u
    <3> QED
      BY <1>1, <3>1 DEF Pause
  <2>6. CASE Close(c)
    <3>1. \/ /\ rows[u].status \in {"open", "paused"}
             /\ rows' = [rows EXCEPT ![u].status = "closed", ![u].reason = "none"]
          \/ rows' = rows
      BY <2>6, SMTT(60) DEF Close, Active
    <3> HIDE DEF u
    <3> QED
      BY <1>1, <3>1
  <2> QED
    BY <1>3, <2>1, <2>2, <2>3, <2>4, <2>5, <2>6
<1>4. \/ UNCHANGED rows
      \/ \E c \in Call :
           \/ Create(c) \/ Resume(c) \/ Gate(c) \/ Bill(c) \/ Exhaust(c) \/ Close(c)
  BY ZenonT(60) DEF Next, Kickoff, Stamp, Post, Persist, Mint, Notify, Disarm, Rearm, Fire,
         OnFire, Closing, Restart, BootScan, BootArm, vars
<1> QED
  BY <1>2, <1>3, <1>4

LEMMA WatchingStep ==
  ASSUME Inv, Watching, [Next]_vars
  PROVE  Watching'
<1>1. \A s \in Session : rows[s].status # "none" => rows'[s].status # "none"
  BY RowsStay
<1>2. CASE UNCHANGED <<watch, begun, boot>>
  BY <1>1, <1>2 DEF Watching
<1>3. ASSUME NEW c \in Call, UNCHANGED <<watch, boot>>, Begins(c)
      PROVE  Watching'
  <2>1. begun' \in 0..MaxCalls
    BY <1>3, BoundsAssumption DEF Begins, Watching
  <2> QED
    BY <1>1, <1>3, <2>1 DEF Watching
<1>4. ASSUME NEW c \in Call, Disarm(c)
      PROVE  Watching'
  <2>1. /\ UNCHANGED <<begun, boot>>
        /\ watch' = [watch EXCEPT ![call[c].s] = "off"]
    BY <1>4 DEF Disarm
  <2> QED
    BY <1>1, <2>1 DEF Watching
<1>5. ASSUME NEW c \in Call, Rearm(c)
      PROVE  Watching'
  <2>1. /\ UNCHANGED <<begun, boot>>
        /\ watch' = [watch EXCEPT ![call[c].s] = "armed"]
        /\ rows[call[c].s].status # "none"
    BY <1>5, CallFacts DEF Rearm, At, Knows
  <2> QED
    BY <1>1, <2>1 DEF Watching
<1>6. ASSUME NEW c \in Call, Fire(c)
      PROVE  Watching'
  <2>1. PICK s \in Session : watch[s] = "armed" /\ watch' = [watch EXCEPT ![s] = "fired"]
    BY <1>6 DEF Fire
  <2>2. begun' \in 0..MaxCalls /\ UNCHANGED boot
    BY <1>6, BoundsAssumption DEF Fire, Begins, Watching
  <2> QED
    BY <1>1, <2>1, <2>2 DEF Watching
<1>7. CASE Restart
  BY <1>1, <1>7, BoundsAssumption DEF Watching, Restart
<1>8. CASE BootScan
  <2>1. PICK todo \in {{}, {s \in Session : rows[s].status = "open"}} :
          boot' = [boot EXCEPT !.phase = "up", !.todo = todo]
    BY <1>8 DEF BootScan
  <2>2. todo \in SUBSET Session /\ \A s \in todo : rows[s].status # "none"
    OBVIOUS
  <2>3. UNCHANGED <<rows, watch, begun>>
    BY <1>8 DEF BootScan
  <2> QED
    BY <2>1, <2>2, <2>3 DEF Watching
<1>9. ASSUME NEW s \in Session, BootArm(s)
      PROVE  Watching'
  BY <1>1, <1>9 DEF Watching, BootArm
<1> QED
  BY <1>2, <1>3, <1>4, <1>5, <1>6, <1>7, <1>8, <1>9
  DEF Next, vars, runs, Kickoff, Stamp, Create, Post, Resume, Persist, Gate, Bill,
      Mint, Exhaust, Notify, OnFire, Closing, Close

-----------------------------------------------------------------------------
LEMMA InitInv == Init => Inv /\ Watching
<1> SUFFICES ASSUME Init PROVE Inv /\ Watching
  OBVIOUS
<1>1. CallOK(NoCall) /\ NoCall \in Calls /\ NoCall.pc = "idle" /\ NoCall.s = 0
  BY NoCallShape DEF CallOK
<1>2. \A s \in Session : rows[s] = NoRow /\ minted[s] = 0 /\ notified[s] = 0 /\ resumed[s] = 0
  BY DEF Init
<1>3. Types /\ Fresh /\ Known /\ Untouched /\ Exhausting /\ BudgetPauseHasCause
  BY <1>1, BoundsAssumption DEF Init, Types, Fresh, Known, Untouched, Exhausting,
     BudgetPauseHasCause, Knows, Cause, NoRow, Status, Reason
<1>4. ASSUME NEW s \in Session, NEW pcs
      PROVE  InFlight(s, pcs) = 0
  <2>1. \A c \in Call : ~In(call[c], s, pcs)
    BY <1>1, BoundsAssumption DEF Init, In, Session
  <2> QED
    BY <2>1, InFlightNone
<1>5. HopsCoverRuns
  BY <1>2, <1>4, BudgetAssumption DEF HopsCoverRuns, NoRow
<1>6. Notices
  BY <1>2, <1>4 DEF Notices, Spare, NoRow
<1>7. Watching
  BY BoundsAssumption DEF Init, Watching
<1> QED
  BY <1>3, <1>5, <1>6, <1>7 DEF Inv

LEMMA NextInv == Inv /\ Watching /\ [Next]_vars => Inv' /\ Watching'
<1> SUFFICES ASSUME Inv, Watching, [Next]_vars PROVE Inv'
  BY WatchingStep
<1>1. CASE UNCHANGED vars
  BY <1>1, SameStep DEF vars
<1>2. ASSUME NEW c \in Call,
             \/ Kickoff(c) \/ Stamp(c) \/ Create(c)
             \/ Post(c) \/ Resume(c) \/ Persist(c) \/ Gate(c)
             \/ Bill(c) \/ Mint(c) \/ Exhaust(c) \/ Notify(c)
             \/ Disarm(c) \/ Rearm(c) \/ Fire(c) \/ OnFire(c)
             \/ Closing(c) \/ Close(c)
      PROVE  Inv'
  BY <1>2, KickoffStep, StampStep, CreateStep, PostStep, ResumeStep, PersistStep,
     GateStep, BillStep, MintStep, ExhaustStep, NotifyStep, DisarmStep, RearmStep,
     FireStep, OnFireStep, ClosingStep, CloseStep
<1>3. CASE Restart
  BY <1>3, RestartStep
<1>4. CASE BootScan
  BY <1>4, SameStep DEF BootScan, runs
<1>5. ASSUME NEW s \in Session, BootArm(s)
      PROVE  Inv'
  BY <1>5, SameStep DEF BootArm, runs
<1> QED
  BY <1>1, <1>2, <1>3, <1>4, <1>5 DEF Next

(* The invariant the properties follow from, for work_sessions.go's guards *)
(* and chokepoint.go's calls in every interleaving.                        *)
THEOREM Invariant == Spec => [](Inv /\ Watching)
<1>1. Init => Inv /\ Watching
  BY InitInv
<1>2. Inv /\ Watching /\ [Next]_vars => (Inv /\ Watching)'
  BY NextInv
<1> QED
  BY <1>1, <1>2, PTL DEF Spec

(* However many calls bill at once, no run without a hop and no hop beyond *)
(* the budget (sessions.go:356, work_sessions.go:278).                     *)
THEOREM HopsAreExact == Spec => []HopsCoverRuns
<1>1. Inv => HopsCoverRuns
  BY DEF Inv
<1> QED
  BY <1>1, Invariant, PTL

(* One free status summons per budget pause, whoever finds the budget      *)
(* spent (sessions.go:376).                                                *)
THEOREM NoticeIsFreeOnce == Spec => []OneFreeNotice
<1>1. ASSUME Inv, NEW s \in Session
      PROVE  notified[s] + InFlight(s, {"notify"}) <= resumed[s] + 1
  <2> DEFINE A == {c \in Call : call[c].s = s /\ call[c].pc \in {"notify"}}
             B == {c \in Call : call[c].s = s /\ call[c].pc \in Noticing}
  <2>1. IsFiniteSet(B) /\ A \subseteq B
    BY CallAssumption, FS_Subset DEF Noticing
  <2>2. Cardinality(A) <= Cardinality(B) /\ Cardinality(A) \in Nat /\ Cardinality(B) \in Nat
    BY <2>1, FS_Subset, FS_CardinalityType
  <2>3. /\ InFlight(s, {"notify"}) = Cardinality(A)
        /\ InFlight(s, Noticing) = Cardinality(B)
    BY DEF InFlight
  <2>4. /\ notified[s] + InFlight(s, Noticing) + Spare(s) <= resumed[s] + 1
        /\ notified[s] \in Nat /\ resumed[s] \in Nat /\ Spare(s) \in Nat
    BY <1>1 DEF Inv, Notices, Types, Spare
  <2> HIDE DEF A, B
  <2> QED
    BY <2>2, <2>3, <2>4
<1>2. Inv => OneFreeNotice
  BY <1>1 DEF OneFreeNotice
<1> QED
  BY <1>2, Invariant, PTL

(* A session paused as exhausted has spent its budget or was resumed since *)
(* (sessions.go:370-381).                                                  *)
THEOREM BudgetPausesHaveCause == Spec => []BudgetPauseHasCause
<1>1. Inv => BudgetPauseHasCause
  BY DEF Inv
<1> QED
  BY <1>1, Invariant, PTL

(* No step of any call changes a closed session (work_sessions.go:309).    *)
THEOREM ClosedStaysClosed == Spec => ClosedIsTerminal
<1>1. Inv /\ [Next]_vars
        => [\A s \in Session : rows[s].status = "closed" => rows'[s] = rows[s]]_vars
  BY RowsStay
<1> QED
  BY <1>1, Invariant, PTL DEF Spec, ClosedIsTerminal

-----------------------------------------------------------------------------
(* Two sessions at once *)

(* Of two sessions that are active, or about to be inserted, each INSERT   *)
(* began before the other committed.                                       *)
Coexist ==
  /\ overlaps \subseteq SUBSET Session
  /\ OnlyOverlapsCoexist
  /\ \A c \in Inserting, s \in Active : {s, call[c].s} \in overlaps
  /\ \A c, d \in Inserting : c # d => {call[c].s, call[d].s} \in overlaps

(* The row a step opens from scratch is the one of a creating call. *)
LEMMA ActiveStay ==
  ASSUME Inv, [Next]_vars, \A c \in Call : ~Create(c)
  PROVE  Active' \subseteq Active
<1>1. rows \in [Session -> [status : Status, reason : Reason, hops : Nat]]
  BY DEF Inv, Types
<1>2. CASE UNCHANGED rows
  BY <1>2 DEF Active
<1>3. ASSUME NEW c \in Call, Resume(c) \/ Gate(c) \/ Bill(c) \/ Exhaust(c) \/ Close(c)
      PROVE  Active' \subseteq Active
  <2> DEFINE u == call[c].s
  <2>1. CASE Resume(c)
    <3>1. (rows[u].status = "paused" /\ Reopen(u)) \/ rows' = rows
      BY <2>1 DEF Resume, CanResume
    <3> HIDE DEF u
    <3> QED
      BY <1>1, <3>1 DEF Reopen, Active
  <2>2. CASE Gate(c) \/ Exhaust(c)
    <3>1. \/ rows[u].status = "open" /\ \E reason \in Reason : Pause(u, reason)
          \/ rows' = rows
      BY <2>2 DEF Gate, Exhaust, CanPause, Reason
    <3> HIDE DEF u
    <3> QED
      BY <1>1, <3>1 DEF Pause, Active
  <2>3. CASE Bill(c)
    <3>1. rows' = [rows EXCEPT ![u].hops = @ + 1] \/ rows' = rows
      BY <2>3 DEF Bill
    <3> HIDE DEF u
    <3> QED
      BY <1>1, <3>1 DEF Active
  <2>4. CASE Close(c)
    <3>1. \/ rows' = [rows EXCEPT ![u].status = "closed", ![u].reason = "none"]
          \/ rows' = rows
      BY <2>4 DEF Close
    <3> HIDE DEF u
    <3> QED
      BY <1>1, <3>1 DEF Active
  <2> QED
    BY <1>3, <2>1, <2>2, <2>3, <2>4
<1>4. \/ UNCHANGED rows
      \/ \E c \in Call : Resume(c) \/ Gate(c) \/ Bill(c) \/ Exhaust(c) \/ Close(c)
  BY ZenonT(60) DEF Next, Kickoff, Stamp, Post, Persist, Mint, Notify, Disarm, Rearm, Fire,
         OnFire, Closing, Restart, BootScan, BootArm, vars
<1> QED
  BY <1>2, <1>3, <1>4

(* Only Stamp leaves a call with an INSERT under way. *)
LEMMA InsertingStay ==
  ASSUME Inv, [Next]_vars, \A c \in Call : ~Stamp(c)
  PROVE  \A d \in Call : call'[d].pc = "stamped" => call'[d] = call[d]
<1>1. call \in [Call -> Calls]
  BY DEF Inv, Types
<1>2. ASSUME NEW c \in Call, NEW y, call' = [call EXCEPT ![c] = y], y.pc # "stamped"
      PROVE  \A d \in Call : call'[d].pc = "stamped" => call'[d] = call[d]
  BY <1>1, <1>2
<1>3. ASSUME NEW c \in Call, NEW p, p # "stamped", Goto(c, p)
      PROVE  \A d \in Call : call'[d].pc = "stamped" => call'[d] = call[d]
  BY <1>1, <1>3 DEF Goto, Calls
<1>4. ASSUME NEW c \in Call, Return(c)
      PROVE  \A d \in Call : call'[d].pc = "stamped" => call'[d] = call[d]
  BY <1>2, <1>4, NoCallShape DEF Return
<1>5. ASSUME NEW c \in Call, NEW x \in Calls, x.s \in Session, NEW status \in Status,
             NEW n \in 0..MaxSummons, call' = [call EXCEPT ![c] = Summoning(x, status, n)]
      PROVE  \A d \in Call : call'[d].pc = "stamped" => call'[d] = call[d]
  <2>1. Summoning(x, status, n).pc # "stamped"
    BY <1>5, SummoningShape
  <2> QED
    BY <1>2, <1>5, <2>1
<1>6. ASSUME NEW c \in Call, call[c].s \in Session, call' = [call EXCEPT ![c] = Ending(@)]
      PROVE  \A d \in Call : call'[d].pc = "stamped" => call'[d] = call[d]
  <2>1. Ending(call[c]).pc # "stamped" /\ call' = [call EXCEPT ![c] = Ending(call[c])]
    BY <1>1, <1>6, EndingShape
  <2> QED
    BY <1>2, <2>1
<1>7. ASSUME NEW c \in Call,
             Kickoff(c) \/ Post(c) \/ Resume(c) \/ Fire(c) \/ Closing(c)
      PROVE  \A d \in Call : call'[d].pc = "stamped" => call'[d] = call[d]
  <2>1. call[c] \in Calls /\ \A d \in Call : d # c => call'[d] = call[d]
    BY <1>1, <1>7 DEF Kickoff, Post, Resume, Fire, Closing, Goto
  <2>2. call'[c].pc # "stamped"
    BY <1>1, <1>7, NoCallShape DEF Kickoff, Post, Resume, Fire, Closing, Goto, Calls
  <2> QED
    BY <2>1, <2>2
<1>8. ASSUME NEW c \in Call,
             Create(c) \/ Persist(c) \/ Gate(c) \/ Bill(c) \/ Mint(c) \/ Exhaust(c) \/ Notify(c)
               \/ Disarm(c) \/ Rearm(c) \/ OnFire(c) \/ Close(c)
      PROVE  \A d \in Call : call'[d].pc = "stamped" => call'[d] = call[d]
  <2>1. /\ call[c] \in Calls /\ call[c].s \in Session /\ call[c].status \in Status
        /\ "open" \in Status
    BY <1>8, CallFacts
    DEF Create, Persist, Gate, Bill, Mint, Exhaust, Notify, Disarm, Rearm, OnFire, Close, At,
        Calls, Status
  <2>2. CASE Create(c)
    <3>1. \/ \E n \in {0, 1} : call' = [call EXCEPT ![c] = Summoning(@, "open", n)]
          \/ Return(c)
      BY <2>2 DEF Create
    <3>2. {0, 1} \subseteq 0..MaxSummons
      BY BoundsAssumption
    <3>3. \A n \in {0, 1} : [call EXCEPT ![c] = Summoning(@, "open", n)]
                            = [call EXCEPT ![c] = Summoning(call[c], "open", n)]
      BY <1>1
    <3> QED
      BY <1>4, <1>5, <2>1, <3>1, <3>2, <3>3
  <2>3. CASE Persist(c)
    BY <1>3, <1>4, <1>5, <2>1, <2>3 DEF Persist
  <2>4. CASE Gate(c) \/ Disarm(c) \/ Rearm(c) \/ Close(c)
    BY <1>3, <1>4, <2>4 DEF Gate, Disarm, Rearm, Close
  <2>5. CASE Bill(c) \/ Exhaust(c) \/ Notify(c)
    BY <1>3, <1>6, <2>1, <2>5 DEF Bill, Exhaust, Notify
  <2>6. CASE Mint(c)
    <3>1. call' = [call EXCEPT ![c] = Summoning(call[c], call[c].status, call[c].left - 1)]
      BY <1>1, <2>6 DEF Mint
    <3>2. call[c].left - 1 \in 0..MaxSummons
      BY <2>6, CallFacts, BoundsAssumption DEF Mint, At
    <3> QED
      BY <1>5, <2>1, <3>1, <3>2
  <2>7. CASE OnFire(c)
    <3>1. Return(c) \/ call' = [call EXCEPT ![c] = Summoning(call[c], "open", 1)]
      BY <1>1, <2>7 DEF OnFire
    <3>2. 1 \in 0..MaxSummons
      BY BoundsAssumption
    <3> QED
      BY <1>4, <1>5, <2>1, <3>1, <3>2
  <2> QED
    BY <1>8, <2>2, <2>3, <2>4, <2>5, <2>6, <2>7
<1>9. CASE Restart
  BY <1>9, NoCallShape DEF Restart
<1>10. CASE BootScan \/ (\E s \in Session : BootArm(s)) \/ UNCHANGED vars
  BY <1>10 DEF BootScan, BootArm, vars
<1> QED
  BY <1>7, <1>8, <1>9, <1>10 DEF Next

LEMMA CoexistStep == Inv /\ Coexist /\ [Next]_vars => Coexist'
<1> SUFFICES ASSUME Inv, Coexist, [Next]_vars PROVE Coexist'
  OBVIOUS
<1>1. call \in [Call -> Calls] /\ \A c \in Inserting : call[c].s \in Session
  BY CallFacts DEF Inv, Types, Inserting, At
<1>2. ASSUME NEW c \in Call, Stamp(c)
      PROVE  Coexist'
  <2>1. CASE Active = {}
    <3> DEFINE new == stamped'
    <3>1. /\ call' = [call EXCEPT ![c].s = new, ![c].pc = "stamped"]
          /\ overlaps' = overlaps \cup {{call[d].s, new} : d \in Inserting}
      BY <1>2, <2>1 DEF Stamp, NoneActive
    <3>2. new \in Session /\ c \notin Inserting
      BY <1>2, BoundsAssumption DEF Stamp, NoneActive, Inv, Types, Session, Inserting, At
    <3> HIDE DEF new
    <3>3. /\ call'[c].s = new /\ \A d \in Call : d # c => call'[d] = call[d]
          /\ Inserting' = Inserting \cup {c}
          /\ \A d \in Inserting : d # c /\ call'[d] = call[d]
      BY <1>1, <3>1, <3>2 DEF Inserting, At, Calls
    <3>4. Active' = {}
      BY <1>2, <2>1 DEF Stamp, NoneActive, Active
    <3>5. overlaps' \subseteq SUBSET Session
      BY <1>1, <3>1, <3>2 DEF Coexist
    <3>6. ASSUME NEW d \in Inserting', NEW e \in Inserting', d # e
          PROVE  {call'[d].s, call'[e].s} \in overlaps'
      <4>1. CASE d \in Inserting /\ e \in Inserting
        <5>1. {call[d].s, call[e].s} \in overlaps
          BY <3>6, <4>1 DEF Coexist
        <5>2. call'[d].s = call[d].s /\ call'[e].s = call[e].s
          BY <3>3, <4>1
        <5>3. overlaps \subseteq overlaps'
          BY <3>1
        <5> QED
          BY <5>1, <5>2, <5>3
      <4>2. ASSUME NEW f \in Inserting
            PROVE  {call[f].s, new} \in overlaps'
        BY <3>1, Zenon
      <4>3. CASE d \in Inserting /\ e = c
        <5>1. call'[d].s = call[d].s /\ call'[e].s = new
          BY <3>3, <4>3
        <5> QED
          BY <4>2, <4>3, <5>1
      <4>4. CASE d = c /\ e \in Inserting
        <5>1. {call'[d].s, call'[e].s} = {call[e].s, new}
          BY <3>3, <4>4
        <5> QED
          BY <4>2, <4>4, <5>1
      <4> QED
        BY <3>3, <3>6, <4>1, <4>3, <4>4
    <3> QED
      BY <3>4, <3>5, <3>6 DEF Coexist, OnlyOverlapsCoexist
  <2>2. CASE Active # {}
    <3>1. UNCHANGED <<overlaps, rows>> /\ Return(c)
      BY <1>2, <2>2 DEF Stamp, NoneActive
    <3>2. Active' = Active /\ \A d \in Inserting' : d \in Inserting /\ call'[d] = call[d]
      BY <1>1, <3>1, NoCallShape DEF Active, Inserting, At, Return
    <3> QED
      BY <3>1, <3>2 DEF Coexist, OnlyOverlapsCoexist
  <2> QED
    BY <2>1, <2>2
<1>3. ASSUME NEW c \in Call, Create(c), \A d \in Call : ~Stamp(d)
      PROVE  Coexist'
  <2> DEFINE u == call[c].s
  <2>1. /\ c \in Inserting /\ u \in Session /\ UNCHANGED overlaps
        /\ rows' = [rows EXCEPT ![u].status = "open"] \/ rows' = rows
    BY <1>1, <1>3 DEF Create, Inserting, At
  <2>2. Active' \subseteq Active \cup {u}
    <3>1. rows \in [Session -> [status : Status, reason : Reason, hops : Nat]]
      BY DEF Inv, Types
    <3> HIDE DEF u
    <3> QED
      BY <2>1, <3>1 DEF Active
  <2>3. \A d \in Inserting' : d \in Inserting /\ call'[d] = call[d] /\ d # c
    <3>1. \A d \in Call : call'[d].pc = "stamped" => call'[d] = call[d]
      BY <1>3, InsertingStay
    <3>2. call'[c].pc # "stamped"
      <4>1. CASE Return(c)
        BY <1>1, <4>1, NoCallShape DEF Return
      <4>2. CASE \E n \in {0, 1} : call' = [call EXCEPT ![c] = Summoning(@, "open", n)]
        <5>1. PICK n \in {0, 1} : call' = [call EXCEPT ![c] = Summoning(call[c], "open", n)]
          BY <1>1, <4>2
        <5>2. n \in 0..MaxSummons /\ "open" \in Status /\ call[c] \in Calls
          BY <1>1, BoundsAssumption DEF Status
        <5>3. Summoning(call[c], "open", n).pc # "stamped"
          BY <2>1, <5>2, SummoningShape
        <5> QED
          BY <1>1, <5>1, <5>3
      <4> QED
        BY <1>3, <4>1, <4>2 DEF Create
    <3> QED
      BY <3>1, <3>2 DEF Inserting, At
  <2>4. OnlyOverlapsCoexist'
    <3> SUFFICES ASSUME NEW s \in Active', NEW t \in Active', s # t
                 PROVE  {s, t} \in overlaps
      BY <2>1 DEF OnlyOverlapsCoexist
    <3>1. CASE s \in Active /\ t \in Active
      BY <3>1 DEF Coexist, OnlyOverlapsCoexist
    <3>2. CASE s \in Active /\ t = u
      BY <2>1, <3>2 DEF Coexist
    <3>3. CASE s = u /\ t \in Active
      <4>1. {t, u} \in overlaps /\ {s, t} = {t, u}
        BY <2>1, <3>3 DEF Coexist
      <4> QED
        BY <4>1
    <3> QED
      BY <2>2, <3>1, <3>2, <3>3
  <2>5. ASSUME NEW d \in Inserting', NEW s \in Active'
        PROVE  {s, call'[d].s} \in overlaps'
    <3>1. CASE s \in Active
      BY <2>1, <2>3, <3>1 DEF Coexist
    <3>2. CASE s = u
      BY <2>1, <2>3, <3>2 DEF Coexist
    <3> QED
      BY <2>2, <3>1, <3>2
  <2> QED
    BY <2>1, <2>3, <2>4, <2>5 DEF Coexist
<1>4. CASE \A c \in Call : ~Stamp(c) /\ ~Create(c)
  <2>1. Active' \subseteq Active
    BY <1>4, ActiveStay
  <2>2. \A d \in Inserting' : d \in Inserting /\ call'[d] = call[d]
    BY <1>4, InsertingStay DEF Inserting, At
  <2>3. UNCHANGED overlaps
    BY <1>4, ZenonT(60)
    DEF Next, vars, Kickoff, Post, Resume, Persist, Gate, Bill, Mint, Exhaust, Notify,
        Disarm, Rearm, Fire, OnFire, Closing, Close, Restart, BootScan, BootArm
  <2> QED
    BY <2>1, <2>2, <2>3 DEF Coexist, OnlyOverlapsCoexist
<1> QED
  BY <1>2, <1>3, <1>4

(* Which INSERTs ran at the same time says which sessions may coexist. *)
THEOREM Coexistence == Spec => []Coexist
<1>1. Init => Coexist
  BY NoCallShape DEF Init, Coexist, OnlyOverlapsCoexist, Active, Inserting, At, NoRow
<1>2. Inv /\ Coexist /\ [Next]_vars => Coexist'
  BY CoexistStep
<1> QED
  BY <1>1, <1>2, Invariant, PTL DEF Spec

(* Every variable of the work-session model keeps its type, and a row has a *)
(* pause reason exactly while it is paused (domain/channels.go:357).       *)
THEOREM TypeCorrect == Spec => []TypeOK
<1>1. Inv /\ Watching /\ Coexist => TypeOK
  BY DEF Inv, Watching, Coexist, Types, TypeOK, Calls
<1> QED
  BY <1>1, Invariant, Coexistence, PTL

(* Two sessions of a channel are active at once only if their INSERTs ran  *)
(* at the same time: "the loser inserts zero rows" in every other          *)
(* interleaving of kickoffs, posts, closes and restarts                    *)
(* (work_sessions.go:101-104).                                             *)
THEOREM LosersInsertNothing == Spec => []OnlyOverlapsCoexist
<1>1. Coexist => OnlyOverlapsCoexist
  BY DEF Coexist
<1> QED
  BY <1>1, Coexistence, PTL

-----------------------------------------------------------------------------
(* The ledger *)

LedgerStatus == [s \in Session |-> rows[s].status]
LedgerSpent == [s \in Session |-> rows[s].hops]

(* One session's status changes, or its hops do. *)
LEMMA StatusOf ==
  ASSUME Inv, NEW s \in Session, NEW x \in Status, NEW z \in Reason,
         \/ rows' = [rows EXCEPT ![s].status = x]
         \/ rows' = [rows EXCEPT ![s].status = x, ![s].reason = z]
  PROVE  /\ LedgerStatus' = [LedgerStatus EXCEPT ![s] = x]
         /\ LedgerSpent' = LedgerSpent
<1>1. rows \in [Session -> [status : Status, reason : Reason, hops : Nat]]
  BY DEF Inv, Types
<1>2. \A t \in Session : /\ rows'[t].status = IF t = s THEN x ELSE rows[t].status
                         /\ rows'[t].hops = rows[t].hops
  BY <1>1
<1> QED
  BY <1>2 DEF LedgerStatus, LedgerSpent

LEMMA HopsOf ==
  ASSUME Inv, NEW s \in Session, rows' = [rows EXCEPT ![s].hops = @ + 1]
  PROVE  /\ LedgerSpent' = [LedgerSpent EXCEPT ![s] = @ + 1]
         /\ LedgerStatus' = LedgerStatus
<1>1. rows \in [Session -> [status : Status, reason : Reason, hops : Nat]]
  BY DEF Inv, Types
<1> QED
  BY <1>1 DEF LedgerStatus, LedgerSpent

(* A call that is where its session is counted is one of those counted. *)
LEMMA InFlightSome ==
  ASSUME NEW s \in Session, NEW pcs, NEW c \in Call, In(call[c], s, pcs)
  PROVE  InFlight(s, pcs) \in Nat /\ InFlight(s, pcs) > 0
<1> DEFINE A == Those(call, s, pcs)
<1>1. IsFiniteSet(A) /\ c \in A
  BY CallAssumption, FS_Subset DEF Those, In
<1>2. InFlight(s, pcs) = Cardinality(A)
  BY DEF InFlight, Those
<1> HIDE DEF A
<1>3. Cardinality(A) \in Nat /\ Cardinality(A) # 0
  BY <1>1, FS_CardinalityType, FS_EmptySet
<1> QED
  BY <1>2, <1>3

(* Each step of a call is a step of the ledger, or invisible to it. *)
LEMMA LedgerStep ==
  ASSUME Inv, NEW c \in Call,
         Create(c) \/ Resume(c) \/ Gate(c) \/ Bill(c) \/ Mint(c) \/ Exhaust(c) \/ Notify(c)
           \/ Close(c)
  PROVE  Ledger!LedgerNext \/ UNCHANGED <<LedgerStatus, LedgerSpent, minted, notified, resumed>>
<1>0. PICK u \in Session : u = call[c].s
  BY CallFacts DEF Create, Resume, Gate, Bill, Mint, Exhaust, Notify, Close, At
<1>1. /\ u \in Session /\ {"none", "open", "paused", "closed"} = Status
      /\ {"none", "awaiting-human", "budget-exhausted"} = Reason
      /\ LedgerStatus[u] = rows[u].status /\ LedgerSpent[u] = rows[u].hops
  BY DEF Status, Reason, LedgerStatus, LedgerSpent
<1> USE <1>0
<1>2. CASE UNCHANGED <<rows, minted, notified, resumed>>
  BY <1>2 DEF LedgerStatus, LedgerSpent
<1>3. CASE Create(c) /\ ~UNCHANGED rows
  <2>1. /\ rows[u].status = "none" /\ rows' = [rows EXCEPT ![u].status = "open"]
        /\ UNCHANGED <<minted, notified, resumed>>
    BY <1>3 DEF Create, At, Inv, Fresh, runs
  <2>2. LedgerStatus' = [LedgerStatus EXCEPT ![u] = "open"] /\ LedgerSpent' = LedgerSpent
    BY <1>1, <2>1, StatusOf
  <2>3. Ledger!Opens(u)
    BY <1>1, <2>1, <2>2 DEF Ledger!Opens, Ledger!Turns, LedgerStatus, LedgerSpent
  <2> QED
    BY <1>1, <2>3 DEF Ledger!LedgerNext
<1>4. CASE Resume(c) /\ ~UNCHANGED <<rows, resumed>>
  <2>1. /\ rows[u].status = "paused" /\ Reopen(u)
        /\ resumed' = [resumed EXCEPT ![u] = @ + 1]
        /\ UNCHANGED <<minted, notified>>
    BY <1>4 DEF Resume, CanResume, runs
  <2>2. LedgerStatus' = [LedgerStatus EXCEPT ![u] = "open"] /\ LedgerSpent' = LedgerSpent
    BY <1>1, <2>1, StatusOf DEF Reopen
  <2>3. Ledger!Resumes(u)
    BY <1>1, <2>1, <2>2 DEF Ledger!Resumes, Ledger!Turns, LedgerStatus, LedgerSpent
  <2> QED
    BY <1>1, <2>3 DEF Ledger!LedgerNext
<1>5. CASE (Gate(c) \/ Exhaust(c)) /\ ~UNCHANGED rows
  <2>1. PICK z \in Reason : rows[u].status = "open" /\ Pause(u, z)
    BY <1>1, <1>5 DEF Gate, Exhaust, CanPause
  <2>2. LedgerStatus' = [LedgerStatus EXCEPT ![u] = "paused"] /\ LedgerSpent' = LedgerSpent
    BY <1>1, <2>1, StatusOf DEF Pause
  <2>3. UNCHANGED <<minted, notified, resumed>>
    BY <1>5 DEF Gate, Exhaust, runs
  <2>4. Ledger!Pauses(u)
    BY <1>1, <2>1, <2>2, <2>3 DEF Ledger!Pauses, Ledger!Turns, LedgerStatus, LedgerSpent
  <2> QED
    BY <1>1, <2>4 DEF Ledger!LedgerNext
<1>6. CASE Bill(c) /\ ~UNCHANGED rows
  <2>1. /\ rows[u].status = "open" /\ rows[u].hops < Budget
        /\ rows' = [rows EXCEPT ![u].hops = @ + 1]
        /\ UNCHANGED <<minted, notified, resumed>>
    BY <1>6 DEF Bill, CanBill, runs
  <2>2. LedgerSpent' = [LedgerSpent EXCEPT ![u] = @ + 1] /\ LedgerStatus' = LedgerStatus
    BY <1>1, <2>1, HopsOf
  <2>3. Ledger!Spends(u)
    BY <1>1, <2>1, <2>2 DEF Ledger!Spends, LedgerStatus, LedgerSpent
  <2> QED
    BY <1>1, <2>3 DEF Ledger!LedgerNext
<1>7. CASE Mint(c) /\ ~UNCHANGED minted
  <2>1. PICK n \in {0, 1} : minted' = [minted EXCEPT ![u] = @ + n]
    BY <1>7 DEF Mint
  <2>2. minted \in [Session -> Nat]
    BY DEF Inv, Types
  <2>3. n = 1
    BY <1>7, <2>1, <2>2
  <2>4. UNCHANGED <<LedgerStatus, LedgerSpent, notified, resumed>>
    BY <1>7 DEF Mint, LedgerStatus, LedgerSpent
  <2>5. minted[u] < LedgerSpent[u]
    <3>1. InFlight(u, {"mint"}) \in Nat /\ InFlight(u, {"mint"}) > 0
      BY <1>1, <1>7, InFlightSome DEF Mint, At, In
    <3>2. minted[u] + InFlight(u, {"mint"}) <= rows[u].hops
      BY <1>1 DEF Inv, HopsCoverRuns
    <3>3. minted[u] \in Nat /\ rows[u].hops \in Nat
      BY <1>1, <2>2, RowFacts
    <3> QED
      BY <1>1, <3>1, <3>2, <3>3
  <2>6. Ledger!Starts(u)
    BY <2>1, <2>3, <2>4, <2>5 DEF Ledger!Starts, LedgerStatus, LedgerSpent
  <2> QED
    BY <1>1, <2>6 DEF Ledger!LedgerNext
<1>8. CASE Notify(c) /\ ~UNCHANGED notified
  <2>1. PICK n \in {0, 1} : notified' = [notified EXCEPT ![u] = @ + n]
    BY <1>8 DEF Notify
  <2>2. notified \in [Session -> Nat]
    BY DEF Inv, Types
  <2>3. n = 1
    BY <1>8, <2>1, <2>2
  <2>4. UNCHANGED <<LedgerStatus, LedgerSpent, minted, resumed>>
    BY <1>8 DEF Notify, LedgerStatus, LedgerSpent
  <2>5. notified[u] <= resumed[u]
    <3>1. InFlight(u, Noticing) \in Nat /\ InFlight(u, Noticing) > 0
      BY <1>1, <1>8, InFlightSome DEF Notify, At, In, Noticing
    <3>2. notified[u] + InFlight(u, Noticing) + Spare(u) <= resumed[u] + 1
      BY <1>1 DEF Inv, Notices
    <3>3. notified[u] \in Nat /\ resumed[u] \in Nat /\ Spare(u) \in Nat
      BY <1>1, <2>2, RowFacts DEF Spare
    <3> QED
      BY <3>1, <3>2, <3>3
  <2>6. LedgerStatus[u] # "none"
    BY <1>1, <1>8, CallFacts DEF Notify, At, Knows
  <2>7. Ledger!Notifies(u)
    BY <2>1, <2>3, <2>4, <2>5, <2>6 DEF Ledger!Notifies, LedgerStatus, LedgerSpent
  <2> QED
    BY <1>1, <2>7 DEF Ledger!LedgerNext
<1>9. CASE Close(c) /\ ~UNCHANGED rows
  <2>1. /\ rows[u].status \in {"open", "paused"}
        /\ rows' = [rows EXCEPT ![u].status = "closed", ![u].reason = "none"]
        /\ UNCHANGED <<minted, notified, resumed>>
    BY <1>9 DEF Close, Active, runs
  <2>2. LedgerStatus' = [LedgerStatus EXCEPT ![u] = "closed"] /\ LedgerSpent' = LedgerSpent
    BY <1>1, <2>1, StatusOf
  <2>3. Ledger!Closes(u)
    BY <1>1, <2>1, <2>2 DEF Ledger!Closes, Ledger!Turns, LedgerStatus, LedgerSpent
  <2> QED
    BY <1>1, <2>3 DEF Ledger!LedgerNext
<1>10. \/ UNCHANGED <<rows, minted, notified, resumed>>
       \/ Create(c) /\ ~UNCHANGED rows
       \/ Resume(c) /\ ~UNCHANGED <<rows, resumed>>
       \/ (Gate(c) \/ Exhaust(c)) /\ ~UNCHANGED rows
       \/ Bill(c) /\ ~UNCHANGED rows
       \/ Mint(c) /\ ~UNCHANGED minted
       \/ Notify(c) /\ ~UNCHANGED notified
       \/ Close(c) /\ ~UNCHANGED rows
  BY DEF Create, Resume, Gate, Bill, Mint, Exhaust, Notify, Close, runs
<1> QED
  BY <1>2, <1>3, <1>4, <1>5, <1>6, <1>7, <1>8, <1>9, <1>10

(* WorkSession implements SessionLedger: posts, kickoffs, watchdogs,       *)
(* failures and restarts in any interleaving open, bill, pause, resume and *)
(* close sessions only as the ledger does, and start no run it did not pay *)
(* (chokepoint.go and sessions.go over work_sessions.go).                  *)
THEOREM KeepsLedger == Spec => ImplementsLedger
<1>1. Init => Ledger!LedgerInit
  BY DEF Init, Ledger!LedgerInit, NoRow
<1>2. ASSUME Inv, [Next]_vars
      PROVE  [Ledger!LedgerNext]_(Ledger!ledgerVars)
  <2>1. CASE UNCHANGED <<rows, minted, notified, resumed>>
    BY <2>1 DEF Ledger!ledgerVars
  <2>2. ASSUME NEW c \in Call,
               Create(c) \/ Resume(c) \/ Gate(c) \/ Bill(c) \/ Mint(c) \/ Exhaust(c) \/ Notify(c)
                 \/ Close(c)
        PROVE  [Ledger!LedgerNext]_(Ledger!ledgerVars)
    BY <1>2, <2>2, LedgerStep DEF Ledger!ledgerVars, LedgerStatus, LedgerSpent
  <2> QED
    BY <1>2, <2>1, <2>2, ZenonT(60)
    DEF Next, vars, runs, Kickoff, Stamp, Post, Persist, Disarm, Rearm, Fire, OnFire, Closing,
        Restart, BootScan, BootArm
<1> QED
  BY <1>1, <1>2, Invariant, PTL DEF Spec, ImplementsLedger, Ledger!LedgerSpec
=============================================================================
