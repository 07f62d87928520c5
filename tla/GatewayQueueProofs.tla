------------------------- MODULE GatewayQueueProofs -------------------------
(***************************************************************************)
(* Safety of GatewayQueue for every set of messages, other runs and        *)
(* presses, every queue depth and every bound on the runs of a turn.       *)
(*                                                                         *)
(* That a turn is in one place and that the queue is bounded follow from   *)
(* the queue alone.  That a pending card is live does not: the leg of the  *)
(* card may have been superseded while its drain was still on its way to   *)
(* present it, or after the card was found by a press.  Inv says what the  *)
(* bridge relies on: the legs of a turn begin in order, each is drained    *)
(* once, and whoever handles a superseded leg handles a turn that one      *)
(* press, or two presses of one card, resumed.                             *)
(***************************************************************************)
EXTENDS GatewayQueue, FiniteSetTheorems, SequenceTheorems, TLAPS

(* Where the turns stand. *)
Parked(m) == \E i \in 1..Len(queue) : queue[i] = m

QueueIsParked == \A m \in Msg : turn[m] = "queued" <=> Parked(m)
QueueIsDistinct == \A i, j \in 1..Len(queue) : queue[i] = queue[j] => i = j

Waiting == {m \in Msg : turn[m] = "queued" /\ m \notin returned}

QueueInv ==
  /\ QueueIsParked
  /\ QueueIsDistinct
  /\ IsFiniteSet(Waiting) /\ Cardinality(Waiting) <= Depth

(* Legs of a turn begin in order, once the turn was accepted. *)
LegsBegin ==
  /\ slot[Session] # None => stage[slot[Session]] # "new"
  /\ \A l \in Leg : stage[l] # "new" => turn[l[1]] = "on" /\ l[2] <= leg[l[1]]
  /\ \A m \in Msg : turn[m] # "on" => leg[m] = 1

(* The turn is still at leg l, unless two presses of one card resumed it. *)
Latest(l) == l[2] = leg[l[1]] \/ ResumedTwice(l[1])

(* A drain follows a leg that began; until it has presented the leg's card *)
(* nobody can resume the turn from this leg.                               *)
DrainsFollow ==
  \A l \in Leg :
    /\ drain[l] # "off" => l[2] <= leg[l[1]] /\ turn[l[1]] \in {"on", "blocked"}
    /\ drain[l] \in {"starting", "reading", "presenting", "carded"} => Latest(l)
    /\ drain[l] \in {"presenting", "carded"} => out[l] = "approval" /\ Ended(l)

(* A leg whose card is known has paused, and its drain is past that. *)
Presented(l) ==
  /\ l \in Leg
  /\ drain[l] \in {"recording", "over"}
  /\ out[l] = "approval" /\ Ended(l)

CardsPresented ==
  /\ pending # None => Presented(pending)
  /\ \A p \in Press : press[p].pc # "idle" => Presented(press[p].card)

(* What a press holds at each of its steps. *)
Succeeded(p) == press[p].pc \in {"resumed", "cleared", "drained"}

PressesHold ==
  \A p \in Press :
    /\ press[p].pc = "idle" => press[p].card = None
    /\ press[p].run # None <=> Succeeded(p)
    /\ Succeeded(p) => /\ press[p].run \in Leg
                       /\ press[p].run[1] = press[p].card[1]
                       /\ press[p].run[2] <= leg[press[p].run[1]]
    /\ press[p].pc \in {"resumed", "cleared"} =>
         drain[press[p].run] = "off" /\ Latest(press[p].run)

RunsDiffer ==
  \A p, q \in Press : press[p].run = press[q].run /\ Succeeded(p) => p = q

(* A card that a press holds and whose leg was superseded was answered. *)
CardsAnswered ==
  \A p \in Press : press[p].pc # "idle" =>
    \/ press[p].card[2] = leg[press[p].card[1]]
    \/ \E q \in Press : Succeeded(q) /\ press[q].card = press[p].card
    \/ ResumedTwice(press[p].card[1])

CardInv ==
  /\ LegsBegin
  /\ DrainsFollow
  /\ CardsPresented
  /\ PressesHold
  /\ RunsDiffer
  /\ CardsAnswered
  /\ CardIsLive

Inv == TypeOK /\ QueueInv /\ CardInv

-----------------------------------------------------------------------------
(* Types *)

LEMMA LegType ==
  ASSUME NEW m \in Msg, NEW n \in 1..MaxLegs
  PROVE  <<m, n>> \in Leg /\ <<m, n>>[1] = m /\ <<m, n>>[2] = n
  BY BoundsAssumption DEF Leg

LEMMA LegParts ==
  ASSUME NEW l \in Leg
  PROVE  /\ l[1] \in Msg /\ l[2] \in 1..MaxLegs /\ l[2] \in Nat
         /\ l = <<l[1], l[2]>> /\ l # None
  BY BoundsAssumption, NamesAssumption DEF Leg

LEMMA FirstLeg ==
  ASSUME NEW m \in Msg
  PROVE  First(m) \in Leg /\ First(m)[1] = m /\ First(m)[2] = 1
  BY BoundsAssumption DEF Leg, First

LEMMA TypeInit == Init => TypeOK
  BY BoundsAssumption, EmptySeq
     DEF Init, TypeOK, Slots!SlotsInit, Turn, Out, Drain, Pc

(* A step keeps every variable's type. *)
LEMMA TypeStep == TypeOK /\ CardInv /\ [Next]_vars => TypeOK'
<1> SUFFICES ASSUME TypeOK, CardInv, [Next]_vars PROVE TypeOK'
  OBVIOUS
<1> USE BoundsAssumption, NamesAssumption DEF TypeOK
<1>a. ASSUME NEW m \in Msg, Accepted(m) PROVE
        /\ open' \in BOOLEAN /\ audience' \in [Leg \cup Foreign -> {{}}]
        /\ slot' \in [{Session} -> Leg \cup Foreign \cup {None}]
        /\ stage' \in [Leg \cup Foreign -> {"new", "on", "over"}]
        /\ turn' \in [Msg -> Turn] /\ drain' \in [Leg -> Drain] /\ out' \in [Leg -> Out]
  <2>1. First(m) \in Leg
    BY FirstLeg
  <2> HIDE DEF First
  <2>2. slot' = [slot EXCEPT ![Session] = First(m)] /\ UNCHANGED <<audience, open, out>>
    BY <1>a DEF Accepted, Slots!Admit
  <2>3. stage' = [stage EXCEPT ![First(m)] = "on"]
    BY <1>a DEF Accepted, Slots!Admit
  <2>4. turn' \in [Msg -> Turn] /\ drain' \in [Leg -> Drain]
    BY <1>a, <2>1 DEF Accepted, Turn, Drain
  <2>5. slot' \in [{Session} -> Leg \cup Foreign \cup {None}]
    BY <2>1, <2>2
  <2>6. stage' \in [Leg \cup Foreign -> {"new", "on", "over"}]
    BY <2>1, <2>3
  <2>7. out' \in [Leg -> Out] /\ audience' \in [Leg \cup Foreign -> {{}}]
    BY <2>2
  <2>8. open' \in BOOLEAN
    BY <2>2, Zenon
  <2> QED
    BY <2>4, <2>5, <2>6, <2>7, <2>8, Zenon
<1>b. ASSUME NEW m \in Msg, Blocked(m) PROVE
        /\ turn' \in [Msg -> Turn] /\ drain' \in [Leg -> Drain] /\ out' \in [Leg -> Out]
        /\ UNCHANGED runs
  BY <1>b, FirstLeg DEF Blocked, Turn, Drain, Out, runs
<1>c. ASSUME NEW m \in Msg, NEW c \in {"conflicted", "returning"}, Rejected(m, c) PROVE
        turn' \in [Msg -> Turn] /\ UNCHANGED <<runs, drain, out>>
  BY <1>c DEF Rejected, Turn, runs
<1>1. ASSUME NEW m \in Msg, Arrive(m) PROVE TypeOK'
  BY <1>1 DEF Arrive, Turn, runs, approvals
<1>2. ASSUME NEW m \in Msg, Submit(m) PROVE TypeOK'
  BY <1>2, <1>a, <1>b, <1>c DEF Submit, runs, approvals
<1>3. ASSUME NEW m \in Msg, Enqueue(m) PROVE TypeOK'
  <2>1. Append(queue, m) \in Seq(Msg)
    OBVIOUS
  <2>2. queue' \in Seq(Msg)
    BY <1>3, <2>1 DEF Enqueue
  <2>3. turn' \in [Msg -> Turn]
    BY <1>3, ZenonT(60) DEF Enqueue, Turn
  <2> QED
    BY <1>3, <2>2, <2>3 DEF Enqueue, runs, approvals
<1>4. ASSUME NEW m \in Msg, Resubmit(m) PROVE TypeOK'
  BY <1>4, <1>a, <1>b, <1>c DEF Resubmit, runs, approvals
<1>5. ASSUME NEW m \in Msg, PutBack(m) PROVE TypeOK'
  <2>1. <<m>> \o queue \in Seq(Msg)
    OBVIOUS
  <2> QED
    BY <1>5, <2>1 DEF PutBack, Turn, runs, approvals
<1>6. ASSUME NEW l \in Leg, SendsLast(l) PROVE TypeOK'
  BY <1>6 DEF SendsLast, Out, runs, approvals
<1>7. ASSUME NEW l \in Leg, DrainStarts(l) PROVE TypeOK'
  BY <1>7 DEF DrainStarts, Drain, runs, approvals
<1>8. ASSUME NEW l \in Leg, DrainEnds(l) PROVE TypeOK'
  BY <1>8 DEF DrainEnds, Drain, runs, approvals
<1>9. ASSUME NEW l \in Leg, DrainPauses(l) PROVE TypeOK'
  BY <1>9 DEF DrainPauses, Drain, runs, approvals
<1>10. ASSUME NEW l \in Leg, Release(l) PROVE TypeOK'
  <2>1. queue # <<>> => Head(queue) \in Msg /\ Tail(queue) \in Seq(Msg)
    OBVIOUS
  <2> QED
    BY <1>10, <2>1 DEF Release, Turn, Drain, runs, approvals
<1>11. ASSUME NEW l \in Leg, SendCard(l) PROVE TypeOK'
  BY <1>11 DEF SendCard, Drain, runs, approvals
<1>12. ASSUME NEW l \in Leg, MarkPending(l) PROVE TypeOK'
  BY <1>12 DEF MarkPending, Drain, runs
<1>13. ASSUME NEW l \in Leg, RecordCoords(l) PROVE TypeOK'
  BY <1>13 DEF RecordCoords, Drain, runs
<1>14. ASSUME NEW r \in Leg \cup Foreign, Ends(r) PROVE TypeOK'
  BY <1>14 DEF Ends, Slots!End, approvals
<1>15. CASE Deregisters
  BY <1>15 DEF Deregisters, Slots!Vacate, approvals
<1>16. ASSUME NEW r \in Foreign, ForeignRun(r) PROVE TypeOK'
  BY <1>16 DEF ForeignRun, Slots!Admit, approvals
<1>17. ASSUME NEW p \in Press, Answer(p) PROVE TypeOK'
  BY <1>17 DEF Answer, Pc, runs
<1>18. ASSUME NEW p \in Press, Resume(p) PROVE TypeOK'
  <2> DEFINE c == press[p].card
             next == <<c[1], leg[c[1]] + 1>>
  <2>1. c \in Leg /\ c[1] \in Msg
    BY <1>18, LegParts DEF Resume, CardInv, CardsPresented, Presented
  <2>2. leg[c[1]] \in 1..MaxLegs
    BY <2>1
  <2>3. CASE /\ leg[c[1]] < MaxLegs /\ Slots!Admit(Session, next)
             /\ leg' = [leg EXCEPT ![c[1]] = @ + 1]
             /\ press' = [press EXCEPT ![p] = [pc |-> "resumed", card |-> c, run |-> next]]
    <3>1. leg[c[1]] + 1 \in 1..MaxLegs
      BY <2>2, <2>3
    <3>2. next \in Leg
      BY <2>1, <3>1, LegType
    <3>3. press' \in [Press -> [pc : Pc, card : Leg \cup {None}, run : Leg \cup {None}]]
      BY <2>1, <2>3, <3>2 DEF Pc
    <3>4. leg' \in [Msg -> 1..MaxLegs]
      BY <2>3, <3>1
    <3>5. /\ open' \in BOOLEAN /\ audience' \in [Leg \cup Foreign -> {{}}]
          /\ slot' \in [{Session} -> Leg \cup Foreign \cup {None}]
          /\ stage' \in [Leg \cup Foreign -> {"new", "on", "over"}]
      BY <2>3, <3>2 DEF Slots!Admit
    <3> QED
      BY <1>18, <3>3, <3>4, <3>5 DEF Resume
  <2>4. CASE /\ press' = [press EXCEPT ![p] = [pc |-> "failed", card |-> c, run |-> None]]
             /\ UNCHANGED <<runs, leg>>
    BY <1>18, <2>1, <2>4 DEF Resume, Pc, runs
  <2> QED
    BY <1>18, <2>3, <2>4 DEF Resume
<1>19. ASSUME NEW p \in Press, ClearPending(p) PROVE TypeOK'
  BY <1>19 DEF ClearPending, At, Pc, runs
<1>20. ASSUME NEW p \in Press, DrainResumed(p) PROVE TypeOK'
  BY <1>20 DEF DrainResumed, At, Pc, Drain, runs
<1>21. CASE Detach
  BY <1>21 DEF Detach, runs, approvals
<1>22. CASE Shutdown
  BY <1>22 DEF Shutdown, Slots!StopAdmitting, approvals
<1>23. CASE UNCHANGED vars
  BY <1>23 DEF vars
<1> QED
  BY <1>1, <1>2, <1>3, <1>4, <1>5, <1>6, <1>7, <1>8, <1>9, <1>10, <1>11, <1>12, <1>13,
     <1>14, <1>15, <1>16, <1>17, <1>18, <1>19, <1>20, <1>21, <1>22, <1>23
     DEF Next, TurnStep, DrainStep, PressStep
-----------------------------------------------------------------------------
(* The queue *)

(* A queue has no more members than places. *)
LEMMA MembersBound ==
  ASSUME NEW S, NEW s \in Seq(S)
  PROVE  LET R == {s[i] : i \in 1..Len(s)}
         IN  IsFiniteSet(R) /\ Cardinality(R) <= Len(s)
<1> DEFINE R == {s[i] : i \in 1..Len(s)}
           f == [i \in 1..Len(s) |-> s[i]]
<1>1. f \in Surjection(1..Len(s), R)
  BY DEF Surjection
<1>2. IsFiniteSet(1..Len(s)) /\ Cardinality(1..Len(s)) = Len(s)
  <2> DEFINE n == Len(s)
  <2>1. n \in Nat
    OBVIOUS
  <2> HIDE DEF n
  <2>2. 1 \in Int /\ n \in Int
    BY <2>1
  <2>3. IsFiniteSet(1..n) /\ Cardinality(1..n) = IF 1 > n THEN 0 ELSE n - 1 + 1
    BY <2>2, FS_Interval, Zenon
  <2>4. (IF 1 > n THEN 0 ELSE n - 1 + 1) = n
    BY <2>1
  <2> QED
    BY <2>3, <2>4 DEF n
<1>3. IsFiniteSet(R) /\ Cardinality(R) <= Cardinality(1..Len(s))
  <2> HIDE DEF R, f
  <2> DEFINE I == 1..Len(s)
  <2>1. f \in Surjection(I, R) /\ IsFiniteSet(I)
    BY <1>1, <1>2
  <2> HIDE DEF I
  <2>2. IsFiniteSet(R) /\ Cardinality(R) <= Cardinality(I)
    BY <2>1, FS_Surjection, Zenon
  <2> QED
    BY <2>2 DEF I
<1> QED
  BY <1>2, <1>3

LEMMA WaitingBound ==
  ASSUME TypeOK, QueueIsParked
  PROVE  IsFiniteSet(Waiting) /\ Cardinality(Waiting) <= Len(queue)
<1> DEFINE R == {queue[i] : i \in 1..Len(queue)}
<1>1. IsFiniteSet(R) /\ Cardinality(R) <= Len(queue)
  BY MembersBound DEF TypeOK
<1>2. Waiting \subseteq R
  BY DEF Waiting, QueueIsParked, Parked
<1>3. IsFiniteSet(Waiting) /\ Cardinality(Waiting) <= Cardinality(R)
  BY <1>1, <1>2, FS_Subset
<1>4. Cardinality(R) \in Nat /\ Cardinality(Waiting) \in Nat /\ Len(queue) \in Nat
  BY <1>1, <1>3, FS_CardinalityType DEF TypeOK
<1> QED
  BY <1>1, <1>3, <1>4

(* Fewer turns wait. *)
LEMMA FewerWait ==
  ASSUME QueueInv, Waiting' \subseteq Waiting
  PROVE  IsFiniteSet(Waiting') /\ Cardinality(Waiting') <= Depth
<1>1. IsFiniteSet(Waiting) /\ Cardinality(Waiting) <= Depth
  BY DEF QueueInv
<1>2. IsFiniteSet(Waiting') /\ Cardinality(Waiting') <= Cardinality(Waiting)
  BY <1>1, FS_Subset
<1>3. Cardinality(Waiting) \in Nat /\ Cardinality(Waiting') \in Nat
  BY <1>1, <1>2, FS_CardinalityType
<1> QED
  BY <1>1, <1>2, <1>3, BoundsAssumption

(* A turn that is not parked moves on to a place that is not the queue. *)
LEMMA Elsewhere ==
  ASSUME TypeOK, QueueInv, NEW m \in Msg, NEW t \in Turn \ {"queued"},
         turn[m] # "queued", turn' = [turn EXCEPT ![m] = t],
         UNCHANGED <<queue, returned>>
  PROVE  QueueInv'
<1>1. \A x \in Msg : turn'[x] = "queued" <=> turn[x] = "queued"
  BY DEF TypeOK
<1>2. QueueIsParked' /\ QueueIsDistinct'
  BY <1>1 DEF QueueInv, QueueIsParked, QueueIsDistinct, Parked
<1>3. Waiting' \subseteq Waiting
  BY <1>1 DEF Waiting
<1> QED
  BY <1>2, <1>3, FewerWait DEF QueueInv

LEMMA QueueEnqueue ==
  ASSUME TypeOK, QueueInv, NEW m \in Msg, Enqueue(m)
  PROVE  QueueInv'
<1>1. CASE ~(Len(queue) < Depth)
  BY <1>1, Elsewhere DEF Enqueue, Turn
<1>2. CASE Len(queue) < Depth
  <2>1. /\ queue' = Append(queue, m) /\ turn' = [turn EXCEPT ![m] = "queued"]
        /\ returned' = returned /\ turn[m] = "conflicted"
    BY <1>2 DEF Enqueue
  <2>2. /\ Len(queue) \in Nat /\ Len(queue') = Len(queue) + 1
        /\ queue'[Len(queue) + 1] = m
        /\ \A i \in 1..Len(queue) : queue'[i] = queue[i]
    BY <2>1 DEF TypeOK
  <2>3. ~Parked(m)
    BY <2>1 DEF QueueInv, QueueIsParked
  <2>4. QueueIsParked'
    <3>1. ASSUME NEW x \in Msg PROVE Parked(x)' <=> Parked(x) \/ x = m
      BY <2>2 DEF Parked
    <3>2. \A x \in Msg : turn'[x] = "queued" <=> turn[x] = "queued" \/ x = m
      BY <2>1 DEF TypeOK
    <3> QED
      BY <3>1, <3>2 DEF QueueInv, QueueIsParked
  <2>5. QueueIsDistinct'
    BY <2>2, <2>3 DEF QueueInv, QueueIsDistinct, Parked
  <2>6. Waiting' \subseteq Waiting \cup {m}
    BY <2>1 DEF Waiting, TypeOK
  <2>7. IsFiniteSet(Waiting) /\ Cardinality(Waiting) <= Len(queue)
    BY WaitingBound DEF QueueInv
  <2>8. Cardinality(Waiting) \in Nat
    BY <2>7, FS_CardinalityType
  <2>9. /\ IsFiniteSet(Waiting \cup {m})
        /\ Cardinality(Waiting \cup {m}) <= Cardinality(Waiting) + 1
    <3> DEFINE W == Waiting
    <3>1. IsFiniteSet(W)
      BY <2>7
    <3> HIDE DEF W
    <3>2. /\ IsFiniteSet(W \cup {m})
          /\ Cardinality(W \cup {m}) = IF m \in W THEN Cardinality(W) ELSE Cardinality(W) + 1
      BY <3>1, FS_AddElement, Zenon
    <3> QED
      BY <2>8, <3>2 DEF W
  <2>10. /\ IsFiniteSet(Waiting')
         /\ Cardinality(Waiting') <= Cardinality(Waiting \cup {m})
    BY <2>6, <2>9, FS_Subset
  <2>11. Cardinality(Waiting') \in Nat /\ Cardinality(Waiting \cup {m}) \in Nat
    BY <2>9, <2>10, FS_CardinalityType
  <2>12. Cardinality(Waiting') <= Depth
    BY <1>2, <2>2, <2>7, <2>8, <2>9, <2>10, <2>11, BoundsAssumption
  <2> QED
    BY <2>4, <2>5, <2>10, <2>12 DEF QueueInv
<1> QED
  BY <1>1, <1>2

LEMMA QueueRelease ==
  ASSUME TypeOK, QueueInv, NEW l \in Leg, Release(l)
  PROVE  QueueInv'
<1>1. CASE queue = <<>>
  <2>1. UNCHANGED <<queue, turn, returned>>
    BY <1>1 DEF Release
  <2> QED
    BY <2>1 DEF QueueInv, QueueIsParked, QueueIsDistinct, Parked, Waiting
<1>2. CASE queue # <<>>
  <2> DEFINE h == Head(queue)
  <2>1. /\ queue' = Tail(queue) /\ turn' = [turn EXCEPT ![h] = "taken"]
        /\ returned' = returned
    BY <1>2 DEF Release
  <2>2. /\ Len(queue) \in Nat \ {0} /\ Len(queue') = Len(queue) - 1
        /\ h \in Msg /\ h = queue[1]
        /\ \A i \in 1..Len(queue') : queue'[i] = queue[i + 1]
    BY <1>2, <2>1 DEF TypeOK
  <2> HIDE DEF h
  <2>3. ASSUME NEW x \in Msg PROVE Parked(x)' <=> Parked(x) /\ x # h
    <3>1. ASSUME Parked(x)' PROVE Parked(x) /\ x # h
      <4>1. PICK i \in 1..Len(queue') : queue'[i] = x
        BY <3>1 DEF Parked
      <4>2. i + 1 \in 1..Len(queue) /\ queue[i + 1] = x /\ i + 1 # 1
        BY <2>2, <4>1
      <4> QED
        BY <2>2, <4>2 DEF Parked, QueueInv, QueueIsDistinct
    <3>2. ASSUME Parked(x), x # h PROVE Parked(x)'
      <4>1. PICK i \in 1..Len(queue) : queue[i] = x
        BY <3>2 DEF Parked
      <4>2. i # 1
        BY <2>2, <3>2, <4>1
      <4>3. i - 1 \in 1..Len(queue') /\ queue'[i - 1] = queue[i]
        BY <2>2, <4>1, <4>2
      <4> QED
        BY <4>1, <4>3 DEF Parked
    <3> QED
      BY <3>1, <3>2
  <2>4. \A x \in Msg : turn'[x] = "queued" <=> turn[x] = "queued" /\ x # h
    BY <2>1, <2>2 DEF TypeOK
  <2>5. QueueIsParked'
    BY <2>3, <2>4 DEF QueueInv, QueueIsParked
  <2>6. QueueIsDistinct'
    BY <2>2 DEF QueueInv, QueueIsDistinct
  <2>7. Waiting' \subseteq Waiting
    BY <2>1, <2>4 DEF Waiting
  <2> QED
    BY <2>5, <2>6, <2>7, FewerWait DEF QueueInv
<1> QED
  BY <1>1, <1>2

LEMMA QueuePutBack ==
  ASSUME TypeOK, QueueInv, NEW m \in Msg, PutBack(m)
  PROVE  QueueInv'
<1>1. /\ queue' = <<m>> \o queue /\ turn' = [turn EXCEPT ![m] = "queued"]
      /\ returned' = returned \cup {m} /\ turn[m] = "returning"
  BY DEF PutBack
<1>2. /\ Len(queue) \in Nat /\ Len(queue') = Len(queue) + 1
      /\ queue'[1] = m
      /\ \A i \in 1..Len(queue) : queue'[i + 1] = queue[i]
  BY <1>1 DEF TypeOK
<1>3. ~Parked(m)
  BY <1>1 DEF QueueInv, QueueIsParked
<1>4. ASSUME NEW x \in Msg PROVE Parked(x)' <=> Parked(x) \/ x = m
  <2>1. ASSUME Parked(x)' PROVE Parked(x) \/ x = m
    <3>1. PICK i \in 1..Len(queue') : queue'[i] = x
      BY <2>1 DEF Parked
    <3>2. CASE i = 1
      BY <1>2, <3>1, <3>2
    <3>3. CASE i # 1
      <4>1. i - 1 \in 1..Len(queue) /\ queue[i - 1] = x
        BY <1>2, <3>1, <3>3
      <4> QED
        BY <4>1 DEF Parked
    <3> QED
      BY <3>2, <3>3
  <2>2. ASSUME Parked(x) PROVE Parked(x)'
    <3>1. PICK i \in 1..Len(queue) : queue[i] = x
      BY <2>2 DEF Parked
    <3>2. i + 1 \in 1..Len(queue') /\ queue'[i + 1] = x
      BY <1>2, <3>1
    <3> QED
      BY <3>2 DEF Parked
  <2>3. Parked(m)'
    <3>1. 1 \in 1..Len(queue')
      BY <1>2
    <3> QED
      BY <1>2, <3>1 DEF Parked
  <2> QED
    BY <2>1, <2>2, <2>3
<1>5. \A x \in Msg : turn'[x] = "queued" <=> turn[x] = "queued" \/ x = m
  BY <1>1 DEF TypeOK
<1>6. QueueIsParked'
  BY <1>4, <1>5 DEF QueueInv, QueueIsParked
<1>7. QueueIsDistinct'
  <2>1. ASSUME NEW i \in 1..Len(queue'), NEW j \in 1..Len(queue'),
               queue'[i] = queue'[j]
        PROVE  i = j
    <3>1. ASSUME NEW k \in 1..Len(queue'), k # 1
          PROVE  k - 1 \in 1..Len(queue) /\ queue'[k] = queue[k - 1] /\ queue'[k] # m
      <4>1. k - 1 \in 1..Len(queue) /\ queue'[k] = queue[k - 1]
        BY <1>2, <3>1
      <4> QED
        BY <1>3, <4>1 DEF Parked
    <3>2. CASE i = 1 \/ j = 1
      BY <1>2, <2>1, <3>1, <3>2
    <3>3. CASE i # 1 /\ j # 1
      <4>1. i - 1 = j - 1
        BY <2>1, <3>1, <3>3 DEF QueueInv, QueueIsDistinct
      <4> QED
        BY <1>2, <4>1
    <3> QED
      BY <3>2, <3>3
  <2> QED
    BY <2>1 DEF QueueIsDistinct
<1>8. Waiting' \subseteq Waiting
  BY <1>1, <1>5 DEF Waiting
<1> QED
  BY <1>6, <1>7, <1>8, FewerWait DEF QueueInv

LEMMA QueueInit == Init => QueueInv
<1> SUFFICES ASSUME Init PROVE QueueInv
  OBVIOUS
<1>1. queue = <<>> /\ \A m \in Msg : turn[m] = "new"
  BY DEF Init
<1>2. Waiting = {}
  BY <1>1 DEF Waiting
<1>3. IsFiniteSet(Waiting) /\ Cardinality(Waiting) <= Depth
  BY <1>2, FS_EmptySet, BoundsAssumption
<1>4. Len(queue) = 0
  BY <1>1
<1> QED
  BY <1>1, <1>3, <1>4 DEF QueueInv, QueueIsParked, QueueIsDistinct, Parked

(* A step keeps the queue's invariant. *)
LEMMA QueueStep == TypeOK /\ QueueInv /\ [Next]_vars => QueueInv'
<1> SUFFICES ASSUME TypeOK, QueueInv, [Next]_vars PROVE QueueInv'
  OBVIOUS
<1>1. ASSUME UNCHANGED <<turn, queue, returned>> PROVE QueueInv'
  BY <1>1 DEF QueueInv, QueueIsParked, QueueIsDistinct, Parked, Waiting
<1>2. ASSUME NEW m \in Msg, Arrive(m) PROVE QueueInv'
  <2>1. PICK t \in {"dropped", "routed", "refused", "command"} :
          turn' = [turn EXCEPT ![m] = t]
    BY <1>2 DEF Arrive
  <2> QED
    BY <1>2, <2>1, Elsewhere DEF Arrive, Turn
<1>3. ASSUME NEW m \in Msg, turn[m] # "queued", UNCHANGED <<queue, returned>>,
             \/ Accepted(m) \/ Blocked(m)
             \/ Rejected(m, "conflicted") \/ Rejected(m, "returning")
      PROVE  QueueInv'
  <2>1. PICK t \in {"on", "blocked", "failed", "conflicted", "returning"} :
          turn' = [turn EXCEPT ![m] = t]
    BY <1>3 DEF Accepted, Blocked, Rejected
  <2> QED
    BY <1>3, <2>1, Elsewhere DEF Turn
<1>4. ASSUME NEW m \in Msg, Submit(m) \/ Resubmit(m) PROVE QueueInv'
  BY <1>3, <1>4 DEF Submit, Resubmit
<1>5. ASSUME NEW m \in Msg, TurnStep(m) PROVE QueueInv'
  BY <1>4, <1>5, QueueEnqueue, QueuePutBack DEF TurnStep
<1>6. ASSUME NEW l \in Leg, DrainStep(l) PROVE QueueInv'
  BY <1>1, <1>6, QueueRelease
     DEF DrainStep, DrainStarts, DrainEnds, DrainPauses, SendCard, MarkPending, RecordCoords
<1>7. ASSUME NEW l \in Leg, SendsLast(l) PROVE QueueInv'
  BY <1>1, <1>7 DEF SendsLast
<1>8. ASSUME NEW r \in Leg \cup Foreign, Ends(r) \/ ForeignRun(r) PROVE QueueInv'
  BY <1>1, <1>8 DEF Ends, ForeignRun
<1>9. CASE Deregisters \/ Detach \/ Shutdown
  BY <1>1, <1>9 DEF Deregisters, Detach, Shutdown
<1>10. ASSUME NEW p \in Press, Answer(p) \/ PressStep(p) PROVE QueueInv'
  BY <1>1, <1>10 DEF Answer, PressStep, Resume, ClearPending, DrainResumed
<1>11. CASE UNCHANGED vars
  BY <1>1, <1>11 DEF vars
<1> QED
  BY <1>2, <1>5, <1>6, <1>7, <1>8, <1>9, <1>10, <1>11 DEF Next
-----------------------------------------------------------------------------
(* Cards *)

(* That a turn was resumed twice is never undone. *)
LEMMA TwiceStays ==
  ASSUME NEW m \in Msg, ResumedTwice(m),
         \A p \in Press : press[p].run # None =>
           press'[p].run = press[p].run /\ press'[p].card = press[p].card
  PROVE  ResumedTwice(m)'
  BY DEF ResumedTwice

(* Steps in which messages move before they are accepted. *)
LEMMA CardsMessage ==
  ASSUME TypeOK, CardInv, UNCHANGED <<slot, stage, leg, out, drain, pending, press>>,
         \A m \in Msg : \/ turn'[m] = turn[m]
                        \/ turn[m] \notin {"on", "blocked"} /\ turn'[m] \notin {"on", "blocked"}
  PROVE  CardInv'
<1>1. \A m \in Msg : ResumedTwice(m)' <=> ResumedTwice(m)
  BY DEF ResumedTwice
<1>2. \A l \in Leg : l[1] \in Msg
  BY LegParts
<1>3. LegsBegin'
  BY <1>2 DEF CardInv, LegsBegin
<1>4. DrainsFollow'
  BY <1>1, <1>2 DEF CardInv, DrainsFollow, Latest, Ended
<1>5. CardsPresented'
  BY DEF CardInv, CardsPresented, Presented, Ended
<1>6. PressesHold'
  BY <1>1, <1>2 DEF CardInv, PressesHold, Succeeded, Latest
<1>7. RunsDiffer'
  BY DEF CardInv, RunsDiffer, Succeeded
<1>8. CardsAnswered'
  BY <1>1, <1>2 DEF CardInv, CardsAnswered, Succeeded, CardsPresented, Presented
<1>9. CardIsLive'
  BY <1>1, <1>2 DEF CardInv, CardIsLive, Paused, Ended, CardsPresented, Presented
<1> QED
  BY <1>3, <1>4, <1>5, <1>6, <1>7, <1>8, <1>9 DEF CardInv

(* Steps of one drain, up to the marking of its card. *)
LEMMA CardsDrain ==
  ASSUME TypeOK, CardInv, UNCHANGED <<slot, stage, leg, out, pending, press>>,
         NEW l \in Leg, NEW d \in Drain \ {"off"},
         drain' = [drain EXCEPT ![l] = d], drain[l] # "off",
         drain[l] \in {"recording", "over"} => d \in {"recording", "over"},
         d \in {"starting", "reading", "presenting", "carded"} =>
           drain[l] \in {"starting", "reading", "presenting", "carded"},
         d \in {"presenting", "carded"} => out[l] = "approval" /\ Ended(l),
         \A m \in Msg : \/ turn'[m] = turn[m]
                        \/ turn[m] \notin {"on", "blocked"} /\ turn'[m] \notin {"on", "blocked"}
  PROVE  CardInv'
<1>1. \A m \in Msg : ResumedTwice(m)' <=> ResumedTwice(m)
  BY DEF ResumedTwice
<1>2. \A x \in Leg : x[1] \in Msg
  BY LegParts
<1>3. LegsBegin'
  BY <1>2 DEF CardInv, LegsBegin
<1>4. DrainsFollow'
  BY <1>1, <1>2 DEF CardInv, DrainsFollow, Latest, Ended, TypeOK
<1>a. \A x : Presented(x) => Presented(x)'
  BY DEF Presented, Ended, TypeOK
<1>5. CardsPresented'
  BY <1>a DEF CardInv, CardsPresented
<1>6. PressesHold'
  BY <1>1, <1>2 DEF CardInv, PressesHold, Succeeded, Latest, TypeOK
<1>7. RunsDiffer'
  BY DEF CardInv, RunsDiffer, Succeeded
<1>8. CardsAnswered'
  BY <1>1, <1>2 DEF CardInv, CardsAnswered, Succeeded, CardsPresented, Presented
<1>9. CardIsLive'
  BY <1>1, <1>2 DEF CardInv, CardIsLive, Paused, Ended, CardsPresented, Presented
<1> QED
  BY <1>3, <1>4, <1>5, <1>6, <1>7, <1>8, <1>9 DEF CardInv

(* Steps of a run, or of the registry, other than an admission. *)
LEMMA CardsRun ==
  ASSUME TypeOK, CardInv, UNCHANGED <<turn, leg, drain, pending, press>>,
         slot'[Session] # None => stage'[slot'[Session]] # "new",
         \A l \in Leg :
           /\ stage'[l] # "new" => stage[l] # "new"
           /\ Ended(l) => Ended(l)' /\ out'[l] = out[l]
  PROVE  CardInv'
<1>1. \A m \in Msg : ResumedTwice(m)' <=> ResumedTwice(m)
  BY DEF ResumedTwice
<1>2. \A x \in Leg : x[1] \in Msg
  BY LegParts
<1>3. LegsBegin'
  BY <1>2 DEF CardInv, LegsBegin
<1>4. DrainsFollow'
  BY <1>1, <1>2 DEF CardInv, DrainsFollow, Latest
<1>a. \A x : Presented(x) => Presented(x)'
  BY DEF Presented
<1>5. CardsPresented'
  BY <1>a DEF CardInv, CardsPresented
<1>6. PressesHold'
  BY <1>1, <1>2 DEF CardInv, PressesHold, Succeeded, Latest
<1>7. RunsDiffer'
  BY DEF CardInv, RunsDiffer, Succeeded
<1>8. CardsAnswered'
  BY <1>1, <1>2 DEF CardInv, CardsAnswered, Succeeded, CardsPresented, Presented
<1>9. CardIsLive'
  BY <1>1, <1>2 DEF CardInv, CardIsLive, Paused, CardsPresented, Presented
<1> QED
  BY <1>3, <1>4, <1>5, <1>6, <1>7, <1>8, <1>9 DEF CardInv

(* A turn is accepted, or answered by a hook: its first drain begins. *)
LEMMA CardsFirst ==
  ASSUME TypeOK, CardInv, UNCHANGED <<leg, pending, press>>,
         NEW m \in Msg, turn[m] \notin {"on", "blocked"},
         NEW t \in {"on", "blocked"}, turn' = [turn EXCEPT ![m] = t],
         drain' = [drain EXCEPT ![First(m)] = "starting"],
         slot'[Session] # None => stage'[slot'[Session]] # "new",
         \A l \in Leg \ {First(m)} : stage'[l] = stage[l] /\ out'[l] = out[l],
         t # "on" => stage'[First(m)] = stage[First(m)]
  PROVE  CardInv'
<1> DEFINE f == First(m)
<1>1. \A x \in Msg : ResumedTwice(x)' <=> ResumedTwice(x)
  BY DEF ResumedTwice
<1>2. \A x \in Leg : x[1] \in Msg
  BY LegParts
<1>3. f \in Leg /\ f[1] = m /\ f[2] = 1
  BY FirstLeg
<1> HIDE DEF f
<1>4. leg[m] = 1
  BY DEF CardInv, LegsBegin
<1>5. drain[f] = "off" /\ stage[f] = "new"
  BY <1>3 DEF CardInv, LegsBegin, DrainsFollow
<1>6. drain' = [drain EXCEPT ![f] = "starting"] /\ turn' = [turn EXCEPT ![m] = t]
  BY DEF f
<1>7. /\ \A l \in Leg \ {f} : stage'[l] = stage[l] /\ out'[l] = out[l]
      /\ t # "on" => stage'[f] = stage[f]
  BY DEF f
<1>8. \A l \in Leg : l[1] = m => stage[l] = "new" /\ drain[l] = "off"
  BY DEF CardInv, LegsBegin, DrainsFollow
<1>9. LegsBegin'
  <2>1. ASSUME NEW l \in Leg, stage'[l] # "new"
        PROVE  turn'[l[1]] = "on" /\ l[2] <= leg[l[1]]
    <3>1. CASE l = f
      BY <1>3, <1>4, <1>5, <1>6, <1>7, <2>1, <3>1 DEF TypeOK
    <3>2. CASE l # f
      BY <1>2, <1>6, <1>7, <1>8, <2>1, <3>2 DEF CardInv, LegsBegin, TypeOK
    <3> QED
      BY <3>1, <3>2
  <2>2. \A x \in Msg : turn'[x] # "on" => leg[x] = 1
    BY <1>4, <1>6 DEF CardInv, LegsBegin, TypeOK
  <2> QED
    BY <2>1, <2>2 DEF LegsBegin
<1>10. DrainsFollow'
  <2>1. ASSUME NEW l \in Leg
        PROVE  /\ drain'[l] # "off" => l[2] <= leg[l[1]] /\ turn'[l[1]] \in {"on", "blocked"}
               /\ drain'[l] \in {"starting", "reading", "presenting", "carded"} => Latest(l)'
               /\ drain'[l] \in {"presenting", "carded"} => out'[l] = "approval" /\ Ended(l)'
    <3>1. CASE l = f
      BY <1>3, <1>4, <1>6, <3>1 DEF Latest, TypeOK
    <3>2. CASE l # f
      <4>1. drain'[l] = drain[l] /\ (Latest(l)' <=> Latest(l)) /\ (Ended(l)' <=> Ended(l))
        BY <1>1, <1>2, <1>6, <1>7, <3>2 DEF TypeOK, Latest, Ended
      <4>2. drain[l] # "off" => turn'[l[1]] = turn[l[1]]
        BY <1>2, <1>6, <1>8 DEF TypeOK
      <4> QED
        BY <1>7, <3>2, <4>1, <4>2 DEF CardInv, DrainsFollow
    <3> QED
      BY <3>1, <3>2
  <2> QED
    BY <2>1 DEF DrainsFollow
<1>11. \A x : Presented(x) => x # f /\ Presented(x)'
  BY <1>5, <1>6, <1>7 DEF Presented, Ended, TypeOK
<1>12. CardsPresented'
  BY <1>11 DEF CardInv, CardsPresented
<1>13. PressesHold'
  <2>1. ASSUME NEW p \in Press, Succeeded(p) PROVE press[p].run # f
    <3>1. press[p].run[1] = press[p].card[1] /\ Presented(press[p].card)
      BY <2>1 DEF CardInv, PressesHold, CardsPresented, Succeeded
    <3>2. press[p].card[1] # m
      BY <1>8, <3>1 DEF Presented
    <3> QED
      BY <1>3, <3>1, <3>2
  <2> QED
    BY <1>1, <1>2, <1>6, <2>1 DEF CardInv, PressesHold, Succeeded, Latest, TypeOK
<1>14. RunsDiffer'
  BY DEF CardInv, RunsDiffer, Succeeded
<1>15. CardsAnswered'
  BY <1>1, <1>2 DEF CardInv, CardsAnswered, Succeeded, CardsPresented, Presented
<1>16. CardIsLive'
  <2>1. pending # None => pending # f /\ pending \in Leg /\ Presented(pending)'
    BY <1>11 DEF CardInv, CardsPresented, Presented
  <2> QED
    BY <1>1, <1>2, <2>1 DEF CardInv, CardIsLive, Paused, Presented
<1> QED
  BY <1>9, <1>10, <1>12, <1>13, <1>14, <1>15, <1>16 DEF CardInv

(* The drain marks its session pending: nobody resumed the turn until now. *)
LEMMA CardsMark ==
  ASSUME TypeOK, CardInv, NEW l \in Leg, MarkPending(l)
  PROVE  CardInv'
<1>1. /\ UNCHANGED <<slot, stage, turn, leg, out, press>>
      /\ drain[l] = "carded" /\ pending' = l
      /\ drain' = [drain EXCEPT ![l] = "recording"]
  BY DEF MarkPending, runs
<1>2. \A m \in Msg : ResumedTwice(m)' <=> ResumedTwice(m)
  BY <1>1 DEF ResumedTwice
<1>3. \A x \in Leg : x[1] \in Msg
  BY LegParts
<1>4. Latest(l) /\ out[l] = "approval" /\ Ended(l)
  BY <1>1 DEF CardInv, DrainsFollow
<1>5. LegsBegin'
  BY <1>1 DEF CardInv, LegsBegin
<1>6. DrainsFollow'
  BY <1>1, <1>2, <1>3 DEF CardInv, DrainsFollow, Latest, Ended, TypeOK
<1>7. (\A x : Presented(x) => Presented(x)') /\ Presented(l)'
  BY <1>1, <1>4 DEF Presented, Ended, TypeOK
<1>8. CardsPresented'
  BY <1>1, <1>7 DEF CardInv, CardsPresented
<1>9. PressesHold'
  BY <1>1, <1>2, <1>3 DEF CardInv, PressesHold, Succeeded, Latest, TypeOK
<1>10. RunsDiffer'
  BY <1>1 DEF CardInv, RunsDiffer, Succeeded
<1>11. CardsAnswered'
  BY <1>1, <1>2, <1>3 DEF CardInv, CardsAnswered, Succeeded, CardsPresented, Presented
<1>12. CardIsLive'
  BY <1>1, <1>2, <1>3, <1>4 DEF CardIsLive, Paused, Latest, Ended
<1> QED
  BY <1>5, <1>6, <1>8, <1>9, <1>10, <1>11, <1>12 DEF CardInv

(* A press finds the pending card. *)
LEMMA CardsAnswer ==
  ASSUME TypeOK, CardInv, NEW p \in Press, Answer(p)
  PROVE  CardInv'
<1> DEFINE x == [pc |-> "found", card |-> pending, run |-> None]
<1>1. /\ UNCHANGED <<slot, stage, turn, leg, out, drain, pending>>
      /\ press[p].pc = "idle" /\ pending # None
      /\ press' = [press EXCEPT ![p] = x]
  BY DEF Answer, runs
<1>2. /\ press'[p] = x /\ press[p].run = None
      /\ \A q \in Press \ {p} : press'[q] = press[q]
  BY <1>1 DEF CardInv, PressesHold, Succeeded, TypeOK
<1>3. \A m \in Msg : ResumedTwice(m) => ResumedTwice(m)'
  BY <1>2 DEF ResumedTwice
<1>4. \A y \in Leg : y[1] \in Msg
  BY LegParts
<1>5. \A y \in Leg : Latest(y) => Latest(y)'
  BY <1>1, <1>3, <1>4 DEF Latest
<1>6. \A y : Presented(y)' <=> Presented(y)
  BY <1>1 DEF Presented, Ended
<1>7. \A q \in Press : (Succeeded(q)' <=> Succeeded(q)) /\ (q = p => ~Succeeded(q))
  BY <1>1, <1>2 DEF Succeeded
<1>8. Presented(pending)
  BY <1>1 DEF CardInv, CardsPresented
<1>9. LegsBegin'
  BY <1>1 DEF CardInv, LegsBegin
<1>10. DrainsFollow'
  BY <1>1, <1>5 DEF CardInv, DrainsFollow, Ended
<1>11. CardsPresented'
  BY <1>1, <1>2, <1>6, <1>8 DEF CardInv, CardsPresented
<1>12. PressesHold'
  BY <1>1, <1>2, <1>5, <1>7 DEF CardInv, PressesHold, Succeeded
<1>13. RunsDiffer'
  BY <1>2, <1>7, NamesAssumption DEF CardInv, RunsDiffer, PressesHold
<1>14. CardsAnswered'
  <2>1. \/ pending[2] = leg[pending[1]]
        \/ \E q \in Press : Succeeded(q) /\ press[q].card = pending
        \/ ResumedTwice(pending[1])
    BY <1>1 DEF CardInv, CardIsLive, Paused, Succeeded
  <2>2. ASSUME NEW q \in Press, press'[q].pc # "idle", NEW c, c = press'[q].card
        PROVE  \/ c[2] = leg'[c[1]]
               \/ \E z \in Press : Succeeded(z)' /\ press'[z].card = c
               \/ ResumedTwice(c[1])'
    <3>1. \/ c[2] = leg[c[1]]
          \/ \E z \in Press : Succeeded(z) /\ press[z].card = c
          \/ ResumedTwice(c[1])
      BY <1>2, <2>1, <2>2 DEF CardInv, CardsAnswered
    <3>2. c[1] \in Msg
      BY <1>4, <1>11, <2>2 DEF CardsPresented, Presented
    <3> QED
      BY <1>1, <1>2, <1>3, <1>7, <3>1, <3>2
  <2> QED
    BY <2>2 DEF CardsAnswered
<1>15. CardIsLive'
  <2>1. pending[1] \in Msg
    BY <1>4, <1>8 DEF Presented
  <2> QED
    BY <1>1, <1>2, <1>3, <2>1 DEF CardInv, CardIsLive, Paused, Ended
<1> QED
  BY <1>9, <1>10, <1>11, <1>12, <1>13, <1>14, <1>15 DEF CardInv
(* A press moves on without a new run: it failed, cleared the card, or is  *)
(* through.  A drain may begin only for the run that the press resumed.    *)
LEMMA CardsPress ==
  ASSUME TypeOK, CardInv, NEW p \in Press, NEW pc \in Pc,
         UNCHANGED <<slot, stage, turn, leg, out>>,
         press[p].pc # "idle", pc # "idle",
         press' = [press EXCEPT ![p] = [pc |-> pc, card |-> press[p].card,
                                       run |-> press[p].run]],
         pc \in {"resumed", "cleared", "drained"} <=> Succeeded(p),
         pc \in {"resumed", "cleared"} => press[p].pc \in {"resumed", "cleared"},
         \/ pending' = None
         \/ pending' = pending /\ press[p].pc # "resumed",
         \/ drain' = drain
         \/ /\ press[p].pc = "cleared" /\ pc = "drained"
            /\ drain' = [drain EXCEPT ![press[p].run] = "starting"]
  PROVE  CardInv'
<1>1. /\ press'[p] = [pc |-> pc, card |-> press[p].card, run |-> press[p].run]
      /\ \A q \in Press \ {p} : press'[q] = press[q]
  BY DEF TypeOK
<1>2. \A q \in Press : /\ press'[q].card = press[q].card /\ press'[q].run = press[q].run
                       /\ Succeeded(q)' <=> Succeeded(q)
                       /\ press'[q].pc = "idle" <=> press[q].pc = "idle"
                       /\ press'[q].pc \in {"resumed", "cleared"} =>
                            press[q].pc \in {"resumed", "cleared"}
  BY <1>1 DEF Succeeded
<1>3. \A m \in Msg : ResumedTwice(m)' <=> ResumedTwice(m)
  BY <1>2 DEF ResumedTwice
<1>4. \A y \in Leg : y[1] \in Msg /\ y # None
  BY LegParts
<1>5. \A y \in Leg : Latest(y)' <=> Latest(y)
  BY <1>3, <1>4 DEF Latest
<1>6. ASSUME drain' # drain
      PROVE  /\ press[p].run \in Leg /\ drain[press[p].run] = "off"
             /\ Latest(press[p].run) /\ press[p].run[2] <= leg[press[p].run[1]]
             /\ turn[press[p].run[1]] = "on" /\ press'[p].pc = "drained"
             /\ Succeeded(p)
             /\ drain' = [drain EXCEPT ![press[p].run] = "starting"]
  <2>1. press[p].pc = "cleared"
    BY <1>6
  <2>2. Succeeded(p) /\ drain[press[p].run] = "off" /\ Latest(press[p].run)
    BY <2>1 DEF CardInv, PressesHold, Succeeded
  <2>3. /\ press[p].run \in Leg /\ press[p].run[1] = press[p].card[1]
        /\ press[p].run[2] <= leg[press[p].run[1]]
    BY <2>2 DEF CardInv, PressesHold
  <2>4. turn[press[p].card[1]] = "on"
    BY <2>1 DEF CardInv, CardsPresented, Presented, LegsBegin, Ended
  <2> QED
    BY <1>1, <1>6, <2>2, <2>3, <2>4
<1>7. LegsBegin'
  BY DEF CardInv, LegsBegin
<1>8. DrainsFollow'
  <2>1. CASE drain' = drain
    BY <1>5, <2>1 DEF CardInv, DrainsFollow, Ended
  <2>2. CASE drain' # drain
    <3>1. ASSUME NEW l \in Leg
          PROVE  /\ drain'[l] # "off" => l[2] <= leg'[l[1]] /\ turn'[l[1]] \in {"on", "blocked"}
                 /\ drain'[l] \in {"starting", "reading", "presenting", "carded"} => Latest(l)'
                 /\ drain'[l] \in {"presenting", "carded"} => out'[l] = "approval" /\ Ended(l)'
      <4>1. CASE l = press[p].run
        BY <1>5, <1>6, <2>2, <4>1 DEF TypeOK
      <4>2. CASE l # press[p].run
        BY <1>5, <1>6, <2>2, <4>2 DEF TypeOK, CardInv, DrainsFollow, Ended
      <4> QED
        BY <4>1, <4>2
    <3> QED
      BY <3>1 DEF DrainsFollow
  <2> QED
    BY <2>1, <2>2
<1>9. \A y : Presented(y) => Presented(y)'
  BY <1>6 DEF Presented, Ended, TypeOK
<1>10. CardsPresented'
  BY <1>2, <1>9 DEF CardInv, CardsPresented
<1>11. PressesHold'
  <2>1. ASSUME NEW q \in Press, press'[q].pc \in {"resumed", "cleared"}
        PROVE  drain'[press[q].run] = "off" /\ Latest(press[q].run)'
    <3>1. /\ Succeeded(q) /\ press[q].run \in Leg
          /\ drain[press[q].run] = "off" /\ Latest(press[q].run)
      BY <1>2, <2>1 DEF CardInv, PressesHold, Succeeded
    <3>2. ASSUME drain' # drain PROVE press[q].run # press[p].run
      BY <1>1, <1>6, <2>1, <3>1, <3>2 DEF CardInv, RunsDiffer
    <3>3. drain'[press[q].run] = "off"
      BY <1>6, <3>1, <3>2 DEF TypeOK
    <3>4. ResumedTwice(press[q].run[1]) => ResumedTwice(press[q].run[1])'
      BY <1>2 DEF ResumedTwice
    <3>5. Latest(press[q].run)'
      BY <1>2, <1>3, <1>4, <3>1, <3>4 DEF Latest
    <3> QED
      BY <3>3, <3>5
  <2> QED
    BY <1>2, <2>1 DEF CardInv, PressesHold
<1>12. RunsDiffer'
  BY <1>2 DEF CardInv, RunsDiffer
<1>13. CardsAnswered'
  <2>1. ASSUME NEW q \in Press, press[q].pc # "idle"
        PROVE  \/ press[q].card[2] = leg[press[q].card[1]]
               \/ \E z \in Press : Succeeded(z)' /\ press'[z].card = press[q].card
               \/ ResumedTwice(press[q].card[1])
    BY <1>2, <2>1 DEF CardInv, CardsAnswered
  <2>2. ASSUME NEW q \in Press, press'[q].pc # "idle", NEW c, c = press'[q].card
        PROVE  \/ c[2] = leg'[c[1]]
               \/ \E z \in Press : Succeeded(z)' /\ press'[z].card = c
               \/ ResumedTwice(c[1])'
    <3>1. c[1] \in Msg
      BY <1>2, <1>4, <2>2 DEF CardInv, CardsPresented, Presented
    <3> QED
      BY <1>2, <1>3, <2>1, <2>2, <3>1
  <2> QED
    BY <2>2 DEF CardsAnswered
<1>14. CardIsLive'
  <2>1. ASSUME pending' # None
        PROVE  /\ pending' = pending /\ pending \in Leg /\ press[p].pc # "resumed"
    BY <2>1 DEF CardInv, CardsPresented, Presented
  <2>2. \A q \in Press : press[q].pc = "resumed" /\ q # p => press'[q] = press[q]
    BY <1>1
  <2> QED
    BY <1>3, <1>4, <2>1, <2>2 DEF CardInv, CardIsLive, Paused, Ended
<1> QED
  BY <1>7, <1>8, <1>10, <1>11, <1>12, <1>13, <1>14 DEF CardInv

(* A press resumes its turn.  Whoever still relied on the turn's last leg  *)
(* had a newer card than the press: the press is the second one of its     *)
(* card to resume the turn.                                                *)
LEMMA CardsResume ==
  ASSUME TypeOK, CardInv, NEW p \in Press, NEW c \in Leg, NEW n \in Leg,
         press[p].pc = "found", c = press[p].card,
         n[1] = c[1], n[2] = leg[c[1]] + 1,
         Slots!Admit(Session, n), leg' = [leg EXCEPT ![c[1]] = @ + 1],
         press' = [press EXCEPT ![p] = [pc |-> "resumed", card |-> c, run |-> n]],
         UNCHANGED <<turn, out, drain, pending>>
  PROVE  CardInv'
<1> DEFINE m == c[1]
<1>1. /\ m \in Msg /\ m = c[1] /\ leg[m] \in Nat /\ n[1] = m /\ n[2] = leg[m] + 1
      /\ \A y \in Leg : y[1] \in Msg /\ y[2] \in Nat /\ y # None
  BY LegParts DEF TypeOK
<1>2. /\ leg' = [leg EXCEPT ![m] = leg[m] + 1]
      /\ \A x \in Msg : leg'[x] = IF x = m THEN leg[m] + 1 ELSE leg[x]
  BY <1>1 DEF TypeOK
<1> HIDE DEF m
<1>3. /\ press'[p].pc = "resumed" /\ press'[p].card = c /\ press'[p].run = n
      /\ \A q \in Press \ {p} : press'[q] = press[q]
  BY DEF TypeOK
<1>4. ~Succeeded(p) /\ press[p].run = None
  BY DEF CardInv, PressesHold, Succeeded
<1>5. \A q \in Press : Succeeded(q)' <=> Succeeded(q) \/ q = p
  BY <1>3 DEF Succeeded
<1>6. \A x \in Msg : ResumedTwice(x) => ResumedTwice(x)'
  BY <1>3, <1>4 DEF ResumedTwice
<1>7. Presented(c)
  BY DEF CardInv, CardsPresented
<1>8. stage[c] # "new" /\ turn[m] = "on" /\ c[2] <= leg[m]
  BY <1>1, <1>7 DEF CardInv, LegsBegin, Presented, Ended
<1>9. c[2] # leg[m] => ResumedTwice(m)'
  <2> SUFFICES ASSUME c[2] # leg[m] PROVE ResumedTwice(m)'
    OBVIOUS
  <2>1. CASE ResumedTwice(m)
    BY <1>1, <1>6, <2>1
  <2>2. ASSUME NEW q \in Press, Succeeded(q), press[q].card = c PROVE ResumedTwice(m)'
    <3>1. q # p /\ press'[q] = press[q] /\ press[q].run # None
      BY <1>3, <1>4, <2>2 DEF CardInv, PressesHold
    <3> QED
      BY <1>1, <1>3, <2>2, <3>1 DEF ResumedTwice
  <2> QED
    BY <1>1, <2>1, <2>2 DEF CardInv, CardsAnswered
<1>10. ASSUME NEW y \in Leg, Latest(y), y # c PROVE Latest(y)' \/ (y[1] = m /\ ResumedTwice(m)')
  <2>1. CASE ResumedTwice(y[1])
    BY <1>1, <1>6, <2>1 DEF Latest
  <2>2. CASE y[1] # m
    BY <1>1, <1>2, <1>10, <1>6, <2>2 DEF Latest
  <2>3. CASE y[1] = m /\ y[2] = leg[m]
    <3>1. c[2] # leg[m]
      BY <1>1, <1>10, <2>3, LegParts
    <3> QED
      BY <1>9, <2>3, <3>1
  <2> QED
    BY <1>10, <2>1, <2>2, <2>3 DEF Latest
<1>11. ASSUME NEW y \in Leg, Latest(y), y # c PROVE Latest(y)'
  BY <1>10, <1>11 DEF Latest
<1>12. /\ slot'[Session] = n /\ stage'[n] = "on" /\ stage[n] = "new"
       /\ \A y \in Leg \ {n} : stage'[y] = stage[y]
  BY DEF Slots!Admit, TypeOK
<1>13. \A y \in Leg : (Ended(y)' <=> Ended(y))
  BY <1>12 DEF Ended
<1>14. \A y : Presented(y)' <=> Presented(y)
  BY <1>13 DEF Presented
<1>15. drain[n] = "off"
  BY <1>1 DEF CardInv, DrainsFollow
<1>16. LegsBegin'
  <2>1. \A y \in Leg : stage'[y] # "new" => turn[y[1]] = "on" /\ y[2] <= leg'[y[1]]
    <3>1. ASSUME NEW y \in Leg, stage'[y] # "new"
          PROVE  turn[y[1]] = "on" /\ y[2] <= leg'[y[1]]
      <4>1. CASE y = n
        BY <1>1, <1>2, <1>8, <4>1
      <4>2. CASE y # n
        <5>1. turn[y[1]] = "on" /\ y[2] <= leg[y[1]]
          BY <1>12, <3>1, <4>2 DEF CardInv, LegsBegin
        <5> QED
          BY <1>1, <1>2, <5>1
      <4> QED
        BY <4>1, <4>2
    <3> QED
      BY <3>1
  <2>2. \A x \in Msg : turn[x] # "on" => leg'[x] = 1
    BY <1>2, <1>8 DEF CardInv, LegsBegin
  <2> QED
    BY <1>12, <2>1, <2>2 DEF LegsBegin
<1>17. DrainsFollow'
  <2>1. ASSUME NEW l \in Leg
        PROVE  /\ drain[l] # "off" => l[2] <= leg'[l[1]] /\ turn[l[1]] \in {"on", "blocked"}
               /\ drain[l] \in {"starting", "reading", "presenting", "carded"} => Latest(l)'
               /\ drain[l] \in {"presenting", "carded"} => out[l] = "approval" /\ Ended(l)'
    <3>1. drain[l] # "off" => l[2] <= leg'[l[1]] /\ turn[l[1]] \in {"on", "blocked"}
      <4>1. drain[l] # "off" => l[2] <= leg[l[1]] /\ turn[l[1]] \in {"on", "blocked"}
        BY DEF CardInv, DrainsFollow
      <4> QED
        BY <1>1, <1>2, <4>1
    <3>2. drain[l] \in {"starting", "reading", "presenting", "carded"} => Latest(l) /\ l # c
      BY <1>7 DEF CardInv, DrainsFollow, Presented
    <3> QED
      BY <1>11, <1>13, <3>1, <3>2 DEF CardInv, DrainsFollow
  <2> QED
    BY <2>1 DEF DrainsFollow
<1>18. CardsPresented'
  BY <1>3, <1>7, <1>14 DEF CardInv, CardsPresented
<1>19. PressesHold'
  <2>1. ASSUME NEW q \in Press, q # p, NEW r, r = press[q].run
        PROVE  /\ press'[q].pc = "idle" => press'[q].card = None
               /\ press'[q].run # None <=> Succeeded(q)'
               /\ Succeeded(q)' => r \in Leg /\ r[1] = press'[q].card[1] /\ r[2] <= leg'[r[1]]
               /\ press'[q].pc \in {"resumed", "cleared"} => drain[r] = "off" /\ Latest(r)'
    <3>1. press'[q] = press[q] /\ (Succeeded(q)' <=> Succeeded(q))
      BY <1>3, <1>5, <2>1
    <3>2. Succeeded(q) => r \in Leg /\ r[1] = press[q].card[1] /\ r[2] <= leg[r[1]]
      BY <2>1 DEF CardInv, PressesHold
    <3>3. ASSUME r \in Leg, r[2] <= leg[r[1]] PROVE r[2] <= leg'[r[1]]
      BY <1>1, <1>2, <3>3
    <3>4. ASSUME press[q].pc \in {"resumed", "cleared"} PROVE drain[r] = "off" /\ Latest(r)'
      <4>1. Succeeded(q) /\ drain[r] = "off" /\ Latest(r)
        BY <2>1, <3>4 DEF CardInv, PressesHold, Succeeded
      <4>2. r # c
        BY <1>7, <4>1 DEF Presented
      <4> QED
        BY <1>11, <3>2, <4>1, <4>2
    <3> QED
      BY <2>1, <3>1, <3>2, <3>3, <3>4 DEF CardInv, PressesHold
  <2>2. /\ press'[p].run # None /\ Succeeded(p)' /\ n[2] <= leg'[n[1]]
        /\ drain[n] = "off" /\ Latest(n)'
    BY <1>1, <1>2, <1>3, <1>5, <1>15 DEF Latest
  <2>3. ASSUME NEW q \in Press, NEW r, r = press'[q].run
        PROVE  /\ press'[q].pc = "idle" => press'[q].card = None
               /\ press'[q].run # None <=> Succeeded(q)'
               /\ Succeeded(q)' => r \in Leg /\ r[1] = press'[q].card[1] /\ r[2] <= leg'[r[1]]
               /\ press'[q].pc \in {"resumed", "cleared"} => drain'[r] = "off" /\ Latest(r)'
    <3>1. CASE q = p
      BY <1>1, <1>3, <2>2, <2>3, <3>1
    <3>2. CASE q # p
      BY <1>3, <2>1, <2>3, <3>2
    <3> QED
      BY <3>1, <3>2
  <2> QED
    BY <2>3 DEF PressesHold, Succeeded, Latest, ResumedTwice
<1>20. RunsDiffer'
  <2>1. \A q \in Press : Succeeded(q) => press[q].run # n
    BY <1>1 DEF CardInv, PressesHold
  <2>2. n # None
    BY <1>1
  <2>3. \A q \in Press : ~Succeeded(q) => press[q].run = None
    BY DEF CardInv, PressesHold
  <2> QED
    BY <1>3, <1>5, <2>1, <2>2, <2>3 DEF CardInv, RunsDiffer
<1>21. CardsAnswered'
  <2>1. ASSUME NEW q \in Press, press'[q].pc # "idle", NEW d, d = press'[q].card
        PROVE  \/ d[2] = leg'[d[1]]
               \/ \E z \in Press : Succeeded(z)' /\ press'[z].card = d
               \/ ResumedTwice(d[1])'
    <3>1. CASE d = c
      BY <1>3, <1>5, <3>1
    <3>2. CASE d # c
      <4>1. q # p /\ press'[q] = press[q] /\ d \in Leg
        BY <1>3, <2>1, <3>2 DEF CardInv, CardsPresented, Presented
      <4>2. CASE \E z \in Press : Succeeded(z) /\ press[z].card = d
        BY <1>3, <1>4, <1>5, <4>2
      <4>3. CASE ResumedTwice(d[1]) \/ d[2] = leg[d[1]]
        <5>1. Latest(d)
          BY <4>3 DEF Latest
        <5>2. Latest(d)'
          BY <1>11, <3>2, <4>1, <5>1
        <5> QED
          BY <2>1, <5>2, <1>2, <1>6, <1>1, <4>1, <5>1 DEF Latest
      <4> QED
        BY <2>1, <4>1, <4>2, <4>3 DEF CardInv, CardsAnswered
    <3> QED
      BY <3>1, <3>2
  <2> QED
    BY <2>1 DEF CardsAnswered
<1>22. CardIsLive'
  <2> SUFFICES ASSUME pending # None
               PROVE  \/ Paused(pending)'
                      \/ \E q \in Press : press'[q].pc = "resumed" /\ press'[q].card = pending
                      \/ ResumedTwice(pending[1])'
    BY DEF CardIsLive
  <2>1. pending \in Leg
    BY DEF CardInv, CardsPresented, Presented
  <2>2. CASE pending = c
    BY <1>3, <2>2
  <2>3. CASE pending # c /\ \E q \in Press : press[q].pc = "resumed" /\ press[q].card = pending
    BY <1>3, <2>3
  <2>4. CASE pending # c /\ (Paused(pending) \/ ResumedTwice(pending[1]))
    <3>1. Latest(pending)
      BY <2>4 DEF Latest, Paused
    <3>2. Latest(pending)'
      BY <1>11, <2>1, <2>4, <3>1
    <3>3. out[pending] = "approval" /\ Ended(pending)'
      BY <1>13, <2>1 DEF CardInv, CardsPresented, Presented
    <3> QED
      BY <3>2, <3>3 DEF Latest, Paused
  <2> QED
    BY <2>2, <2>3, <2>4 DEF CardInv, CardIsLive
<1> QED
  BY <1>16, <1>17, <1>18, <1>19, <1>20, <1>21, <1>22 DEF CardInv
LEMMA CardInit == Init => CardInv
<1> SUFFICES ASSUME Init PROVE CardInv
  OBVIOUS
<1>1. /\ slot[Session] = None /\ pending = None
      /\ \A l \in Leg : stage[l] = "new" /\ drain[l] = "off"
      /\ \A m \in Msg : leg[m] = 1
      /\ \A p \in Press : press[p].pc = "idle" /\ press[p].card = None /\ press[p].run = None
  BY DEF Init, Slots!SlotsInit
<1> QED
  BY <1>1 DEF CardInv, LegsBegin, DrainsFollow, CardsPresented, PressesHold, RunsDiffer,
              CardsAnswered, CardIsLive, Succeeded

(* A turn is accepted or blocked. *)
LEMMA CardsSubmit ==
  ASSUME TypeOK, CardInv, NEW m \in Msg, turn[m] \notin {"on", "blocked"},
         UNCHANGED <<leg, pending, press>>,
         \/ Accepted(m) \/ Blocked(m) \/ Rejected(m, "conflicted") \/ Rejected(m, "returning")
  PROVE  CardInv'
<1>1. First(m) \in Leg
  BY FirstLeg
<1>2. CASE Accepted(m)
  <2>1. /\ turn' = [turn EXCEPT ![m] = "on"]
        /\ drain' = [drain EXCEPT ![First(m)] = "starting"]
        /\ slot'[Session] = First(m) /\ stage'[First(m)] = "on"
        /\ \A l \in Leg \ {First(m)} : stage'[l] = stage[l] /\ out'[l] = out[l]
    BY <1>1, <1>2 DEF Accepted, Slots!Admit, TypeOK
  <2> QED
    BY <2>1, CardsFirst
<1>3. CASE Blocked(m)
  <2>1. /\ turn' = [turn EXCEPT ![m] = "blocked"]
        /\ drain' = [drain EXCEPT ![First(m)] = "starting"]
        /\ slot' = slot /\ stage' = stage
        /\ \A l \in Leg \ {First(m)} : out'[l] = out[l]
    BY <1>1, <1>3 DEF Blocked, runs, TypeOK
  <2>2. slot'[Session] # None => stage'[slot'[Session]] # "new"
    BY <2>1 DEF CardInv, LegsBegin
  <2> QED
    BY <2>1, <2>2, CardsFirst
<1>4. ASSUME NEW c \in {"conflicted", "returning"}, Rejected(m, c) PROVE CardInv'
  <2>1. PICK t \in {"failed", "conflicted", "returning"} : turn' = [turn EXCEPT ![m] = t]
    BY <1>4 DEF Rejected
  <2>2. UNCHANGED <<slot, stage, out, drain>>
    BY <1>4 DEF Rejected, runs
  <2>3. \A x \in Msg : \/ turn'[x] = turn[x]
                       \/ turn[x] \notin {"on", "blocked"} /\ turn'[x] \notin {"on", "blocked"}
    BY <2>1 DEF TypeOK
  <2> QED
    BY <2>2, <2>3, CardsMessage
<1> QED
  BY <1>2, <1>3, <1>4

(* A step keeps the cards' invariant. *)
LEMMA CardStep == TypeOK /\ QueueInv /\ CardInv /\ [Next]_vars => CardInv'
<1> SUFFICES ASSUME TypeOK, QueueInv, CardInv, [Next]_vars PROVE CardInv'
  OBVIOUS
<1> DEFINE Kept == \A x \in Msg : \/ turn'[x] = turn[x]
                                  \/ turn[x] \notin {"on", "blocked"} /\ turn'[x] \notin {"on", "blocked"}
<1>a. UNCHANGED turn => Kept
  OBVIOUS
<1>1. ASSUME NEW m \in Msg, Arrive(m) PROVE CardInv'
  <2>1. PICK t \in {"dropped", "routed", "refused", "command"} :
          turn' = [turn EXCEPT ![m] = t] /\ turn[m] = "new"
    BY <1>1 DEF Arrive
  <2>2. Kept
    BY <2>1 DEF TypeOK
  <2>3. UNCHANGED <<slot, stage, leg, out, drain, pending, press>>
    BY <1>1 DEF Arrive, runs, approvals
  <2> QED
    BY <2>2, <2>3, CardsMessage
<1>2. ASSUME NEW m \in Msg, Submit(m) \/ Resubmit(m) PROVE CardInv'
  <2>1. turn[m] \notin {"on", "blocked"} /\ UNCHANGED <<leg, pending, press>>
    BY <1>2 DEF Submit, Resubmit, approvals
  <2> QED
    BY <1>2, <2>1, CardsSubmit DEF Submit, Resubmit
<1>3. ASSUME NEW m \in Msg, Enqueue(m) \/ PutBack(m) PROVE CardInv'
  <2>1. PICK t \in {"queued", "refused"} :
          turn' = [turn EXCEPT ![m] = t] /\ turn[m] \in {"conflicted", "returning"}
    BY <1>3 DEF Enqueue, PutBack
  <2>2. Kept
    BY <2>1 DEF TypeOK
  <2>3. UNCHANGED <<slot, stage, leg, out, drain, pending, press>>
    BY <1>3 DEF Enqueue, PutBack, runs, approvals
  <2> QED
    BY <2>2, <2>3, CardsMessage
<1>4. ASSUME NEW l \in Leg, DrainStarts(l) PROVE CardInv'
  <2>1. PICK d \in {"reading", "releasing", "over"} : drain' = [drain EXCEPT ![l] = d]
    BY <1>4 DEF DrainStarts
  <2> QED
    BY <1>4, <1>a, <2>1, CardsDrain DEF DrainStarts, Drain, runs, approvals
<1>5. ASSUME NEW l \in Leg, DrainEnds(l) PROVE CardInv'
  BY <1>5, <1>a, CardsDrain DEF DrainEnds, Drain, runs, approvals
<1>6. ASSUME NEW l \in Leg, DrainPauses(l) PROVE CardInv'
  BY <1>6, <1>a, CardsDrain DEF DrainPauses, Drain, runs, approvals
<1>7. ASSUME NEW l \in Leg, Release(l) PROVE CardInv'
  <2>1. Kept
    <3>1. CASE queue = <<>>
      BY <1>7, <3>1 DEF Release
    <3>2. CASE queue # <<>>
      <4> DEFINE h == Head(queue)
      <4>1. h \in Msg /\ h = queue[1] /\ 1 \in 1..Len(queue)
        BY <3>2 DEF TypeOK
      <4>2. turn[h] = "queued"
        BY <4>1 DEF QueueInv, QueueIsParked, Parked
      <4>3. turn' = [turn EXCEPT ![h] = "taken"]
        BY <1>7, <3>2 DEF Release
      <4> QED
        BY <4>1, <4>2, <4>3 DEF TypeOK
    <3> QED
      BY <3>1, <3>2
  <2>2. /\ UNCHANGED <<slot, stage, leg, out, pending, press>>
        /\ drain[l] = "releasing" /\ drain' = [drain EXCEPT ![l] = "over"]
    BY <1>7 DEF Release, runs, approvals
  <2> QED
    BY <2>1, <2>2, CardsDrain DEF Drain
<1>8. ASSUME NEW l \in Leg, SendCard(l) PROVE CardInv'
  <2>1. PICK d \in {"carded", "over"} : drain' = [drain EXCEPT ![l] = d]
    BY <1>8 DEF SendCard
  <2>2. drain[l] = "presenting" /\ out[l] = "approval" /\ Ended(l)
    BY <1>8 DEF SendCard, CardInv, DrainsFollow
  <2> QED
    BY <1>8, <1>a, <2>1, <2>2, CardsDrain DEF SendCard, Drain, runs, approvals
<1>9. ASSUME NEW l \in Leg, RecordCoords(l) PROVE CardInv'
  BY <1>9, <1>a, CardsDrain DEF RecordCoords, Drain, runs
<1>10. ASSUME NEW l \in Leg, SendsLast(l) PROVE CardInv'
  <2>1. PICK e \in Out : out' = [out EXCEPT ![l] = e]
    BY <1>10 DEF SendsLast
  <2>2. /\ UNCHANGED <<turn, leg, drain, pending, press, slot, stage>> /\ stage[l] = "on"
    BY <1>10 DEF SendsLast, runs, approvals
  <2>3. \A x \in Leg : Ended(x) => Ended(x)' /\ out'[x] = out[x]
    BY <2>1, <2>2 DEF Ended, TypeOK
  <2> QED
    BY <2>2, <2>3, CardsRun DEF CardInv, LegsBegin
<1>11. ASSUME NEW r \in Leg \cup Foreign, Ends(r) PROVE CardInv'
  <2>1. /\ UNCHANGED <<turn, leg, out, drain, pending, press, slot>>
        /\ stage[r] = "on" /\ stage' = [stage EXCEPT ![r] = "over"]
    BY <1>11 DEF Ends, Slots!End, approvals
  <2>2. \A x \in Leg : Ended(x) => Ended(x)' /\ out'[x] = out[x]
    BY <2>1 DEF Ended, TypeOK
  <2>3. \A x \in Leg \cup Foreign : stage'[x] # "new" <=> stage[x] # "new"
    BY <2>1 DEF TypeOK
  <2>4. slot[Session] # None => slot[Session] \in Leg \cup Foreign
    BY DEF TypeOK
  <2> QED
    BY <2>1, <2>2, <2>3, <2>4, CardsRun DEF CardInv, LegsBegin
<1>12. CASE Deregisters
  <2>1. /\ UNCHANGED <<turn, leg, out, drain, pending, press, stage>>
        /\ slot'[Session] = None
    BY <1>12 DEF Deregisters, Slots!Vacate, approvals, TypeOK
  <2> QED
    BY <2>1, CardsRun DEF Ended
<1>13. ASSUME NEW r \in Foreign, ForeignRun(r) PROVE CardInv'
  <2>1. /\ UNCHANGED <<turn, leg, out, drain, pending, press>>
        /\ slot'[Session] = r /\ stage' = [stage EXCEPT ![r] = "on"]
    BY <1>13 DEF ForeignRun, Slots!Admit, approvals, TypeOK
  <2>2. stage'[r] = "on" /\ \A x \in Leg : stage'[x] = stage[x]
    BY <2>1, NamesAssumption DEF TypeOK
  <2> QED
    BY <2>1, <2>2, CardsRun DEF Ended
<1>14. ASSUME NEW p \in Press, Resume(p) PROVE CardInv'
  <2> DEFINE c == press[p].card
             n == <<c[1], leg[c[1]] + 1>>
  <2>1. c \in Leg /\ c[1] \in Msg
    BY <1>14, LegParts DEF Resume, CardInv, CardsPresented, Presented
  <2>2. /\ press[p].pc = "found" /\ UNCHANGED <<turn, out, drain, pending>>
    BY <1>14 DEF Resume
  <2>3. CASE /\ leg[c[1]] < MaxLegs /\ Slots!Admit(Session, n)
             /\ leg' = [leg EXCEPT ![c[1]] = @ + 1]
             /\ press' = [press EXCEPT ![p] = [pc |-> "resumed", card |-> c, run |-> n]]
    <3>1. leg[c[1]] + 1 \in 1..MaxLegs
      BY <2>1, <2>3, BoundsAssumption DEF TypeOK
    <3>2. n \in Leg /\ n[1] = c[1] /\ n[2] = leg[c[1]] + 1
      BY <2>1, <3>1, LegType
    <3> HIDE DEF n, c
    <3>3. c = press[p].card
      BY DEF c
    <3> QED
      BY <2>1, <2>2, <2>3, <3>2, <3>3, CardsResume
  <2>4. CASE /\ press' = [press EXCEPT ![p] = [pc |-> "failed", card |-> c, run |-> None]]
             /\ UNCHANGED <<runs, leg>>
    <3>1. ~Succeeded(p) /\ press[p].run = None
      BY <2>2 DEF CardInv, PressesHold, Succeeded
    <3> QED
      BY <2>2, <2>4, <3>1, CardsPress DEF Pc, runs
  <2> QED
    BY <1>14, <2>3, <2>4 DEF Resume
<1>15. ASSUME NEW p \in Press, ClearPending(p) PROVE CardInv'
  <2>1. Succeeded(p)
    BY <1>15 DEF ClearPending, Succeeded
  <2> QED
    BY <1>15, <2>1, CardsPress DEF ClearPending, At, Pc, runs
<1>16. ASSUME NEW p \in Press, DrainResumed(p) PROVE CardInv'
  <2>1. Succeeded(p)
    BY <1>16 DEF DrainResumed, Succeeded
  <2> QED
    BY <1>16, <2>1, CardsPress DEF DrainResumed, At, Pc, runs
<1>17. ASSUME NEW l \in Leg, MarkPending(l) PROVE CardInv'
  BY <1>17, CardsMark
<1>18. ASSUME NEW p \in Press, Answer(p) PROVE CardInv'
  BY <1>18, CardsAnswer
<1>19. CASE Detach \/ Shutdown \/ UNCHANGED vars
  <2>1. UNCHANGED <<slot, stage, turn, leg, out, drain, pending, press>>
    BY <1>19 DEF Detach, Shutdown, Slots!StopAdmitting, runs, approvals, vars
  <2> QED
    BY <1>a, <2>1, CardsMessage
<1> QED
  BY <1>1, <1>2, <1>3, <1>4, <1>5, <1>6, <1>7, <1>8, <1>9, <1>10, <1>11, <1>12, <1>13,
     <1>14, <1>15, <1>16, <1>17, <1>18, <1>19
     DEF Next, TurnStep, DrainStep, PressStep

-----------------------------------------------------------------------------
(* Theorems *)

(* The strengthening holds in every reachable state: where turns wait, how *)
(* legs, drains, cards and presses belong together.                        *)
THEOREM Invariant == Spec => []Inv
<1>1. Init => Inv
  BY TypeInit, QueueInit, CardInit DEF Inv
<1>2. Inv /\ [Next]_vars => Inv'
  BY TypeStep, QueueStep, CardStep DEF Inv
<1> QED
  BY <1>1, <1>2, PTL DEF Spec

(* Every variable of the gateway's session has its type. *)
THEOREM TypeCorrect == Spec => []TypeOK
<1>1. Inv => TypeOK
  BY DEF Inv
<1> QED
  BY <1>1, Invariant, PTL

(* No turn is parked twice, lost from the queue while parked, or parked    *)
(* while its run holds the session.                                        *)
THEOREM TurnsOnce == Spec => []EachTurnOnce
<1>1. Inv => EachTurnOnce
  <2> SUFFICES ASSUME Inv PROVE EachTurnOnce
    OBVIOUS
  <2>1. \A l \in Leg : slot[Session] = l => turn[l[1]] = "on"
    BY LegParts DEF Inv, CardInv, LegsBegin
  <2> QED
    BY <2>1 DEF EachTurnOnce, Inv, QueueInv, QueueIsParked, QueueIsDistinct, Parked
<1> QED
  BY <1>1, Invariant, PTL

(* The queue exceeds its depth only by turns that were put back. *)
THEOREM DepthHolds == Spec => []OnlyReturnsExceedDepth
<1>1. Inv => OnlyReturnsExceedDepth
  BY DEF Inv, QueueInv, Waiting, OnlyReturnsExceedDepth
<1> QED
  BY <1>1, Invariant, PTL

(* A pending card belongs to a turn that is paused on it or just being     *)
(* resumed, unless two presses of one card resumed the turn.               *)
THEOREM CardsLive == Spec => []CardIsLive
<1>1. Inv => CardIsLive
  BY DEF Inv, CardInv
<1> QED
  BY <1>1, Invariant, PTL

-----------------------------------------------------------------------------
(* The turns of TurnBook *)

(* A run that executes holds the session. *)
RunsHold == \A r \in Leg \cup Foreign : stage[r] = "on" => slot[Session] = r

LEMMA HoldStep == TypeOK /\ RunsHold /\ [Next]_vars => RunsHold'
<1> SUFFICES ASSUME TypeOK, RunsHold, [Next]_vars PROVE RunsHold'
  OBVIOUS
<1> USE NamesAssumption DEF TypeOK, RunsHold
<1>a. ASSUME NEW r \in Leg \cup Foreign, Slots!Admit(Session, r) PROVE RunsHold'
  BY <1>a DEF Slots!Admit, Leg
<1>b. ASSUME UNCHANGED <<slot, stage>> PROVE RunsHold'
  BY <1>b
<1>c. ASSUME NEW m \in Msg, Accepted(m) PROVE RunsHold'
  BY <1>c, <1>a, FirstLeg DEF Accepted
<1>1. ASSUME NEW m \in Msg, Arrive(m) \/ TurnStep(m) PROVE RunsHold'
  BY <1>1, <1>b, <1>c
     DEF Arrive, TurnStep, Submit, Enqueue, Resubmit, PutBack, Rejected, Blocked, runs
<1>2. ASSUME NEW l \in Leg, SendsLast(l) \/ DrainStep(l) PROVE RunsHold'
  BY <1>2, <1>b
     DEF SendsLast, DrainStep, DrainStarts, DrainEnds, DrainPauses, Release, SendCard,
         MarkPending, RecordCoords, runs
<1>3. ASSUME NEW r \in Leg \cup Foreign, Ends(r) PROVE RunsHold'
  BY <1>3 DEF Ends, Slots!End
<1>4. CASE Deregisters
  BY <1>4 DEF Deregisters, Slots!Vacate
<1>5. ASSUME NEW r \in Foreign, ForeignRun(r) PROVE RunsHold'
  BY <1>5, <1>a DEF ForeignRun
<1>6. ASSUME NEW p \in Press, Answer(p) \/ ClearPending(p) \/ DrainResumed(p)
      PROVE  RunsHold'
  BY <1>6, <1>b DEF Answer, ClearPending, DrainResumed, runs
<1>7. ASSUME NEW p \in Press, Resume(p) PROVE RunsHold'
  <2> DEFINE n == <<press[p].card[1], leg[press[p].card[1]] + 1>>
  <2>1. CASE Slots!Admit(Session, n)
    <3> HIDE DEF n
    <3>1. slot[Session] = None /\ slot' = [slot EXCEPT ![Session] = n]
          /\ stage' = [stage EXCEPT ![n] = "on"]
      BY <2>1 DEF Slots!Admit
    <3>2. \A r \in Leg \cup Foreign : stage[r] # "on"
      BY <3>1 DEF Leg
    <3>3. slot'[Session] = n /\ \A r \in Leg \cup Foreign : stage'[r] = "on" => r = n
      BY <3>1, <3>2
    <3> QED
      BY <3>3
  <2>2. CASE UNCHANGED runs
    BY <2>2, <1>b DEF runs
  <2> QED
    BY <1>7, <2>1, <2>2 DEF Resume
<1>8. CASE Detach \/ Shutdown \/ UNCHANGED vars
  BY <1>8, <1>b DEF Detach, Shutdown, Slots!StopAdmitting, runs, vars
<1> QED
  BY <1>1, <1>2, <1>3, <1>4, <1>5, <1>6, <1>7, <1>8 DEF Next, PressStep

BookMoves == Book!BookNext \/ UNCHANGED Book!bookVars

(* Nothing that the book records has changed. *)
LEMMA BookSame ==
  ASSUME UNCHANGED <<turn, leg, slot, stage, pending>>, PausedLegs' = PausedLegs
  PROVE  BookMoves
<1>1. \A m \in Msg : FateOf(m)' = FateOf(m) /\ LegsOf(m)' = LegsOf(m)
  BY DEF FateOf, LegsOf
<1>2. OverRuns' = OverRuns
  BY DEF OverRuns, Ended
<1> QED
  BY <1>1, <1>2 DEF BookMoves, Book!bookVars

(* A message that waits goes on waiting elsewhere, or is answered. *)
LEMMA BookWaits ==
  ASSUME TypeOK, NEW m \in Msg, NEW t \in Turn \ {"on"}, FateOf(m) = "waiting",
         turn' = [turn EXCEPT ![m] = t],
         UNCHANGED <<leg, slot, stage, pending>>, PausedLegs' = PausedLegs
  PROVE  BookMoves
<1>1. \A x \in Msg : LegsOf(x)' = LegsOf(x)
  BY DEF TypeOK, FateOf, LegsOf
<1>2. \A x \in Msg \ {m} : FateOf(x)' = FateOf(x)
  BY DEF TypeOK, FateOf
<1>3. FateOf(m)' \in {"waiting", "answered"}
  BY DEF TypeOK, FateOf
<1>4. OverRuns' = OverRuns
  BY DEF OverRuns, Ended
<1>5. CASE FateOf(m)' = "waiting"
  BY <1>1, <1>2, <1>4, <1>5 DEF BookMoves, Book!bookVars
<1>6. CASE FateOf(m)' = "answered"
  <2>1. [x \in Msg |-> FateOf(x)]'
          = [[x \in Msg |-> FateOf(x)] EXCEPT ![m] = "answered"]
    BY <1>2, <1>6
  <2>2. Book!Answers(m)
    BY <1>1, <1>4, <2>1 DEF Book!Answers
  <2> QED
    BY <2>2 DEF BookMoves, Book!BookNext
<1> QED
  BY <1>3, <1>5, <1>6

(* What an admission does to the registry of the book. *)
LEMMA BookTakes ==
  ASSUME TypeOK, NEW r \in Leg \cup Foreign, Slots!Admit(Session, r), UNCHANGED out
  PROVE  Book!Takes(r) /\ OverRuns' = OverRuns /\ PausedLegs' = PausedLegs
<1>1. /\ slot[Session] = None /\ slot'[Session] = r
      /\ stage[r] = "new" /\ stage' = [stage EXCEPT ![r] = "on"]
  BY DEF Slots!Admit, TypeOK
<1>2. \A x \in Leg \cup Foreign : Ended(x)' <=> Ended(x)
  BY <1>1 DEF Ended, TypeOK
<1>3. ~Ended(r)
  BY <1>1 DEF Ended
<1> QED
  BY <1>1, <1>2, <1>3 DEF Book!Takes, OverRuns, PausedLegs

LEMMA BookAccepts ==
  ASSUME TypeOK, NEW m \in Msg, FateOf(m) = "waiting", Accepted(m), leg[m] = 1,
         UNCHANGED <<leg, pending>>
  PROVE  BookMoves
<1>1. First(m) \in Leg /\ First(m) = <<m, 1>>
  BY FirstLeg DEF First
<1>2. Book!Takes(<<m, 1>>) /\ OverRuns' = OverRuns /\ PausedLegs' = PausedLegs
  BY <1>1, BookTakes DEF Accepted
<1>3. turn' = [turn EXCEPT ![m] = "on"]
  BY DEF Accepted
<1>4. [x \in Msg |-> FateOf(x)]' = [[x \in Msg |-> FateOf(x)] EXCEPT ![m] = "running"]
  BY <1>3 DEF FateOf, TypeOK
<1>5. [x \in Msg |-> LegsOf(x)]' = [[x \in Msg |-> LegsOf(x)] EXCEPT ![m] = 1]
  BY <1>3 DEF LegsOf, TypeOK
<1>6. Book!Accepts(m)
  BY <1>2, <1>4, <1>5 DEF Book!Accepts
<1> QED
  BY <1>6 DEF BookMoves, Book!BookNext

(* submitter.Run on a message that waits. *)
LEMMA BookSubmits ==
  ASSUME Inv, NEW m \in Msg, turn[m] \in {"routed", "command", "taken"},
         NEW c \in {"conflicted", "returning"},
         Accepted(m) \/ Rejected(m, c) \/ Blocked(m), UNCHANGED <<leg, pending>>
  PROVE  BookMoves
<1>1. FateOf(m) = "waiting" /\ leg[m] = 1 /\ TypeOK
  BY DEF FateOf, Inv, CardInv, LegsBegin
<1>2. CASE Accepted(m)
  BY <1>1, <1>2, BookAccepts
<1>3. CASE Rejected(m, c)
  <2>1. PICK t \in {"failed", c} : turn' = [turn EXCEPT ![m] = t]
    BY <1>3 DEF Rejected
  <2>2. t \in Turn \ {"on"} /\ UNCHANGED <<slot, stage>> /\ PausedLegs' = PausedLegs
    BY <1>3, <2>1 DEF Rejected, runs, Turn, PausedLegs, Ended
  <2> QED
    BY <1>1, <2>1, <2>2, BookWaits
<1>4. CASE Blocked(m)
  <2>1. /\ turn' = [turn EXCEPT ![m] = "blocked"]
        /\ out' = [out EXCEPT ![First(m)] = "completed"] /\ UNCHANGED <<slot, stage>>
    BY <1>4 DEF Blocked, runs
  <2>2. First(m) \in Leg /\ ~Ended(First(m))
    BY FirstLeg DEF Ended, Inv, CardInv, LegsBegin
  <2>3. PausedLegs' = PausedLegs
    BY <1>1, <2>1, <2>2 DEF PausedLegs, Ended, TypeOK
  <2> QED
    BY <1>1, <2>1, <2>3, BookWaits DEF Turn
<1> QED
  BY <1>2, <1>3, <1>4

(* A run ends: only the holder can. *)
LEMMA BookFinishes ==
  ASSUME TypeOK, RunsHold, NEW r \in Leg \cup Foreign, Ends(r)
  PROVE  BookMoves
<1>1. /\ stage[r] = "on" /\ stage' = [stage EXCEPT ![r] = "over"]
      /\ UNCHANGED <<slot, out, turn, leg, pending>>
  BY DEF Ends, Slots!End, approvals
<1>2. slot[Session] = r /\ ~Ended(r)
  BY <1>1 DEF RunsHold, Ended
<1>3. \A x \in Leg \cup Foreign : Ended(x)' <=> Ended(x) \/ x = r
  BY <1>1 DEF Ended, TypeOK
<1>4. OverRuns' = OverRuns \cup {r}
  BY <1>3 DEF OverRuns
<1>5. PausedLegs' \in {PausedLegs, PausedLegs \cup ({r} \cap Leg)}
  <2>1. CASE r \in Leg /\ out[r] = "approval"
    BY <1>1, <1>3, <2>1 DEF PausedLegs
  <2>2. CASE ~(r \in Leg /\ out[r] = "approval")
    BY <1>1, <1>3, <2>2 DEF PausedLegs
  <2> QED
    BY <2>1, <2>2
<1>6. \A m \in Msg : FateOf(m)' = FateOf(m) /\ LegsOf(m)' = LegsOf(m)
  BY <1>1 DEF FateOf, LegsOf
<1>7. r \notin OverRuns
  BY <1>2 DEF OverRuns
<1>8. Book!Finishes(r)
  BY <1>1, <1>2, <1>4, <1>5, <1>6, <1>7 DEF Book!Finishes, Book!Leg, Leg
<1> QED
  BY <1>8 DEF BookMoves, Book!BookNext, Book!Leg, Leg

(* A press resumes the turn of the card it found. *)
LEMMA BookResumes ==
  ASSUME Inv, NEW p \in Press, Resume(p) PROVE BookMoves
<1> DEFINE c == press[p].card
           n == <<c[1], leg[c[1]] + 1>>
<1>1. /\ c \in Leg /\ c[1] \in Msg /\ c \in PausedLegs /\ turn[c[1]] = "on"
      /\ leg[c[1]] \in 1..MaxLegs /\ TypeOK
  <2>1. Presented(c)
    BY DEF Resume, Inv, CardInv, CardsPresented
  <2>2. c \in Leg /\ c \in PausedLegs /\ stage[c] # "new"
    BY <2>1 DEF Presented, PausedLegs, Ended
  <2> QED
    BY <2>2, LegParts DEF Inv, TypeOK, CardInv, LegsBegin
<1>2. CASE /\ leg[c[1]] < MaxLegs /\ Slots!Admit(Session, n)
           /\ leg' = [leg EXCEPT ![c[1]] = @ + 1] /\ UNCHANGED <<turn, out, pending>>
  <2>1. n \in Leg
    BY <1>1, <1>2, BoundsAssumption DEF Leg
  <2>2. Book!Takes(n) /\ OverRuns' = OverRuns /\ PausedLegs' = PausedLegs
    BY <1>1, <1>2, <2>1, BookTakes
  <2>3. [x \in Msg |-> FateOf(x)]' = [x \in Msg |-> FateOf(x)]
    BY <1>2 DEF FateOf
  <2>4. LegsOf(c[1]) = leg[c[1]]
    BY <1>1 DEF LegsOf
  <2>5. [x \in Msg |-> LegsOf(x)]'
          = [[x \in Msg |-> LegsOf(x)] EXCEPT ![c[1]] = leg[c[1]] + 1]
    <3> HIDE DEF c
    <3> QED
      BY <1>1, <1>2 DEF LegsOf, TypeOK
  <2>6. Book!Resumes(c)
    <3> HIDE DEF c
    <3> QED
      BY <1>1, <1>2, <2>2, <2>3, <2>4, <2>5 DEF Book!Resumes
  <2> QED
    BY <1>1, <2>6 DEF BookMoves, Book!BookNext, Book!Leg, Leg
<1>3. CASE UNCHANGED <<runs, leg, turn, out, pending>>
  BY <1>3, BookSame DEF runs, PausedLegs, Ended
<1> QED
  BY <1>2, <1>3 DEF Resume

(* Every step of the gateway is a step of the book, or none. *)
LEMMA BookStep == Inv /\ RunsHold /\ [Next]_vars => [Book!BookNext]_(Book!bookVars)
<1> SUFFICES ASSUME Inv, RunsHold, [Next]_vars PROVE BookMoves
  BY DEF BookMoves
<1>t. TypeOK
  BY DEF Inv
<1>a. ASSUME UNCHANGED <<turn, leg, slot, stage, pending, out>> PROVE BookMoves
  BY <1>a, BookSame DEF PausedLegs, Ended
<1>b. ASSUME NEW m \in Msg, NEW t \in Turn \ {"on"}, FateOf(m) = "waiting",
             turn' = [turn EXCEPT ![m] = t],
             UNCHANGED <<leg, slot, stage, pending, out>>
      PROVE  BookMoves
  BY <1>b, <1>t, BookWaits DEF PausedLegs, Ended
<1>1. ASSUME NEW m \in Msg, Arrive(m) PROVE BookMoves
  <2>1. PICK t \in {"dropped", "routed", "refused", "command"} :
          turn' = [turn EXCEPT ![m] = t]
    BY <1>1 DEF Arrive
  <2> QED
    BY <1>1, <1>b, <2>1 DEF Arrive, FateOf, Turn, runs, approvals
<1>2. ASSUME NEW m \in Msg, Submit(m) PROVE BookMoves
  BY <1>2, BookSubmits DEF Submit, approvals
<1>3. ASSUME NEW m \in Msg, Enqueue(m) PROVE BookMoves
  <2>1. PICK t \in {"queued", "refused"} : turn' = [turn EXCEPT ![m] = t]
    BY <1>3 DEF Enqueue
  <2> QED
    BY <1>3, <1>b, <2>1 DEF Enqueue, FateOf, Turn, runs, approvals
<1>4. ASSUME NEW m \in Msg, Resubmit(m) PROVE BookMoves
  BY <1>4, BookSubmits DEF Resubmit, approvals
<1>5. ASSUME NEW m \in Msg, PutBack(m) PROVE BookMoves
  BY <1>5, <1>b DEF PutBack, FateOf, Turn, runs, approvals
<1>6. ASSUME NEW l \in Leg, SendsLast(l) PROVE BookMoves
  <2>1. /\ stage[l] = "on" /\ UNCHANGED <<turn, leg, slot, stage, pending>>
        /\ \A x \in Leg \ {l} : out'[x] = out[x]
    BY <1>6, <1>t DEF SendsLast, runs, approvals, TypeOK
  <2>2. PausedLegs' = PausedLegs
    BY <2>1 DEF PausedLegs, Ended
  <2> QED
    BY <2>1, <2>2, BookSame
<1>7. ASSUME NEW l \in Leg, Release(l) PROVE BookMoves
  <2>1. CASE queue = <<>>
    BY <1>7, <1>a, <2>1 DEF Release, runs, approvals
  <2>2. CASE queue # <<>>
    <3>1. Head(queue) \in Msg /\ turn[Head(queue)] = "queued"
      <4>1. queue \in Seq(Msg) /\ Len(queue) >= 1 /\ queue[1] \in Msg
            /\ Head(queue) = queue[1] /\ 1 \in 1..Len(queue)
        BY <1>t, <2>2 DEF TypeOK
      <4> QED
        BY <4>1 DEF Inv, QueueInv, QueueIsParked, Parked
    <3>2. turn' = [turn EXCEPT ![Head(queue)] = "taken"]
      BY <1>7, <2>2 DEF Release
    <3> QED
      BY <1>7, <1>b, <3>1, <3>2 DEF Release, FateOf, Turn, runs, approvals
  <2> QED
    BY <2>1, <2>2
<1>8. ASSUME NEW l \in Leg,
             \/ DrainStarts(l) \/ DrainEnds(l) \/ DrainPauses(l)
             \/ SendCard(l) \/ RecordCoords(l)
      PROVE  BookMoves
  BY <1>8, <1>a
     DEF DrainStarts, DrainEnds, DrainPauses, SendCard, RecordCoords, runs, approvals
<1>9. ASSUME NEW l \in Leg, MarkPending(l) PROVE BookMoves
  <2>1. l \in PausedLegs
    BY <1>9 DEF MarkPending, PausedLegs, Inv, CardInv, DrainsFollow
  <2>2. /\ pending' = l /\ UNCHANGED slot
        /\ OverRuns' = OverRuns /\ PausedLegs' = PausedLegs
        /\ \A m \in Msg : FateOf(m)' = FateOf(m) /\ LegsOf(m)' = LegsOf(m)
    BY <1>9 DEF MarkPending, runs, OverRuns, PausedLegs, Ended, FateOf, LegsOf
  <2>3. Book!Shows(l)
    BY <2>1, <2>2 DEF Book!Shows
  <2> QED
    BY <2>3 DEF BookMoves, Book!BookNext, Book!Leg, Leg
<1>10. ASSUME NEW r \in Leg \cup Foreign, Ends(r) PROVE BookMoves
  BY <1>10, <1>t, BookFinishes
<1>11. CASE Deregisters
  <2>1. /\ slot[Session] \in Leg \cup Foreign /\ Ended(slot[Session])
        /\ slot'[Session] = None /\ UNCHANGED <<stage, out, turn, leg, pending>>
    BY <1>11, <1>t DEF Deregisters, Slots!Vacate, Ended, approvals, TypeOK
  <2>2. /\ OverRuns' = OverRuns /\ PausedLegs' = PausedLegs
        /\ \A m \in Msg : FateOf(m)' = FateOf(m) /\ LegsOf(m)' = LegsOf(m)
    BY <2>1 DEF OverRuns, PausedLegs, Ended, FateOf, LegsOf
  <2>3. Book!Frees
    BY <2>1, <2>2 DEF Book!Frees, OverRuns
  <2> QED
    BY <2>3 DEF BookMoves, Book!BookNext
<1>12. ASSUME NEW r \in Foreign, ForeignRun(r) PROVE BookMoves
  <2>1. Slots!Admit(Session, r) /\ UNCHANGED <<out, turn, leg, pending>>
    BY <1>12 DEF ForeignRun, approvals
  <2>2. Book!Takes(r) /\ OverRuns' = OverRuns /\ PausedLegs' = PausedLegs
    BY <1>t, <2>1, BookTakes
  <2>3. \A m \in Msg : FateOf(m)' = FateOf(m) /\ LegsOf(m)' = LegsOf(m)
    BY <2>1 DEF FateOf, LegsOf
  <2>4. Book!Interferes(r)
    BY <2>1, <2>2, <2>3 DEF Book!Interferes
  <2> QED
    BY <2>4 DEF BookMoves, Book!BookNext
<1>13. ASSUME NEW p \in Press, Answer(p) \/ DrainResumed(p) PROVE BookMoves
  BY <1>13, <1>a DEF Answer, DrainResumed, runs
<1>14. ASSUME NEW p \in Press, Resume(p) PROVE BookMoves
  BY <1>14, BookResumes
<1>15. ASSUME NEW p \in Press, ClearPending(p) PROVE BookMoves
  <2>1. /\ pending' = None /\ UNCHANGED slot
        /\ OverRuns' = OverRuns /\ PausedLegs' = PausedLegs
        /\ \A m \in Msg : FateOf(m)' = FateOf(m) /\ LegsOf(m)' = LegsOf(m)
    BY <1>15 DEF ClearPending, runs, OverRuns, PausedLegs, Ended, FateOf, LegsOf
  <2>2. Book!Withdraws
    BY <2>1 DEF Book!Withdraws
  <2> QED
    BY <2>2 DEF BookMoves, Book!BookNext
<1>16. CASE Detach \/ Shutdown \/ UNCHANGED vars
  BY <1>16, <1>a DEF Detach, Shutdown, Slots!StopAdmitting, runs, approvals, vars
<1> QED
  BY <1>1, <1>2, <1>3, <1>4, <1>5, <1>6, <1>7, <1>8, <1>9, <1>10, <1>11, <1>12, <1>13,
     <1>14, <1>15, <1>16 DEF Next, TurnStep, DrainStep, PressStep

(* The gateway implements TurnBook: a message becomes a turn once or is    *)
(* answered without a run, runs take the session one at a time, and a turn *)
(* runs again only after a run of it that ended for an approval.           *)
THEOREM KeepsTurnBook == Spec => ImplementsTurnBook
<1>1. Init => Book!BookInit
  BY DEF Init, Slots!SlotsInit, Book!BookInit, FateOf, LegsOf, OverRuns, PausedLegs, Ended
<1>2. Init => RunsHold
  BY DEF Init, Slots!SlotsInit, RunsHold
<1>3. TypeOK /\ RunsHold /\ [Next]_vars => RunsHold'
  BY HoldStep
<1>4. Inv => TypeOK
  BY DEF Inv
<1>5. Inv /\ RunsHold /\ [Next]_vars => [Book!BookNext]_(Book!bookVars)
  BY BookStep
<1> QED
  BY <1>1, <1>2, <1>3, <1>4, <1>5, Invariant, PTL
     DEF Spec, ImplementsTurnBook, Book!BookSpec
=============================================================================
