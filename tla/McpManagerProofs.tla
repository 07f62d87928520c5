------------------------- MODULE McpManagerProofs -------------------------
(***************************************************************************)
(* Safety of McpManager for all servers, calls, edits and times.           *)
(*                                                                         *)
(* What the properties say of a connection follows from where it is: Inv   *)
(* gives every open connection at most one home (Homes), and every attempt *)
(* under way what its entry will need when it is stored: a server without  *)
(* an entry that knows of no other attempt (Single), and, when the row has *)
(* been edited meanwhile, an edit that will see to it (Judged).  An edit's  *)
(* version is one the row has had (Known), so a call that reads the row     *)
(* after the edit is behind none, however many renewals wrote it.           *)
(***************************************************************************)
EXTENDS McpManager, TLAPS

Known ==
  /\ \A c \in Call : pc[c] # "idle" => server[c] \in Server
  /\ \A c \in cut : pc[c] # "idle"
  /\ \A e \in Edit : edit[e] # "idle" => target[e] \in Server
  /\ \A e \in Edit : edit[e] # "closing" => taken[e] = None
  /\ phase \in {"assembling", "serving", "stopped"} => shutting = {}
  /\ \A s \in Server : edited[s] =< row[s]

(* An attempt has a connection or has failed. *)
Outcome ==
  \A c \in Call :
    /\ pc[c] \in {"idle", "asked", "waiting", "dialing"} => ~failed[c] /\ conn[c] = "none"
    /\ failed[c] => conn[c] = "none"
    /\ pc[c] = "dialed" /\ ~failed[c] => conn[c] = "open"
    /\ conn[c] # "twice"

\* The attempt of c is over, and its connection is open.
Done(c) == pc[c] \in {"stored", "done"}
Live(c) == Done(c) /\ conn[c] = "open"

CacheHome ==
  \A s \in Server : Cached(s) =>
    /\ server[entries[s].by] = s /\ Done(entries[s].by)
    /\ ~failed[entries[s].by] =>
         /\ conn[entries[s].by] = "open"
         /\ entries[s].by \notin sweeping \cup shutting
         /\ \A e \in Edit : taken[e] # entries[s].by

CloserHomes ==
  /\ \A c \in sweeping : Live(c) /\ c \notin shutting /\ \A e \in Edit : taken[e] # c
  /\ \A c \in shutting : Live(c) /\ \A e \in Edit : taken[e] # c
  /\ \A e \in Edit : taken[e] # None => Live(taken[e])
  /\ \A e, f \in Edit : taken[e] # None /\ taken[e] = taken[f] => e = f

Homes == CacheHome /\ CloserHomes

Single ==
  \A c \in Call :
    Dialing(c) /\ ~Forgotten(server[c]) =>
      inflight[server[c]] = c /\ entries[server[c]] = None

Pending(s) == \E e \in Edit : edit[e] = "wrote" /\ target[e] = s

Judged ==
  \A c \in Call :
    pc[c] \in {"asked", "dialing", "dialed"} /\ ver[c] < edited[server[c]] =>
      c \in late \/ Pending(server[c])

(* The inductive invariant. *)
Inv ==
  /\ TypeOK
  /\ Known
  /\ Outcome
  /\ Homes
  /\ NoneLost
  /\ Single
  /\ Judged
  /\ EditsTakeEffect

-----------------------------------------------------------------------------
(* Init establishes the invariant, and every action keeps it.              *)

LEMMA InitInv == Init => Inv
<1> SUFFICES ASSUME Init PROVE Inv
    OBVIOUS
<1> USE NoneAssumption, TimesAssumption DEF Init
<1>1. TypeOK
    BY DEF TypeOK, CallPC, EditPC, Phase
<1>2. Known /\ Outcome
    BY DEF Known, Outcome
<1>3. Homes /\ NoneLost
    BY DEF Homes, CacheHome, CloserHomes, Cached, NoneLost
<1>4. Single /\ Judged /\ EditsTakeEffect
    BY DEF Single, Dialing, Judged, EditsTakeEffect, Cached
<1> QED
    BY <1>1, <1>2, <1>3, <1>4 DEF Inv

LEMMA TickStep == ASSUME Inv, Tick PROVE Inv'
<1> USE NoneAssumption, TimesAssumption DEF Inv, rows, Tick, Older, Expired, calls,
        cache, closers, edits
<1>1. TypeOK'
    BY DEF TypeOK, Known, CallPC, EditPC, Phase, Entry
<1>2. Known'
    BY DEF Known
<1>3. Outcome'
    BY DEF Outcome
<1>4. Homes'
    BY DEF Homes, CacheHome, CloserHomes, Live, Done, Cached
<1>5. NoneLost'
    <2> SUFFICES ASSUME NEW d \in Call, conn'[d] = "open", ~Forgotten(server[d])'
                 PROVE  \/ InHand(d)' \/ InCache(d)'
                        \/ d \in (sweeping \cup shutting)' \/ TakenBy(d)' # {}
        BY DEF NoneLost
    <2>1. \/ InHand(d) \/ InCache(d) \/ d \in sweeping \cup shutting \/ TakenBy(d) # {}
        BY DEF NoneLost, Forgotten
    <2>2. InCache(d) => InCache(d)'
        <3>1. \A s \in Server : Cached(s) => Cached(s)' /\ entries'[s].by = entries[s].by
            BY DEF TypeOK, Cached, Entry
        <3> QED
            BY <3>1 DEF InCache
    <2> QED
        BY <2>1, <2>2 DEF InHand, TakenBy
<1>6. Single'
    BY DEF TypeOK, Known, Single, Forgotten, Dialing
<1>7. Judged'
    BY DEF Judged, Pending
<1>8. EditsTakeEffect'
    BY DEF EditsTakeEffect, Pending, Cached
<1> QED
    BY <1>1, <1>2, <1>3, <1>4, <1>5, <1>6, <1>7, <1>8

LEMMA ReadRowStep == ASSUME Inv, NEW c \in Call, NEW s \in Server, ReadRow(c, s) PROVE Inv'
<1> USE NoneAssumption, TimesAssumption DEF Inv, rows, ReadRow, calls, cache,
        closers, edits
<1>1. TypeOK'
    BY DEF TypeOK, CallPC
<1>2. Known'
    BY DEF TypeOK, Known
<1>3. Outcome'
    BY DEF Outcome
<1>4. Homes'
    BY DEF Homes, CacheHome, CloserHomes, Live, Done, Cached
<1>5. NoneLost'
    BY DEF TypeOK, Known, Outcome, Homes, CacheHome, CloserHomes, NoneLost, Single,
           Forgotten, Dialing, InHand, InCache, TakenBy, Cached, Live, Done
<1>6. Single'
    BY DEF TypeOK, Known, Single, Forgotten, Dialing
<1>7. Judged'
    BY DEF TypeOK, Known, Judged, Pending
<1>8. EditsTakeEffect'
    <2> SUFFICES ASSUME NEW t \in Server, Cached(t), ver'[entries[t].by] < edited[t]
                 PROVE  entries[t].by \in late \/ Pending(t)
        BY DEF EditsTakeEffect, Pending, Cached
    <2>1. entries[t].by \in Call /\ Done(entries[t].by)
        BY DEF TypeOK, Cached, Entry, Homes, CacheHome
    <2>2. ver'[entries[t].by] = ver[entries[t].by]
        BY <2>1 DEF Done, TypeOK
    <2> QED
        BY <2>2 DEF EditsTakeEffect, Pending
<1> QED
    BY <1>1, <1>2, <1>3, <1>4, <1>5, <1>6, <1>7, <1>8

LEMMA HitStep == ASSUME Inv, NEW c \in Call, Hit(c) PROVE Inv'
<1> USE NoneAssumption, TimesAssumption DEF Inv, rows, Hit, Answers, calls, cache,
        closers, edits
<1>1. TypeOK'
    <2>1. server[c] \in Server
        BY DEF Known
    <2>2. entries[server[c]] \in Entry
        BY <2>1 DEF TypeOK, Cached
    <2>3. [by |-> entries[server[c]].by, age |-> 0] \in Entry
        BY <2>2 DEF Entry
    <2>4. entries' \in [Server -> Entry \cup {None}]
        BY <2>3 DEF TypeOK
    <2> QED
        BY <2>4 DEF TypeOK, CallPC, EditPC, Phase
<1>2. Known'
    BY DEF Known
<1>3. Outcome'
    BY DEF Outcome
<1>4. Homes'
    BY DEF Homes, CacheHome, CloserHomes, Live, Done, Cached
<1>5. NoneLost'
    <2> SUFFICES ASSUME NEW d \in Call, conn'[d] = "open", ~Forgotten(server[d])'
                 PROVE  \/ InHand(d)' \/ InCache(d)'
                        \/ d \in (sweeping \cup shutting)' \/ TakenBy(d)' # {}
        BY DEF NoneLost
    <2>1. \/ InHand(d) \/ InCache(d) \/ d \in sweeping \cup shutting \/ TakenBy(d) # {}
        BY DEF NoneLost, Forgotten
    <2>2. InCache(d) => InCache(d)'
        <3>1. \A s \in Server : Cached(s) => Cached(s)' /\ entries'[s].by = entries[s].by
            BY DEF TypeOK, Cached, Entry
        <3> QED
            BY <3>1 DEF InCache
    <2> QED
        BY <2>1, <2>2 DEF InHand, TakenBy, TypeOK
<1>6. Single'
    BY DEF TypeOK, Known, Single, Forgotten, Dialing, Cached
<1>7. Judged'
    BY DEF Judged, Pending
<1>8. EditsTakeEffect'
    BY DEF EditsTakeEffect, Pending, Cached
<1> QED
    BY <1>1, <1>2, <1>3, <1>4, <1>5, <1>6, <1>7, <1>8

LEMMA WaitStep == ASSUME Inv, NEW c \in Call, Wait(c) PROVE Inv'
<1> USE NoneAssumption, TimesAssumption DEF Inv, rows, Wait, Answers, calls, cache,
        closers, edits
<1>1. TypeOK'
    <2>1. server[c] \in Server
        BY DEF Known
    <2>2. lead' \in [Call -> Call \cup {None}]
        BY <2>1 DEF TypeOK
    <2>3. entries' \in [Server -> Entry \cup {None}]
        BY DEF TypeOK
    <2> QED
        BY <2>2, <2>3 DEF TypeOK, CallPC, EditPC, Phase
<1>2. Known'
    BY DEF Known
<1>3. Outcome'
    BY DEF Outcome
<1>4. Homes'
    BY DEF Homes, CacheHome, CloserHomes, Live, Done, Cached
<1>5. NoneLost'
    BY DEF NoneLost, Forgotten, InHand, InCache, TakenBy, Cached
<1>6. Single'
    BY DEF Single, Forgotten, Dialing
<1>7. Judged'
    BY DEF Judged, Pending
<1>8. EditsTakeEffect'
    BY DEF EditsTakeEffect, Pending, Cached
<1> QED
    BY <1>1, <1>2, <1>3, <1>4, <1>5, <1>6, <1>7, <1>8

LEMMA DialsStep == ASSUME Inv, NEW c \in Call, Dials(c) PROVE Inv'
<1> USE NoneAssumption, TimesAssumption DEF Inv, rows, Dials, Answers, calls, cache,
        closers, edits
<1>1. TypeOK'
    BY DEF TypeOK, CallPC
<1>2. Known'
    BY DEF Known
<1>3. Outcome'
    BY DEF Outcome
<1>4. Homes'
    BY DEF Homes, CacheHome, CloserHomes, Live, Done, Cached
<1>5. NoneLost'
    BY DEF NoneLost, Forgotten, InHand, InCache, TakenBy, Cached
<1>6. Single'
    BY DEF TypeOK, Known, Single, Forgotten, Dialing
<1>7. Judged'
    BY DEF Judged, Pending
<1>8. EditsTakeEffect'
    BY DEF EditsTakeEffect, Pending, Cached
<1> QED
    BY <1>1, <1>2, <1>3, <1>4, <1>5, <1>6, <1>7, <1>8

LEMMA ConnectStep == ASSUME Inv, NEW c \in Call, Connect(c) PROVE Inv'
<1> USE NoneAssumption, TimesAssumption DEF Inv, rows, Connect, calls, cache,
        closers, edits
<1>1. TypeOK'
    <2>1. conn' \in [Call -> {"none", "open", "closed", "twice"}]
        BY DEF TypeOK
    <2>2. failed' \in [Call -> BOOLEAN]
        BY DEF TypeOK
    <2>3. pc' \in [Call -> CallPC]
        BY DEF TypeOK, CallPC
    <2> QED
        BY <2>1, <2>2, <2>3 DEF TypeOK
<1>2. Known'
    BY DEF Known
<1>3. Outcome'
    BY DEF TypeOK, Outcome
<1>4. Homes'
    BY DEF TypeOK, Homes, CacheHome, CloserHomes, Live, Done, Cached, Entry
<1>5. NoneLost'
    BY DEF TypeOK, Known, Outcome, Homes, CacheHome, CloserHomes, NoneLost, Single,
           Forgotten, Dialing, InHand, InCache, TakenBy, Cached, Live, Done
<1>6. Single'
    BY DEF Single, Forgotten, Dialing
<1>7. Judged'
    BY DEF Judged, Pending
<1>8. EditsTakeEffect'
    BY DEF EditsTakeEffect, Pending, Cached
<1> QED
    BY <1>1, <1>2, <1>3, <1>4, <1>5, <1>6, <1>7, <1>8

LEMMA StoreStep == ASSUME Inv, NEW c \in Call, Store(c) PROVE Inv'
<1> USE NoneAssumption, TimesAssumption DEF Inv, rows, Store, calls, cache, closers,
        edits
<1>1. TypeOK'
    <2>1. [by |-> c, age |-> 0] \in Entry
        BY DEF Entry
    <2>2. entries' \in [Server -> Entry \cup {None}]
        BY <2>1 DEF TypeOK
    <2>3. pc' \in [Call -> CallPC]
        BY DEF TypeOK, CallPC
    <2> QED
        BY <2>2, <2>3 DEF TypeOK
<1>2. Known'
    BY DEF Known
<1>3. Outcome'
    BY DEF Outcome
<1>4. Homes'
    BY DEF TypeOK, Outcome, Homes, CacheHome, CloserHomes, Live, Done, Cached
<1>5. NoneLost'
    <2> SUFFICES ASSUME NEW d \in Call, conn'[d] = "open", ~Forgotten(server[d])'
                 PROVE  \/ InHand(d)' \/ InCache(d)'
                        \/ d \in (sweeping \cup shutting)' \/ TakenBy(d)' # {}
        BY DEF NoneLost
    <2>1. \/ InHand(d) \/ InCache(d) \/ d \in sweeping \cup shutting \/ TakenBy(d) # {}
        BY DEF NoneLost, Forgotten
    <2>2. server[c] \in Server
        BY DEF Known
    <2>3. CASE d = c
        <3>1. InHand(c)
            BY <2>3 DEF InHand, Outcome, TypeOK
        <3>2. Cached(server[c])' /\ entries'[server[c]].by = c
            BY <2>2 DEF TypeOK, Cached, Entry
        <3> QED
            BY <2>2, <2>3, <3>1, <3>2 DEF InCache, InHand
    <2>4. CASE d # c
        <3>1. InHand(d) => InHand(d)'
            BY <2>4 DEF InHand, TypeOK
        <3>2. ASSUME InCache(d) PROVE InCache(d)'
            <4>1. PICK s \in Server : Cached(s) /\ entries[s].by = d /\ ~failed[d]
                BY <3>2 DEF InCache
            <4>2. server[d] = s
                BY <4>1 DEF Homes, CacheHome
            <4>3. s # server[c]
                BY <4>1, <4>2 DEF Single, Dialing, Cached, Forgotten
            <4>4. entries'[s] = entries[s]
                BY <4>3 DEF TypeOK
            <4> QED
                BY <4>1, <4>4 DEF InCache, Cached
        <3> QED
            BY <2>1, <3>1, <3>2 DEF TakenBy
    <2> QED
        BY <2>3, <2>4
<1>6. Single'
    BY DEF TypeOK, Single, Forgotten, Dialing
<1>7. Judged'
    BY DEF Judged, Pending
<1>8. EditsTakeEffect'
    BY DEF TypeOK, Known, Homes, CacheHome, Judged, EditsTakeEffect, Pending, Cached,
           UnderWay, Entry
<1> QED
    BY <1>1, <1>2, <1>3, <1>4, <1>5, <1>6, <1>7, <1>8

LEMMA PublishStep == ASSUME Inv, NEW c \in Call, Publish(c) PROVE Inv'
<1> USE NoneAssumption, TimesAssumption DEF Inv, rows, Publish, calls, cache,
        closers, edits
<1>1. TypeOK'
    BY DEF TypeOK, CallPC
<1>2. Known'
    BY DEF Known
<1>3. Outcome'
    BY DEF Outcome
<1>4. Homes'
    BY DEF Homes, CacheHome, CloserHomes, Live, Done, Cached
<1>5. NoneLost'
    BY DEF NoneLost, Forgotten, InHand, InCache, TakenBy, Cached
<1>6. Single'
    BY DEF Single, Forgotten, Dialing
<1>7. Judged'
    BY DEF Judged, Pending
<1>8. EditsTakeEffect'
    BY DEF EditsTakeEffect, Pending, Cached
<1> QED
    BY <1>1, <1>2, <1>3, <1>4, <1>5, <1>6, <1>7, <1>8

LEMMA WakeStep == ASSUME Inv, NEW c \in Call, Wake(c) PROVE Inv'
<1> USE NoneAssumption, TimesAssumption DEF Inv, rows, Wake, calls, cache, closers,
        edits
<1>1. TypeOK'
    BY DEF TypeOK, CallPC
<1>2. Known'
    BY DEF Known
<1>3. Outcome'
    BY DEF Outcome
<1>4. Homes'
    BY DEF Homes, CacheHome, CloserHomes, Live, Done, Cached
<1>5. NoneLost'
    BY DEF NoneLost, Forgotten, InHand, InCache, TakenBy, Cached
<1>6. Single'
    BY DEF Single, Forgotten, Dialing
<1>7. Judged'
    BY DEF Judged, Pending
<1>8. EditsTakeEffect'
    BY DEF EditsTakeEffect, Pending, Cached
<1> QED
    BY <1>1, <1>2, <1>3, <1>4, <1>5, <1>6, <1>7, <1>8

LEMMA SweepIdleStep == ASSUME Inv, SweepIdle PROVE Inv'
<1> USE NoneAssumption, TimesAssumption DEF Inv, rows, SweepIdle, Connections,
        Expired, calls, cache, closers, edits
<1>1. TypeOK'
    <2>1. sweeping' \subseteq Call
        BY DEF TypeOK, Cached, Entry
    <2>2. entries' \in [Server -> Entry \cup {None}]
        BY DEF TypeOK
    <2> QED
        BY <2>1, <2>2 DEF TypeOK
<1>2. Known'
    BY DEF Known
<1>3. Outcome'
    BY DEF Outcome
<1>4. Homes'
    BY DEF Homes, CacheHome, CloserHomes, Live, Done, Cached
<1>5. NoneLost'
    BY DEF NoneLost, Forgotten, InHand, InCache, TakenBy, Cached
<1>6. Single'
    BY DEF TypeOK, Known, Single, Forgotten, Dialing
<1>7. Judged'
    BY DEF Judged, Pending
<1>8. EditsTakeEffect'
    BY DEF EditsTakeEffect, Pending, Cached
<1> QED
    BY <1>1, <1>2, <1>3, <1>4, <1>5, <1>6, <1>7, <1>8

LEMMA SweepClosesStep == ASSUME Inv, NEW c \in Call, SweepCloses(c) PROVE Inv'
<1> USE NoneAssumption, TimesAssumption DEF Inv, rows, SweepCloses, Shut, calls,
        cache, closers, edits
<1>1. TypeOK'
    BY DEF TypeOK
<1>2. Known'
    BY DEF Known
<1>3. Outcome'
    <2>1. conn[c] = "open" /\ Done(c)
        BY DEF Homes, CloserHomes, Live
    <2>2. conn' = [conn EXCEPT ![c] = "closed"]
        BY <2>1
    <2> QED
        BY <2>1, <2>2 DEF Outcome, Done, TypeOK
<1>4. Homes'
    BY DEF Homes, CacheHome, CloserHomes, Live, Done, Cached
<1>5. NoneLost'
    BY DEF TypeOK, NoneLost, Forgotten, InHand, InCache, TakenBy, Cached
<1>6. Single'
    BY DEF Single, Forgotten, Dialing
<1>7. Judged'
    BY DEF Judged, Pending
<1>8. EditsTakeEffect'
    BY DEF EditsTakeEffect, Pending, Cached
<1> QED
    BY <1>1, <1>2, <1>3, <1>4, <1>5, <1>6, <1>7, <1>8

LEMMA JanitorReturnsStep == ASSUME Inv, JanitorReturns PROVE Inv'
<1> USE NoneAssumption, TimesAssumption DEF Inv, rows, JanitorReturns, calls, cache,
        closers, edits
<1>1. TypeOK'
    BY DEF TypeOK
<1>2. Known'
    BY DEF Known
<1>3. Outcome'
    BY DEF Outcome
<1>4. Homes'
    BY DEF Homes, CacheHome, CloserHomes, Live, Done, Cached
<1>5. NoneLost'
    BY DEF NoneLost, Forgotten, InHand, InCache, TakenBy, Cached
<1>6. Single'
    BY DEF Single, Forgotten, Dialing
<1>7. Judged'
    BY DEF Judged, Pending
<1>8. EditsTakeEffect'
    BY DEF EditsTakeEffect, Pending, Cached
<1> QED
    BY <1>1, <1>2, <1>3, <1>4, <1>5, <1>6, <1>7, <1>8

LEMMA WriteRowStep == ASSUME Inv, NEW e \in Edit, NEW s \in Server, WriteRow(e, s) PROVE Inv'
<1> USE NoneAssumption, TimesAssumption DEF Inv, rows, WriteRow, calls, cache,
        closers, edits
<1>1. TypeOK'
    BY DEF TypeOK, EditPC
<1>2. Known'
    BY DEF TypeOK, Known
<1>3. Outcome'
    BY DEF Outcome
<1>4. Homes'
    BY DEF Homes, CacheHome, CloserHomes, Live, Done, Cached
<1>5. NoneLost'
    BY DEF NoneLost, Forgotten, InHand, InCache, TakenBy, Cached
<1>6. Single'
    BY DEF Single, Forgotten, Dialing
<1>7. Judged'
    BY DEF TypeOK, Judged, Pending
<1>8. EditsTakeEffect'
    BY DEF TypeOK, EditsTakeEffect, Pending, Cached
<1> QED
    BY <1>1, <1>2, <1>3, <1>4, <1>5, <1>6, <1>7, <1>8

LEMMA RenewRowStep ==
    ASSUME Inv, NEW w \in Renewal, NEW s \in Server, RenewRow(w, s) PROVE Inv'
<1> USE NoneAssumption, TimesAssumption DEF Inv, rows, RenewRow, calls, cache, closers,
        edits
<1>1. TypeOK'
    BY DEF TypeOK
<1>2. Known'
    BY DEF TypeOK, Known
<1>3. Outcome'
    BY DEF Outcome
<1>4. Homes'
    BY DEF Homes, CacheHome, CloserHomes, Live, Done, Cached
<1>5. NoneLost'
    BY DEF NoneLost, Forgotten, InHand, InCache, TakenBy, Cached
<1>6. Single'
    BY DEF Single, Forgotten, Dialing
<1>7. Judged'
    BY DEF Judged, Pending
<1>8. EditsTakeEffect'
    BY DEF EditsTakeEffect, Pending, Cached
<1> QED
    BY <1>1, <1>2, <1>3, <1>4, <1>5, <1>6, <1>7, <1>8

LEMMA InvalidateStep == ASSUME Inv, NEW e \in Edit, Invalidate(e) PROVE Inv'
<1> USE NoneAssumption, TimesAssumption DEF Inv, rows, Invalidate, Connections,
        UnderWay, calls, cache, closers, edits
<1>1. TypeOK'
    <2>1. target[e] \in Server
        BY DEF Known
    <2>2. taken' \in [Edit -> Call \cup {None}]
        <3>1. Cached(target[e]) => entries[target[e]].by \in Call
            BY <2>1 DEF TypeOK, Cached, Entry
        <3> QED
            BY <2>1, <3>1 DEF TypeOK
    <2>3. entries' \in [Server -> Entry \cup {None}]
        BY DEF TypeOK
    <2>4. late' \subseteq Call /\ edit' \in [Edit -> EditPC]
        BY DEF TypeOK, EditPC
    <2> QED
        BY <2>2, <2>3, <2>4 DEF TypeOK
<1>2. Known'
    BY DEF TypeOK, Known
<1>3. Outcome'
    BY DEF Outcome
<1>4. Homes'
    BY DEF TypeOK, Known, Homes, CacheHome, CloserHomes, Live, Done, Cached
<1>5. NoneLost'
    BY DEF TypeOK, Known, NoneLost, Forgotten, InHand, InCache, TakenBy, Cached
<1>6. Single'
    BY DEF Single, Forgotten, Dialing
<1>7. Judged'
    BY DEF Judged, Pending
<1>8. EditsTakeEffect'
    BY DEF TypeOK, EditsTakeEffect, Pending, Cached
<1> QED
    BY <1>1, <1>2, <1>3, <1>4, <1>5, <1>6, <1>7, <1>8

LEMMA EditClosesStep == ASSUME Inv, NEW e \in Edit, EditCloses(e) PROVE Inv'
<1> USE NoneAssumption, TimesAssumption DEF Inv, rows, EditCloses, Shut, calls,
        cache, closers, edits
<1>1. TypeOK'
    BY DEF TypeOK, EditPC
<1>2. Known'
    BY DEF TypeOK, Known
<1>3. Outcome'
    <2>1. CASE taken[e] = None
        BY <2>1 DEF Outcome
    <2>2. CASE taken[e] # None
        <3>1. taken[e] \in Call /\ conn[taken[e]] = "open" /\ Done(taken[e])
            BY <2>2 DEF TypeOK, Homes, CloserHomes, Live
        <3>2. conn' = [conn EXCEPT ![taken[e]] = "closed"]
            BY <2>2, <3>1
        <3> QED
            BY <3>1, <3>2 DEF Outcome, Done, TypeOK
    <2> QED
        BY <2>1, <2>2
<1>4. Homes'
    BY DEF TypeOK, Homes, CacheHome, CloserHomes, Live, Done, Cached, Entry
<1>5. NoneLost'
    BY DEF TypeOK, NoneLost, Forgotten, InHand, InCache, TakenBy, Cached
<1>6. Single'
    BY DEF Single, Forgotten, Dialing
<1>7. Judged'
    BY DEF Judged, Pending
<1>8. EditsTakeEffect'
    BY DEF EditsTakeEffect, Pending, Cached
<1> QED
    BY <1>1, <1>2, <1>3, <1>4, <1>5, <1>6, <1>7, <1>8

LEMMA AssemblyReturnsStep == ASSUME Inv, AssemblyReturns PROVE Inv'
<1> USE NoneAssumption, TimesAssumption DEF Inv, rows, AssemblyReturns, Close,
        Connections, calls, cache, closers, edits
<1>1. TypeOK'
    <2>1. shutting' \subseteq Call
        BY DEF TypeOK, Cached, Entry
    <2>2. /\ entries' \in [Server -> Entry \cup {None}]
          /\ inflight' \in [Server -> Call \cup {None}]
        OBVIOUS
    <2>3. cut' \subseteq Call /\ phase' \in Phase
        BY DEF TypeOK, Phase
    <2> QED
        BY <2>1, <2>2, <2>3 DEF TypeOK
<1>2. Known'
    BY DEF Known
<1>3. Outcome'
    BY DEF Outcome
<1>4. Homes'
    BY DEF Homes, CacheHome, CloserHomes, Live, Done, Cached
<1>5. NoneLost'
    BY DEF TypeOK, Known, NoneLost, Forgotten, InHand, InCache, TakenBy, Cached
<1>6. Single'
    BY DEF Single, Forgotten, Dialing
<1>7. Judged'
    BY DEF Judged, Pending
<1>8. EditsTakeEffect'
    BY DEF EditsTakeEffect, Pending, Cached
<1> QED
    BY <1>1, <1>2, <1>3, <1>4, <1>5, <1>6, <1>7, <1>8

LEMMA ProcessStopsStep == ASSUME Inv, ProcessStops PROVE Inv'
<1> USE NoneAssumption, TimesAssumption DEF Inv, rows, ProcessStops, Close,
        Connections, calls, cache, closers, edits
<1>1. TypeOK'
    <2>1. shutting' \subseteq Call
        BY DEF TypeOK, Cached, Entry
    <2>2. /\ entries' \in [Server -> Entry \cup {None}]
          /\ inflight' \in [Server -> Call \cup {None}]
        OBVIOUS
    <2>3. cut' \subseteq Call /\ phase' \in Phase
        BY DEF TypeOK, Phase
    <2> QED
        BY <2>1, <2>2, <2>3 DEF TypeOK
<1>2. Known'
    BY DEF Known
<1>3. Outcome'
    BY DEF Outcome
<1>4. Homes'
    BY DEF Homes, CacheHome, CloserHomes, Live, Done, Cached
<1>5. NoneLost'
    BY DEF TypeOK, Known, NoneLost, Forgotten, InHand, InCache, TakenBy, Cached
<1>6. Single'
    BY DEF Single, Forgotten, Dialing
<1>7. Judged'
    BY DEF Judged, Pending
<1>8. EditsTakeEffect'
    BY DEF EditsTakeEffect, Pending, Cached
<1> QED
    BY <1>1, <1>2, <1>3, <1>4, <1>5, <1>6, <1>7, <1>8

LEMMA ShutClosesStep == ASSUME Inv, NEW c \in Call, ShutCloses(c) PROVE Inv'
<1> USE NoneAssumption, TimesAssumption DEF Inv, rows, ShutCloses, Shut, calls,
        cache, closers, edits
<1>1. TypeOK'
    BY DEF TypeOK
<1>2. Known'
    BY DEF Known
<1>3. Outcome'
    <2>1. conn[c] = "open" /\ Done(c)
        BY DEF Homes, CloserHomes, Live
    <2>2. conn' = [conn EXCEPT ![c] = "closed"]
        BY <2>1
    <2> QED
        BY <2>1, <2>2 DEF Outcome, Done, TypeOK
<1>4. Homes'
    BY DEF Homes, CacheHome, CloserHomes, Live, Done, Cached
<1>5. NoneLost'
    BY DEF TypeOK, NoneLost, Forgotten, InHand, InCache, TakenBy, Cached
<1>6. Single'
    BY DEF Single, Forgotten, Dialing
<1>7. Judged'
    BY DEF Judged, Pending
<1>8. EditsTakeEffect'
    BY DEF EditsTakeEffect, Pending, Cached
<1> QED
    BY <1>1, <1>2, <1>3, <1>4, <1>5, <1>6, <1>7, <1>8

LEMMA CloseReturnsStep == ASSUME Inv, CloseReturns PROVE Inv'
<1> USE NoneAssumption, TimesAssumption DEF Inv, rows, CloseReturns, calls, cache,
        closers, edits
<1>1. TypeOK'
    BY DEF TypeOK, CallPC, EditPC, Phase
<1>2. Known'
    BY DEF Known
<1>3. Outcome'
    BY DEF Outcome
<1>4. Homes'
    BY DEF Homes, CacheHome, CloserHomes, Live, Done, Cached
<1>5. NoneLost'
    BY DEF NoneLost, Forgotten, InHand, InCache, TakenBy, Cached
<1>6. Single'
    BY DEF Single, Forgotten, Dialing
<1>7. Judged'
    BY DEF Judged, Pending
<1>8. EditsTakeEffect'
    BY DEF EditsTakeEffect, Pending, Cached
<1> QED
    BY <1>1, <1>2, <1>3, <1>4, <1>5, <1>6, <1>7, <1>8

LEMMA StutterStep == ASSUME Inv, UNCHANGED vars PROVE Inv'
<1> USE DEF vars, rows, calls, edits, cache, closers
<1>1. (TypeOK /\ Known /\ Outcome)'
    BY DEF Inv, TypeOK, Known, Outcome
<1>2. Homes'
    BY DEF Inv, Homes, CacheHome, CloserHomes, Cached, Done, Live
<1>3. (NoneLost /\ Single)'
    BY DEF Inv, NoneLost, Single, InHand, InCache, TakenBy, Forgotten, Dialing, Cached
<1>4. (Judged /\ EditsTakeEffect)'
    BY DEF Inv, Judged, EditsTakeEffect, Pending, Cached
<1> QED
    BY <1>1, <1>2, <1>3, <1>4 DEF Inv

LEMMA NextInv == Inv /\ [Next]_vars => Inv'
<1> SUFFICES ASSUME Inv, [Next]_vars PROVE Inv'
    OBVIOUS
<1>1. ASSUME NEW c \in Call, CallStep(c) PROVE Inv'
    BY <1>1, HitStep, WaitStep, DialsStep, ConnectStep, StoreStep, PublishStep, WakeStep
       DEF CallStep
<1>2. CASE JanitorStep
    BY <1>2, SweepIdleStep, SweepClosesStep, JanitorReturnsStep DEF JanitorStep
<1>3. CASE CloseStep
    BY <1>3, AssemblyReturnsStep, ProcessStopsStep, ShutClosesStep, CloseReturnsStep
       DEF CloseStep, CloseGoesOn
<1>4. ASSUME NEW e \in Edit, Invalidate(e) \/ EditCloses(e) PROVE Inv'
    BY <1>4, InvalidateStep, EditClosesStep
<1>5. CASE Tick
    BY <1>5, TickStep
<1>6. CASE \E c \in Call, s \in Server : ReadRow(c, s)
    BY <1>6, ReadRowStep
<1>7. CASE \E e \in Edit, s \in Server : WriteRow(e, s)
    BY <1>7, WriteRowStep
<1>8. CASE \E w \in Renewal, s \in Server : RenewRow(w, s)
    BY <1>8, RenewRowStep
<1>9. CASE UNCHANGED vars
    BY <1>9, StutterStep
<1> QED
    BY <1>1, <1>2, <1>3, <1>4, <1>5, <1>6, <1>7, <1>8, <1>9 DEF Next

THEOREM Invariant == Spec => []Inv
BY InitInv, NextInv, PTL DEF Spec

-----------------------------------------------------------------------------
(* A record in the map is that of a call that dials for this server, and   *)
(* the records found there before are those of attempts that go on or are  *)
(* over: a second invariant, beside Inv.                                   *)
Recorded ==
  \A s \in Server : inflight[s] # None =>
    inflight[s] \in Call /\ server[inflight[s]] = s /\ Dialing(inflight[s])

Shared == Recorded /\ WaitersHaveAttempt

LEMMA SharedInit == Init => Shared
BY DEF Init, Shared, Recorded, WaitersHaveAttempt

\* A step that starts no attempt, ends none and lets nobody wait.
LEMMA SharedStays ==
    ASSUME Shared, UNCHANGED <<server, lead, pc>>,
           \A s \in Server : inflight'[s] \in {inflight[s], None}
    PROVE  Shared'
<1>1. Recorded'
    BY DEF Shared, Recorded, Dialing
<1>2. WaitersHaveAttempt'
    BY DEF Shared, WaitersHaveAttempt, Dialing
<1> QED
    BY <1>1, <1>2 DEF Shared

\* A step of a call that is in no record and stays out of the map.
LEMMA SharedMoves ==
    ASSUME Inv, Shared, NEW c \in Call, UNCHANGED <<lead, inflight>>,
           pc[c] # "waiting" \/ pc'[c] = "done",
           pc'[c] # "waiting",
           Dialing(c) => Dialing(c)', Done(c) => Done(c)',
           \A d \in Call \ {c} : pc'[d] = pc[d] /\ server'[d] = server[d],
           pc[c] # "idle" => server'[c] = server[c]
    PROVE  Shared'
<1>1. Recorded'
    BY DEF Shared, Recorded, Dialing
<1>2. WaitersHaveAttempt'
    <2> SUFFICES ASSUME NEW d \in Call, pc'[d] = "waiting"
                 PROVE  /\ lead[d] \in Call /\ server'[lead[d]] = server'[d]
                        /\ Dialing(lead[d])' \/ pc'[lead[d]] \in {"stored", "done"}
        BY DEF WaitersHaveAttempt
    <2>1. d # c /\ pc[d] = "waiting" /\ server'[d] = server[d]
        OBVIOUS
    <2>2. /\ lead[d] \in Call /\ server[lead[d]] = server[d]
          /\ Dialing(lead[d]) \/ pc[lead[d]] \in {"stored", "done"}
        BY <2>1 DEF Shared, WaitersHaveAttempt
    <2> QED
        BY <2>1, <2>2 DEF Dialing, Done
<1> QED
    BY <1>1, <1>2 DEF Shared

LEMMA SharedWait == ASSUME Inv, Shared, NEW c \in Call, Wait(c) PROVE Shared'
<1>1. /\ pc \in [Call -> CallPC] /\ lead \in [Call -> Call \cup {None}]
      /\ server[c] \in Server /\ UNCHANGED <<server, inflight>>
      /\ pc[c] = "asked" /\ pc' = [pc EXCEPT ![c] = "waiting"]
      /\ inflight[server[c]] # None /\ lead' = [lead EXCEPT ![c] = inflight[server[c]]]
    BY DEF Inv, TypeOK, Known, Wait
<1>2. Recorded'
    BY <1>1 DEF Shared, Recorded, Dialing
<1>3. WaitersHaveAttempt'
    <2> SUFFICES ASSUME NEW d \in Call, pc'[d] = "waiting"
                 PROVE  /\ lead'[d] \in Call /\ server[lead'[d]] = server[d]
                        /\ pc'[lead'[d]] \in {"dialing", "dialed", "stored", "done"}
        BY <1>1 DEF WaitersHaveAttempt, Dialing
    <2>1. CASE d = c
        BY <1>1, <1>2, <2>1 DEF Recorded, Dialing
    <2>2. CASE d # c
        <3>1. /\ lead[d] \in Call /\ server[lead[d]] = server[d] /\ lead[d] # c
              /\ Dialing(lead[d]) \/ pc[lead[d]] \in {"stored", "done"}
            BY <1>1, <2>2 DEF Shared, WaitersHaveAttempt, Dialing
        <3> QED
            BY <1>1, <2>2, <3>1 DEF Dialing
    <2> QED
        BY <2>1, <2>2
<1> QED
    BY <1>2, <1>3 DEF Shared

LEMMA SharedDials == ASSUME Inv, Shared, NEW c \in Call, Dials(c) PROVE Shared'
<1>1. /\ pc \in [Call -> CallPC] /\ inflight \in [Server -> Call \cup {None}]
      /\ server[c] \in Server /\ UNCHANGED <<server, lead>>
      /\ pc[c] = "asked" /\ pc' = [pc EXCEPT ![c] = "dialing"]
      /\ inflight' = [inflight EXCEPT ![server[c]] = c]
    BY DEF Inv, TypeOK, Known, Dials
<1>2. Recorded'
    BY <1>1 DEF Shared, Recorded, Dialing
<1>3. WaitersHaveAttempt'
    BY <1>1 DEF Shared, WaitersHaveAttempt, Dialing
<1> QED
    BY <1>2, <1>3 DEF Shared

LEMMA SharedStore == ASSUME Inv, Shared, NEW c \in Call, Store(c) PROVE Shared'
<1>1. /\ pc \in [Call -> CallPC] /\ inflight \in [Server -> Call \cup {None}]
      /\ server[c] \in Server /\ UNCHANGED <<server, lead>>
      /\ pc[c] = "dialed" /\ pc' = [pc EXCEPT ![c] = "stored"]
      /\ inflight' = [inflight EXCEPT ![server[c]] = None]
    BY DEF Inv, TypeOK, Known, Store
<1>2. Recorded'
    BY <1>1 DEF Shared, Recorded, Dialing
<1>3. WaitersHaveAttempt'
    BY <1>1 DEF Shared, WaitersHaveAttempt, Dialing
<1> QED
    BY <1>2, <1>3 DEF Shared

LEMMA SharedStep == Inv /\ Shared /\ [Next]_vars => Shared'
<1> SUFFICES ASSUME Inv, Shared, [Next]_vars PROVE Shared'
    OBVIOUS
<1>1. ASSUME NEW c \in Call, CallStep(c) PROVE Shared'
    <2>1. ASSUME Hit(c) \/ Connect(c) \/ Publish(c) \/ Wake(c) PROVE Shared'
        <3>1. /\ UNCHANGED <<server, lead, inflight>> /\ pc'[c] # "waiting"
              /\ \A d \in Call \ {c} : pc'[d] = pc[d]
              /\ pc[c] # "waiting" \/ pc'[c] = "done"
              /\ Dialing(c) => Dialing(c)'
              /\ Done(c) => Done(c)'
            BY <2>1 DEF Hit, Connect, Publish, Wake, cache, Inv, TypeOK, CallPC,
               Dialing, Done
        <3> QED
            BY <3>1, SharedMoves
    <2> QED
        BY <1>1, <2>1, SharedWait, SharedDials, SharedStore DEF CallStep
<1>2. ASSUME NEW c \in Call, NEW s \in Server, ReadRow(c, s) PROVE Shared'
    <2>1. /\ UNCHANGED <<lead, inflight>> /\ pc[c] = "idle" /\ pc'[c] = "asked"
          /\ \A d \in Call \ {c} : pc'[d] = pc[d] /\ server'[d] = server[d]
        BY <1>2 DEF ReadRow, Inv, TypeOK, cache
    <2> QED
        BY <2>1, SharedMoves DEF Dialing, Done
<1>3. CASE JanitorStep
    BY <1>3, SharedStays DEF JanitorStep, SweepIdle, SweepCloses, JanitorReturns, calls, cache
<1>4. CASE CloseStep
    BY <1>4, SharedStays DEF CloseStep, CloseGoesOn, AssemblyReturns, ProcessStops, Close,
       ShutCloses, CloseReturns, calls, cache
<1>5. ASSUME NEW e \in Edit, Invalidate(e) \/ EditCloses(e) PROVE Shared'
    BY <1>5, SharedStays DEF Invalidate, EditCloses, calls, cache
<1>6. ASSUME NEW e \in Edit, NEW s \in Server, WriteRow(e, s) PROVE Shared'
    BY <1>6, SharedStays DEF WriteRow, calls, cache
<1>7. ASSUME NEW w \in Renewal, NEW s \in Server, RenewRow(w, s) PROVE Shared'
    BY <1>7, SharedStays DEF RenewRow, calls, cache
<1>8. CASE Tick \/ UNCHANGED vars
    BY <1>8, SharedStays DEF Tick, vars, calls, cache
<1> QED
    BY <1>1, <1>2, <1>3, <1>4, <1>5, <1>6, <1>7, <1>8 DEF Next

-----------------------------------------------------------------------------
(* Every variable of the manager has its type.                             *)
THEOREM TypeCorrect == Spec => []TypeOK
<1>1. Inv => TypeOK
    BY DEF Inv
<1> QED
    BY <1>1, Invariant, PTL

(* Whoever takes an entry out closes its connection, and nobody else does: *)
(* no connection is closed twice, and none that is cached was closed.      *)
THEOREM ClosesOnce == Spec => []ClosedOnce
<1>1. ASSUME Inv PROVE ClosedOnce
    <2>1. \A c \in Call : conn[c] # "twice"
        BY <1>1 DEF Inv, Outcome
    <2>2. ASSUME NEW c \in Call, InCache(c)
          PROVE  conn[c] = "open" /\ c \notin sweeping \cup shutting /\ TakenBy(c) = {}
        BY <1>1, <2>2 DEF Inv, Homes, CacheHome, InCache, TakenBy
    <2> QED
        BY <2>1, <2>2 DEF ClosedOnce
<1> QED
    BY <1>1, Invariant, PTL

(* An open connection is in hand, cached or with somebody who closes it,   *)
(* whatever sweeps, edits and calls interleave; only an attempt that a     *)
(* Close forgot can make its server lose one.                              *)
THEOREM NoneGetsLost == Spec => []NoneLost
<1>1. Inv => NoneLost
    BY DEF Inv
<1> QED
    BY <1>1, Invariant, PTL

(* One attempt per server at a time, with the same exception.              *)
THEOREM AttemptsShared == Spec => []OneDial
<1>1. ASSUME Inv PROVE OneDial
    <2> SUFFICES ASSUME NEW c \in Call, NEW d \in Call, Dialing(c), Dialing(d),
                        server[c] = server[d], ~Forgotten(server[c])
                 PROVE  c = d
        BY DEF OneDial
    <2> QED
        BY <1>1 DEF Inv, Single
<1> QED
    BY <1>1, Invariant, PTL

(* A connection of a row that was edited since is cached only while that   *)
(* edit has yet to invalidate it, or because its attempt was under way when *)
(* that happened, whatever renewals write the row before, between or after  *)
(* the edits.  Of a row that was only renewed nothing of this kind holds.   *)
THEOREM EditsDropOldRows == Spec => []EditsTakeEffect
<1>1. Inv => EditsTakeEffect
    BY DEF Inv
<1> QED
    BY <1>1, Invariant, PTL

(* Whoever waits for an attempt waits for one that goes on without it, or  *)
(* is over: no call waits for a call that waits, and no Close and no later *)
(* attempt takes the attempt away from those that share it.                *)
THEOREM WaitersAreWoken == Spec => []WaitersHaveAttempt
<1>1. Shared => WaitersHaveAttempt
    BY DEF Shared
<1> QED
    BY <1>1, Invariant, SharedInit, SharedStep, PTL DEF Spec
=============================================================================
