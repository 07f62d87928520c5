------------------------- MODULE ChannelRunsProofs -------------------------
(***************************************************************************)
(* Safety of ChannelRuns for every set of agents and runs.                 *)
(*                                                                         *)
(* Inv adds to the properties what makes them inductive: every message and *)
(* every run acts in the name of its chain's root, a submission holds a    *)
(* run of its own that is only linked, and a run has a post under way only *)
(* while it is live or its drain is posting.                               *)
(***************************************************************************)
EXTENDS ChannelRuns, TLAPS

Chains == {Orphan} \cup Roots

RunRecs == [pc: {"linked", "live", "ended", "posted"}, agent: Agents, root: Chains,
            depth: 0..MaxDepth, user: Chains, alone: BOOLEAN, spoke: BOOLEAN]

Messages(stage) == [pc: {stage}, tagged: BOOLEAN, root: Chains, depth: 0..(MaxDepth + 1),
                    user: Chains, whom: SUBSET Agents]

Summonses == [pc: {"submit"}, at: Runs, rest: Messages("summon")]

Posts == {Nothing} \cup Messages("insert") \cup Messages("summon") \cup Summonses

Types ==
    /\ posted \in 0..MaxRoots
    /\ prior \in [Roots -> SUBSET Agents]
    /\ link \in [Agents -> Runs \cup {NoRun}]
    /\ session \in [Agents -> {"free", "live", "closing"}]
    /\ run \in [Runs -> {Nothing} \cup RunRecs]
    /\ post \in [Posters -> Posts]

(* One of the first n chains, and its root's author. *)
Known(m, n) == m.root <= n /\ m.user = m.root

(* Every message is of a known chain; the ones that summon respect the cap. *)
Sound(p, n) ==
    /\ p.pc \in {"insert", "summon"} => Known(p, n)
    /\ p.pc = "summon" => p.depth <= MaxDepth
    /\ p.pc = "submit" => Known(p.rest, n) /\ p.rest.depth <= MaxDepth

RunsAreKnown == \A r \in Used : Known(run[r], posted)
PostsAreSound == \A x \in Posters : Sound(post[x], posted)

(* A submission holds a run of its own, which is only linked. *)
SubmitsHoldRuns ==
    \A x \in Posters : post[x].pc = "submit" =>
        /\ run[post[x].at].pc = "linked"
        /\ \A y \in Posters : (post[y].pc = "submit" /\ post[y].at = post[x].at) => x = y

(* A run posts during its turn or at the end of its drain. *)
PostersRun == \A r \in Runs : post[r].pc # "none" => run[r].pc \in {"live", "posted"}

(* Nobody runs for an orphan. *)
Vouched == \A r \in Used : run[r].pc # "linked" => run[r].user # Orphan

(* The post of a lone run continues its chain, from its lookup on. *)
Continued(r, m) == m.root = run[r].root /\ m.depth = run[r].depth + 1

LonePosts ==
    \A r \in Used : run[r].alone =>
        /\ post[r].pc \in {"insert", "summon"} => Continued(r, post[r])
        /\ post[r].pc = "submit" => Continued(r, post[r].rest)

Inv ==
    /\ Types
    /\ RunsAreKnown
    /\ PostsAreSound
    /\ SubmitsHoldRuns
    /\ PostersRun
    /\ Vouched
    /\ LinksHaveRuns
    /\ LoneRunKeepsLink
    /\ LonePosts

(* A run is under way iff its stage says so, and then it is a record. *)
LEMMA UsedRuns ==
  ASSUME Types, NEW r \in Runs
  PROVE  /\ r \in Used <=> run[r].pc # "none"
         /\ r \in Used <=> run[r] \in RunRecs
  BY DEF Types, Used, RunRecs, Nothing

(* The stage of a post tells its shape. *)
LEMMA PostShapes ==
  ASSUME Types, NEW x \in Posters
  PROVE  /\ post[x] = Nothing <=> post[x].pc = "none"
         /\ post[x].pc \in {"none", "insert", "summon", "submit"}
         /\ post[x].pc = "insert" => post[x] \in Messages("insert")
         /\ post[x].pc = "summon" => post[x] \in Messages("summon")
         /\ post[x].pc = "submit" => post[x] \in Summonses
<1>1. post[x] \in Posts
  BY DEF Types
<1>2. CASE post[x] = Nothing
  BY <1>2 DEF Nothing
<1>3. CASE post[x] \in Messages("insert")
  BY <1>3 DEF Nothing, Messages
<1>4. CASE post[x] \in Messages("summon")
  BY <1>4 DEF Nothing, Messages
<1>5. CASE post[x] \in Summonses
  BY <1>5 DEF Nothing, Summonses
<1> QED
  BY <1>1, <1>2, <1>3, <1>4, <1>5 DEF Posts

(* What is left of a message is nothing or a summons of the same chain. *)
LEMMA SummoningShape ==
  ASSUME NEW p, \/ p \in Messages("insert")
                \/ p \in Messages("summon")
  PROVE  /\ Summoning(p) \in Posts
         /\ Summoning(p).pc \in {"none", "summon"}
         /\ Summoning(p).pc = "summon" =>
               /\ Summoning(p) \in Messages("summon")
               /\ Summoning(p).root = p.root
               /\ Summoning(p).user = p.user
               /\ Summoning(p).depth = p.depth
               /\ p.depth <= MaxDepth
<1> USE ChannelRunsAssumption
<1>1. CASE p.whom = {} \/ p.depth > MaxDepth
  BY <1>1 DEF Summoning, Posts, Nothing
<1>2. CASE ~(p.whom = {} \/ p.depth > MaxDepth)
  <2>1. Summoning(p) = [p EXCEPT !.pc = "summon"]
    BY <1>2 DEF Summoning
  <2>2. p.depth <= MaxDepth
    BY <1>2 DEF Messages
  <2>3. [p EXCEPT !.pc = "summon"] \in Messages("summon")
    BY DEF Messages
  <2>4. /\ [p EXCEPT !.pc = "summon"].pc = "summon"
        /\ [p EXCEPT !.pc = "summon"].root = p.root
        /\ [p EXCEPT !.pc = "summon"].user = p.user
        /\ [p EXCEPT !.pc = "summon"].depth = p.depth
    BY DEF Messages
  <2> QED
    BY <2>1, <2>2, <2>3, <2>4 DEF Posts
<1> QED
  BY <1>1, <1>2

LEMMA InvInit == Init => Inv
<1> SUFFICES ASSUME Init PROVE Inv
  OBVIOUS
<1>1. Types
  BY ChannelRunsAssumption DEF Init, Types, Posts, Orphan, Roots
<1>2. Used = {} /\ \A x \in Posters : post[x].pc = "none"
  BY DEF Init, Used, Nothing
<1>3. PostsAreSound
  BY <1>2 DEF PostsAreSound, Sound
<1>4. Runs \subseteq Posters
  BY DEF Posters
<1>5. \A a \in Agents : link[a] = NoRun
  BY DEF Init
<1> QED
  BY <1>1, <1>2, <1>3, <1>4, <1>5
  DEF Inv, RunsAreKnown, SubmitsHoldRuns, PostersRun, Vouched, LinksHaveRuns,
      LoneRunKeepsLink, LonePosts

(* Facts of a state that every step below starts from. *)
LEMMA Facts ==
  ASSUME Inv
  PROVE  /\ Runs \subseteq Posters /\ Roots \subseteq Posters
         /\ \A r \in Runs : run[r].pc # "none" <=> r \in Used
         /\ \A r \in Used : r \in Runs /\ run[r] \in RunRecs
         /\ \A r \in Runs : run[r] = Nothing <=> run[r].pc = "none"
  <1>1. Types
    BY DEF Inv
  <1> QED
    BY <1>1, UsedRuns DEF Posters, Used, Types, RunRecs, Nothing

(* Messages stay known and sound while human posts are only added. *)
LEMMA KnownStays ==
  ASSUME NEW m, m.root \in Chains, NEW n \in Nat, NEW k \in Nat, n <= k, Known(m, n)
  PROVE  Known(m, k)
  BY DEF Chains, Orphan, Roots, Known

LEMMA SoundStays ==
  ASSUME Types, NEW x \in Posters, NEW n \in Nat, NEW k \in Nat, n <= k, Sound(post[x], n)
  PROVE  Sound(post[x], k)
<1>2. CASE post[x].pc = "none"
  BY <1>2 DEF Sound
<1>3. CASE post[x].pc \in {"insert", "summon"}
  <2>1. post[x].root \in Chains
    BY <1>3, PostShapes DEF Messages
  <2> QED
    BY <1>3, <2>1, KnownStays DEF Sound
<1>4. CASE post[x].pc = "submit"
  <2>1. post[x].rest.root \in Chains
    BY <1>4, PostShapes DEF Summonses, Messages
  <2> QED
    BY <1>4, <2>1, KnownStays DEF Sound
<1> QED
  BY <1>2, <1>3, <1>4, PostShapes

LEMMA HumanPostStep == Inv /\ HumanPost => Inv'
<1> SUFFICES ASSUME Inv, HumanPost PROVE Inv'
  OBVIOUS
<1> USE ChannelRunsAssumption DEF Inv
<1>1. posted \in 0..MaxRoots /\ posted < MaxRoots /\ posted' = posted + 1
  BY DEF HumanPost, Types
<1>2. posted' \in Roots /\ posted' \notin Runs /\ posted' \in Posters /\ MaxRoots \in Nat
  BY <1>1 DEF Roots, Posters
<1>3. PICK tagged \in BOOLEAN, whom \in SUBSET Agents :
        /\ prior' = [prior EXCEPT ![posted'] = IF tagged THEN whom ELSE {}]
        /\ post' = [post EXCEPT ![posted'] =
                      Summoning([pc |-> "insert", tagged |-> tagged, root |-> posted',
                                 depth |-> 0, user |-> posted', whom |-> whom])]
  BY DEF HumanPost
<1> DEFINE m == [pc |-> "insert", tagged |-> tagged, root |-> posted',
                 depth |-> 0, user |-> posted', whom |-> whom]
<1>4. m \in Messages("insert") /\ m.root = posted' /\ m.user = posted' /\ m.depth = 0
  BY <1>2 DEF Messages, Chains
<1> HIDE DEF m
<1>5. post' = [post EXCEPT ![posted'] = Summoning(m)]
  BY <1>3 DEF m
<1>6. run' = run /\ link' = link /\ session' = session
  BY DEF HumanPost
<1>7. Types'
  BY <1>1, <1>2, <1>3, <1>4, <1>5, <1>6, SummoningShape DEF Types
<1>8. \A r \in Runs : post'[r] = post[r]
  BY <1>2, <1>5 DEF Types, Posters
<1>9. Sound(Summoning(m), posted')
  BY <1>1, <1>4, SummoningShape DEF Sound, Known
<1>10. PostsAreSound'
  <2> SUFFICES ASSUME NEW x \in Posters PROVE Sound(post'[x], posted')
    BY DEF PostsAreSound
  <2>1. CASE x = posted'
    BY <2>1, <1>2, <1>5, <1>9 DEF Types
  <2>2. CASE x # posted'
    <3>1. post'[x] = post[x]
      BY <2>2, <1>5, <1>2 DEF Types
    <3>2. posted \in Nat /\ posted' \in Nat /\ posted <= posted'
      BY <1>1
    <3>3. Sound(post[x], posted')
      BY <3>2, SoundStays DEF PostsAreSound
    <3> QED
      BY <3>1, <3>3
  <2> QED
    BY <2>1, <2>2
<1>11. SubmitsHoldRuns'
  BY <1>2, <1>4, <1>5, <1>6, SummoningShape DEF SubmitsHoldRuns, Types
<1>12. Used' = Used
  BY <1>6 DEF Used
<1>13. RunsAreKnown'
  <2> SUFFICES ASSUME NEW r \in Used PROVE Known(run'[r], posted')
    BY <1>12 DEF RunsAreKnown
  <2>1. run[r].root \in Chains
    BY Facts DEF RunRecs
  <2> QED
    BY <1>1, <1>6, <2>1, KnownStays DEF RunsAreKnown
<1>14. PostersRun' /\ Vouched' /\ LinksHaveRuns' /\ LoneRunKeepsLink'
  BY <1>6, <1>8, <1>12 DEF PostersRun, Vouched, LinksHaveRuns, LoneRunKeepsLink
<1>15. LonePosts'
  BY <1>6, <1>8, <1>12, Facts DEF LonePosts, Continued
<1> QED
  BY <1>7, <1>10, <1>11, <1>13, <1>14, <1>15

(* One post changes to a sound one, and no chain is added. *)
LEMMA OnePostChanges ==
  ASSUME Types, PostsAreSound, NEW x \in Posters, NEW p \in Posts,
         Sound(p, posted), post' = [post EXCEPT ![x] = p], posted' = posted
  PROVE  /\ post' \in [Posters -> Posts]
         /\ PostsAreSound'
         /\ post'[x] = p
         /\ \A y \in Posters : y # x => post'[y] = post[y]
  BY DEF Types, PostsAreSound

(* The chain that a post of an agent continues is known. *)
LEMMA ContinuesShape ==
  ASSUME Inv, NEW a \in Agents
  PROVE  /\ Continues(a).root \in Chains
         /\ Continues(a).user = Continues(a).root
         /\ Continues(a).root <= posted
         /\ Continues(a).depth \in 0..(MaxDepth + 1)
<1> USE ChannelRunsAssumption DEF Inv
<1>1. CASE link[a] = NoRun
  BY <1>1 DEF Continues, Chains, Orphan, Types
<1>2. CASE link[a] # NoRun
  <2>1. link[a] \in Used
    BY <1>2 DEF LinksHaveRuns
  <2>2. run[link[a]] \in RunRecs /\ Known(run[link[a]], posted)
    BY <2>1, Facts DEF RunsAreKnown
  <2>3. Deeper(run[link[a]].depth) \in 0..(MaxDepth + 1)
    BY <2>2 DEF RunRecs, Deeper
  <2> QED
    BY <1>2, <2>2, <2>3 DEF Continues, RunRecs, Known
<1> QED
  BY <1>1, <1>2

LEMMA AgentPostStep == ASSUME Inv, NEW r \in Runs, AgentPost(r) PROVE Inv'
<1> USE ChannelRunsAssumption DEF Inv
<1> DEFINE a == run[r].agent
           c == Continues(a)
<1>1. PICK tagged \in BOOLEAN, whom \in SUBSET (Agents \ {a}) :
        post' = [post EXCEPT ![r] = [pc |-> "insert", tagged |-> tagged, root |-> c.root,
                                     depth |-> c.depth, user |-> c.user, whom |-> whom]]
  BY DEF AgentPost
<1> DEFINE m == [pc |-> "insert", tagged |-> tagged, root |-> c.root,
                 depth |-> c.depth, user |-> c.user, whom |-> whom]
<1>2. /\ r \in Used /\ run[r] \in RunRecs /\ r \in Posters /\ a \in Agents
      /\ posted' = posted /\ link' = link /\ session' = session /\ prior' = prior
      /\ post[r] = Nothing /\ run[r].pc \in {"live", "ended"}
  <2>1. run[r].pc \in {"live", "ended"}
    BY DEF AgentPost
  <2> QED
    BY <2>1, Facts DEF AgentPost, RunRecs
<1>3. /\ c.root \in Chains /\ c.user = c.root /\ c.root <= posted
      /\ c.depth \in 0..(MaxDepth + 1)
  BY <1>2, ContinuesShape
<1> HIDE DEF c
<1>4. m \in Messages("insert")
  BY <1>3 DEF Messages
<1>5. /\ m.pc = "insert" /\ m.root = c.root /\ m.user = c.user /\ m.depth = c.depth
  OBVIOUS
<1>6. post' = [post EXCEPT ![r] = m]
  BY <1>1
<1> HIDE DEF m
<1>7. m \in Posts /\ Sound(m, posted)
  BY <1>3, <1>4, <1>5 DEF Posts, Sound, Known
<1>8. /\ post' \in [Posters -> Posts] /\ PostsAreSound'
      /\ post'[r] = m /\ \A y \in Posters : y # r => post'[y] = post[y]
  BY <1>2, <1>6, <1>7, OnePostChanges
<1>9. /\ run' \in [Runs -> {Nothing} \cup RunRecs]
      /\ run'[r].pc \in {"live", "posted"} /\ run'[r] \in RunRecs
      /\ \A q \in Runs : q # r => run'[q] = run[q]
      /\ run'[r].agent = run[r].agent /\ run'[r].alone = run[r].alone
      /\ run'[r].root = run[r].root /\ run'[r].user = run[r].user
      /\ run'[r].depth = run[r].depth
  <2>1. CASE run[r].pc = "live" /\ run' = [run EXCEPT ![r].spoke = TRUE]
    BY <1>2, <2>1 DEF Types, RunRecs
  <2>2. CASE run[r].pc = "ended" /\ run' = [run EXCEPT ![r].pc = "posted"]
    BY <1>2, <2>2 DEF Types, RunRecs
  <2> QED
    BY <2>1, <2>2 DEF AgentPost
<1>10. Used' = Used
  BY <1>2, <1>9 DEF Used, RunRecs, Nothing
<1>11. Types'
  BY <1>2, <1>8, <1>9 DEF Types
<1>12. RunsAreKnown' /\ Vouched' /\ LinksHaveRuns' /\ LoneRunKeepsLink'
  <2>1. run[r].pc # "linked"
    BY <1>2
  <2> QED
    BY <1>2, <1>9, <1>10, <2>1, Facts
    DEF RunsAreKnown, Known, Vouched, LinksHaveRuns, LoneRunKeepsLink, Used
<1>13. SubmitsHoldRuns'
  BY <1>2, <1>5, <1>8, <1>9, PostShapes DEF SubmitsHoldRuns, Summonses
<1>14. PostersRun'
  BY <1>2, <1>8, <1>9, Facts DEF PostersRun
<1>15. run[r].alone => Continued(r, m)
  <2> SUFFICES ASSUME run[r].alone PROVE Continued(r, m)
    OBVIOUS
  <2>1. link[a] = r
    BY <1>2 DEF LoneRunKeepsLink
  <2> QED
    BY <1>2, <1>5, <2>1 DEF c, Continues, Deeper, RunRecs, Continued
<1>16. LonePosts'
  BY <1>5, <1>8, <1>9, <1>10, <1>15, Facts DEF LonePosts, Continued
<1> QED
  BY <1>8, <1>11, <1>12, <1>13, <1>14, <1>16

(* A message that was stored or given up leaves a sound summons behind. *)
LEMMA SummoningSound ==
  ASSUME NEW p, p \in Messages("insert") \/ p \in Messages("summon"), Known(p, posted)
  PROVE  Sound(Summoning(p), posted)
  BY SummoningShape DEF Sound, Known

LEMMA InsertStep == ASSUME Inv, NEW r \in Runs, Insert(r) PROVE Inv'
<1> USE ChannelRunsAssumption DEF Inv
<1>1. /\ r \in Posters /\ post[r] \in Messages("insert") /\ post[r].pc = "insert"
      /\ posted' = posted /\ run' = run /\ link' = link /\ session' = session
      /\ Known(post[r], posted)
  BY PostShapes, Facts DEF Insert, PostsAreSound, Sound
<1>2. PICK q : post' = [post EXCEPT ![r] = q] /\ q \in {Nothing, Summoning(post[r])}
  BY DEF Insert
<1>3. q \in Posts /\ Sound(q, posted) /\ q.pc \in {"none", "summon"}
  <2>1. CASE q = Nothing
    BY <2>1 DEF Posts, Sound, Nothing
  <2>2. CASE q = Summoning(post[r])
    BY <1>1, <2>2, SummoningShape, SummoningSound
  <2> QED
    BY <1>2, <2>1, <2>2
<1>4. q.pc = "summon" => q.root = post[r].root /\ q.depth = post[r].depth
  BY <1>1, <1>2, SummoningShape DEF Nothing
<1>5. /\ post' \in [Posters -> Posts] /\ PostsAreSound'
      /\ post'[r] = q /\ \A y \in Posters : y # r => post'[y] = post[y]
  BY <1>1, <1>2, <1>3, OnePostChanges
<1>6. prior' \in [Roots -> SUBSET Agents]
  <2>1. run[r].pc \in {"live", "posted"}
    BY <1>1 DEF PostersRun
  <2>2. run[r].agent \in Agents /\ post[r].whom \subseteq Agents
    BY <1>1, <2>1, Facts DEF RunRecs, Messages
  <2>3. CASE prior' = prior
    BY <2>3 DEF Types
  <2>4. CASE prior' = [c \in Roots |->
                         IF c # post[r].root THEN prior[c]
                         ELSE prior[c] \cup {run[r].agent}
                                       \cup IF post[r].tagged THEN post[r].whom ELSE {}]
    BY <2>2, <2>4 DEF Types
  <2> QED
    BY <2>3, <2>4 DEF Insert
<1>7. Types'
  BY <1>1, <1>5, <1>6 DEF Types
<1>8. Used' = Used
  BY <1>1 DEF Used
<1>9. RunsAreKnown' /\ Vouched' /\ LinksHaveRuns' /\ LoneRunKeepsLink'
  BY <1>1, <1>8 DEF RunsAreKnown, Vouched, LinksHaveRuns, LoneRunKeepsLink
<1>10. SubmitsHoldRuns'
  BY <1>1, <1>3, <1>5 DEF SubmitsHoldRuns
<1>11. PostersRun'
  BY <1>1, <1>5, Facts DEF PostersRun
<1>12. LonePosts'
  BY <1>1, <1>3, <1>4, <1>5, <1>8, Facts DEF LonePosts, Continued
<1> QED
  BY <1>5, <1>7, <1>9, <1>10, <1>11, <1>12

(* A summons with one agent less is one of the same chain. *)
LEMMA RestShape ==
  ASSUME NEW m \in Messages("summon"), NEW a
  PROVE  /\ Without(m, a) \in Messages("summon") /\ Without(m, a).root = m.root
         /\ Without(m, a).user = m.user /\ Without(m, a).depth = m.depth
  BY DEF Messages, Without

LEMMA RegisterLinkStep ==
  ASSUME Inv, NEW x \in Posters, NEW a \in Agents, NEW r \in Runs, RegisterLink(x, a, r)
  PROVE  Inv'
<1> USE ChannelRunsAssumption DEF Inv
<1> DEFINE new == [pc |-> "linked", agent |-> a, root |-> post[x].root,
                   depth |-> post[x].depth, user |-> post[x].user,
                   alone |-> TRUE, spoke |-> FALSE]
           rest == Without(post[x], a)
           p == [pc |-> "submit", at |-> r, rest |-> rest]
<1>1. /\ post[x].pc = "summon" /\ post[x] \in Messages("summon")
      /\ Known(post[x], posted) /\ post[x].depth <= MaxDepth
      /\ run[r] = Nothing /\ post[r] = Nothing /\ x # r /\ r \in Posters
      /\ link' = [link EXCEPT ![a] = r]
      /\ posted' = posted /\ prior' = prior /\ session' = session
  BY PostShapes, Facts DEF RegisterLink, PostsAreSound, Sound, Nothing
<1>2. new \in RunRecs /\ Known(new, posted)
  BY <1>1 DEF RunRecs, Messages, Known
<1>3. /\ rest \in Messages("summon") /\ rest.root = post[x].root
      /\ rest.user = post[x].user /\ rest.depth = post[x].depth
  BY <1>1, RestShape
<1>4. post' = [post EXCEPT ![x] = p]
  BY DEF RegisterLink
<1>5. run' = [q \in Runs |-> IF q = r THEN new
                             ELSE IF run[q] # Nothing /\ run[q].agent = a
                                  THEN [run[q] EXCEPT !.alone = FALSE] ELSE run[q]]
  BY DEF RegisterLink
<1> HIDE DEF rest
<1>6. p \in Posts /\ Sound(p, posted) /\ p.pc = "submit" /\ p.at = r /\ p.rest = rest
  BY <1>1, <1>3 DEF Posts, Summonses, Sound, Known
<1>7. new.pc = "linked" /\ new.agent = a /\ new.alone = TRUE
  OBVIOUS
<1> HIDE DEF p, new
<1>8. /\ post' \in [Posters -> Posts] /\ PostsAreSound'
      /\ post'[x] = p /\ \A y \in Posters : y # x => post'[y] = post[y]
  BY <1>1, <1>4, <1>6, OnePostChanges
<1>9. ASSUME NEW q \in Runs, q # r
      PROVE  /\ run[q] = Nothing => run'[q] = Nothing
             /\ run[q] # Nothing =>
                  /\ run'[q] \in RunRecs /\ run'[q].pc = run[q].pc
                  /\ run'[q].agent = run[q].agent /\ run'[q].root = run[q].root
                  /\ run'[q].user = run[q].user /\ run'[q].depth = run[q].depth
                  /\ run'[q].alone => run[q].alone /\ run[q].agent # a
  <2>1. run[q] = Nothing \/ run[q] \in RunRecs
    BY DEF Types
  <2>2. CASE run[q] = Nothing
    BY <1>5, <1>9, <2>2
  <2>3. CASE run[q] # Nothing
    BY <1>5, <1>9, <2>1, <2>3 DEF RunRecs
  <2> QED
    BY <2>2, <2>3
<1>10. run'[r] = new
  BY <1>5
<1>11. Used' = Used \cup {r} /\ r \notin Used
  BY <1>1, <1>2, <1>9, <1>10 DEF Used, RunRecs, Nothing
<1>12. run' \in [Runs -> {Nothing} \cup RunRecs]
  BY <1>2, <1>5, <1>9, <1>10
<1>13. Types'
  BY <1>1, <1>8, <1>12 DEF Types
<1>14. RunsAreKnown'
  BY <1>1, <1>2, <1>9, <1>10, <1>11 DEF RunsAreKnown, Known, Used
<1>15. Vouched'
  BY <1>7, <1>9, <1>10, <1>11 DEF Vouched, Used
<1>16. SubmitsHoldRuns'
  <2>1. \A y \in Posters : post[y].pc = "submit" => post[y].at \in Runs /\ post[y].at # r
    BY <1>1, PostShapes DEF SubmitsHoldRuns, Summonses, Nothing
  <2>2. \A y \in Posters : post[y].pc = "submit" => run'[post[y].at].pc = "linked"
    BY <1>9, <2>1 DEF SubmitsHoldRuns, Nothing
  <2> QED
    BY <1>6, <1>7, <1>8, <1>10, <2>1, <2>2 DEF SubmitsHoldRuns
<1>17. PostersRun'
  <2> SUFFICES ASSUME NEW q \in Runs, post'[q].pc # "none"
               PROVE  run'[q].pc \in {"live", "posted"}
    BY DEF PostersRun
  <2>1. q \in Posters /\ post[q].pc # "none"
    BY <1>1, <1>8, Facts DEF Nothing
  <2> QED
    BY <1>1, <1>9, <2>1 DEF PostersRun, Nothing
<1>18. LinksHaveRuns'
  BY <1>1, <1>7, <1>9, <1>10, <1>11 DEF LinksHaveRuns, Types, Used
<1>19. LoneRunKeepsLink'
  <2> SUFFICES ASSUME NEW q \in Used', run'[q].alone PROVE link'[run'[q].agent] = q
    BY DEF LoneRunKeepsLink
  <2>1. CASE q = r
    BY <1>1, <1>7, <1>10, <2>1 DEF Types
  <2>2. CASE q # r
    BY <1>1, <1>9, <1>11, <2>2 DEF LoneRunKeepsLink, Types, Used, RunRecs
  <2> QED
    BY <2>1, <2>2
<1>20. LonePosts'
  <2> SUFFICES ASSUME NEW q \in Used', run'[q].alone
               PROVE  /\ post'[q].pc \in {"insert", "summon"} => Continued(q, post[q])'
                      /\ post'[q].pc = "submit" => Continued(q, post[q].rest)'
    BY DEF LonePosts
  <2>1. CASE q = r
    BY <1>1, <1>8, <2>1 DEF Nothing
  <2>2. CASE q # r
    <3>1. q \in Used /\ q \in Runs /\ q \in Posters
      BY <1>11, <2>2, Facts
    <3>2. /\ run[q].alone /\ run'[q].root = run[q].root /\ run'[q].depth = run[q].depth
      BY <1>9, <2>2, <3>1 DEF Used
    <3>3. CASE q = x
      BY <1>1, <1>3, <1>6, <1>8, <3>1, <3>2, <3>3 DEF LonePosts, Continued
    <3>4. CASE q # x
      BY <1>8, <3>1, <3>2, <3>4 DEF LonePosts, Continued
    <3> QED
      BY <3>3, <3>4
  <2> QED
    BY <2>1, <2>2
<1> QED
  BY <1>8, <1>13, <1>14, <1>15, <1>16, <1>17, <1>18, <1>19, <1>20

(* What a submission's message becomes when Run has answered. *)
LEMMA SubmittedPost ==
  ASSUME Inv, NEW x \in Posters, post[x].pc = "submit", Submitted(x), posted' = posted
  PROVE  /\ post' \in [Posters -> Posts]
         /\ PostsAreSound'
         /\ post'[x] = Summoning(post[x].rest)
         /\ post'[x].pc \in {"none", "summon"}
         /\ post'[x].pc = "summon" => /\ post'[x].root = post[x].rest.root
                                      /\ post'[x].depth = post[x].rest.depth
         /\ \A y \in Posters : y # x => post'[y] = post[y]
<1> USE DEF Inv
<1>1. post[x].rest \in Messages("summon") /\ Known(post[x].rest, posted)
  BY PostShapes DEF Summonses, PostsAreSound, Sound
<1>2. Summoning(post[x].rest) \in Posts /\ Sound(Summoning(post[x].rest), posted)
  BY <1>1, SummoningShape, SummoningSound
<1>3. post' = [post EXCEPT ![x] = Summoning(post[x].rest)]
  BY DEF Submitted
<1>4. /\ post' \in [Posters -> Posts] /\ PostsAreSound'
      /\ post'[x] = Summoning(post[x].rest)
      /\ \A y \in Posters : y # x => post'[y] = post[y]
  BY <1>2, <1>3, OnePostChanges
<1> QED
  BY <1>1, <1>4, SummoningShape

(* It keeps the other submissions, the posters and the lone posts. *)
LEMMA SubmittedKeeps ==
  ASSUME Inv, NEW x \in Posters, post[x].pc = "submit", Submitted(x), posted' = posted,
         run' \in [Runs -> {Nothing} \cup RunRecs],
         \A q \in Runs : q # post[x].at => run'[q] = run[q]
  PROVE  /\ SubmitsHoldRuns'
         /\ PostersRun'
         /\ \A q \in Used : (q # post[x].at /\ run[q].alone) =>
               /\ post'[q].pc \in {"insert", "summon"} => Continued(q, post[q])'
               /\ post'[q].pc = "submit" => Continued(q, post[q].rest)'
<1> USE DEF Inv
<1>1. /\ post'[x].pc \in {"none", "summon"}
      /\ post'[x].pc = "summon" => /\ post'[x].root = post[x].rest.root
                                   /\ post'[x].depth = post[x].rest.depth
      /\ \A y \in Posters : y # x => post'[y] = post[y]
  BY SubmittedPost
<1>2. \A y \in Posters : post[y].pc = "submit" => post[y].at \in Runs
  BY PostShapes DEF Summonses
<1>3. run[post[x].at].pc = "linked"
  BY DEF SubmitsHoldRuns
<1>4. \A y \in Posters : (y # x /\ post[y].pc = "submit") => post[y].at # post[x].at
  BY DEF SubmitsHoldRuns
<1>5. SubmitsHoldRuns'
  BY <1>1, <1>2, <1>4 DEF SubmitsHoldRuns
<1>6. \A q \in Runs : post'[q].pc # "none" => post[q].pc # "none"
  BY <1>1, Facts
<1>7. PostersRun'
  BY <1>3, <1>6 DEF PostersRun
<1>8. ASSUME NEW q \in Used, q # post[x].at, run[q].alone
      PROVE  /\ post'[q].pc \in {"insert", "summon"} => Continued(q, post[q])'
             /\ post'[q].pc = "submit" => Continued(q, post[q].rest)'
  <2>1. q \in Runs /\ q \in Posters /\ run'[q] = run[q]
    BY <1>8, Facts
  <2>2. CASE q = x
    BY <1>1, <1>8, <2>1, <2>2 DEF LonePosts, Continued
  <2>3. CASE q # x
    BY <1>1, <1>8, <2>1, <2>3 DEF LonePosts, Continued
  <2> QED
    BY <2>2, <2>3
<1> QED
  BY <1>5, <1>7, <1>8

LEMMA SubmitStep == ASSUME Inv, NEW x \in Posters, Submit(x) PROVE Inv'
<1> USE DEF Inv
<1> DEFINE r == post[x].at
<1>1. /\ post[x].pc = "submit" /\ r \in Runs /\ r \in Posters /\ run[r].pc = "linked"
      /\ r \in Used /\ run[r] \in RunRecs /\ run[r].user # Orphan
      /\ session' = [session EXCEPT ![run[r].agent] = "live"]
      /\ run' = [run EXCEPT ![r].pc = "live"] /\ Submitted(x)
      /\ posted' = posted /\ prior' = prior /\ link' = link
  BY PostShapes, Facts DEF Submit, SubmitsHoldRuns, Summonses
<1> HIDE DEF r
<1>2. /\ run' \in [Runs -> {Nothing} \cup RunRecs]
      /\ run'[r] \in RunRecs /\ run'[r].pc = "live" /\ run'[r].agent = run[r].agent
      /\ run'[r].root = run[r].root /\ run'[r].user = run[r].user
      /\ run'[r].depth = run[r].depth /\ run'[r].alone = run[r].alone
      /\ \A q \in Runs : q # r => run'[q] = run[q]
  BY <1>1 DEF Types, RunRecs
<1>3. Used' = Used
  BY <1>1, <1>2 DEF Used, RunRecs, Nothing
<1>4. Types'
  BY <1>1, <1>2, SubmittedPost DEF Types
<1>5. SubmitsHoldRuns' /\ PostersRun' /\ PostsAreSound'
  BY <1>1, <1>2, SubmittedPost, SubmittedKeeps DEF r
<1>6. RunsAreKnown' /\ Vouched' /\ LinksHaveRuns' /\ LoneRunKeepsLink'
  BY <1>1, <1>2, <1>3, Facts
  DEF RunsAreKnown, Known, Vouched, LinksHaveRuns, LoneRunKeepsLink
<1>7. post[r].pc = "none" /\ post'[r].pc = "none"
  BY <1>1, SubmittedPost, PostShapes DEF PostersRun
<1>8. LonePosts'
  <2> SUFFICES ASSUME NEW q \in Used, run'[q].alone
               PROVE  /\ post'[q].pc \in {"insert", "summon"} => Continued(q, post[q])'
                      /\ post'[q].pc = "submit" => Continued(q, post[q].rest)'
    BY <1>3 DEF LonePosts
  <2>1. CASE q = r
    BY <1>7, <2>1
  <2>2. CASE q # r
    BY <1>1, <1>2, <2>2, Facts, SubmittedKeeps DEF r
  <2> QED
    BY <2>1, <2>2
<1> QED
  BY <1>4, <1>5, <1>6, <1>8

(* The end of a submission or of a drain: the run goes, and its link with  *)
(* it if it is the one that is registered.                                 *)
LEMMA RunGoes ==
  ASSUME Inv, NEW r \in Used, UnregisterLink(r), run' = [run EXCEPT ![r] = Nothing],
         posted' = posted
  PROVE  /\ run' \in [Runs -> {Nothing} \cup RunRecs]
         /\ link' \in [Agents -> Runs \cup {NoRun}]
         /\ Used' = Used \ {r}
         /\ \A q \in Runs : q # r => run'[q] = run[q]
         /\ run'[r].pc = "none"
         /\ RunsAreKnown' /\ Vouched' /\ LinksHaveRuns' /\ LoneRunKeepsLink'
<1> USE ChannelRunsAssumption DEF Inv
<1>1. r \in Runs /\ run[r] \in RunRecs /\ run[r].agent \in Agents
  BY Facts DEF RunRecs
<1>2. /\ run' \in [Runs -> {Nothing} \cup RunRecs]
      /\ \A q \in Runs : q # r => run'[q] = run[q]
      /\ run'[r] = Nothing
  BY <1>1 DEF Types
<1>3. Used' = Used \ {r}
  BY <1>1, <1>2 DEF Used
<1>4. /\ link' \in [Agents -> Runs \cup {NoRun}]
      /\ \A b \in Agents : link'[b] = IF b = run[r].agent /\ link[b] = r THEN NoRun ELSE link[b]
  BY <1>1 DEF UnregisterLink, Types
<1>5. RunsAreKnown' /\ Vouched'
  BY <1>2, <1>3, Facts DEF RunsAreKnown, Vouched
<1>6. LinksHaveRuns'
  BY <1>2, <1>3, <1>4, Facts DEF LinksHaveRuns
<1>7. LoneRunKeepsLink'
  <2> SUFFICES ASSUME NEW q \in Used, q # r, run[q].alone PROVE link'[run[q].agent] = q
    BY <1>2, <1>3, Facts DEF LoneRunKeepsLink
  <2>1. link[run[q].agent] = q /\ run[q].agent \in Agents
    BY Facts DEF LoneRunKeepsLink, RunRecs
  <2> QED
    BY <1>4, <2>1
<1> QED
  BY <1>2, <1>3, <1>4, <1>5, <1>6, <1>7 DEF Nothing

LEMMA RefuseStep == ASSUME Inv, NEW x \in Posters, Refuse(x) PROVE Inv'
<1> USE DEF Inv
<1> DEFINE r == post[x].at
<1>1. /\ post[x].pc = "submit" /\ r \in Runs /\ r \in Posters /\ run[r].pc = "linked"
      /\ r \in Used /\ UnregisterLink(r) /\ run' = [run EXCEPT ![r] = Nothing]
      /\ Submitted(x) /\ posted' = posted /\ prior' = prior /\ session' = session
  BY PostShapes, Facts DEF Refuse, SubmitsHoldRuns, Summonses
<1> HIDE DEF r
<1>2. /\ run' \in [Runs -> {Nothing} \cup RunRecs]
      /\ link' \in [Agents -> Runs \cup {NoRun}]
      /\ Used' = Used \ {r}
      /\ \A q \in Runs : q # r => run'[q] = run[q]
      /\ RunsAreKnown' /\ Vouched' /\ LinksHaveRuns' /\ LoneRunKeepsLink'
  BY <1>1, RunGoes
<1>3. Types'
  BY <1>1, <1>2, SubmittedPost DEF Types
<1>4. SubmitsHoldRuns' /\ PostersRun' /\ PostsAreSound'
  BY <1>1, <1>2, SubmittedPost, SubmittedKeeps DEF r
<1>5. LonePosts'
  <2> SUFFICES ASSUME NEW q \in Used, q # r, run'[q].alone
               PROVE  /\ post'[q].pc \in {"insert", "summon"} => Continued(q, post[q])'
                      /\ post'[q].pc = "submit" => Continued(q, post[q].rest)'
    BY <1>2 DEF LonePosts
  <2> QED
    BY <1>1, <1>2, Facts, SubmittedKeeps DEF r
<1> QED
  BY <1>2, <1>3, <1>4, <1>5

LEMMA RunEndsStep == ASSUME Inv, NEW r \in Runs, RunEnds(r) PROVE Inv'
<1> USE DEF Inv
<1>1. /\ run[r].pc = "live" /\ post[r] = Nothing /\ r \in Used /\ run[r] \in RunRecs
      /\ run' = [run EXCEPT ![r].pc = "ended"]
      /\ session' = [session EXCEPT ![run[r].agent] = "closing"]
      /\ posted' = posted /\ prior' = prior /\ post' = post /\ link' = link
  BY Facts DEF RunEnds
<1>2. /\ run' \in [Runs -> {Nothing} \cup RunRecs]
      /\ run'[r] \in RunRecs /\ run'[r].pc = "ended" /\ run'[r].agent = run[r].agent
      /\ run'[r].root = run[r].root /\ run'[r].user = run[r].user
      /\ run'[r].depth = run[r].depth /\ run'[r].alone = run[r].alone
      /\ \A q \in Runs : q # r => run'[q] = run[q]
  BY <1>1 DEF Types, RunRecs
<1>3. Used' = Used
  BY <1>1, <1>2 DEF Used, RunRecs, Nothing
<1>4. Types'
  BY <1>1, <1>2 DEF Types
<1>5. RunsAreKnown' /\ PostsAreSound' /\ Vouched' /\ LinksHaveRuns' /\ LoneRunKeepsLink'
  BY <1>1, <1>2, <1>3, Facts
  DEF RunsAreKnown, PostsAreSound, Known, Vouched, LinksHaveRuns, LoneRunKeepsLink
<1>6. SubmitsHoldRuns'
  BY <1>1, <1>2, PostShapes DEF SubmitsHoldRuns, Summonses
<1>7. PostersRun'
  BY <1>1, <1>2 DEF PostersRun, Nothing
<1>8. LonePosts'
  BY <1>1, <1>2, <1>3, Facts DEF LonePosts, Continued
<1> QED
  BY <1>4, <1>5, <1>6, <1>7, <1>8

LEMMA FinishStep == ASSUME Inv, NEW r \in Runs, Finish(r) PROVE Inv'
<1> USE DEF Inv
<1>1. /\ run[r].pc \in {"ended", "posted"} /\ post[r] = Nothing /\ r \in Used
      /\ UnregisterLink(r) /\ run' = [run EXCEPT ![r] = Nothing]
      /\ posted' = posted /\ prior' = prior /\ post' = post /\ session' = session
  BY Facts DEF Finish
<1>2. /\ run' \in [Runs -> {Nothing} \cup RunRecs]
      /\ link' \in [Agents -> Runs \cup {NoRun}]
      /\ Used' = Used \ {r}
      /\ \A q \in Runs : q # r => run'[q] = run[q]
      /\ RunsAreKnown' /\ Vouched' /\ LinksHaveRuns' /\ LoneRunKeepsLink'
  BY <1>1, RunGoes
<1>3. Types' /\ PostsAreSound'
  BY <1>1, <1>2 DEF Types, PostsAreSound
<1>4. SubmitsHoldRuns'
  BY <1>1, <1>2, PostShapes DEF SubmitsHoldRuns, Summonses
<1>5. PostersRun'
  BY <1>1, <1>2 DEF PostersRun, Nothing
<1>6. LonePosts'
  BY <1>1, <1>2, Facts DEF LonePosts, Continued
<1> QED
  BY <1>2, <1>3, <1>4, <1>5, <1>6

LEMMA DeregisterStep == ASSUME Inv, NEW a \in Agents, Deregister(a) PROVE Inv'
  BY DEF Deregister, Inv, Types, RunsAreKnown, PostsAreSound, SubmitsHoldRuns, PostersRun,
     Vouched, LinksHaveRuns, LoneRunKeepsLink, LonePosts, Continued, Used

LEMMA InvStutter == Inv /\ UNCHANGED vars => Inv'
  BY DEF vars, Inv, Types, RunsAreKnown, PostsAreSound, SubmitsHoldRuns, PostersRun,
     Vouched, LinksHaveRuns, LoneRunKeepsLink, LonePosts, Continued, Used

(* The invariant holds in every reachable state. *)
THEOREM Invariant == Spec => []Inv
<1>1. Inv /\ [Next]_vars => Inv'
  BY HumanPostStep, AgentPostStep, InsertStep, RegisterLinkStep, SubmitStep, RefuseStep,
     RunEndsStep, FinishStep, DeregisterStep, InvStutter DEF Next
<1> QED
  BY InvInit, <1>1, PTL DEF Spec

(* Type correctness: TypeOK of ChannelRuns, with the chains started so far. *)
THEOREM TypeCorrect == Spec => []TypeOK
<1>1. Inv => TypeOK
  <2> SUFFICES ASSUME Inv, NEW r \in Used
               PROVE  /\ run[r].pc \in {"linked", "live", "ended", "posted"}
                      /\ run[r].agent \in Agents
                      /\ run[r].root \in {Orphan} \cup 1..posted
                      /\ run[r].depth \in 0..MaxDepth
    BY DEF Inv, Types, TypeOK
  <2>1. run[r] \in RunRecs /\ Known(run[r], posted) /\ posted \in Nat
    BY Facts DEF Inv, RunsAreKnown, Types
  <2>2. run[r].root \in {Orphan} \cup 1..posted
    BY <2>1 DEF RunRecs, Chains, Roots, Orphan, Known
  <2> QED
    BY <2>1, <2>2 DEF RunRecs
<1> QED
  BY Invariant, <1>1, PTL

(* No link outlives its run (fanout.go:87-106, 189). *)
THEOREM LinksFollowRuns == Spec => []LinksHaveRuns
<1>1. Inv => LinksHaveRuns
  BY DEF Inv
<1> QED
  BY Invariant, <1>1, PTL

(* A run that is not summoned again keeps its link (chokepoint.go:800). *)
THEOREM LoneLinkStays == Spec => []LoneRunKeepsLink
<1>1. Inv => LoneRunKeepsLink
  BY DEF Inv
<1> QED
  BY Invariant, <1>1, PTL

(* Every run acts for the author of its chain's root (chokepoint.go:669). *)
THEOREM RunsActForRoots == Spec => []RunsActForTheirRoot
<1>1. Inv => RunsActForTheirRoot
  BY DEF Inv, RunsActForTheirRoot, RunsAreKnown, Vouched, Known
<1> QED
  BY Invariant, <1>1, PTL

(* A lone run's posts continue its chain one deeper (fanout.go:161-164). *)
THEOREM LonePostsContinue == Spec => []LonePostContinues
<1>1. Inv => LonePostContinues
  BY DEF Inv, LonePostContinues, LonePosts, Continued
<1> QED
  BY Invariant, <1>1, PTL
=============================================================================
