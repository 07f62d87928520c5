---------------------------- MODULE ChannelRuns ----------------------------
(***************************************************************************)
(* Posts and runs of a channel without a work session: a post summons      *)
(* agents (src/internal/channels/chokepoint.go), their runs speak during   *)
(* the turn and at its end (src/internal/channels/fanout.go), and the link *)
(* of the agent's run tells a post which chain it continues.  Links are    *)
(* registered before the one-run-per-session guard is asked.               *)
(*                                                                         *)
(* A message is the chain it belongs to and its depth; whom it mentions,   *)
(* and who elects to answer an untagged one, is chosen.  Depths beyond the *)
(* cap are alike.                                                          *)
(***************************************************************************)
EXTENDS Integers, FiniteSets

CONSTANTS Agents,    \* agent members of the channel
          Runs,      \* submissions and drains under way at once (bound)
          MaxRoots,  \* bound on human posts
          MaxDepth,  \* the chain depth cap (the code has 3)
          MaxElected \* responders to an untagged message (the code has 2)

Roots == 1..MaxRoots
NoRun == "none"

ASSUME ChannelRunsAssumption ==
    /\ {MaxRoots, MaxDepth, MaxElected} \subseteq Nat
    /\ Runs \cap Roots = {} /\ NoRun \notin Runs   \* three kinds of names

Orphan == 0   \* the chain of an agent's post without a link, and its user

VARIABLES posted,  \* human posts so far; each starts the chain of its number
          prior,   \* per chain: agents that spoke or were mentioned in it
          post,    \* the post under way of a human (by its chain) or of a run
          run,     \* submissions and drains: stage, agent, chain, depth, user
          link,    \* per agent: the run whose link is registered, or NoRun
          session  \* per agent: its channel session in the run registry

vars == <<posted, prior, post, run, link, session>>

-----------------------------------------------------------------------------
Nothing == [pc |-> "none"]
Posters == Roots \cup Runs
Deeper(d) == IF d > MaxDepth THEN d ELSE d + 1

Init ==
    /\ posted = 0
    /\ prior = [c \in Roots |-> {}]
    /\ post = [x \in Posters |-> Nothing]
    /\ run = [r \in Runs |-> Nothing]
    /\ link = [a \in Agents |-> NoRun]
    /\ session = [a \in Agents |-> "free"]

\* Whom a message calls, once the rules have been applied: everyone it
\* mentions, or a few who elect themselves.
Calls(tagged, whom) == tagged \/ Cardinality(whom) <= MaxElected

\* The summons of a message that was inserted, if there are any.
Summoning(p) ==
    IF p.whom = {} \/ p.depth > MaxDepth THEN Nothing ELSE [p EXCEPT !.pc = "summon"]

HumanPost ==
    /\ posted < MaxRoots
    /\ posted' = posted + 1
    /\ \E tagged \in BOOLEAN, whom \in SUBSET Agents :
        /\ Calls(tagged, whom)
        /\ prior' = [prior EXCEPT ![posted'] = IF tagged THEN whom ELSE {}]
        /\ post' = [post EXCEPT ![posted'] =
                      Summoning([pc |-> "insert", tagged |-> tagged, root |-> posted',
                                 depth |-> 0, user |-> posted', whom |-> whom])]
    /\ UNCHANGED <<run, link, session>>

-----------------------------------------------------------------------------
(* Posts of agents.                                                         *)

\* A mutation of Continues: the chain of the link, at the depth of its run.
ContinuesLevel(a) ==
    IF link[a] = NoRun THEN [root |-> Orphan, depth |-> 0, user |-> Orphan]
    ELSE [root |-> run[link[a]].root, depth |-> run[link[a]].depth, user |-> run[link[a]].user]

\* The chain that a post of the agent continues.
Continues(a) ==
    IF link[a] = NoRun THEN [root |-> Orphan, depth |-> 0, user |-> Orphan]
    ELSE [root |-> run[link[a]].root, depth |-> Deeper(run[link[a]].depth),
          user |-> run[link[a]].user]

\* Agents a chain has heard of; the read may fail, and nobody is suppressed.
Prior(c, failed) == IF c = Orphan \/ failed THEN {} ELSE prior[c]

\* The link is looked up and the chain read, during the turn (once, as a
\* bound) or, when it completed with a text, at its end.
AgentPost(r) ==
    /\ post[r] = Nothing
    /\ \/ run[r].pc = "live" /\ ~run[r].spoke /\ run' = [run EXCEPT ![r].spoke = TRUE]
       \/ run[r].pc = "ended" /\ run' = [run EXCEPT ![r].pc = "posted"]
    /\ LET a == run[r].agent
           c == Continues(a)
       IN  \E tagged, failed \in BOOLEAN, whom \in SUBSET (Agents \ {a}) :
            /\ whom \cap Prior(c.root, failed) = {}
            /\ Calls(tagged, whom)
            /\ post' = [post EXCEPT ![r] =
                          [pc |-> "insert", tagged |-> tagged, root |-> c.root,
                           depth |-> c.depth, user |-> c.user, whom |-> whom]]
    /\ UNCHANGED <<posted, prior, link, session>>

\* The message stands and is part of its chain, or could not be stored.
Insert(r) ==
    /\ post[r].pc = "insert"
    /\ \/ /\ prior' = [c \in Roots |->
                         IF c # post[r].root THEN prior[c]
                         ELSE prior[c] \cup {run[r].agent}
                                       \cup IF post[r].tagged THEN post[r].whom ELSE {}]
          /\ post' = [post EXCEPT ![r] = Summoning(@)]
       \/ post' = [post EXCEPT ![r] = Nothing] /\ UNCHANGED prior
    /\ UNCHANGED <<posted, run, link, session>>

-----------------------------------------------------------------------------
(* submitRun and drainRun.                                                  *)

\* A message whose summons of a is taken care of.
Without(m, a) == [m EXCEPT !.whom = @ \ {a}]

\* The link of the new submission replaces the one that is registered.
RegisterLink(x, a, r) ==
    /\ post[x].pc = "summon" /\ a \in post[x].whom
    /\ run[r] = Nothing /\ post[r] = Nothing
    /\ link' = [link EXCEPT ![a] = r]
    /\ run' = [q \in Runs |->
                 IF q = r THEN [pc |-> "linked", agent |-> a, root |-> post[x].root,
                                depth |-> post[x].depth, user |-> post[x].user,
                                alone |-> TRUE, spoke |-> FALSE]
                 ELSE IF run[q] # Nothing /\ run[q].agent = a
                      THEN [run[q] EXCEPT !.alone = FALSE] ELSE run[q]]
    /\ post' = [post EXCEPT ![x] = [pc |-> "submit", at |-> r, rest |-> Without(post[x], a)]]
    /\ UNCHANGED <<posted, prior, session>>

\* A mutation of UnregisterLink: whatever link is registered is removed.
UnregisterAnyLink(r) == link' = [link EXCEPT ![run[r].agent] = NoRun]

UnregisterLink(r) ==
    link' = [link EXCEPT ![run[r].agent] = IF @ = r THEN NoRun ELSE @]

Submitted(x) == post' = [post EXCEPT ![x] = Summoning(post[x].rest)]

\* A mutation of Submit: a run that nobody vouches for is accepted.
SubmitUnvouched(x) ==
    /\ post[x].pc = "submit"
    /\ LET r == post[x].at
       IN  /\ session[run[r].agent] = "free"
           /\ session' = [session EXCEPT ![run[r].agent] = "live"]
           /\ run' = [run EXCEPT ![r].pc = "live"]
    /\ Submitted(x)
    /\ UNCHANGED <<posted, prior, link>>

\* The runner takes the run if somebody vouches for it and the session is free.
Submit(x) ==
    /\ post[x].pc = "submit"
    /\ LET r == post[x].at
       IN  /\ run[r].user # Orphan /\ session[run[r].agent] = "free"
           /\ session' = [session EXCEPT ![run[r].agent] = "live"]
           /\ run' = [run EXCEPT ![r].pc = "live"]
    /\ Submitted(x)
    /\ UNCHANGED <<posted, prior, link>>

\* A mutation of Refuse: the link of a refused run is left registered.
RefuseKeepingLink(x) ==
    /\ post[x].pc = "submit"
    /\ run' = [run EXCEPT ![post[x].at] = Nothing]
    /\ Submitted(x)
    /\ UNCHANGED <<posted, prior, link, session>>

\* It refuses it then, or for a reason of its own.
Refuse(x) ==
    /\ post[x].pc = "submit"
    /\ UnregisterLink(post[x].at)
    /\ run' = [run EXCEPT ![post[x].at] = Nothing]
    /\ Submitted(x)
    /\ UNCHANGED <<posted, prior, session>>

\* The drain sees the end of the stream before the session is free.
RunEnds(r) ==
    /\ run[r].pc = "live" /\ post[r] = Nothing
    /\ run' = [run EXCEPT ![r].pc = "ended"]
    /\ session' = [session EXCEPT ![run[r].agent] = "closing"]
    /\ UNCHANGED <<posted, prior, post, link>>

Deregister(a) ==
    /\ session[a] = "closing"
    /\ session' = [session EXCEPT ![a] = "free"]
    /\ UNCHANGED <<posted, prior, post, run, link>>

\* The drain is over: the text was posted, or there was none to post.
Finish(r) ==
    /\ run[r].pc \in {"ended", "posted"} /\ post[r] = Nothing
    /\ UnregisterLink(r)
    /\ run' = [run EXCEPT ![r] = Nothing]
    /\ UNCHANGED <<posted, prior, post, session>>

Next ==
    \/ HumanPost
    \/ \E r \in Runs : AgentPost(r) \/ Insert(r) \/ RunEnds(r) \/ Finish(r)
    \/ \E x \in Posters : \/ \E a \in Agents, r \in Runs : RegisterLink(x, a, r)
                          \/ Submit(x) \/ Refuse(x)
    \/ \E a \in Agents : Deregister(a)

Spec == Init /\ [][Next]_vars

-----------------------------------------------------------------------------
(* Properties.                                                              *)

Used == {r \in Runs : run[r] # Nothing}

\* Every variable has its type, and a run under way knows its chain.
TypeOK ==
    /\ posted \in 0..MaxRoots
    /\ prior \in [Roots -> SUBSET Agents]
    /\ link \in [Agents -> Runs \cup {NoRun}]
    /\ session \in [Agents -> {"free", "live", "closing"}]
    /\ \A r \in Used : /\ run[r].pc \in {"linked", "live", "ended", "posted"}
                       /\ run[r].agent \in Agents
                       /\ run[r].root \in {Orphan} \cup 1..posted
                       /\ run[r].depth \in 0..MaxDepth

\* A registered link is that of a submission or drain under way of its agent:
\* none outlives its run, so no post is taken for one of a run long over.
LinksHaveRuns ==
    \A a \in Agents : link[a] # NoRun => link[a] \in Used /\ run[link[a]].agent = a

\* A run keeps its link from its submission to the end of its drain, unless
\* the agent was summoned again meanwhile.
LoneRunKeepsLink == \A r \in Used : run[r].alone => link[run[r].agent] = r

\* Whoever a run acts for wrote the message its chain began with, also when
\* its trigger was posted under the link of another run.
RunsActForTheirRoot ==
    \A r \in Used : run[r].pc # "linked" => run[r].root # Orphan /\ run[r].user = run[r].root

\* The post of a run that was not summoned again goes on with its chain.
LonePostContinues ==
    \A r \in Used : (run[r].alone /\ post[r].pc \in {"insert", "summon"}) =>
        post[r].root = run[r].root /\ post[r].depth = run[r].depth + 1

\* What the drain's comment asks: it does so in any case.
PostContinues ==
    \A r \in Used : post[r].pc \in {"insert", "summon"} =>
        post[r].root = run[r].root /\ post[r].depth = run[r].depth + 1
=============================================================================
