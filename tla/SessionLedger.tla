--------------------------- MODULE SessionLedger ---------------------------
(***************************************************************************)
(* What a channel is promised about its work sessions, without posts,      *)
(* kickoffs, watchdogs and restarts: a session is opened once and closed   *)
(* once; while it is open it spends hops of its budget, and no run is      *)
(* started that a hop did not pay; each of its pauses may notify the       *)
(* facilitator free of charge, but once per resume by a human.             *)
(* WorkSession implements this specification.                              *)
(***************************************************************************)
EXTENDS Naturals

CONSTANTS
  Session,  \* work sessions: each one is opened at most once
  Budget    \* hops each may spend

VARIABLES
  status,   \* [Session -> {"none", "open", "paused", "closed"}]
  spent,    \* hops spent
  paid,     \* runs started for a hop
  notices,  \* runs started free of charge
  resumes   \* how often a human resumed it

ledgerVars == <<status, spent, paid, notices, resumes>>

LedgerInit ==
  /\ status = [s \in Session |-> "none"]
  /\ spent = [s \in Session |-> 0]
  /\ paid = [s \in Session |-> 0]
  /\ notices = [s \in Session |-> 0]
  /\ resumes = [s \in Session |-> 0]

(* The status of one session changes, and nothing else. *)
Turns(s, old, new) ==
  /\ status[s] \in old
  /\ status' = [status EXCEPT ![s] = new]

Opens(s) ==
  /\ Turns(s, {"none"}, "open")
  /\ UNCHANGED <<spent, paid, notices, resumes>>

Spends(s) ==
  /\ status[s] = "open" /\ spent[s] < Budget
  /\ spent' = [spent EXCEPT ![s] = @ + 1]
  /\ UNCHANGED <<status, paid, notices, resumes>>

(* A hop that was spent pays one run, even if the session is paused or     *)
(* closed before the run starts.                                           *)
Starts(s) ==
  /\ paid[s] < spent[s]
  /\ paid' = [paid EXCEPT ![s] = @ + 1]
  /\ UNCHANGED <<status, spent, notices, resumes>>

Pauses(s) ==
  /\ Turns(s, {"open"}, "paused")
  /\ UNCHANGED <<spent, paid, notices, resumes>>

Notifies(s) ==
  /\ status[s] # "none" /\ notices[s] <= resumes[s]
  /\ notices' = [notices EXCEPT ![s] = @ + 1]
  /\ UNCHANGED <<status, spent, paid, resumes>>

Resumes(s) ==
  /\ Turns(s, {"paused"}, "open")
  /\ resumes' = [resumes EXCEPT ![s] = @ + 1]
  /\ UNCHANGED <<spent, paid, notices>>

Closes(s) ==
  /\ Turns(s, {"open", "paused"}, "closed")
  /\ UNCHANGED <<spent, paid, notices, resumes>>

LedgerNext ==
  \E s \in Session :
    \/ Opens(s) \/ Spends(s) \/ Starts(s) \/ Pauses(s)
    \/ Notifies(s) \/ Resumes(s) \/ Closes(s)

LedgerSpec == LedgerInit /\ [][LedgerNext]_ledgerVars
=============================================================================
