------------------------------ MODULE Registry ------------------------------
(***************************************************************************)
(* What `setup` promises, whoever else runs it at the same time and        *)
(* whatever ends half-way: a list of servers that only grows, in which     *)
(* each one has a session, and answers that say what happened.  A setup    *)
(* may fail after its server has been entered; it never succeeds before.   *)
(***************************************************************************)
EXTENDS Naturals

CONSTANTS Servers, Setups

VARIABLES
    entries,    \* the servers of the list
    sessions,   \* the servers with a session
    target,     \* the server each setup is about
    answer      \* what each setup has answered

vars == <<entries, sessions, target, answer>>

Init ==
    /\ sessions \in SUBSET Servers
    /\ entries \in SUBSET sessions
    /\ target \in [Setups -> Servers]
    /\ answer = [c \in Setups |-> "none"]

Open(c) == answer[c] = "none"

\* A session is obtained for a server, for a setup that has still to answer.
Register(c) ==
    /\ Open(c)
    /\ sessions' = sessions \cup {target[c]}
    /\ UNCHANGED <<entries, target, answer>>

\* The server is entered, next to those that are there; the setup may be done with that.
Enter(c) ==
    /\ Open(c) /\ target[c] \in sessions
    /\ entries' = entries \cup {target[c]}
    /\ answer' \in {answer, [answer EXCEPT ![c] = "ok"]}
    /\ UNCHANGED <<sessions, target>>

Succeed(c) ==
    /\ Open(c) /\ target[c] \in entries
    /\ answer' = [answer EXCEPT ![c] = "ok"]
    /\ UNCHANGED <<entries, sessions, target>>

\* One setup fails, or all those that a daemon was at when it ended.
Fail(failing) ==
    /\ \A c \in failing : Open(c)
    /\ answer' = [c \in Setups |-> IF c \in failing THEN "error" ELSE answer[c]]
    /\ UNCHANGED <<entries, sessions, target>>

Next ==
    \/ \E c \in Setups : Register(c) \/ Enter(c) \/ Succeed(c)
    \/ \E failing \in SUBSET Setups : Fail(failing)

Spec == Init /\ [][Next]_vars
=============================================================================
