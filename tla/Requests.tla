------------------------------ MODULE Requests ------------------------------
(***************************************************************************)
(* What a client promises to those who hand it requests, without a word on *)
(* connections, channels or retries: a request is asked once and answered  *)
(* at most once; "ok" is said only of a request that the other side has    *)
(* taken; and after an "error" nothing is known, since the other side may  *)
(* take it, or have taken it, all the same.  The wake router and the send  *)
(* router build on this contract; the gateway client and the server        *)
(* manager implement it.                                                   *)
(***************************************************************************)
CONSTANT Reqs

VARIABLES answer,   \* what each caller has been told
          taken     \* the requests the other side has taken

vars == <<answer, taken>>

Init == answer = [r \in Reqs |-> "none"] /\ taken = {}

Ask(r) ==
    /\ answer[r] = "none"
    /\ answer' = [answer EXCEPT ![r] = "waiting"]
    /\ UNCHANGED taken

\* The other side takes a request that was asked, be it answered or not.
Take(r) ==
    /\ answer[r] # "none"
    /\ taken' = taken \cup {r}
    /\ UNCHANGED answer

Succeed(r) ==
    /\ answer[r] = "waiting" /\ r \in taken
    /\ answer' = [answer EXCEPT ![r] = "ok"]
    /\ UNCHANGED taken

\* A lost connection fails all its requests at once; a request that finds the
\* client gone fails before it waits.
Fail(R) ==
    /\ \A r \in R : answer[r] \in {"none", "waiting"}
    /\ answer' = [r \in Reqs |-> IF r \in R THEN "error" ELSE answer[r]]
    /\ UNCHANGED taken

Next ==
    \/ \E r \in Reqs : Ask(r) \/ Take(r) \/ Succeed(r)
    \/ \E R \in SUBSET Reqs : Fail(R)

Spec == Init /\ [][Next]_vars
=============================================================================
