-------------------------------- MODULE Inbox --------------------------------
(***************************************************************************)
(* What the inbound path promises, without a word on processes, queues,    *)
(* tables or crashes.  A message is judged; while it counts as wanted, the *)
(* sinks are woken with it, and each sink that has had it may be noted; it *)
(* is recorded once nothing is left to do for it.  While a message is      *)
(* recorded it is left alone: it is neither judged nor sent again.  A sink *)
(* that is noted is never woken again.  A record may be forgotten, since   *)
(* the dedupe window is bounded.                                           *)
(***************************************************************************)
EXTENDS Naturals

CONSTANTS Msgs, Sinks,
          WakeSinks,    \* the sinks that wake an agent session
          Notes,        \* whether deliveries are noted (a store is configured)
          Cap           \* wakes of one message and sink are counted up to Cap

VARIABLES verdict, woken,
          noted,        \* the <<message, sink>> pairs marked delivered
          recorded      \* the messages a replay of which is ignored

vars == <<verdict, woken, noted, recorded>>

Init ==
    /\ verdict = [m \in Msgs |-> "none"]
    /\ woken = [m \in Msgs |-> [k \in WakeSinks |-> 0]]
    /\ noted = {} /\ recorded = {}

Judge(m, v) ==
    /\ m \notin recorded
    /\ verdict' = [verdict EXCEPT ![m] = v]
    /\ UNCHANGED <<woken, noted, recorded>>

Wanted(m) == m \notin recorded /\ verdict[m] = "deliver"

Wake(m, k) ==
    /\ Wanted(m)
    /\ Notes => <<m, k>> \notin noted
    /\ woken' = [woken EXCEPT ![m][k] = IF @ < Cap THEN @ + 1 ELSE @]
    /\ UNCHANGED <<verdict, noted, recorded>>

Note(m, k) ==
    /\ Notes /\ Wanted(m)
    /\ k \in WakeSinks => woken[m][k] > 0
    /\ noted' = noted \cup {<<m, k>>}
    /\ UNCHANGED <<verdict, woken, recorded>>

Had(m, k) ==
    /\ k \in WakeSinks => woken[m][k] > 0
    /\ Notes => <<m, k>> \in noted

Settled(m) ==
    verdict[m] = "reject" \/ (verdict[m] = "deliver" /\ \A k \in Sinks : Had(m, k))

Record ==
    /\ recorded' \subseteq recorded \cup {m \in Msgs : Settled(m)}
    /\ UNCHANGED <<verdict, woken, noted>>

Next ==
    \/ \E m \in Msgs :
        \/ \E v \in {"deliver", "reject"} : Judge(m, v)
        \/ \E k \in WakeSinks : Wake(m, k)
        \/ \E k \in Sinks : Note(m, k)
    \/ Record

Spec == Init /\ [][Next]_vars
=============================================================================
