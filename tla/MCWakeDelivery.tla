--------------------------- MODULE MCWakeDelivery ---------------------------
(* Instances of WakeDelivery for TLC. *)
EXTENDS WakeDelivery, TLC

CONSTANTS s1, m2

\* Message ids are interchangeable, and so are wake sinks.
Symmetry == Permutations(Ids) \cup Permutations(WakeSinks)

NoneBelowFloor == {}
OneBelowFloor == {<<s1, m2>>}
=============================================================================
