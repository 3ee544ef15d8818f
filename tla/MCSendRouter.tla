---------------------------- MODULE MCSendRouter ----------------------------
(* Instances of Setup and SendRouter for TLC. *)
EXTENDS SendRouter, TLC

\* Servers and setups differ only in what Init gives them.
Symmetry == Permutations(Servers) \cup Permutations(Setups)
=============================================================================
