----------------------------- MODULE MCAttention -----------------------------
(* Instance of Attention for TLC. *)
EXTENDS Attention, TLC

\* Receptors and packs differ only in what Init gives them.
Symmetry == Permutations(Receptors) \cup Permutations(Packs)
=============================================================================
