------------------------------- MODULE Queues -------------------------------
(* The bounded channels and the id lists of the daemon are sequences. *)
EXTENDS Sequences, Naturals

\* The elements of a sequence.
Elems(q) == {q[i] : i \in 1..Len(q)}
=============================================================================
