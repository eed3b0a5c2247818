----------------------------- MODULE MCSandpool -----------------------------
(* Small instances of Sandpool for TLC. *)
EXTENDS Sandpool, TLC

\* The pool treats its callers alike and its sandboxes alike.
Symmetry == Permutations(Callers) \cup Permutations(Sandboxes)
=============================================================================
