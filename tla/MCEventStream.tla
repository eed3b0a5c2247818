---------------------------- MODULE MCEventStream ----------------------------
(* Small instances of EventStream for TLC. *)
EXTENDS EventStream, TLC

\* Appends do not differ from one another, nor do updates and clients; sound
\* for the invariants, but not for what must happen at last.
Symmetry == Permutations(Writers) \cup Permutations(Updaters) \cup Permutations(Clients)
=============================================================================
