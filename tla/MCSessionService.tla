-------------------------- MODULE MCSessionService --------------------------
(* Small instances of SessionService for TLC. *)
EXTENDS SessionService, TLC

\* Neither the prompts nor the terminate requests differ from one another.
Symmetry == Permutations(Prompts) \cup Permutations(Terminations)
=============================================================================
