---------------------------- MODULE MCFirecracker ----------------------------
(* The Firecracker provider for TLC.  Sandboxes and images are alike. *)
EXTENDS Firecracker, TLC

Symmetry == Permutations(Vms) \cup Permutations(Keys)
=============================================================================
