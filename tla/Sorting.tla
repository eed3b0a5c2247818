------------------------------ MODULE Sorting ------------------------------
(***************************************************************************)
(* Array.prototype.sort as the tools use it: what is sorted is a finite    *)
(* set that a relation orders strictly, so the k-th element is the one     *)
(* with k - 1 before it.  (SortSeq of TLC has no definition that a proof   *)
(* could use.)                                                             *)
(***************************************************************************)
EXTENDS Naturals, FiniteSets

\* The members of S, those that come first in front; before is a set of pairs.
Sorted(S, before) ==
    [k \in 1..Cardinality(S) |->
        CHOOSE x \in S : Cardinality({y \in S : <<y, x>> \in before}) = k - 1]
=============================================================================
