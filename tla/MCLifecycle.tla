---------------------------- MODULE MCLifecycle ----------------------------
(* Small instances of Lifecycle: at most three sandbox ids of one user. *)
EXTENDS Lifecycle, TLC

CONSTANTS s1, s2, s3, u1

MCOwner == [s \in Ids |-> u1]
Symmetry == Permutations(Ids \ Legacy)
=============================================================================
