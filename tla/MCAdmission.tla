---------------------------- MODULE MCAdmission ----------------------------
(* Four Create calls for a host of two VMs, with two VM sizes: one below   *)
(* the per-VM default and one above it.                                    *)
EXTENDS Admission, TLC

CONSTANTS c1, c2, c3, c4

MCMiB == [c \in Calls |-> IF c \in {c1, c2} THEN 1 ELSE 4]
Symmetry == Permutations({c1, c2}) \cup Permutations({c3, c4})
=============================================================================
