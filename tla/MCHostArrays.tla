---------------------------- MODULE MCHostArrays ----------------------------
(* The heap of module HostArrays with addresses that are alike.            *)
EXTENDS HostArrays, TLC

Alike == Permutations(Arrays) \cup Permutations(Vectors)

=============================================================================
