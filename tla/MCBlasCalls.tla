---------------------------- MODULE MCBlasCalls ----------------------------
(***************************************************************************)
(* Two threads with queues of one device, of which the second may execute  *)
(* out of order, and two programs of different size.                       *)
(***************************************************************************)
EXTENDS BlasCalls, TLC

CONSTANTS t1, t2, small, large, gpu

Sizes    == [p \in Programs |-> IF p = small THEN 1 ELSE 2]
Alike     == Permutations(Threads) \cup Permutations(Kernels) \cup Permutations(Contexts)
               \cup Permutations(Images)
Separate  == [b \in BOOLEAN |-> IF b THEN {0} ELSE {1, 2}]
OneDevice == [t \in Threads |-> gpu]
=============================================================================
