--------------------------- MODULE MCSolutionSeq ---------------------------
(***************************************************************************)
(* Small calls of every function that is divided or decomposed, on queues  *)
(* of equal and of different devices, in order and out of order.  The      *)
(* alignment is 3 instead of 128 and sizes are around the thresholds.      *)
(***************************************************************************)
EXTENDS SolutionSeq

CallOf(f, kind, y, x, cus, K, right, upper, trans, alpha, inOrder) ==
  [func |-> f, kind |-> kind, across |-> TRUE, upper |-> upper, y |-> y, x |-> x, cus |-> cus,
   K |-> K, right |-> right, trans |-> trans, alpha |-> alpha, beta |-> 3, inOrder |-> inOrder]

OneQueue == {<<1, 0>>}
Two      == {<<2, 1, 0>>, <<4, 3, 0>>, <<4, 1, 0>>}
Three    == {<<3, 2, 1, 0>>, <<6, 5, 2, 0>>}

(* What is computed does not depend on how the queue executes: calls of a  *)
(* zero alpha and those too small to be decomposed are made in order only. *)
TrxmCalls ==
  {CallOf(f, "stripe", y, 2, cus, y, right, upper, trans, 2, inOrder) :
     f \in {"TRMM", "TRSM"}, y \in {4, 5}, cus \in OneQueue, right \in BOOLEAN,
     upper \in BOOLEAN, trans \in BOOLEAN, inOrder \in BOOLEAN}
  \cup
  {CallOf(f, "stripe", y, 2, cus, y, right, upper, TRUE, 0, TRUE) :
     f \in {"TRMM", "TRSM"}, y \in {3, 4}, cus \in OneQueue, right \in BOOLEAN, upper \in BOOLEAN}
SyrkCalls ==
  {CallOf(f, "triangle", y, y, cus, 2, FALSE, upper, FALSE, 2, inOrder) :
     f \in {"SYRK", "SYR2K"}, y \in {3, 5}, cus \in OneQueue,
     upper \in BOOLEAN, inOrder \in BOOLEAN}
  \cup
  {CallOf(f, "triangle", 5, 5, cus, 2, FALSE, upper, FALSE, 2, f = "SYR2K") :
     f \in {"SYRK", "SYR2K"}, cus \in {<<2, 1, 0>>, <<4, 1, 0>>}, upper \in BOOLEAN}
GemmCalls ==
  {CallOf("GEMM", "rect", y, x, cus, 2, FALSE, TRUE, FALSE, 2, TRUE) :
     y \in {1, 4}, x \in {2, 5}, cus \in Two \cup Three}
GemvCalls ==
  {CallOf("GEMV", "stripe", y, 3, cus, 3, FALSE, TRUE, FALSE, 2, TRUE) :
     y \in {1, 2, 4, 7}, cus \in Two \cup Three}

Calls == TrxmCalls \cup SyrkCalls \cup GemmCalls \cup GemvCalls
=============================================================================
