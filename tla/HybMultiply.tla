----------------------------- MODULE HybMultiply -----------------------------
(***************************************************************************)
(* y = A x on the GPU for a matrix in hybrid format:                       *)
(* MatrixHYB<scalar,GPU>::multiply (matrix/matrixhyb_gpu.cpp).             *)
(*                                                                         *)
(* The ELL kernel overwrites y, one work-item per row; what a row of the   *)
(* ELL part adds up to is compared with the product of the host in module  *)
(* Formats and is one term here.  Then the three kernels of the COO        *)
(* product are launched on the rest of the matrix, with the sizes of       *)
(* MatrixCOO::multiply and without clearing y: they add to what the ELL    *)
(* kernel has left.  CooFlat models them, and its steps are taken over;    *)
(* its term NNZ, the contents of y before them, now is the sum of the ELL  *)
(* part of a row.                                                          *)
(***************************************************************************)
EXTENDS CooFlat

CONSTANTS
  EllBlock     (* localWorkSize of the ELL kernel: 512 in the code.        *)

ASSUME EllAssumption == EllBlock \in Nat \ {0}

EllSum == Only(Terms, NNZ)

(* Fault: as many groups as fit into the rows.                             *)
EllItemsCut == 0..((NRow \div EllBlock) * EllBlock - 1)
(* globalWorkSize of the ELL kernel.                                       *)
EllItems == 0..((NRow \div EllBlock + 1) * EllBlock - 1)

VARIABLES
  running,     (* Work-items of the ELL kernel that have not ended.        *)
  old          (* Rows of y that hold what they held before the call.      *)

hybVars == <<vars, running, old>>

(* The COO part holds what exceeds max_row entries in a row.  That is the  *)
(* mean of this matrix, or what an earlier matrix of the object has left   *)
(* (get_data, load): whichever it is, a HYB matrix of the host goes to the *)
(* GPU with the split it has.  So any rows may be in the rest.             *)
HybInit ==
  /\ Init
  /\ running = EllItems
  /\ old = Rows

(* A work-item writes the sum of its row; the others return at once.       *)
EllItem(t) ==
  /\ host = "set"
  /\ t \in running
  /\ running' = running \ {t}
  /\ IF t \in Rows
     THEN /\ y' = [y EXCEPT ![t] = EllSum]
          /\ old' = old \ {t}
     ELSE UNCHANGED <<y, old>>
  /\ UNCHANGED <<I, host, flatVars, group>>

(* clWaitForEvents returns, and the flat kernel is launched.               *)
EllDone ==
  /\ host = "set"
  /\ running = {}
  /\ host' = "flat"
  /\ UNCHANGED <<I, y, flatVars, group, running, old>>

Keeps(action) == action /\ UNCHANGED <<running, old>>

HybHost  == EllDone \/ Keeps(FlatDone) \/ Keeps(Serial) \/ Keeps(SerialDone)

HybNext ==
  \/ \E t \in EllItems : EllItem(t)
  \/ HybHost
  \/ Keeps(Group)
  \/ \E w \in Launched : Keeps(Warp(w))
  \/ Keeps(AtRest)

HybSpec == HybInit /\ [][HybNext]_hybVars

-----------------------------------------------------------------------------
(* Properties.                                                             *)

(* Every variable holds a value of its type.                               *)
HybTypeOK ==
  /\ TypeOK
  /\ running \subseteq EllItems
  /\ old \subseteq Rows

(* When multiply returns, each element of y is the sum of the ELL part of  *)
(* its row and of the entries the COO part has for it, each of them added  *)
(* once, and nothing is left of what y held before, although no kernel     *)
(* clears y and the COO kernels only add to it.                            *)
HybProduct ==
  host = "returned" =>
    /\ old = {}
    /\ \A r \in Rows : y[r] = EllSum ++ Each(Terms, Entries(r))

=============================================================================
