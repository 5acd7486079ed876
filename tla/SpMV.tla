-------------------------------- MODULE SpMV --------------------------------
(***************************************************************************)
(* What multiply(in, out) of every matrix format promises, whatever the    *)
(* kernel: what out held before the call is forgotten, every stored        *)
(* nonzero is added to the element of out of its row, and once the call    *)
(* returns, as it does in the end, each has been added exactly once.       *)
(*                                                                         *)
(* The order is left open.  A step may add any set of nonzeros that are    *)
(* still missing, to one row or to several, and forget the old contents of *)
(* any rows, because a GPU kernel works on many rows at a time.            *)
(***************************************************************************)
EXTENDS FormalSums

CONSTANTS
  Nonzeros,  (* The stored entries of the matrix.                          *)
  Rows,      (* The row numbers.                                           *)
  Stale      (* What an element of out held before the call: no nonzero.   *)

Terms == Nonzeros \cup {Stale}

VARIABLES
  row,       (* The row of each nonzero.  Never changes.                   *)
  out,       (* The output vector, one formal sum per row.                 *)
  returned   (* Whether the call has returned.                             *)

abstractVars == <<row, out, returned>>

Init ==
  /\ row \in [Nonzeros -> Rows]
  /\ out = [r \in Rows |-> Only(Terms, Stale)]
  /\ returned = FALSE

Work ==
  /\ ~returned
  /\ UNCHANGED <<row, returned>>
  /\ out' \in [Rows -> Sums(Terms)]
  /\ \A r \in Rows :
       /\ out'[r][Stale] \in {out[r][Stale], 0}
       /\ \A z \in Nonzeros :
            \/ out'[r][z] = out[r][z]
            \/ row[z] = r /\ out[r][z] = 0 /\ out'[r][z] = 1

Return ==
  /\ ~returned
  /\ \A r \in Rows : out[r][Stale] = 0
  /\ \A z \in Nonzeros : out[row[z]][z] = 1
  /\ returned' = TRUE
  /\ UNCHANGED <<row, out>>

Next == Work \/ Return

Spec == Init /\ [][Next]_abstractVars /\ <>returned

=============================================================================
