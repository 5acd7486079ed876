-------------------------------- MODULE SpMM ---------------------------------
(***************************************************************************)
(* C = A B for matrices in coordinate format, on the CPU: main and         *)
(* coo_spmm_helper of main.cpp, the expand-sort-compress algorithm over    *)
(* the primitives of utils/ (module Primitives).                           *)
(*                                                                         *)
(* Entry n of A meets the entries of row A.col[n] of B; the products are   *)
(* laid out one after the other in a workspace, sorted by row and column,  *)
(* and neighbours in the same place are added up.  A product is the pair   *)
(* of the entries it is made of.                                           *)
(***************************************************************************)
EXTENDS Primitives

CONSTANTS
  NRowA, NColA, NColB,  (* Sizes; B has NColA rows.                        *)
  Capacity              (* workspace_capacity: 102 products in the code.   *)

ASSUME SizeAssumption ==
  NRowA \in Nat \ {0} /\ NColA \in Nat \ {0} /\ NColB \in Nat \ {0} /\ Capacity \in Nat

VARIABLES
  A, B,              (* The matrices: arrays row and col.  Never change.   *)
  pc,                (* The next call of the program.                      *)
  B_row_offsets, segment_lengths, output_ptr,
  A_gather_locations, B_gather_locations,
  I, J, V,           (* The workspace: row, column and product.            *)
  C,                 (* The result: an array of entries.                   *)
  A_row_offsets, cummulative_row_workspace, end_row

lookup    == <<B_row_offsets, segment_lengths, output_ptr>>
locations == <<A_gather_locations, B_gather_locations>>
workspace == <<I, J, V>>
slicing   == <<A_row_offsets, cummulative_row_workspace, end_row>>
vars == <<A, B, pc, lookup, locations, workspace, C, slicing>>

Empty == <<>>                    (* A vector or matrix not yet allocated.  *)

(* A matrix as load leaves it: its entries in order of row and column.     *)
Before(p, q) == p[1] < q[1] \/ (p[1] = q[1] /\ p[2] < q[2])
Loaded(positions) ==
  LET entries == Sorted(positions, Before)
  IN  [row |-> [n \in DOMAIN entries |-> entries[n][1]],
       col |-> [n \in DOMAIN entries |-> entries[n][2]]]
NonEmpty(nrow, ncol) == (SUBSET ((0..nrow-1) \X (0..ncol-1))) \ {{}}

Segments == DOMAIN A.row
NNZ_A    == Size(A.row)

Init ==
  /\ A \in {Loaded(S) : S \in NonEmpty(NRowA, NColA)}
  /\ B \in {Loaded(S) : S \in NonEmpty(NColA, NColB)}
  /\ pc = "offsets"
  /\ B_row_offsets = Empty /\ segment_lengths = Empty /\ output_ptr = Empty
  /\ A_gather_locations = Empty /\ B_gather_locations = Empty
  /\ I = Empty /\ J = Empty /\ V = Empty
  /\ C = Empty
  /\ A_row_offsets = Empty /\ cummulative_row_workspace = Empty /\ end_row = 0

At(here, next) == pc = here /\ pc' = next /\ UNCHANGED <<A, B>>

-----------------------------------------------------------------------------
(* main: how many products there are, and where those of an entry of A go. *)

CountProducts ==
  /\ At("offsets", "choose")
  /\ B_row_offsets' = CalculateOffsets(B.row, NColA)
  /\ segment_lengths' = Gather(CalculateRowLengths(B_row_offsets'), A.col)
  /\ LET scanned == ExclusiveScan(segment_lengths')
     IN  output_ptr' = [n \in 0..NNZ_A |->
                          IF n < NNZ_A THEN scanned[n]
                          ELSE scanned[NNZ_A - 1] + segment_lengths'[NNZ_A - 1]]
  /\ UNCHANGED <<locations, workspace, C, slicing>>

coo_num_nonzeros == output_ptr[NNZ_A]

(* "ONE HIT SPMM": all products fit.  The helper resizes the workspace.    *)
OneHit ==
  /\ At("choose", IF coo_num_nonzeros = 0 THEN "done" ELSE "scatter")
  /\ coo_num_nonzeros <= Capacity
  /\ UNCHANGED <<lookup, locations, workspace, C, slicing>>

(* "SLICING": ends after one slice was computed, which is not multiplied.  *)
Slice ==
  /\ At("choose", "sliced")
  /\ coo_num_nonzeros > Capacity
  /\ A_row_offsets' = CalculateOffsets(A.row, NRowA)
  /\ cummulative_row_workspace' =
       Gather(output_ptr, [r \in 0..NRowA-1 |-> A_row_offsets'[r + 1]])
  /\ end_row' = 1
  /\ UNCHANGED <<lookup, locations, workspace, C>>

-----------------------------------------------------------------------------
(* coo_spmm_helper, from segment 0 to the last.                            *)

Fill(value) == [k \in 0..coo_num_nonzeros-1 |-> value]

(* Every place of the workspace finds its entry of A: its segment's number *)
(* is written where the segment begins and spread to where it ends.        *)
LocateA ==
  /\ At("scatter", "locateB")
  /\ A_gather_locations' =
       InclusiveScanMax(ScatterIf([n \in Segments |-> n], output_ptr, segment_lengths, Fill(0)))
  /\ UNCHANGED <<lookup, B_gather_locations, workspace, C, slicing>>

(* And its entry of B: the offset of the row at the beginning of a         *)
(* segment, and one more at every place after it.                          *)
LocateB ==
  /\ At("locateB", "transform")
  /\ B_gather_locations' =
       InclusiveScanByKey(
         ScatterIfPermuted(B_row_offsets, A.col, output_ptr, segment_lengths, Fill(1)),
         A_gather_locations)
  /\ UNCHANGED <<lookup, A_gather_locations, workspace, C, slicing>>

Multiply ==
  /\ At("transform", "sort")
  /\ I' = Gather(A.row, A_gather_locations)
  /\ J' = Gather(B.col, B_gather_locations)
  /\ V' = [k \in DOMAIN A_gather_locations |-> <<A_gather_locations[k], B_gather_locations[k]>>]
  /\ UNCHANGED <<lookup, locations, C, slicing>>

(* sort_by_row_and_column prints the first elements of the permutation     *)
(* before it sorts, through operator[], which asserts that there are.      *)
Printed == 5
SortAborts ==
  /\ At("sort", "aborted")
  /\ coo_num_nonzeros < Printed
  /\ UNCHANGED <<lookup, locations, workspace, C, slicing>>

(* Fault: the values are not moved.                                        *)
SortKeysOnly ==
  /\ At("sort", "reduce")
  /\ coo_num_nonzeros >= Printed
  /\ LET p == SortPermutation(I, J)
     IN  I' = Gather(I, p) /\ J' = Gather(J, p)
  /\ UNCHANGED <<V, lookup, locations, C, slicing>>

Sort ==
  /\ At("sort", "reduce")
  /\ coo_num_nonzeros >= Printed
  /\ LET p == SortPermutation(I, J)
     IN  I' = Gather(I, p) /\ J' = Gather(J, p) /\ V' = Gather(V, p)
  /\ UNCHANGED <<lookup, locations, C, slicing>>

(* calculate_NNZ, the resize of C, and reduce_by_key into it.  An element  *)
(* of C that no run of equal keys reaches keeps what was allocated.        *)
Keys == [k \in DOMAIN I |-> <<I[k], J[k]>>]
Unwritten == [row |-> -1, col |-> -1, val |-> {}]

Reduce ==
  /\ At("reduce", "done")
  /\ LET run == RunOf(Keys)
         Members(c) == {k \in DOMAIN Keys : run[k] = c}
         Entry(c) == LET k == CHOOSE k \in Members(c) : TRUE
                     IN  [row |-> I[k], col |-> J[k], val |-> {V[m] : m \in Members(c)}]
     IN  C' = [c \in 0..CalculateNNZ(Keys)-1 |->
                 IF Members(c) = {} THEN Unwritten ELSE Entry(c)]
  /\ UNCHANGED <<lookup, locations, workspace, slicing>>

AtRest == pc \in {"done", "sliced", "aborted"} /\ UNCHANGED vars

Next == CountProducts \/ OneHit \/ Slice \/ LocateA \/ LocateB \/ Multiply
        \/ Sort \/ SortAborts \/ Reduce \/ AtRest

Spec == Init /\ [][Next]_vars

-----------------------------------------------------------------------------
(* Properties.                                                             *)

(* Every variable holds a value of its type: the arrays of the lookup have *)
(* one element per row or entry, and all five of the workspace are equally *)
(* long.                                                                   *)
TypeOK ==
  /\ pc \in {"offsets", "choose", "scatter", "locateB", "transform", "sort", "reduce",
            "done", "sliced", "aborted"}
  /\ pc # "offsets" => /\ B_row_offsets \in [0..NColA -> Nat]
                       /\ segment_lengths \in [Segments -> 0..NColB]
                       /\ output_ptr \in [0..NNZ_A -> Nat]
  /\ pc \in {"sort", "reduce"} =>
       LET places == 0..coo_num_nonzeros-1
       IN  /\ A_gather_locations \in [places -> Segments]
           /\ B_gather_locations \in [places -> DOMAIN B.col]
           /\ I \in [places -> 0..NRowA-1] /\ J \in [places -> 0..NColB-1]
           /\ DOMAIN V = places
  /\ end_row \in {0, 1}

(* The products of the definition of A B.                                  *)
Products == {p \in Segments \X DOMAIN B.row : A.col[p[1]] = B.row[p[2]]}

(* Two scatters and two scans give every place of the workspace the two    *)
(* entries of one product: each product of A B is there exactly once, in   *)
(* its row and column, also after the keys and values were moved by the    *)
(* sort.  Segments without products, which have the same output_ptr as the *)
(* next, do not disturb it.                                                *)
WorkspaceExact ==
  pc \in {"sort", "reduce", "done"} =>
    /\ Cardinality(Products) = coo_num_nonzeros
    /\ {<<I[k], J[k], V[k]>> : k \in DOMAIN V} =
         {<<A.row[p[1]], B.col[p[2]], p>> : p \in Products}

(* The result has no element left unwritten, holds every product in the    *)
(* row and column it belongs to, and holds none twice.                     *)
ResultExact ==
  (pc = "done" /\ coo_num_nonzeros > 0) =>
    /\ \A c \in DOMAIN C : C[c] # Unwritten
    /\ UNION {C[c].val : c \in DOMAIN C} = Products
    /\ \A c \in DOMAIN C : \A p \in C[c].val :
         /\ A.row[p[1]] = C[c].row /\ B.col[p[2]] = C[c].col
         /\ \A d \in DOMAIN C : p \in C[d].val => d = c

=============================================================================
