----------------------------- MODULE Primitives ------------------------------
(***************************************************************************)
(* The vector primitives of utils/: scans, gathers, scatters, a sort and a *)
(* reduction by key, as functions from arrays to arrays.                   *)
(*                                                                         *)
(* An array of n elements is a function with domain 0..n-1.  The scans and *)
(* scatters are called on [first, last) = the whole array here, as the     *)
(* program calls them.  All scans allow out to be in: out[i] is written    *)
(* after in[i] was read and never read again, so they are functions of in. *)
(***************************************************************************)
EXTENDS Integers, FiniteSets

Size(a) == Cardinality(DOMAIN a)

(* The array of the elements of S in ascending order: an element's place   *)
(* is the number of those before it.                                       *)
Sorted(S, Before(_, _)) ==
  [i \in 0..Cardinality(S)-1 |-> CHOOSE x \in S : Cardinality({y \in S : Before(y, x)}) = i]

(* exclusive_scan: the sum of the elements before i.                       *)
ExclusiveScan(in) ==
  LET sum[i \in DOMAIN in] == IF i = 0 THEN 0 ELSE sum[i - 1] + in[i - 1] IN sum

(* inclusive_scan_max: the greatest element up to i.                       *)
InclusiveScanMax(in) ==
  LET most[i \in DOMAIN in] ==
        IF i = 0 \/ in[i] >= most[i - 1] THEN in[i] ELSE most[i - 1]
  IN  most

(* inclusive_scan_by_key: the sum of the elements up to i, back to where   *)
(* the run of equal keys that i is in begins.                              *)
InclusiveScanByKey(in, keys) ==
  LET sum[i \in DOMAIN in] ==
        IF i > 0 /\ keys[i] = keys[i - 1] THEN sum[i - 1] + in[i] ELSE in[i]
  IN  sum

(* gather.                                                                 *)
Gather(in, map) == [i \in DOMAIN map |-> in[map[i]]]

(* scatter_if: element i goes to map[i] where the stencil is not 0; of two *)
(* that go to one place the later stays.                                   *)
ScatterIf(in, map, stencil, out) ==
  LET Sources(d) == {i \in DOMAIN stencil : stencil[i] # 0 /\ map[i] = d}
      Latest(S)  == CHOOSE i \in S : \A j \in S : j <= i
  IN  [d \in DOMAIN out |-> IF Sources(d) = {} THEN out[d] ELSE in[Latest(Sources(d))]]

(* scatter_if_permuted.                                                    *)
ScatterIfPermuted(in, p, map, stencil, out) == ScatterIf(Gather(in, p), map, stencil, out)

(* The number of entries that calculate_offsets counts in row r, and the   *)
(* offsets it builds, in an array of zeros.                                *)
RowCount(row, r) == Cardinality({i \in DOMAIN row : row[i] = r})
CalculateOffsets(row, nrow) ==
  ExclusiveScan([r \in 0..nrow |-> RowCount(row, r)])

(* calculate_row_lenghts.                                                  *)
CalculateRowLengths(offsets) ==
  [r \in 0..Size(offsets)-2 |-> offsets[r + 1] - offsets[r]]

-----------------------------------------------------------------------------
(* sort_by_row_and_column.                                                 *)

(* The places of the first n keys in ascending order of key, equal keys in *)
(* the order they are in; what is behind them stays.                       *)
StableSort(keys, n) ==
  LET sorted == Sorted(0..n-1, LAMBDA a, b : keys[a] < keys[b] \/ (keys[a] = keys[b] /\ a < b))
  IN  [i \in DOMAIN keys |-> IF i < n THEN sorted[i] ELSE i]

(* stable_sort_by_key is given the address of the last element as the end. *)
SortEnd(keys) == Size(keys) - 1

(* The permutation of the workspace: by column, then by row.               *)
SortPermutation(I, J) ==
  LET byColumn == StableSort(J, SortEnd(J))
      byRow    == StableSort(Gather(I, byColumn), SortEnd(I))
  IN  Gather(byColumn, byRow)

-----------------------------------------------------------------------------
(* calculate_NNZ and reduce_by_key, over an array of keys.                 *)

(* Fault: not one more.                                                    *)
CalculateDifferences(keys) == Cardinality({k \in DOMAIN keys \ {0} : keys[k - 1] # keys[k]})
(* One more than the neighbours that differ.                               *)
CalculateNNZ(keys) == Cardinality({k \in DOMAIN keys \ {0} : keys[k - 1] # keys[k]}) + 1

(* Where reduce_by_key accumulates each element: out_iterator, which moves *)
(* on when the key is not the one before.                                  *)
RunOf(keys) ==
  LET out[k \in DOMAIN keys] ==
        IF k = 0 THEN 0 ELSE IF keys[k] = keys[k - 1] THEN out[k - 1] ELSE out[k - 1] + 1
  IN  out

=============================================================================
