------------------------------ MODULE CsrSpMV -------------------------------
(***************************************************************************)
(* y = A x on the GPU for a matrix in compressed row format:               *)
(* MatrixCSR<scalar,GPU>::multiply (matrix/matrixcsr_gpu.cpp) and its two  *)
(* kernels (csr_kernels/csr_matrix_krenels.cl).                            *)
(*                                                                         *)
(* The scalar kernel gives a row to a work-item.  The vector kernel gives  *)
(* a row to a warp, whose lanes add up the row strided and then fold their *)
(* sums in local memory, without any barrier.  Every lane takes part in    *)
(* every step, so that the upper lanes read the slots of the next warp,    *)
(* which is busy with another row, or the padding behind the last warp:    *)
(* whatever they read must not reach lane 0.                               *)
(*                                                                         *)
(* Warps are interleaved at every access to local memory.                  *)
(***************************************************************************)
EXTENDS FormalSums

CONSTANTS
  WarpSize,   (* WARP_SIZE: 32.                                            *)
  HostWarps,  (* Warps of a group: 8.                                      *)
  Blocks,     (* Groups of the vector kernel: 128.                         *)
  LocalSize,  (* Work-items of a group of the scalar kernel: 128.          *)
  NNZ,        (* Number of stored entries.                                 *)
  NRow        (* Number of rows.                                           *)

(* n can be halved without a rest until 1 is left.                         *)
IsPowerOf2(n) ==
  \E Halves \in SUBSET (1..n) :
    n \in Halves /\ \A m \in Halves : m = 1 \/ (m % 2 = 0 /\ m \div 2 \in Halves)

ASSUME CsrAssumption ==
  /\ WarpSize \in Nat \ {0} /\ IsPowerOf2(WarpSize)
  /\ HostWarps \in Nat \ {0} /\ Blocks \in Nat \ {0} /\ LocalSize \in Nat \ {0}
  /\ NNZ \in Nat \ {0} /\ NRow \in Nat \ {0}

Rows  == 0..NRow-1
Terms == 0..NNZ                  (* An entry, or NNZ: whatever was there.  *)
Sum   == Sums(Terms)
None  == Zero(Terms)
Junk  == Only(Terms, NNZ)

NumWarps == HostWarps * Blocks
Warps    == 0..NumWarps-1
Lanes    == 0..WarpSize-1
Groups   == 0..Blocks-1
Group(w) == w \div HostWarps
HalfWarp == WarpSize \div 2
(* sdata: a slot per work-item and half a warp of padding.                 *)
Slots      == 0..(HostWarps * WarpSize + HalfWarp - 1)
Slot(w, l) == (w % HostWarps) * WarpSize + l

ScalarItems == 0..((NRow \div LocalSize + 1) * LocalSize - 1)

VARIABLES
  offset,   (* row_offset.  Never changes.                                 *)
  y,        (* The output vector.                                          *)
  host,     (* "called", the kernel that runs, or "returned".              *)
  pc,       (* Per warp: the next step of the vector kernel.               *)
  row,      (* Per warp: the row it works on.                              *)
  sum,      (* Per warp and lane: its private sum.                         *)
  stride,   (* Per warp: the distance of the next folding step.            *)
  sdata,    (* Per group: local memory.                                    *)
  done      (* The work-items of the scalar kernel that have ended.        *)

warpVars == <<pc, row, sum, stride, sdata>>
vars == <<offset, y, host, warpVars, done>>

(* What the conversions to CSR produce.                                    *)
RowOffsets == {f \in [0..NRow -> 0..NNZ] :
                 /\ f[0] = 0 /\ f[NRow] = NNZ
                 /\ \A r \in Rows : f[r] <= f[r + 1]}

Entries(r) == offset[r] .. offset[r + 1] - 1

Init ==
  /\ offset \in RowOffsets
  /\ y = [r \in Rows |-> Junk]
  /\ host = "called"
  /\ pc = [w \in Warps |-> "row"]
  /\ row = [w \in Warps |-> w]
  /\ sum = [w \in Warps |-> [l \in Lanes |-> None]]
  /\ stride = [w \in Warps |-> HalfWarp]
  /\ sdata = [g \in Groups |-> [s \in Slots |-> Junk]]
  /\ done = {}

(* multiply, with use_scalar either way.                                   *)
Launch ==
  /\ host = "called"
  /\ host' \in {"scalar", "vector"}
  /\ UNCHANGED <<offset, y, warpVars, done>>

-----------------------------------------------------------------------------
(* s_kernel_csr_spmv_scalar.                                               *)

ScalarRow(t) ==
  /\ host = "scalar"
  /\ t \notin done
  /\ done' = done \cup {t}
  /\ y' = IF t \in Rows THEN [y EXCEPT ![t] = Each(Terms, Entries(t))] ELSE y
  /\ UNCHANGED <<offset, host, warpVars>>

-----------------------------------------------------------------------------
(* s_kernel_csr_spmv_vector, one action per lock-step of a warp.           *)

Goto(w, label) == pc' = [pc EXCEPT ![w] = label]

(* Fault: the sums stay private.                                           *)
PublishNot(w) == sdata' = sdata

(* sdata[i] = sum, by all lanes.                                           *)
Publish(w) ==
  sdata' = [sdata EXCEPT ![Group(w)] =
              [s \in Slots |-> IF \E l \in Lanes : s = Slot(w, l)
                               THEN sum'[w][s - Slot(w, 0)] ELSE @[s]]]

(* The entries that lane l of a warp adds up in row r.                     *)
Share(r, l) == {e \in Entries(r) : (e - offset[r]) % WarpSize = l}

BeginRow(w) ==
  /\ host = "vector" /\ pc[w] = "row"
  /\ row[w] < NRow
  /\ sum' = [sum EXCEPT ![w] = [l \in Lanes |-> Each(Terms, Share(row[w], l))]]
  /\ Publish(w)
  /\ stride' = [stride EXCEPT ![w] = HalfWarp]
  /\ Goto(w, "fold")
  /\ UNCHANGED <<offset, y, host, row, done>>

(* sdata[i] = sum += sdata[i + stride], by all lanes.                      *)
Fold(w) ==
  /\ host = "vector" /\ pc[w] = "fold"
  /\ stride[w] > 0
  /\ sum' = [sum EXCEPT ![w] =
               [l \in Lanes |-> @[l] ++ sdata[Group(w)][Slot(w, l) + stride[w]]]]
  /\ Publish(w)
  /\ stride' = [stride EXCEPT ![w] = @ \div 2]
  /\ UNCHANGED <<offset, y, host, pc, row, done>>

(* Fault: the last lane writes the row.                                    *)
EndRowLast(w) ==
  /\ host = "vector" /\ pc[w] = "fold"
  /\ stride[w] = 0
  /\ y' = [y EXCEPT ![row[w]] = sum[w][WarpSize - 1]]
  /\ row' = [row EXCEPT ![w] = @ + NumWarps]
  /\ Goto(w, "row")
  /\ UNCHANGED <<offset, host, sum, stride, sdata, done>>

(* Lane 0 writes the row.                                                  *)
EndRow(w) ==
  /\ host = "vector" /\ pc[w] = "fold"
  /\ stride[w] = 0
  /\ y' = [y EXCEPT ![row[w]] = sum[w][0]]
  /\ row' = [row EXCEPT ![w] = @ + NumWarps]
  /\ Goto(w, "row")
  /\ UNCHANGED <<offset, host, sum, stride, sdata, done>>

Leave(w) ==
  /\ host = "vector" /\ pc[w] = "row"
  /\ row[w] >= NRow
  /\ Goto(w, "exit")
  /\ UNCHANGED <<offset, y, host, row, sum, stride, sdata, done>>

Warp(w) == BeginRow(w) \/ Fold(w) \/ EndRow(w) \/ Leave(w)

-----------------------------------------------------------------------------
(* clWaitForEvents.                                                        *)
Return ==
  /\ \/ host = "scalar" /\ done = ScalarItems
     \/ host = "vector" /\ \A w \in Warps : pc[w] = "exit"
  /\ host' = "returned"
  /\ UNCHANGED <<offset, y, warpVars, done>>

AtRest == host = "returned" /\ UNCHANGED vars

Next ==
  \/ Launch \/ Return \/ AtRest
  \/ \E t \in ScalarItems : ScalarRow(t)
  \/ \E w \in Warps : Warp(w)

(* The device runs every work-item of the launch.                          *)
Fairness ==
  /\ WF_vars(Launch \/ Return)
  /\ \A t \in ScalarItems : WF_vars(ScalarRow(t))
  /\ \A w \in Warps : WF_vars(Warp(w))

Spec == Init /\ [][Next]_vars /\ Fairness

-----------------------------------------------------------------------------
(* Properties.                                                             *)

(* Every variable holds a value of its type.                               *)
TypeOK ==
  /\ offset \in RowOffsets
  /\ y \in [Rows -> Sum]
  /\ host \in {"called", "scalar", "vector", "returned"}
  /\ pc \in [Warps -> {"row", "fold", "exit"}]
  /\ row \in [Warps -> Nat]
  /\ sum \in [Warps -> [Lanes -> Sum]]
  /\ stride \in [Warps -> 0..HalfWarp]
  /\ sdata \in [Groups -> [Slots -> Sum]]
  /\ done \subseteq ScalarItems

(* What the upper lanes pick up from the next warp never gets into the     *)
(* lanes that matter: at distance stride, a lane below 2 * stride holds    *)
(* exactly the entries of the row that have been folded into it, whatever  *)
(* the other warps are doing.                                              *)
FoldIsClean ==
  \A w \in Warps : pc[w] = "fold" =>
    LET width == IF stride[w] = 0 THEN 1 ELSE 2 * stride[w]
    IN  \A l \in 0..width-1 :
          sum[w][l] = Each(Terms, {e \in Entries(row[w]) : (e - offset[row[w]]) % width = l})

RowOf(e) == CHOOSE r \in Rows : e \in Entries(r)

(* Both kernels implement the abstract product, at every step, and end.    *)
Abstract == INSTANCE SpMV WITH
  Nonzeros <- 0..NNZ-1,
  Stale <- NNZ,
  row <- [e \in 0..NNZ-1 |-> RowOf(e)],
  out <- y,
  returned <- (host = "returned")

ImplementsSpMV == Abstract!Spec

=============================================================================
