------------------------------ MODULE CooFlat ------------------------------
(***************************************************************************)
(* y = A x on the GPU for a matrix in coordinate format:                   *)
(* MatrixCOO<scalar,GPU>::multiply (matrix/matrixcoo_gpu.cpp) and the      *)
(* three kernels it launches (coo_kernels/coo_matrix_krenels.cl).          *)
(*                                                                         *)
(* The entries below the tail are cut into intervals, one per warp.  The   *)
(* WarpSize lanes of a warp run in lock-step and take WarpSize entries at  *)
(* a time: a segmented scan in local memory adds up the entries of a row,  *)
(* the last lane of a row adds the sum to y, and the row that is still     *)
(* open is carried into the next chunk, and at the end of the interval out *)
(* to temp_rows, temp_vals.  A second kernel, one work-group, adds the     *)
(* carries to y; a third one, a single work-item, adds the tail.           *)
(*                                                                         *)
(* Warps are interleaved at every access to y.  An update of y is a read   *)
(* and a later write, as no kernel uses an atomic.  The sums are formal    *)
(* (module FormalSums), so the columns J, the values V and x do not occur. *)
(***************************************************************************)
EXTENDS FormalSums

CONSTANTS
  WarpSize,     (* WARP_SIZE, OPENCL_WARPSIZE: 32 in the code.             *)
  KernelWarps,  (* BLOCK_SIZE / WARP_SIZE of the kernels: 8 in the code.   *)
  HostWarps,    (* WARPS_PER_BLOCK of the host: 4 in the code.             *)
  MaxBlocks,    (* MAX_BLOCKS of the host: 32 in the code.                 *)
  NNZ,          (* Number of stored entries.                               *)
  NRow          (* Number of rows.                                         *)

(* A warp has an even number of lanes, the local memory the kernel declares*)
(* is enough for the work-group the host asks for, and the matrix passes   *)
(* the assertion nnz > OPENCL_WARPSIZE.                                    *)
ASSUME SizeAssumption ==
  /\ WarpSize \in Nat \ {0}
  /\ WarpSize % 2 = 0
  /\ KernelWarps \in Nat \ {0}
  /\ HostWarps \in 1..KernelWarps
  /\ MaxBlocks \in Nat \ {0}
  /\ NNZ \in Nat
  /\ NNZ > WarpSize
  /\ NRow \in Nat \ {0}

Rows  == 0..NRow-1
NoRow == -1                      (* The padding and the sentinel.          *)
Terms == 0..NNZ                  (* An entry, or NNZ: y before the call.   *)
Sum   == Sums(Terms)
None  == Zero(Terms)

Minimum(a, b)  == IF a <= b THEN a ELSE b
CeilDiv(a, b)  == (a + (b - 1)) \div b

-----------------------------------------------------------------------------
(* The launch: how the host sizes it.                                      *)

NumUnits     == NNZ \div WarpSize
NumWarps     == Minimum(NumUnits, HostWarps * MaxBlocks)
NumBlocks    == CeilDiv(NumWarps, HostWarps)
NumIters     == CeilDiv(NumUnits, NumWarps)
IntervalSize == WarpSize * NumIters
Tail         == NumUnits * WarpSize
(* Faults: a partial interval gets no slot; an idle warp gets one.         *)
ActiveWarpsFloor == Tail \div IntervalSize
ActiveWarpsAll   == NumWarps
ActiveWarps  == CeilDiv(Tail, IntervalSize)

(* The launch: what a warp makes of it.  The host starts HostWarps warps   *)
(* per group, the kernel numbers them as if there were KernelWarps.        *)

Launched == {KernelWarps * g + l : g \in 0..NumBlocks-1, l \in 0..HostWarps-1}

(* Fault: as if every interval were one chunk.                             *)
BeginUnit(w) == w * WarpSize
Begin(w) == w * IntervalSize
End(w)   == Minimum(Begin(w) + IntervalSize, Tail)

(* A warp's part of rows[]: HalfWarp slots of padding, then one slot per   *)
(* lane.                                                                   *)
HalfWarp == WarpSize \div 2
Lanes    == 0..WarpSize-1
Slots    == 0..(HalfWarp + WarpSize - 1)
Last     == WarpSize - 1
Slot(l)  == HalfWarp + l

(* The group of the second kernel: HostWarps * WarpSize work-items, and    *)
(* local arrays of BLOCK_SIZE + 1 slots.                                   *)
Block     == KernelWarps * WarpSize
Items     == 0..(HostWarps * WarpSize - 1)

GroupState ==
  [pc : {"load", "scan"}, base : Nat, stride : Nat \ {0},
   rows : [0..Block -> Rows \cup {NoRow}], vals : [0..Block -> Sum],
   reg : [Items -> Sum], held : SUBSET Items, added : SUBSET Items]

Carry == [row : Rows \cup {NoRow}, val : Sum]

VARIABLES
  I,         (* The row of each entry.  Never changes.                     *)
  y,         (* The output vector.                                         *)
  host,      (* What multiply is waiting for.                              *)
  pc,        (* Per warp: the next step of the flat kernel.                *)
  n,         (* Per warp: the loop variable of its lane 0.                 *)
  rows,      (* Per warp: its part of rows[], padding included.            *)
  vals,      (* Per warp: its part of vals[].                              *)
  reg,       (* Per warp and lane: the element of y that was read.         *)
  stride,    (* Per warp: the distance of the next step of its scan.       *)
  temp,      (* temp_rows and temp_vals together.                          *)
  written,   (* The slots of temp that a warp has written.                 *)
  group      (* The state of the one group of the second kernel.           *)

flatVars == <<pc, n, rows, vals, reg, stride, temp, written>>
vars == <<I, y, host, flatVars, group>>

(* The entries are ordered by row.  multiply and its kernels need it; the  *)
(* columns and the order inside a row are immaterial.                      *)
RowOrdered == {f \in [0..NNZ-1 -> Rows] :
                 \A a \in 0..NNZ-1, b \in 0..NNZ-1 : a <= b => f[a] <= f[b]}

Entries(r) == {z \in 0..NNZ-1 : I[z] = r}

Init ==
  /\ I \in RowOrdered
  /\ y = [r \in Rows |-> Only(Terms, NNZ)]
  /\ host = "set"
  /\ pc = [w \in Launched |-> "start"]
  /\ n = [w \in Launched |-> 0]
  /\ rows = [w \in Launched |-> [s \in Slots |-> 0]]
  /\ vals = [w \in Launched |-> [l \in Lanes |-> None]]
  /\ reg = [w \in Launched |-> [l \in Lanes |-> None]]
  /\ stride = [w \in Launched |-> 1]
  /\ temp = [i \in 0..ActiveWarps-1 |-> [row |-> 0, val |-> None]]
  /\ written = {}
  /\ group = [pc |-> "load", base |-> 0, stride |-> 1,
              rows |-> [s \in 0..Block |-> 0],
              vals |-> [s \in 0..Block |-> None],
              reg  |-> [t \in Items |-> None],
              held |-> {}, added |-> {}]

-----------------------------------------------------------------------------
(* The host, up to the first launch: out.set(0).                           *)

ZeroOut ==
  /\ host = "set"
  /\ y' = [r \in Rows |-> None]
  /\ host' = "flat"
  /\ UNCHANGED <<I, flatVars, group>>

-----------------------------------------------------------------------------
(* kernel_coo_spmv_flat, one action per lock-step of a warp.               *)

Goto(w, label) == pc' = [pc EXCEPT ![w] = label]

Step(w, from) ==
  /\ host = "flat"
  /\ pc[w] = from

(* Every warp fills its padding, and the slots of its lower lanes.         *)
Filled(w) == [s \in Slots |-> IF s \in Lanes THEN NoRow ELSE rows[w][s]]

(* A warp without work leaves.                                             *)
Leave(w) ==
  /\ Step(w, "start")
  /\ Begin(w) >= End(w)
  /\ rows' = [rows EXCEPT ![w] = Filled(w)]
  /\ Goto(w, "exit")
  /\ UNCHANGED <<I, y, host, n, vals, reg, stride, temp, written, group>>

(* The last lane of any other primes the carry, with the first row.        *)
Start(w) ==
  /\ Step(w, "start")
  /\ Begin(w) < End(w)
  /\ rows' = [rows EXCEPT ![w] = [Filled(w) EXCEPT ![Slot(Last)] = I[Begin(w)]]]
  /\ vals' = [vals EXCEPT ![w][Last] = None]
  /\ n' = [n EXCEPT ![w] = Begin(w)]
  /\ Goto(w, "carry")
  /\ UNCHANGED <<I, y, host, reg, stride, temp, written, group>>

(* Every lane stores its row and its product, lane 0 after it has folded   *)
(* the carry in or dropped it.                                             *)
Store(w, first) ==
  /\ rows' = [rows EXCEPT ![w] =
                [s \in Slots |-> IF s < HalfWarp THEN rows[w][s]
                                 ELSE I[n[w] + (s - HalfWarp)]]]
  /\ vals' = [vals EXCEPT ![w] =
                [l \in Lanes |-> IF l = 0 THEN first ELSE Only(Terms, n[w] + l)]]
  /\ stride' = [stride EXCEPT ![w] = 1]

(* Fault: the row of the carry is not compared.                            *)
CarryContinuesAlways(w) == TRUE
CarryContinues(w) == I[n[w]] = rows[w][Slot(Last)]

(* Lane 0: the row of the carry continues.                                 *)
CarryIn(w) ==
  /\ Step(w, "carry")
  /\ CarryContinues(w)
  /\ Store(w, Only(Terms, n[w]) ++ vals[w][Last])
  /\ Goto(w, "scan")
  /\ UNCHANGED <<I, y, host, n, reg, temp, written, group>>

(* Lane 0: it has ended, and goes to y.  First the read...                 *)
FlushRead(w) ==
  /\ Step(w, "carry")
  /\ ~CarryContinues(w)
  /\ reg' = [reg EXCEPT ![w][0] = y[rows[w][Slot(Last)]]]
  /\ Goto(w, "flush")
  /\ UNCHANGED <<I, y, host, n, rows, vals, stride, temp, written, group>>

(* ... then the write.                                                     *)
FlushWrite(w) ==
  /\ Step(w, "flush")
  /\ y' = [y EXCEPT ![rows[w][Slot(Last)]] = reg[w][0] ++ vals[w][Last]]
  /\ Store(w, Only(Terms, n[w]))
  /\ Goto(w, "scan")
  /\ UNCHANGED <<I, host, n, reg, temp, written, group>>

(* One line of the segmented scan.  All lanes read before any writes.      *)
Scan(w) ==
  /\ Step(w, "scan")
  /\ stride[w] <= HalfWarp
  /\ vals' = [vals EXCEPT ![w] =
                [l \in Lanes |->
                   IF rows[w][Slot(l)] = rows[w][Slot(l) - stride[w]]
                   THEN vals[w][l] ++ vals[w][l - stride[w]]
                   ELSE vals[w][l]]]
  /\ stride' = [stride EXCEPT ![w] = 2 * stride[w]]
  /\ UNCHANGED <<I, y, host, pc, n, rows, reg, temp, written, group>>

(* Fault: the next lane's row is not compared.                             *)
EndsAll(w) == Lanes \ {Last}
(* The lanes at which a row ends inside the chunk.                         *)
Ends(w) == {l \in Lanes \ {Last} : rows[w][Slot(l)] # rows[w][Slot(l + 1)]}

EndsRead(w) ==
  /\ Step(w, "scan")
  /\ stride[w] > HalfWarp
  /\ reg' = [reg EXCEPT ![w] =
               [l \in Lanes |-> IF l \in Ends(w) THEN y[rows[w][Slot(l)]] ELSE reg[w][l]]]
  /\ Goto(w, "ends")
  /\ UNCHANGED <<I, y, host, n, rows, vals, stride, temp, written, group>>

(* If two lanes wrote one element, the hardware would keep either value.   *)
EndsWrite(w) ==
  /\ Step(w, "ends")
  /\ LET ended == {rows[w][Slot(l)] : l \in Ends(w)}
     IN  \E keep \in [ended -> Ends(w)] :
           /\ \A r \in ended : rows[w][Slot(keep[r])] = r
           /\ y' = [r \in Rows |-> IF r \in ended
                                   THEN reg[w][keep[r]] ++ vals[w][keep[r]]
                                   ELSE y[r]]
  /\ n' = [n EXCEPT ![w] = n[w] + WarpSize]
  /\ Goto(w, IF n[w] + WarpSize < End(w) THEN "carry" ELSE "carryOut")
  /\ UNCHANGED <<I, host, rows, vals, reg, stride, temp, written, group>>

CarryOut(w) ==
  /\ Step(w, "carryOut")
  /\ temp' = [temp EXCEPT ![w] = [row |-> rows[w][Slot(Last)], val |-> vals[w][Last]]]
  /\ written' = written \cup {w}
  /\ Goto(w, "exit")
  /\ UNCHANGED <<I, y, host, n, rows, vals, reg, stride, group>>

Warp(w) ==
  \/ Leave(w) \/ Start(w) \/ CarryIn(w) \/ FlushRead(w) \/ FlushWrite(w)
  \/ Scan(w) \/ EndsRead(w) \/ EndsWrite(w) \/ CarryOut(w)

(* clWaitForEvents returns when every warp has left the kernel.  The group *)
(* of the second kernel starts with the sentinel in its last slot and      *)
(* whatever local memory holds in the others.                              *)
FlatDone ==
  /\ host = "flat"
  /\ \A w \in Launched : pc[w] = "exit"
  /\ host' = "reduce"
  /\ \E junk \in Rows \cup {NoRow} :
       group' = [group EXCEPT !.rows = [s \in 0..Block |-> IF s = Block THEN NoRow ELSE junk]]
  /\ UNCHANGED <<I, y, flatVars>>

-----------------------------------------------------------------------------
(* kernel_coo_spmv_reduce_update.  A barrier ends each of these steps, so  *)
(* a step of the whole group is one action, except where y is updated.     *)

InGroup(label) ==
  /\ host = "reduce"
  /\ group.pc = label

Padded(i) == i >= ActiveWarps

(* What item i of all loads; a slot of temp that no warp has written holds *)
(* anything.                                                               *)
LoadedRow(i, junk) ==
  IF Padded(i) THEN NoRow ELSE IF i \in written THEN temp[i].row ELSE junk[i]
LoadedVal(i) ==
  IF Padded(i) THEN None ELSE IF i \in written THEN temp[i].val ELSE Only(Terms, NNZ)

(* A full block, or the last one, which is padded.                         *)
GroupLoad ==
  /\ InGroup("load")
  /\ group.base < ActiveWarps
  /\ \E junk \in [(0..ActiveWarps-1) \ written -> Rows \cup {NoRow}] :
       group' = [group EXCEPT
         !.rows = [s \in 0..Block |-> IF s \in Items THEN LoadedRow(group.base + s, junk)
                                                     ELSE group.rows[s]],
         !.vals = [s \in 0..Block |-> IF s \in Items THEN LoadedVal(group.base + s)
                                                     ELSE group.vals[s]],
         !.stride = 1,
         !.pc = "scan"]
  /\ UNCHANGED <<I, y, host, flatVars>>

(* One line of segreduce_block: read, barrier, add, barrier.               *)
GroupScan ==
  /\ InGroup("scan")
  /\ group.stride <= Block
  /\ LET Left(t) == IF t >= group.stride /\ group.rows[t] = group.rows[t - group.stride]
                    THEN group.vals[t - group.stride] ELSE None
     IN  group' = [group EXCEPT
           !.vals = [s \in 0..Block |-> IF s \in Items THEN @[s] ++ Left(s) ELSE @[s]],
           !.stride = 2 * @]
  /\ UNCHANGED <<I, y, host, flatVars>>

(* Fault: the next item's row is not compared.                             *)
AddersAll == {t \in Items : ~Padded(group.base + t)}

(* The items that add a carry to y, and the two halves of the update.      *)
Adders == {t \in Items : /\ group.rows[t] # group.rows[t + 1]
                         /\ ~Padded(group.base + t)}

GroupRead(t) ==
  /\ InGroup("scan")
  /\ group.stride > Block
  /\ t \in Adders \ (group.held \cup group.added)
  /\ group.rows[t] \in Rows
  /\ group' = [group EXCEPT !.reg[t] = y[group.rows[t]], !.held = @ \cup {t}]
  /\ UNCHANGED <<I, y, host, flatVars>>

GroupAdd(t) ==
  /\ InGroup("scan")
  /\ t \in group.held
  /\ y' = [y EXCEPT ![group.rows[t]] = group.reg[t] ++ group.vals[t]]
  /\ group' = [group EXCEPT !.held = @ \ {t}, !.added = @ \cup {t}]
  /\ UNCHANGED <<I, host, flatVars>>

(* The barrier at the end of a block.  Adding to y[-1] is outside of y.    *)
GroupNext ==
  /\ InGroup("scan")
  /\ group.stride > Block
  /\ {t \in Adders : group.rows[t] \in Rows} \subseteq group.added
  /\ group' = [group EXCEPT !.base = @ + Block, !.added = {}, !.pc = "load"]
  /\ UNCHANGED <<I, y, host, flatVars>>

(* Faults: the tail starts one entry early; shift is subtracted twice.     *)
GroupDoneEarly ==
  /\ InGroup("load")
  /\ group.base >= ActiveWarps
  /\ host' = "serial"
  /\ group' = [group EXCEPT !.base = Tail - 1]
  /\ UNCHANGED <<I, y, flatVars>>

GroupDoneShifted ==
  /\ InGroup("load")
  /\ group.base >= ActiveWarps
  /\ host' = "serial"
  /\ group' = [group EXCEPT !.base = Tail - NNZ]
  /\ UNCHANGED <<I, y, flatVars>>

GroupDone ==
  /\ InGroup("load")
  /\ group.base >= ActiveWarps
  /\ host' = "serial"
  /\ group' = [group EXCEPT !.base = Tail]
  /\ UNCHANGED <<I, y, flatVars>>

-----------------------------------------------------------------------------
(* kernel_coo_spmv_serial.  group.base is its loop variable plus shift.    *)

Serial ==
  /\ host = "serial"
  /\ group.base < NNZ
  /\ y' = [y EXCEPT ![I[group.base]] = @ ++ Only(Terms, group.base)]
  /\ group' = [group EXCEPT !.base = @ + 1]
  /\ UNCHANGED <<I, host, flatVars>>

SerialDone ==
  /\ host = "serial"
  /\ group.base >= NNZ
  /\ host' = "returned"
  /\ UNCHANGED <<I, y, flatVars, group>>

-----------------------------------------------------------------------------
Group  == GroupLoad \/ GroupScan \/ GroupNext \/ GroupDone
          \/ \E t \in Items : GroupRead(t) \/ GroupAdd(t)

Host == ZeroOut \/ FlatDone \/ Serial \/ SerialDone

AtRest == host = "returned" /\ UNCHANGED vars

Next == Host \/ Group \/ (\E w \in Launched : Warp(w)) \/ AtRest

(* The device runs every warp of a launch that it has accepted, and the    *)
(* host blocks in clWaitForEvents until it has.                            *)
Fairness == /\ WF_vars(Host)
            /\ WF_vars(Group)
            /\ \A w \in Launched : WF_vars(Warp(w))

Spec == Init /\ [][Next]_vars /\ Fairness

-----------------------------------------------------------------------------
(* Properties.                                                             *)

(* Every variable holds a value of its type.                               *)
TypeOK ==
  /\ I \in [0..NNZ-1 -> Rows]
  /\ y \in [Rows -> Sum]
  /\ host \in {"set", "flat", "reduce", "serial", "returned"}
  /\ pc \in [Launched -> {"start", "carry", "flush", "scan", "ends", "carryOut", "exit"}]
  /\ n \in [Launched -> Nat]
  /\ rows \in [Launched -> [Slots -> Rows \cup {NoRow}]]
  /\ vals \in [Launched -> [Lanes -> Sum]]
  /\ reg \in [Launched -> [Lanes -> Sum]]
  /\ stride \in [Launched -> Nat \ {0}]
  /\ temp \in [0..ActiveWarps-1 -> Carry]
  /\ written \subseteq Launched
  /\ group \in GroupState

(* The elements of y that a warp has read and is about to overwrite.       *)
Pending(w) ==
  CASE pc[w] = "flush" -> {rows[w][Slot(Last)]}
    [] pc[w] = "ends"  -> {rows[w][Slot(l)] : l \in Ends(w)}
    [] OTHER           -> {}

(* The updates of y in the flat kernel are plain reads and writes.  They   *)
(* are safe only because no two warps ever update the same element: the    *)
(* row that is open at the end of an interval goes to temp_rows, even when *)
(* it ends there, and only the warp in whose interval a row ends earlier   *)
(* adds to y.                                                              *)
NoWriteRace ==
  \A v, w \in Launched : v # w => Pending(v) \cap Pending(w) = {}

(* Neither do two lanes of a warp, which write in the same instruction.    *)
NoLaneRace ==
  \A w \in Launched : pc[w] = "ends" =>
    \A k, l \in Ends(w) : rows[w][Slot(k)] = rows[w][Slot(l)] => k = l

(* Nor do two work-items of the second kernel: the carries reach it        *)
(* ordered by row, so of equal ones only the last is added.                *)
NoCarryRace ==
  \A s, t \in group.held : group.rows[s] = group.rows[t] => s = t

(* A warp that has work has a slot in temp_rows and temp_vals, which the   *)
(* host allocates for active_warps, not for the warps it launches.         *)
CarryFits ==
  \A w \in Launched : pc[w] = "carryOut" => w < ActiveWarps

InCarries(z) == {i \in written : temp[i].val[z] # 0}

(* "Do the last few nonzeros separately": when the flat kernel has ended,  *)
(* every entry below the tail has been counted once, in the element of y   *)
(* of its row or in the carry of its row, and never in both.               *)
FlatHandlesAllButTail ==
  (host = "reduce" /\ group.pc = "load" /\ group.base = 0) =>
    \A z \in 0..Tail-1 :
      \/ y[I[z]][z] = 1 /\ InCarries(z) = {}
      \/ y[I[z]][z] = 0 /\ \E i \in written :
           InCarries(z) = {i} /\ temp[i] = [row |-> I[z], val |-> [temp[i].val EXCEPT ![z] = 1]]

(* The second kernel never reads a carry that no warp has written.         *)
CarriesWritten ==
  host = "reduce" => 0..ActiveWarps-1 \subseteq written

(* The kernels implement the abstract product, at every step, and multiply *)
(* returns: no warp loops or waits for ever.                               *)
Abstract == INSTANCE SpMV WITH
  Nonzeros <- 0..NNZ-1,
  Stale <- NNZ,
  row <- I,
  out <- y,
  returned <- (host = "returned")

ImplementsSpMV == Abstract!Spec

=============================================================================
