--------------------------- MODULE CooFlatProofs ---------------------------
(***************************************************************************)
(* Proofs about CooFlat, for every warp size, block size and matrix.       *)
(*                                                                         *)
(* No two warps ever hold a read-modify-write of the same element of y.    *)
(* The argument: the intervals of two warps are disjoint and the rows are  *)
(* ordered, so every row a warp adds to y is smaller than the row of the   *)
(* last entry of its interval, which is at most the first row of any later *)
(* interval.  The induction needs to know where a warp is in its interval, *)
(* that it always has a full chunk before it, and what its local rows hold.*)
(*                                                                         *)
(* The second half is for equal block sizes of host and kernel, or for a   *)
(* matrix so small that one group is launched: the warps that are launched *)
(* are then exactly those whose slots the second kernel reads.  There      *)
(* every register, carry and element of y is the sum over a set of entries *)
(* that the state names, so that an addition is right when the two sets    *)
(* are disjoint, and the three kernels implement SpMV.  What y holds       *)
(* before them is a parameter of the sums, so that they also say what      *)
(* becomes of it when the ELL kernel of HybMultiply has run first.         *)
(***************************************************************************)
EXTENDS HybMultiply, WellFoundedInduction, TLAPS

Multiple(k) == \E c \in Nat : k = WarpSize * c

Working == {"carry", "flush", "scan", "ends"}

(* A warp that is working has a whole chunk of its interval before it.     *)
InInterval(w) ==
  /\ pc[w] \in Working => /\ Begin(w) <= n[w]
                          /\ n[w] + WarpSize <= End(w)
                          /\ Multiple(n[w])
  /\ pc[w] = "carryOut" => Begin(w) < End(w)

(* The padding keeps a scan inside the warp.                               *)
PaddingHolds(w) ==
  pc[w] # "start" => \A s \in 0..HalfWarp-1 : rows[w][s] = NoRow

(* The carry is a row of this interval, and not one that is still ahead.   *)
CarryBehind(w) ==
  pc[w] \in {"carry", "flush"} =>
    /\ rows[w][Slot(Last)] \in Rows
    /\ I[Begin(w)] <= rows[w][Slot(Last)]
    /\ rows[w][Slot(Last)] <= I[n[w]]

CarryEnded(w) ==
  pc[w] = "flush" => rows[w][Slot(Last)] # I[n[w]]

ChunkLoaded(w) ==
  pc[w] \in {"scan", "ends"} =>
    \A l \in Lanes : rows[w][Slot(l)] = I[n[w] + l]

WarpInv(w) ==
  /\ InInterval(w)
  /\ PaddingHolds(w)
  /\ CarryBehind(w)
  /\ CarryEnded(w)
  /\ ChunkLoaded(w)

IInv ==
  /\ TypeOK
  /\ I \in RowOrdered
  /\ \A w \in Launched : WarpInv(w)

-----------------------------------------------------------------------------
(* The arithmetic of the launch.                                           *)

LEMMA HalfType ==
  /\ HalfWarp \in Nat \ {0}
  /\ WarpSize = 2 * HalfWarp
  /\ Lanes = 0..(2 * HalfWarp - 1)
  /\ Slots = 0..(3 * HalfWarp - 1)
  /\ Last = 2 * HalfWarp - 1
  /\ Last \in Lanes
  /\ Slot(Last) = 3 * HalfWarp - 1
BY SizeAssumption DEF HalfWarp, Lanes, Slots, Last, Slot

LEMMA DivType ==
  ASSUME NEW a \in Nat, NEW b \in Nat \ {0}
  PROVE  /\ a \div b \in Nat
         /\ (a \div b) * b <= a
         /\ a < (a \div b + 1) * b
BY SMTT(30)

LEMMA UnitsType ==
  /\ NumUnits \in Nat \ {0}
  /\ Tail \in Nat
  /\ Tail <= NNZ
<1>1. NumUnits \in Nat /\ NumUnits * WarpSize <= NNZ
  BY SizeAssumption, DivType DEF NumUnits
<1>2. NumUnits # 0
  <2>1. NNZ < (NumUnits + 1) * WarpSize
    BY SizeAssumption, DivType DEF NumUnits
  <2>2. NumUnits = 0 => NNZ < WarpSize
    BY <2>1, SizeAssumption
  <2>3. QED BY <2>2, SizeAssumption
<1>3. NumUnits * WarpSize \in Nat
  BY <1>1, SizeAssumption
<1>4. QED BY <1>1, <1>2, <1>3 DEF Tail

LEMMA LaunchType ==
  /\ NumWarps \in Nat \ {0}
  /\ NumIters \in Nat \ {0}
  /\ IntervalSize \in Nat \ {0}
  /\ NumBlocks \in Nat
<1>1. HostWarps * MaxBlocks \in Nat \ {0}
  BY SizeAssumption
<1>2. NumWarps \in Nat \ {0}
  BY <1>1, UnitsType DEF NumWarps, Minimum
<1>3. /\ NumUnits + (NumWarps - 1) \in Nat
      /\ NumWarps + (HostWarps - 1) \in Nat
      /\ HostWarps \in Nat \ {0}
  BY <1>2, UnitsType, SizeAssumption
<1>4. NumIters \in Nat /\ NumBlocks \in Nat
  BY <1>2, <1>3, DivType DEF NumIters, NumBlocks, CeilDiv
<1>5. NumIters # 0
  <2>1. NumUnits + (NumWarps - 1) < (NumIters + 1) * NumWarps
    BY <1>2, <1>3, DivType DEF NumIters, CeilDiv
  <2>2. SUFFICES ASSUME NumIters = 0 PROVE FALSE
    OBVIOUS
  <2>3. QED BY <2>1, <2>2, <1>2, UnitsType
<1>6. QED BY <1>2, <1>4, <1>5, SizeAssumption DEF IntervalSize

LEMMA LaunchedType ==
  ASSUME NEW w \in Launched
  PROVE  w \in Nat
<1>1. PICK g \in 0..NumBlocks-1, l \in 0..HostWarps-1 : w = KernelWarps * g + l
  BY DEF Launched
<1>2. KernelWarps * g \in Nat
  BY <1>1, LaunchType, SizeAssumption
<1>3. QED BY <1>1, <1>2, LaunchType, SizeAssumption

LEMMA BoundsType ==
  ASSUME NEW w \in Launched
  PROVE  /\ Begin(w) \in Nat
         /\ End(w) \in Nat
         /\ End(w) <= NNZ
<1>1. Begin(w) \in Nat
  BY LaunchedType, LaunchType DEF Begin
<1>2. QED BY <1>1, LaunchType, UnitsType, SizeAssumption DEF End, Minimum

(* Both ends of an interval are multiples of the warp size.                *)
LEMMA BoundsMultiple ==
  ASSUME NEW w \in Launched
  PROVE  Multiple(Begin(w)) /\ Multiple(End(w))
<1>1. w \in Nat /\ NumIters \in Nat /\ NumUnits \in Nat /\ WarpSize \in Nat
  BY LaunchedType, LaunchType, UnitsType, SizeAssumption
<1>2. Begin(w) = WarpSize * (w * NumIters)
  BY <1>1 DEF Begin, IntervalSize
<1>3. w * NumIters \in Nat /\ w * NumIters + NumIters \in Nat
  BY <1>1
<1>4. Begin(w) + IntervalSize = WarpSize * (w * NumIters + NumIters)
  BY <1>1, <1>2, <1>3 DEF IntervalSize
<1>5. Tail = WarpSize * NumUnits
  BY <1>1 DEF Tail
<1>6. End(w) \in {WarpSize * (w * NumIters + NumIters), WarpSize * NumUnits}
  BY <1>4, <1>5 DEF End, Minimum
<1>7. Multiple(Begin(w))
  BY <1>2, <1>3 DEF Multiple
<1>8. Multiple(End(w))
  BY <1>1, <1>3, <1>6 DEF Multiple
<1>9. QED BY <1>7, <1>8

(* So an interval is never left with less than a chunk.                    *)
LEMMA FullChunk ==
  ASSUME NEW a, NEW b, Multiple(a), Multiple(b), a < b
  PROVE  a + WarpSize <= b /\ Multiple(a + WarpSize)
<1>1. PICK c \in Nat : a = WarpSize * c
  BY DEF Multiple
<1>2. PICK d \in Nat : b = WarpSize * d
  BY DEF Multiple
<1>3. WarpSize \in Nat \ {0}
  BY SizeAssumption
<1>4. c < d
  <2>1. SUFFICES ASSUME d <= c PROVE FALSE
    BY <1>1, <1>2
  <2>2. WarpSize * d <= WarpSize * c
    <3>1. PICK e \in Nat : c = d + e
      BY <2>1
    <3>2. WarpSize * c = WarpSize * d + WarpSize * e /\ WarpSize * e \in Nat
      BY <3>1, <1>3
    <3>3. QED BY <3>2, <1>3
  <2>3. QED BY <2>2, <1>1, <1>2, <1>3
<1>5. PICK e \in Nat : d = (c + 1) + e
  BY <1>4
<1>6. /\ WarpSize * d = WarpSize * (c + 1) + WarpSize * e
      /\ WarpSize * (c + 1) = WarpSize * c + WarpSize
      /\ WarpSize * e \in Nat
  BY <1>5, <1>3
<1>7. a + WarpSize <= b
  BY <1>1, <1>2, <1>3, <1>6
<1>8. Multiple(a + WarpSize)
  BY <1>1, <1>6 DEF Multiple
<1>9. QED BY <1>7, <1>8

(* The intervals of two warps do not overlap.                              *)
LEMMA IntervalsDisjoint ==
  ASSUME NEW v \in Launched, NEW w \in Launched, v < w
  PROVE  End(v) <= Begin(w)
<1>1. v \in Nat /\ w \in Nat /\ IntervalSize \in Nat
  BY LaunchedType, LaunchType
<1>2. PICK e \in Nat : w = (v + 1) + e
  BY <1>1
<1>3. /\ w * IntervalSize = (v + 1) * IntervalSize + e * IntervalSize
      /\ (v + 1) * IntervalSize = v * IntervalSize + IntervalSize
      /\ e * IntervalSize \in Nat
      /\ v * IntervalSize \in Nat
  BY <1>1, <1>2
<1>4. Begin(v) + IntervalSize <= Begin(w)
  BY <1>1, <1>3 DEF Begin
<1>5. QED BY <1>4, BoundsType, LaunchType, UnitsType DEF End, Minimum

(* The entries of the chunk of a working warp are entries of its interval. *)
LEMMA ChunkEntries ==
  ASSUME TypeOK, NEW w \in Launched, InInterval(w), pc[w] \in Working, NEW l \in Lanes
  PROVE  /\ n[w] + l \in 0..NNZ-1
         /\ n[w] + l <= End(w) - 1
         /\ I[n[w] + l] \in Rows
BY SMTT(20), BoundsType, HalfType, SizeAssumption DEF TypeOK, InInterval, Lanes

-----------------------------------------------------------------------------
(* Formal sums.                                                            *)

LEMMA SumType ==
  /\ None \in Sum
  /\ \A t : Only(Terms, t) \in Sum
  /\ \A a, b \in Sum : a ++ b \in Sum
BY SizeAssumption DEF None, Zero, Only, Sum, Sums, ++

-----------------------------------------------------------------------------
(* The invariant holds initially and is kept by every step.                *)

LEMMA InitInv == Init => IInv
<1> SUFFICES ASSUME Init PROVE IInv
  OBVIOUS
<1>1. TypeOK
  BY SumType, HalfType, SizeAssumption
     DEF Init, TypeOK, RowOrdered, Carry, GroupState, Rows
<1>2. ASSUME NEW w \in Launched PROVE WarpInv(w)
  BY <1>2 DEF Init, WarpInv, InInterval, PaddingHolds, CarryBehind, CarryEnded,
              ChunkLoaded, Working
<1>3. QED BY <1>1, <1>2 DEF IInv, Init

(* A step that leaves I and the local state of a warp alone keeps what the *)
(* invariant says of it.                                                   *)
LEMMA Untouched ==
  ASSUME NEW w \in Launched, WarpInv(w), I' = I,
         pc'[w] = pc[w], n'[w] = n[w], rows'[w] = rows[w]
  PROVE  WarpInv(w)'
BY DEF WarpInv, InInterval, PaddingHolds, CarryBehind, CarryEnded, ChunkLoaded,
       Multiple, Begin, End, Minimum

LEMMA FilledType ==
  ASSUME TypeOK, NEW w \in Launched
  PROVE  /\ Filled(w) \in [Slots -> Rows \cup {NoRow}]
         /\ \A s \in 0..HalfWarp-1 : Filled(w)[s] = NoRow
BY HalfType DEF Filled, TypeOK

LEMMA LeaveInv ==
  ASSUME IInv, NEW w \in Launched, Leave(w)
  PROVE  IInv'
<1> USE DEF Leave, Step, Goto
<1>1. I' = I /\ I \in RowOrdered /\ TypeOK
  BY DEF IInv
<1>2. TypeOK'
  BY <1>1, FilledType DEF TypeOK
<1>3. pc'[w] = "exit" /\ rows'[w] = Filled(w)
  BY <1>1 DEF TypeOK
<1>4. WarpInv(w)'
  BY <1>1, <1>3, FilledType
     DEF WarpInv, InInterval, PaddingHolds, CarryBehind, CarryEnded, ChunkLoaded, Working
<1>5. ASSUME NEW v \in Launched, v # w PROVE WarpInv(v)'
  BY <1>1, <1>5, Untouched DEF IInv, TypeOK
<1>6. QED BY <1>1, <1>2, <1>4, <1>5 DEF IInv

LEMMA StartInv ==
  ASSUME IInv, NEW w \in Launched, Start(w)
  PROVE  IInv'
<1> USE DEF Start, Step, Goto
<1>1. I' = I /\ I \in RowOrdered /\ TypeOK
  BY DEF IInv
<1>2. /\ Begin(w) \in 0..NNZ-1
      /\ I[Begin(w)] \in Rows
  BY <1>1, BoundsType, SizeAssumption DEF TypeOK
<1>3. Slot(Last) \in Slots /\ Slot(Last) \notin 0..HalfWarp-1
  BY HalfType
<1>4. rows'[w] \in [Slots -> Rows \cup {NoRow}]
  <2>1. rows'[w] = [Filled(w) EXCEPT ![Slot(Last)] = I[Begin(w)]]
    BY <1>1 DEF TypeOK
  <2>2. QED BY ZenonT(30), <2>1, <1>1, <1>2, FilledType
<1>5. /\ pc'[w] = "carry"
      /\ n'[w] = Begin(w)
      /\ rows'[w][Slot(Last)] = I[Begin(w)]
      /\ \A s \in 0..HalfWarp-1 : rows'[w][s] = NoRow
  <2>1. rows'[w] = [Filled(w) EXCEPT ![Slot(Last)] = I[Begin(w)]]
    BY <1>1 DEF TypeOK
  <2>2. \A s \in 0..HalfWarp-1 : s \in Slots
    BY HalfType
  <2>3. QED BY <2>1, <2>2, <1>1, <1>3, FilledType DEF TypeOK
<1>6. TypeOK'
  <2>1. rows' \in [Launched -> [Slots -> Rows \cup {NoRow}]]
    BY <1>1, <1>4 DEF TypeOK
  <2>2. vals' \in [Launched -> [Lanes -> Sum]]
    BY <1>1, SumType DEF TypeOK
  <2>3. QED BY <1>1, <1>2, <2>1, <2>2 DEF TypeOK
<1>7. Begin(w) + WarpSize <= End(w) /\ Multiple(Begin(w))
  BY BoundsMultiple, FullChunk
<1>8. I[Begin(w)] <= I[Begin(w)]
  BY <1>2 DEF Rows
<1>9. InInterval(w)'
  BY <1>5, <1>7, BoundsType DEF InInterval, Begin, End, Minimum, Multiple
<1>10. WarpInv(w)'
  BY <1>1, <1>2, <1>5, <1>8, <1>9
     DEF WarpInv, PaddingHolds, CarryBehind, CarryEnded, ChunkLoaded, Begin
<1>11. ASSUME NEW v \in Launched, v # w PROVE WarpInv(v)'
  BY <1>1, <1>11, Untouched DEF IInv, TypeOK
<1>12. QED BY <1>1, <1>6, <1>10, <1>11 DEF IInv

(* Loading a chunk: what CarryIn and FlushWrite have in common.            *)
LEMMA StoreInv ==
  ASSUME TypeOK, NEW w \in Launched, WarpInv(w), pc[w] \in {"carry", "flush"},
         NEW first \in Sum, Store(w, first), Goto(w, "scan"), UNCHANGED <<I, n>>
  PROVE  /\ rows' \in [Launched -> [Slots -> Rows \cup {NoRow}]]
         /\ vals' \in [Launched -> [Lanes -> Sum]]
         /\ stride' \in [Launched -> Nat \ {0}]
         /\ pc' \in [Launched -> {"start", "carry", "flush", "scan", "ends", "carryOut", "exit"}]
         /\ WarpInv(w)'
<1> USE DEF Store, Goto
<1>1. \A l \in Lanes : I[n[w] + l] \in Rows
  BY ChunkEntries DEF WarpInv, Working
<1>2. \A s \in Slots : s >= HalfWarp => s - HalfWarp \in Lanes
  BY HalfType
<1>3. rows' \in [Launched -> [Slots -> Rows \cup {NoRow}]]
  BY <1>1, <1>2, HalfType DEF TypeOK
<1>4. /\ vals' \in [Launched -> [Lanes -> Sum]]
      /\ stride' \in [Launched -> Nat \ {0}]
      /\ pc' \in [Launched -> {"start", "carry", "flush", "scan", "ends", "carryOut", "exit"}]
      /\ pc'[w] = "scan"
  BY SumType DEF TypeOK
<1>5. \A s \in 0..HalfWarp-1 : rows'[w][s] = NoRow
  BY HalfType DEF TypeOK, WarpInv, PaddingHolds
<1>6. \A l \in Lanes : rows'[w][Slot(l)] = I[n[w] + l]
  <2>1. \A l \in Lanes : Slot(l) \in Slots /\ ~(Slot(l) < HalfWarp) /\ Slot(l) - HalfWarp = l
    BY HalfType DEF Slot
  <2>2. QED BY <2>1 DEF TypeOK
<1>7. InInterval(w)'
  BY DEF WarpInv, InInterval, Working, Begin, End, Minimum, Multiple
<1>8. QED
  BY ZenonT(30), <1>3, <1>4, <1>5, <1>6, <1>7
     DEF WarpInv, PaddingHolds, CarryBehind, CarryEnded, ChunkLoaded

LEMMA CarryInInv ==
  ASSUME IInv, NEW w \in Launched, CarryIn(w)
  PROVE  IInv'
<1> USE DEF CarryIn, Step
<1> DEFINE first == Only(Terms, n[w]) ++ vals[w][Last]
<1>1. I' = I /\ I \in RowOrdered /\ TypeOK /\ WarpInv(w) /\ pc[w] = "carry" /\ n' = n
  BY DEF IInv
<1>2. first \in Sum /\ Store(w, first) /\ Goto(w, "scan")
  BY <1>1, HalfType, SumType DEF TypeOK
<1> HIDE DEF first
<1>3. /\ rows' \in [Launched -> [Slots -> Rows \cup {NoRow}]]
      /\ vals' \in [Launched -> [Lanes -> Sum]]
      /\ stride' \in [Launched -> Nat \ {0}]
      /\ pc' \in [Launched -> {"start", "carry", "flush", "scan", "ends", "carryOut", "exit"}]
      /\ WarpInv(w)'
  BY <1>1, <1>2, StoreInv
<1>4. TypeOK'
  BY <1>1, <1>3 DEF TypeOK
<1>5. ASSUME NEW v \in Launched, v # w PROVE WarpInv(v)'
  BY <1>1, <1>2, <1>5, Untouched DEF IInv, TypeOK, Store, Goto
<1>6. QED BY <1>1, <1>3, <1>4, <1>5 DEF IInv

LEMMA FlushReadInv ==
  ASSUME IInv, NEW w \in Launched, FlushRead(w)
  PROVE  IInv'
<1> USE DEF FlushRead, Step, Goto
<1>1. I' = I /\ I \in RowOrdered /\ TypeOK /\ WarpInv(w) /\ pc[w] = "carry" /\ n' = n
      /\ rows' = rows
  BY DEF IInv
<1>2. rows[w][Slot(Last)] \in Rows /\ rows[w][Slot(Last)] # I[n[w]]
  BY <1>1 DEF WarpInv, CarryBehind, CarryContinues
<1>3. 0 \in Lanes
  BY HalfType
<1>4. TypeOK'
  BY <1>1, <1>2, <1>3 DEF TypeOK
<1>5. WarpInv(w)'
  BY <1>1, <1>2
     DEF TypeOK, WarpInv, InInterval, PaddingHolds, CarryBehind, CarryEnded, ChunkLoaded,
         Working, Begin, End, Minimum, Multiple
<1>6. ASSUME NEW v \in Launched, v # w PROVE WarpInv(v)'
  BY <1>1, <1>6, Untouched DEF IInv, TypeOK
<1>7. QED BY <1>1, <1>4, <1>5, <1>6 DEF IInv

LEMMA FlushWriteInv ==
  ASSUME IInv, NEW w \in Launched, FlushWrite(w)
  PROVE  IInv'
<1> USE DEF FlushWrite, Step
<1> DEFINE first == Only(Terms, n[w])
<1>1. I' = I /\ I \in RowOrdered /\ TypeOK /\ WarpInv(w) /\ pc[w] = "flush" /\ n' = n
  BY DEF IInv
<1>2. first \in Sum /\ Store(w, first) /\ Goto(w, "scan")
  BY <1>1, SumType
<1> HIDE DEF first
<1>3. /\ rows' \in [Launched -> [Slots -> Rows \cup {NoRow}]]
      /\ vals' \in [Launched -> [Lanes -> Sum]]
      /\ stride' \in [Launched -> Nat \ {0}]
      /\ pc' \in [Launched -> {"start", "carry", "flush", "scan", "ends", "carryOut", "exit"}]
      /\ WarpInv(w)'
  BY <1>1, <1>2, StoreInv
<1>4. y' \in [Rows -> Sum]
  <2>1. reg[w][0] ++ vals[w][Last] \in Sum
    BY <1>1, HalfType, SumType DEF TypeOK
  <2>2. QED BY <1>1, <2>1 DEF TypeOK
<1>5. TypeOK'
  BY <1>1, <1>3, <1>4 DEF TypeOK
<1>6. ASSUME NEW v \in Launched, v # w PROVE WarpInv(v)'
  BY <1>1, <1>2, <1>6, Untouched DEF IInv, TypeOK, Store, Goto
<1>7. QED BY <1>1, <1>3, <1>5, <1>6 DEF IInv

(* A scan never reads a sum from before the first lane: the row there is   *)
(* the padding, which is the row of no entry.                              *)
LEMMA ScanInv ==
  ASSUME IInv, NEW w \in Launched, Scan(w)
  PROVE  IInv'
<1> USE DEF Scan, Step
<1>1. I' = I /\ I \in RowOrdered /\ TypeOK /\ WarpInv(w) /\ pc[w] = "scan"
      /\ pc' = pc /\ n' = n /\ rows' = rows
  BY DEF IInv
<1> DEFINE scanned == [l \in Lanes |-> IF rows[w][Slot(l)] = rows[w][Slot(l) - stride[w]]
                                       THEN vals[w][l] ++ vals[w][l - stride[w]]
                                       ELSE vals[w][l]]
<1>2. scanned \in [Lanes -> Sum]
  <2> SUFFICES ASSUME NEW l \in Lanes PROVE scanned[l] \in Sum
    OBVIOUS
  <2>1. CASE l - stride[w] \in Lanes
    BY <1>1, <2>1, SumType DEF TypeOK
  <2>2. CASE l - stride[w] \notin Lanes
    <3>1. stride[w] \in Nat \ {0} /\ stride[w] <= HalfWarp
      BY <1>1 DEF TypeOK
    <3>2. Slot(l) - stride[w] \in 0..HalfWarp-1
      BY <2>2, <3>1, HalfType DEF Slot
    <3>3. rows[w][Slot(l) - stride[w]] = NoRow
      BY <1>1, <3>2 DEF WarpInv, PaddingHolds
    <3>4. rows[w][Slot(l)] \in Rows
      BY <1>1, ChunkEntries DEF WarpInv, ChunkLoaded, Working
    <3>5. rows[w][Slot(l)] # rows[w][Slot(l) - stride[w]]
      BY <3>3, <3>4 DEF Rows, NoRow
    <3>6. QED BY <1>1, <3>5 DEF TypeOK
  <2>3. QED BY <2>1, <2>2
<1>3. vals' \in [Launched -> [Lanes -> Sum]]
  <2> vals' = [vals EXCEPT ![w] = scanned]
    OBVIOUS
  <2> HIDE DEF scanned
  <2> QED BY <1>1, <1>2 DEF TypeOK
<1>4. stride' \in [Launched -> Nat \ {0}]
  BY <1>1 DEF TypeOK
<1>5. TypeOK'
  BY <1>1, <1>3, <1>4 DEF TypeOK
<1>6. ASSUME NEW v \in Launched PROVE WarpInv(v)'
  BY <1>1, Untouched DEF IInv
<1>7. QED BY <1>1, <1>5, <1>6 DEF IInv

LEMMA EndsType ==
  ASSUME IInv, NEW w \in Launched, pc[w] \in {"scan", "ends"}, NEW l \in Ends(w)
  PROVE  /\ l \in Lanes
         /\ l + 1 \in Lanes
         /\ rows[w][Slot(l)] = I[n[w] + l]
         /\ rows[w][Slot(l)] \in Rows
         /\ rows[w][Slot(l + 1)] = I[n[w] + (l + 1)]
<1>1. l \in Lanes /\ l + 1 \in Lanes
  BY HalfType DEF Ends
<1>2. TypeOK /\ ChunkLoaded(w) /\ InInterval(w) /\ pc[w] \in Working
  BY DEF IInv, WarpInv, Working
<1>3. QED BY <1>1, <1>2, ChunkEntries DEF ChunkLoaded

LEMMA EndsReadInv ==
  ASSUME IInv, NEW w \in Launched, EndsRead(w)
  PROVE  IInv'
<1> USE DEF EndsRead, Step, Goto
<1>1. I' = I /\ I \in RowOrdered /\ TypeOK /\ WarpInv(w) /\ pc[w] = "scan"
      /\ n' = n /\ rows' = rows
  BY DEF IInv
<1> DEFINE read == [l \in Lanes |-> IF l \in Ends(w) THEN y[rows[w][Slot(l)]] ELSE reg[w][l]]
<1>2. read \in [Lanes -> Sum]
  BY <1>1, EndsType DEF TypeOK
<1>3. reg' \in [Launched -> [Lanes -> Sum]]
  <2> reg' = [reg EXCEPT ![w] = read]
    OBVIOUS
  <2> HIDE DEF read
  <2> QED BY <1>1, <1>2 DEF TypeOK
<1>4. TypeOK'
  BY <1>1, <1>3 DEF TypeOK
<1>5. WarpInv(w)'
  BY <1>1
     DEF TypeOK, WarpInv, InInterval, PaddingHolds, CarryBehind, CarryEnded, ChunkLoaded,
         Working, Begin, End, Minimum, Multiple
<1>6. ASSUME NEW v \in Launched, v # w PROVE WarpInv(v)'
  BY <1>1, <1>6, Untouched DEF IInv, TypeOK
<1>7. QED BY <1>1, <1>4, <1>5, <1>6 DEF IInv

(* The next chunk, if any, is a full one, and the row of the carry, that   *)
(* of the last entry of this chunk, does not come after its first row.     *)
LEMMA EndsWriteInv ==
  ASSUME IInv, NEW w \in Launched, EndsWrite(w)
  PROVE  IInv'
<1> USE DEF EndsWrite, Step, Goto
<1>1. I' = I /\ I \in RowOrdered /\ TypeOK /\ WarpInv(w) /\ pc[w] = "ends" /\ rows' = rows
  BY DEF IInv
<1>2. /\ n[w] \in Nat
      /\ n' = [n EXCEPT ![w] = n[w] + WarpSize]
      /\ n'[w] = n[w] + WarpSize
  BY <1>1 DEF TypeOK
<1>3. y' \in [Rows -> Sum]
  <2> DEFINE ended == {rows[w][Slot(l)] : l \in Ends(w)}
  <2>1. PICK keep \in [ended -> Ends(w)] :
          y' = [r \in Rows |-> IF r \in ended THEN reg[w][keep[r]] ++ vals[w][keep[r]] ELSE y[r]]
    OBVIOUS
  <2>2. \A r \in ended : reg[w][keep[r]] \in Sum /\ vals[w][keep[r]] \in Sum
    <3>1. \A l \in Ends(w) : l \in Lanes
      BY <1>1, EndsType
    <3> HIDE DEF ended
    <3>2. QED BY <1>1, <2>1, <3>1 DEF TypeOK
  <2>3. \A r \in ended : reg[w][keep[r]] ++ vals[w][keep[r]] \in Sum
    BY <2>2, SumType
  <2>4. QED BY <1>1, <2>1, <2>3 DEF TypeOK
<1>4. TypeOK'
  BY <1>1, <1>2, <1>3, SizeAssumption DEF TypeOK
<1>5. WarpInv(w)'
  <2>1. pc'[w] = (IF n[w] + WarpSize < End(w) THEN "carry" ELSE "carryOut")
    BY <1>1 DEF TypeOK
  <2>2. PaddingHolds(w)'
    BY <1>1 DEF WarpInv, PaddingHolds
  <2>3. CASE n[w] + WarpSize < End(w)
    <3>1. /\ Begin(w) <= n[w]
          /\ n[w] + WarpSize <= End(w)
          /\ Multiple(n[w])
      BY <1>1 DEF WarpInv, InInterval, Working
    <3>2. Multiple(n[w] + WarpSize)
      <4>1. n[w] < End(w)
        BY <1>2, <3>1, BoundsType, SizeAssumption
      <4>2. QED BY <3>1, <4>1, FullChunk, BoundsMultiple
    <3>3. (n[w] + WarpSize) + WarpSize <= End(w)
      BY <2>3, <3>2, FullChunk, BoundsMultiple
    <3>4. InInterval(w)'
      <4>1. Begin(w) <= n'[w] /\ n'[w] + WarpSize <= End(w) /\ Multiple(n'[w])
        BY <1>2, <3>1, <3>2, <3>3, BoundsType, SizeAssumption
      <4>2. pc'[w] = "carry"
        BY <2>1, <2>3
      <4>3. QED BY <4>1, <4>2 DEF InInterval, Begin, End, Minimum, Multiple
    <3>5. rows[w][Slot(Last)] = I[n[w] + Last] /\ I[n[w] + Last] \in Rows
      BY <1>1, HalfType, ChunkEntries DEF WarpInv, ChunkLoaded, Working
    <3>6. /\ Begin(w) \in 0..NNZ-1
          /\ n[w] + Last \in 0..NNZ-1
          /\ n[w] + WarpSize \in 0..NNZ-1
          /\ Begin(w) <= n[w] + Last
          /\ n[w] + Last <= n[w] + WarpSize
      BY <1>2, <2>3, <3>1, BoundsType, HalfType, SizeAssumption DEF Last
    <3>7. I[Begin(w)] <= I[n[w] + Last] /\ I[n[w] + Last] <= I[n[w] + WarpSize]
      BY <1>1, <3>6 DEF RowOrdered
    <3>8. QED
      BY <1>1, <1>2, <2>1, <2>2, <2>3, <3>4, <3>5, <3>7
         DEF WarpInv, CarryBehind, CarryEnded, ChunkLoaded, Begin
  <2>4. CASE ~(n[w] + WarpSize < End(w))
    <3>1. Begin(w) <= n[w] /\ n[w] + WarpSize <= End(w)
      BY <1>1 DEF WarpInv, InInterval, Working
    <3>2. Begin(w) < End(w)
      BY <1>2, <3>1, BoundsType, SizeAssumption
    <3>3. QED
      BY <1>1, <2>1, <2>2, <2>4, <3>2
         DEF WarpInv, InInterval, CarryBehind, CarryEnded, ChunkLoaded, Working,
             Begin, End, Minimum
  <2>5. QED BY <2>3, <2>4
<1>6. ASSUME NEW v \in Launched, v # w PROVE WarpInv(v)'
  BY <1>1, <1>2, <1>6, Untouched DEF IInv, TypeOK
<1>7. QED BY <1>1, <1>4, <1>5, <1>6 DEF IInv

LEMMA CarryOutInv ==
  ASSUME IInv, NEW w \in Launched, CarryOut(w)
  PROVE  IInv'
<1> USE DEF CarryOut, Step, Goto
<1>1. I' = I /\ I \in RowOrdered /\ TypeOK /\ WarpInv(w) /\ pc[w] = "carryOut"
      /\ n' = n /\ rows' = rows
  BY DEF IInv
<1>2. [row |-> rows[w][Slot(Last)], val |-> vals[w][Last]] \in Carry
  <2>1. Slot(Last) \in Slots
    BY HalfType
  <2>2. QED BY <1>1, <2>1, HalfType DEF TypeOK, Carry
<1>3. TypeOK'
  BY <1>1, <1>2 DEF TypeOK
<1>4. WarpInv(w)'
  BY <1>1
     DEF TypeOK, WarpInv, InInterval, PaddingHolds, CarryBehind, CarryEnded, ChunkLoaded, Working
<1>5. ASSUME NEW v \in Launched, v # w PROVE WarpInv(v)'
  BY <1>1, <1>5, Untouched DEF IInv, TypeOK
<1>6. QED BY <1>1, <1>3, <1>4, <1>5 DEF IInv

(* The other steps leave the warps alone.                                  *)
LEMMA OutsideFlat ==
  ASSUME IInv, UNCHANGED <<I, flatVars>>,
         host' \in {"set", "flat", "reduce", "serial", "returned"},
         y' \in [Rows -> Sum], group' \in GroupState
  PROVE  IInv'
<1>1. TypeOK'
  BY DEF IInv, TypeOK, flatVars
<1>2. ASSUME NEW v \in Launched PROVE WarpInv(v)'
  BY <1>2, Untouched DEF IInv, flatVars
<1>3. QED BY <1>1, <1>2 DEF IInv

LEMMA GroupFields ==
  ASSUME NEW g \in GroupState
  PROVE  /\ \A b \in Nat : [g EXCEPT !.base = b] \in GroupState
         /\ \A s \in Nat \ {0} : [g EXCEPT !.stride = s] \in GroupState
         /\ \A p \in {"load", "scan"} : [g EXCEPT !.pc = p] \in GroupState
         /\ \A r \in [0..Block -> Rows \cup {NoRow}] : [g EXCEPT !.rows = r] \in GroupState
         /\ \A v \in [0..Block -> Sum] : [g EXCEPT !.vals = v] \in GroupState
         /\ \A v \in [Items -> Sum] : [g EXCEPT !.reg = v] \in GroupState
         /\ \A h \in SUBSET Items : [g EXCEPT !.held = h] \in GroupState
         /\ \A a \in SUBSET Items : [g EXCEPT !.added = a] \in GroupState
<1> DEFINE R == [0..Block -> Rows \cup {NoRow}]
           V == [0..Block -> Sum]
           U == [Items -> Sum]
           H == SUBSET Items
<1>1. GroupState = [pc : {"load", "scan"}, base : Nat, stride : Nat \ {0},
                    rows : R, vals : V, reg : U, held : H, added : H]
  BY DEF GroupState
<1> HIDE DEF R, V, U, H
<1>2. /\ \A b \in Nat : [g EXCEPT !.base = b] \in GroupState
      /\ \A s \in Nat \ {0} : [g EXCEPT !.stride = s] \in GroupState
      /\ \A p \in {"load", "scan"} : [g EXCEPT !.pc = p] \in GroupState
  BY <1>1
<1>3. /\ \A r \in R : [g EXCEPT !.rows = r] \in GroupState
      /\ \A v \in V : [g EXCEPT !.vals = v] \in GroupState
      /\ \A v \in U : [g EXCEPT !.reg = v] \in GroupState
  BY <1>1
<1>4. /\ \A h \in H : [g EXCEPT !.held = h] \in GroupState
      /\ \A a \in H : [g EXCEPT !.added = a] \in GroupState
  BY <1>1
<1>5. QED BY <1>2, <1>3, <1>4 DEF R, V, U, H

LEMMA GroupSizes ==
  /\ Block \in Nat \ {0}
  /\ Items \subseteq 0..Block
  /\ \A t \in Items : t + 1 \in 0..Block
<1>1. Block \in Nat \ {0}
  BY SizeAssumption DEF Block
<1>2. HostWarps * WarpSize <= Block
  <2>1. PICK e \in Nat : KernelWarps = HostWarps + e
    BY SizeAssumption
  <2>2. KernelWarps * WarpSize = HostWarps * WarpSize + e * WarpSize /\ e * WarpSize \in Nat
    BY <2>1, SizeAssumption
  <2>3. QED BY <2>2, SizeAssumption DEF Block
<1>3. HostWarps * WarpSize \in Nat
  BY SizeAssumption
<1>4. QED BY <1>1, <1>2, <1>3 DEF Items

LEMMA HostInv ==
  ASSUME IInv, Host
  PROVE  IInv'
<1>1. TypeOK
  BY DEF IInv
<1>2. CASE ZeroOut
  BY <1>1, <1>2, SumType, OutsideFlat DEF ZeroOut, TypeOK
<1>3. CASE FlatDone
  <2>1. PICK junk \in Rows \cup {NoRow} :
          group' = [group EXCEPT !.rows = [s \in 0..Block |-> IF s = Block THEN NoRow ELSE junk]]
    BY <1>3 DEF FlatDone
  <2> DEFINE newRows == [s \in 0..Block |-> IF s = Block THEN NoRow ELSE junk]
  <2>2. group' \in GroupState
    <3>1. newRows \in [0..Block -> Rows \cup {NoRow}]
      OBVIOUS
    <3> HIDE DEF newRows
    <3>2. group' = [group EXCEPT !.rows = newRows]
      BY <2>1 DEF newRows
    <3>3. QED BY <1>1, <3>1, <3>2 DEF TypeOK, GroupState
  <2>3. QED BY <1>1, <1>3, <2>2, OutsideFlat DEF FlatDone, TypeOK
<1>4. CASE Serial
  <2>1. group.base \in 0..NNZ-1 /\ group' \in GroupState
    <3>1. group.base \in 0..NNZ-1 /\ group.base + 1 \in Nat /\ group \in GroupState
      BY <1>1, <1>4, SizeAssumption DEF Serial, TypeOK, GroupState
    <3>2. QED BY <1>4, <3>1, GroupFields DEF Serial
  <2>2. y[I[group.base]] ++ Only(Terms, group.base) \in Sum
    BY <1>1, <2>1, SumType DEF TypeOK
  <2>3. y' \in [Rows -> Sum]
    BY <1>1, <1>4, <2>2 DEF Serial, TypeOK
  <2>4. QED BY <1>1, <1>4, <2>1, <2>3, OutsideFlat DEF Serial, TypeOK
<1>5. CASE SerialDone
  BY <1>1, <1>5, OutsideFlat DEF SerialDone, TypeOK
<1>6. QED BY <1>2, <1>3, <1>4, <1>5 DEF Host

LEMMA GroupLoadInv ==
  ASSUME IInv, GroupLoad
  PROVE  IInv'
<1> USE DEF GroupLoad
<1>1. TypeOK /\ group \in GroupState
  BY DEF IInv, TypeOK
<1>2. PICK junk \in [(0..ActiveWarps-1) \ written -> Rows \cup {NoRow}] :
        group' = [group EXCEPT
          !.rows = [s \in 0..Block |-> IF s \in Items THEN LoadedRow(group.base + s, junk)
                                                      ELSE group.rows[s]],
          !.vals = [s \in 0..Block |-> IF s \in Items THEN LoadedVal(group.base + s)
                                                      ELSE group.vals[s]],
          !.stride = 1,
          !.pc = "scan"]
  OBVIOUS
<1> DEFINE newRows == [s \in 0..Block |-> IF s \in Items THEN LoadedRow(group.base + s, junk)
                                                         ELSE group.rows[s]]
           newVals == [s \in 0..Block |-> IF s \in Items THEN LoadedVal(group.base + s)
                                                         ELSE group.vals[s]]
<1>3. \A i \in Nat : LoadedRow(i, junk) \in Rows \cup {NoRow} /\ LoadedVal(i) \in Sum
  <2>1. \A i \in Nat : ~Padded(i) => i \in 0..ActiveWarps-1
    <3>1. ActiveWarps \in Nat
      <4>1. Tail + (IntervalSize - 1) \in Nat
        BY LaunchType, UnitsType
      <4>2. QED BY <4>1, LaunchType, DivType DEF ActiveWarps, CeilDiv
    <3>2. QED BY <3>1 DEF Padded
  <2>2. \A i \in 0..ActiveWarps-1 : temp[i].row \in Rows \cup {NoRow} /\ temp[i].val \in Sum
    BY <1>1 DEF TypeOK, Carry
  <2>3. \A i \in (0..ActiveWarps-1) \ written : junk[i] \in Rows \cup {NoRow}
    BY <1>2
  <2>4. None \in Sum /\ Only(Terms, NNZ) \in Sum
    BY SumType
  <2>5. QED BY <2>1, <2>2, <2>3, <2>4 DEF LoadedRow, LoadedVal
<1>4. \A s \in Items : s \in Nat /\ group.base + s \in Nat
  BY <1>1, GroupSizes DEF GroupState, Items
<1>5. newRows \in [0..Block -> Rows \cup {NoRow}]
  BY <1>1, <1>3, <1>4 DEF GroupState
<1>6. newVals \in [0..Block -> Sum]
  BY <1>1, <1>3, <1>4 DEF GroupState
<1>7. group' = [group EXCEPT !.rows = newRows, !.vals = newVals, !.stride = 1, !.pc = "scan"]
  BY <1>2
<1>8. group' \in GroupState
  <2> HIDE DEF newRows, newVals
  <2>1. [group EXCEPT !.rows = newRows] \in GroupState
    BY <1>1, <1>5, GroupFields
  <2> DEFINE g == [group EXCEPT !.rows = newRows, !.vals = newVals]
  <2>2. g \in GroupState
    BY <2>1, <1>6, GroupFields
  <2>3. group' = [g EXCEPT !.stride = 1, !.pc = "scan"]
    BY <1>7
  <2> HIDE DEF g
  <2>4. 1 \in Nat \ {0}
    OBVIOUS
  <2> DEFINE h == [g EXCEPT !.stride = 1]
  <2>5. h \in GroupState
    BY <2>2, <2>4, GroupFields
  <2>6. group' = [h EXCEPT !.pc = "scan"]
    BY <2>3
  <2> HIDE DEF h
  <2>7. QED BY <2>5, <2>6, GroupFields
<1>9. QED BY <1>1, <1>8, OutsideFlat DEF TypeOK

LEMMA GroupScanInv ==
  ASSUME IInv, GroupScan
  PROVE  IInv'
<1> USE DEF GroupScan
<1>1. TypeOK /\ group \in GroupState
  BY DEF IInv, TypeOK
<1> DEFINE Left(t) == IF t >= group.stride /\ group.rows[t] = group.rows[t - group.stride]
                      THEN group.vals[t - group.stride] ELSE None
           newVals == [s \in 0..Block |-> IF s \in Items THEN group.vals[s] ++ Left(s)
                                                         ELSE group.vals[s]]
<1>2. /\ group.stride \in Nat \ {0}
      /\ group.vals \in [0..Block -> Sum]
      /\ 2 * group.stride \in Nat \ {0}
  BY <1>1 DEF GroupState
<1>3. \A t \in Items : Left(t) \in Sum
  BY <1>2, GroupSizes, SumType
<1>4. newVals \in [0..Block -> Sum]
  <2> HIDE DEF Left
  <2>1. \A t \in Items : group.vals[t] ++ Left(t) \in Sum
    BY <1>2, <1>3, GroupSizes, SumType
  <2>2. QED BY <1>2, <2>1
<1>5. group' = [group EXCEPT !.vals = newVals, !.stride = 2 * group.stride]
  OBVIOUS
<1>6. group' \in GroupState
  <2> HIDE DEF newVals
  <2>1. [group EXCEPT !.vals = newVals] \in GroupState
    BY <1>1, <1>4, GroupFields
  <2>2. QED BY ZenonT(30), <1>2, <1>5, <2>1, GroupFields
<1>7. QED BY <1>1, <1>6, OutsideFlat DEF TypeOK

LEMMA GroupInv ==
  ASSUME IInv, Group
  PROVE  IInv'
<1>1. TypeOK /\ group \in GroupState
  BY DEF IInv, TypeOK
<1>2. CASE GroupLoad
  BY <1>2, GroupLoadInv
<1>3. CASE GroupScan
  BY <1>3, GroupScanInv
<1>4. CASE GroupNext
  <2> USE DEF GroupNext
  <2>1. group.base + Block \in Nat
    BY <1>1, GroupSizes DEF GroupState
  <2>2. [group EXCEPT !.base = group.base + Block] \in GroupState
    BY <1>1, <2>1, GroupFields
  <2>3. [group EXCEPT !.base = group.base + Block, !.added = {}] \in GroupState
    BY <2>2, GroupFields
  <2>4. group' \in GroupState
    BY <1>4, <2>3, GroupFields
  <2>5. QED BY <1>1, <1>4, <2>4, OutsideFlat DEF TypeOK
<1>5. CASE GroupDone
  <2>1. group' \in GroupState
    BY <1>1, <1>5, GroupFields, UnitsType DEF GroupDone
  <2>2. QED BY <1>1, <1>5, <2>1, OutsideFlat DEF GroupDone, TypeOK
<1>6. ASSUME NEW t \in Items, GroupRead(t)
      PROVE  IInv'
  <2> USE DEF GroupRead
  <2> DEFINE newReg == [group.reg EXCEPT ![t] = y[group.rows[t]]]
  <2>1. newReg \in [Items -> Sum]
    BY <1>1, <1>6 DEF TypeOK, GroupState
  <2>2. group.held \cup {t} \in SUBSET Items
    BY <1>1 DEF GroupState
  <2>3. group' = [group EXCEPT !.reg = newReg, !.held = group.held \cup {t}]
    BY <1>6
  <2>4. group' \in GroupState
    <3> HIDE DEF newReg
    <3>1. [group EXCEPT !.reg = newReg] \in GroupState
      BY <1>1, <2>1, GroupFields
    <3>2. QED BY <2>2, <2>3, <3>1, GroupFields
  <2>5. QED BY <1>1, <1>6, <2>4, OutsideFlat DEF TypeOK
<1>7. ASSUME NEW t \in Items, GroupAdd(t)
      PROVE  IInv'
  <2> USE DEF GroupAdd
  <2>1. group.held \ {t} \in SUBSET Items /\ group.added \cup {t} \in SUBSET Items
    BY <1>1 DEF GroupState
  <2>2. group' \in GroupState
    <3>1. [group EXCEPT !.held = group.held \ {t}] \in GroupState
      BY <1>1, <2>1, GroupFields
    <3>2. QED BY <1>7, <2>1, <3>1, GroupFields
  <2>3. group.reg[t] ++ group.vals[t] \in Sum
    BY <1>1, GroupSizes, SumType DEF GroupState
  <2>4. y' \in [Rows -> Sum]
    BY <1>1, <1>7, <2>3 DEF TypeOK
  <2>5. QED BY <1>1, <1>7, <2>2, <2>4, OutsideFlat DEF TypeOK
<1>8. QED BY <1>2, <1>3, <1>4, <1>5, <1>6, <1>7 DEF Group

LEMMA StepInv == IInv /\ [Next]_vars => IInv'
<1> SUFFICES ASSUME IInv, [Next]_vars PROVE IInv'
  OBVIOUS
<1>1. CASE Host
  BY <1>1, HostInv
<1>2. CASE Group
  BY <1>2, GroupInv
<1>3. ASSUME NEW w \in Launched, Warp(w)
      PROVE  IInv'
  BY <1>3, LeaveInv, StartInv, CarryInInv, FlushReadInv, FlushWriteInv, ScanInv,
     EndsReadInv, EndsWriteInv, CarryOutInv DEF Warp
<1>4. CASE UNCHANGED vars
  BY <1>4, OutsideFlat DEF IInv, TypeOK, vars
<1>5. QED BY <1>1, <1>2, <1>3, <1>4 DEF Next, AtRest

-----------------------------------------------------------------------------
(* What follows from the invariant.                                        *)

(* A warp only adds to rows of its interval that end before its last entry.*)
LEMMA PendingRows ==
  ASSUME IInv, NEW w \in Launched, NEW r \in Pending(w)
  PROVE  /\ Begin(w) \in 0..NNZ-1
         /\ End(w) - 1 \in 0..NNZ-1
         /\ r \in Rows
         /\ I[Begin(w)] <= r
         /\ r < I[End(w) - 1]
<1>1. TypeOK /\ I \in RowOrdered /\ WarpInv(w)
  BY DEF IInv
<1>2. pc[w] \in Working
  BY <1>1 DEF Pending, Working, TypeOK
<1>3. /\ n[w] \in Nat
      /\ End(w) \in Nat
      /\ Begin(w) \in 0..NNZ-1
      /\ End(w) - 1 \in 0..NNZ-1
      /\ Begin(w) <= n[w]
      /\ n[w] + WarpSize <= End(w)
  BY <1>1, <1>2, BoundsType, SizeAssumption DEF TypeOK, WarpInv, InInterval
<1>4. \A a, b \in 0..NNZ-1 : a <= b => I[a] <= I[b]
  BY <1>1 DEF RowOrdered
<1>5. \A a \in 0..NNZ-1 : I[a] \in Rows
  BY <1>1 DEF TypeOK
<1>6. CASE pc[w] = "flush"
  <2>1. r = rows[w][Slot(Last)]
    BY <1>6 DEF Pending
  <2>2. r \in Rows /\ I[Begin(w)] <= r /\ r <= I[n[w]] /\ r # I[n[w]]
    BY <1>1, <1>6, <2>1 DEF WarpInv, CarryBehind, CarryEnded
  <2>3. n[w] \in 0..NNZ-1 /\ n[w] <= End(w) - 1
    BY <1>3, SizeAssumption, BoundsType
  <2>4. I[n[w]] <= I[End(w) - 1]
    BY <1>3, <1>4, <2>3
  <2>5. QED BY <1>3, <1>5, <2>2, <2>3, <2>4 DEF Rows
<1>7. CASE pc[w] = "ends"
  <2>1. PICK l \in Ends(w) : r = rows[w][Slot(l)]
    BY <1>7 DEF Pending
  <2>2. /\ l \in Lanes /\ l + 1 \in Lanes
        /\ r = I[n[w] + l]
        /\ rows[w][Slot(l + 1)] = I[n[w] + (l + 1)]
    BY <1>7, <2>1, EndsType
  <2>3. r # I[n[w] + (l + 1)]
    BY <2>1, <2>2 DEF Ends
  <2>4. /\ n[w] + l \in 0..NNZ-1
        /\ n[w] + (l + 1) \in 0..NNZ-1
        /\ Begin(w) <= n[w] + l
        /\ n[w] + l <= n[w] + (l + 1)
        /\ n[w] + (l + 1) <= End(w) - 1
    <3>1. l \in Int
      BY <2>2, HalfType
    <3>2. \A k \in Lanes : n[w] + k \in 0..NNZ-1 /\ n[w] + k <= End(w) - 1
      BY <1>1, <1>2, ChunkEntries DEF WarpInv
    <3>3. l >= 0
      BY <2>2, HalfType
    <3>4. QED BY <1>3, <2>2, <3>1, <3>2, <3>3
  <2>5. /\ I[Begin(w)] <= I[n[w] + l]
        /\ I[n[w] + l] <= I[n[w] + (l + 1)]
        /\ I[n[w] + (l + 1)] <= I[End(w) - 1]
    BY <1>3, <1>4, <2>4
  <2>6. QED BY <1>3, <1>5, <2>2, <2>3, <2>4, <2>5 DEF Rows
<1>8. QED BY <1>6, <1>7 DEF Pending

LEMMA RaceFree == IInv => NoWriteRace
<1> SUFFICES ASSUME IInv, NEW v \in Launched, NEW w \in Launched, v # w,
                    NEW r \in Pending(v), r \in Pending(w)
             PROVE  FALSE
  BY DEF NoWriteRace
<1>1. ASSUME NEW a \in Launched, NEW b \in Launched, a < b,
             r \in Pending(a), r \in Pending(b)
      PROVE  FALSE
  <2>1. End(a) <= Begin(b)
    BY <1>1, IntervalsDisjoint
  <2>2. /\ r \in Rows /\ End(a) - 1 \in 0..NNZ-1 /\ Begin(b) \in 0..NNZ-1
        /\ r < I[End(a) - 1] /\ I[Begin(b)] <= r
    BY <1>1, PendingRows
  <2>3. End(a) - 1 <= Begin(b)
    BY <2>1, <2>2, BoundsType
  <2>4. I[End(a) - 1] <= I[Begin(b)] /\ I[End(a) - 1] \in Rows /\ I[Begin(b)] \in Rows
    BY <2>2, <2>3 DEF IInv, RowOrdered
  <2>5. QED BY <2>2, <2>4 DEF Rows
<1>2. v < w \/ w < v
  BY LaunchedType
<1>3. QED BY <1>1, <1>2

LEMMA LaneRaceFree == IInv => NoLaneRace
<1> SUFFICES ASSUME IInv, NEW w \in Launched, pc[w] = "ends",
                    NEW k \in Ends(w), NEW l \in Ends(w),
                    rows[w][Slot(k)] = rows[w][Slot(l)]
             PROVE  k = l
  BY DEF NoLaneRace
<1>1. TypeOK /\ I \in RowOrdered /\ InInterval(w) /\ pc[w] \in Working /\ n[w] \in Nat
  BY DEF IInv, WarpInv, Working, TypeOK
<1>2. ASSUME NEW a \in Ends(w), NEW b \in Ends(w), a < b
      PROVE  rows[w][Slot(a)] # rows[w][Slot(b)]
  <2>1. /\ a \in Lanes /\ a + 1 \in Lanes /\ b \in Lanes
        /\ rows[w][Slot(a)] = I[n[w] + a]
        /\ rows[w][Slot(a + 1)] = I[n[w] + (a + 1)]
        /\ rows[w][Slot(b)] = I[n[w] + b]
    BY EndsType
  <2>2. I[n[w] + a] # I[n[w] + (a + 1)]
    BY <2>1 DEF Ends
  <2>3. /\ n[w] + a \in 0..NNZ-1
        /\ n[w] + (a + 1) \in 0..NNZ-1
        /\ n[w] + b \in 0..NNZ-1
        /\ n[w] + a <= n[w] + (a + 1)
        /\ n[w] + (a + 1) <= n[w] + b
    <3>1. \A m \in Lanes : n[w] + m \in 0..NNZ-1
      BY <1>1, ChunkEntries
    <3>2. a \in Nat /\ b \in Nat
      BY <2>1, HalfType
    <3>3. QED BY <1>1, <1>2, <2>1, <3>1, <3>2
  <2>4. /\ I[n[w] + a] <= I[n[w] + (a + 1)]
        /\ I[n[w] + (a + 1)] <= I[n[w] + b]
        /\ I[n[w] + a] \in Rows /\ I[n[w] + (a + 1)] \in Rows /\ I[n[w] + b] \in Rows
    BY <1>1, <2>3 DEF RowOrdered
  <2>5. QED BY <2>1, <2>2, <2>4 DEF Rows
<1>3. k \in Int /\ l \in Int
  BY EndsType, HalfType
<1>4. QED BY <1>2, <1>3

(* ActiveWarps intervals cover what lies below the tail.                   *)
LEMMA ActiveType ==
  /\ ActiveWarps \in Nat
  /\ ActiveWarps * IntervalSize \in Nat
  /\ Tail <= ActiveWarps * IntervalSize
<1>1. IntervalSize \in Nat \ {0} /\ Tail \in Nat /\ Tail + (IntervalSize - 1) \in Nat
  BY LaunchType, UnitsType
<1>2. /\ ActiveWarps \in Nat
      /\ Tail + (IntervalSize - 1) < (ActiveWarps + 1) * IntervalSize
  BY <1>1, DivType DEF ActiveWarps, CeilDiv
<1>3. (ActiveWarps + 1) * IntervalSize = ActiveWarps * IntervalSize + IntervalSize
      /\ ActiveWarps * IntervalSize \in Nat
  BY <1>1, <1>2
<1>4. QED BY <1>1, <1>2, <1>3

LEMMA NoWorkBeyond ==
  ASSUME NEW w \in Launched, Begin(w) < End(w)
  PROVE  w < ActiveWarps
<1>1. w \in Nat /\ IntervalSize \in Nat \ {0} /\ Tail \in Nat
  BY LaunchedType, LaunchType, UnitsType
<1>2. w * IntervalSize < Tail /\ w * IntervalSize \in Nat
  BY <1>1, BoundsType, LaunchType, UnitsType DEF Begin, End, Minimum
<1>3. SUFFICES ASSUME ActiveWarps <= w PROVE FALSE
  BY <1>1, ActiveType
<1>4. PICK e \in Nat : w = ActiveWarps + e
  BY <1>1, <1>3, ActiveType
<1>5. w * IntervalSize = ActiveWarps * IntervalSize + e * IntervalSize
      /\ e * IntervalSize \in Nat
  BY <1>1, <1>4, ActiveType
<1>6. QED BY <1>1, <1>2, <1>5, ActiveType

LEMMA CarryRoom == IInv => CarryFits
BY NoWorkBeyond, BoundsType, LaunchedType, ActiveType
   DEF CarryFits, IInv, WarpInv, InInterval

-----------------------------------------------------------------------------
(* The theorems.                                                           *)

LEMMA Invariance == Spec => []IInv
BY InitInv, StepInv, PTL DEF Spec

(* Every variable keeps its type: in particular no warp reads past the     *)
(* matrix, no scan reads the sums of another warp, and no work-item of the *)
(* second kernel reads outside its local arrays.                           *)
THEOREM TypeCorrect == Spec => []TypeOK
<1>1. IInv => TypeOK
  BY DEF IInv
<1>2. QED BY <1>1, Invariance, PTL

(* Two warps never update the same element of y at the same time, for any  *)
(* ordered matrix, any warp size and any two block sizes: also not when    *)
(* the kernel numbers the warps for larger groups than the host starts.    *)
THEOREM WriteRaceFreedom == Spec => []NoWriteRace
BY RaceFree, Invariance, PTL

(* The buffers for the carries, allocated for active_warps, have a slot    *)
(* for every warp that writes one, however many more are launched.         *)
THEOREM CarrySlots == Spec => []CarryFits
BY CarryRoom, Invariance, PTL

(* And neither do two lanes of a warp.                                     *)
THEOREM LaneRaceFreedom == Spec => []NoLaneRace
BY LaneRaceFree, Invariance, PTL

-----------------------------------------------------------------------------
(* The carries, when host and kernel agree about the size of a block, or   *)
(* when there is one group only, which numbers its warps alike in both.    *)

SameBlocks == HostWarps = KernelWarps \/ NumBlocks = 1

(* The row that a warp carries out is that of its last entry.              *)
OpenRow(w) ==
  pc[w] = "carryOut" => rows[w][Slot(Last)] = I[End(w) - 1]

(* A warp that has left had no work, or has written its slot.              *)
Left(w) ==
  pc[w] = "exit" => w \in written \/ Begin(w) >= End(w)

Saved(i) ==
  Begin(i) < End(i) /\ i < ActiveWarps /\ temp[i].row = I[End(i) - 1]

(* The rows the group works on, and the items between read and write.      *)
Updates == {t \in Adders : group.rows[t] \in Rows}

GroupInOrder ==
  /\ host # "reduce" => group.pc = "load"
  /\ group.pc = "load" => group.held = {}
  /\ group.pc = "scan" =>
       /\ group.held \subseteq Updates
       /\ group.held \cap group.added = {}
       /\ \A s \in Items : ~Padded(group.base + s) => group.rows[s] = I[End(group.base + s) - 1]

CarryInv ==
  /\ \A w \in Launched : OpenRow(w) /\ Left(w)
  /\ \A i \in written : Saved(i)
  /\ host \notin {"set", "flat"} => \A w \in Launched : pc[w] = "exit"
  /\ GroupInOrder

(* Every slot belongs to a warp that was launched and has work.            *)
LEMMA ActiveLaunched ==
  ASSUME SameBlocks, NEW i \in 0..ActiveWarps-1
  PROVE  i \in Launched /\ Begin(i) < End(i)
<1>1. /\ IntervalSize \in Nat \ {0} /\ Tail \in Nat /\ NumIters \in Nat \ {0}
      /\ NumWarps \in Nat \ {0} /\ NumUnits \in Nat \ {0} /\ NumBlocks \in Nat
      /\ WarpSize \in Nat \ {0} /\ HostWarps \in Nat \ {0}
  BY LaunchType, UnitsType, SizeAssumption
<1>2. ActiveWarps \in Nat /\ ActiveWarps * IntervalSize <= Tail + (IntervalSize - 1)
  <2>1. Tail + (IntervalSize - 1) \in Nat
    BY <1>1
  <2>2. QED BY <1>1, <2>1, DivType DEF ActiveWarps, CeilDiv
<1>3. i \in Nat
  BY <1>2
<1>4. i * IntervalSize < Tail
  <2>1. PICK e \in Nat : ActiveWarps = (i + 1) + e
    BY <1>2
  <2>2. /\ ActiveWarps * IntervalSize = i * IntervalSize + IntervalSize + e * IntervalSize
        /\ e * IntervalSize \in Nat /\ i * IntervalSize \in Nat
    BY <1>1, <1>3, <2>1
  <2>3. QED BY <1>1, <1>2, <2>2
<1>5. Begin(i) < End(i)
  <2>1. i * IntervalSize \in Nat
    BY <1>1, <1>3
  <2>2. QED BY <1>1, <1>4, <2>1 DEF Begin, End, Minimum
<1>6. i * NumIters < NumUnits
  <2>1. SUFFICES ASSUME NumUnits <= i * NumIters PROVE FALSE
    BY <1>1, <1>3
  <2>2. PICK e \in Nat : i * NumIters = NumUnits + e
    <3>1. i * NumIters - NumUnits \in Nat
      BY <1>1, <1>3, <2>1
    <3>2. QED BY <1>1, <1>3, <3>1
  <2>3. i * IntervalSize = (i * NumIters) * WarpSize
    BY <1>1, <1>3 DEF IntervalSize
  <2>4. (NumUnits + e) * WarpSize = NumUnits * WarpSize + e * WarpSize /\ e * WarpSize \in Nat
    BY <1>1
  <2>5. QED BY <1>1, <1>4, <2>2, <2>3, <2>4 DEF Tail
<1>7. NumUnits <= NumIters * NumWarps
  <2>1. NumUnits + (NumWarps - 1) \in Nat
    BY <1>1
  <2>2. NumUnits + (NumWarps - 1) < (NumIters + 1) * NumWarps
    BY <1>1, <2>1, DivType DEF NumIters, CeilDiv
  <2>3. (NumIters + 1) * NumWarps = NumIters * NumWarps + NumWarps /\ NumIters * NumWarps \in Nat
    BY <1>1
  <2>4. QED BY <1>1, <2>2, <2>3
<1>8. i < NumWarps
  <2>1. SUFFICES ASSUME NumWarps <= i PROVE FALSE
    BY <1>1, <1>3
  <2>2. PICK e \in Nat : i = NumWarps + e
    BY <1>1, <1>3, <2>1
  <2>3. i * NumIters = NumIters * NumWarps + e * NumIters /\ e * NumIters \in Nat
    BY <1>1, <2>2
  <2>4. NumIters * NumWarps \in Nat /\ i * NumIters \in Nat
    BY <1>1, <1>3
  <2>5. QED BY <1>1, <1>6, <1>7, <2>3, <2>4
<1>9. NumWarps <= NumBlocks * HostWarps
  <2>1. NumWarps + (HostWarps - 1) \in Nat
    BY <1>1
  <2>2. NumWarps + (HostWarps - 1) < (NumBlocks + 1) * HostWarps
    BY <1>1, <2>1, DivType DEF NumBlocks, CeilDiv
  <2>3. (NumBlocks + 1) * HostWarps = NumBlocks * HostWarps + HostWarps
        /\ NumBlocks * HostWarps \in Nat
    BY <1>1
  <2>4. QED BY <1>1, <2>2, <2>3
<1>10. PICK g \in Nat : g = i \div HostWarps /\ g * HostWarps <= i /\ i < (g + 1) * HostWarps
  BY <1>1, <1>3, DivType
<1>11. g < NumBlocks
  <2>1. SUFFICES ASSUME NumBlocks <= g PROVE FALSE
    BY <1>1
  <2>2. PICK e \in Nat : g = NumBlocks + e
    BY <1>1, <2>1
  <2>3. g * HostWarps = NumBlocks * HostWarps + e * HostWarps /\ e * HostWarps \in Nat
    BY <1>1, <2>2
  <2>4. NumBlocks * HostWarps \in Nat
    BY <1>1
  <2>5. QED BY <1>1, <1>3, <1>8, <1>9, <1>10, <2>3, <2>4
<1>12. PICK l \in 0..HostWarps-1 : i = KernelWarps * g + l
  <2>1. (g + 1) * HostWarps = g * HostWarps + HostWarps /\ g * HostWarps \in Nat
        /\ KernelWarps * g = g * HostWarps
    <3>1. HostWarps = KernelWarps \/ g = 0
      BY <1>11 DEF SameBlocks
    <3>2. KernelWarps * 0 = 0 /\ 0 * HostWarps = 0
      BY <1>1, SizeAssumption
    <3>3. QED BY <1>1, <3>1, <3>2
  <2>2. i - g * HostWarps \in 0..HostWarps-1 /\ i = g * HostWarps + (i - g * HostWarps)
    BY <1>1, <1>3, <1>10, <2>1
  <2>3. QED BY <2>1, <2>2
<1>13. g \in 0..NumBlocks-1
  BY <1>1, <1>11
<1>14. QED BY <1>5, <1>12, <1>13 DEF Launched

(* A block of carries is a full one, or the last, which has some padding.  *)
LEMMA BlockFits ==
  ASSUME SameBlocks
  PROVE  HostWarps * WarpSize = Block \/ ActiveWarps < HostWarps * WarpSize
<1> SUFFICES ASSUME NumBlocks = 1, ActiveWarps >= HostWarps * WarpSize PROVE FALSE
  BY ActiveType, SizeAssumption DEF SameBlocks, Block
<1>1. WarpSize >= 2 /\ HostWarps \in Nat \ {0} /\ WarpSize \in Nat
  BY HalfType, SizeAssumption
<1>2. HostWarps * WarpSize > HostWarps
  <2>1. PICK e \in Nat : WarpSize = 2 + e
    <3>1. WarpSize - 2 \in Nat
      BY <1>1
    <3>2. QED BY <1>1, <3>1
  <2>2. HostWarps * WarpSize = HostWarps + HostWarps + HostWarps * e /\ HostWarps * e \in Nat
    BY <1>1, <2>1
  <2>3. QED BY <1>1, <2>2
<1>3. HostWarps \in 0..ActiveWarps-1
  BY <1>1, <1>2, ActiveType
<1>4. HostWarps \in Launched
  BY <1>3, ActiveLaunched
<1>5. PICK g \in 0..NumBlocks-1, l \in 0..HostWarps-1 : HostWarps = KernelWarps * g + l
  BY <1>4 DEF Launched
<1>6. KernelWarps * 0 = 0 /\ g = 0
  BY <1>5, SizeAssumption
<1>7. QED BY <1>1, <1>5, <1>6

(* When every warp has left, every slot is written.                        *)
LEMMA AllWritten ==
  ASSUME SameBlocks, CarryInv, \A w \in Launched : pc[w] = "exit"
  PROVE  0..ActiveWarps-1 \subseteq written
<1> SUFFICES ASSUME NEW i \in 0..ActiveWarps-1 PROVE i \in written
  OBVIOUS
<1>1. i \in Launched /\ Begin(i) < End(i)
  BY ActiveLaunched
<1>2. QED BY <1>1, BoundsType DEF CarryInv, Left

LEMMA CarryInit == Init => CarryInv
BY DEF Init, CarryInv, OpenRow, Left, GroupInOrder

(* A step of a warp in the flat kernel, other than its last.               *)
LEMMA WarpKeepsCarries ==
  ASSUME IInv, CarryInv, NEW w \in Launched, host = "flat",
         UNCHANGED <<I, host, temp, written, group>>, pc[w] # "exit",
         \A v \in Launched : v # w => pc'[v] = pc[v] /\ rows'[v] = rows[v],
         pc'[w] = "exit" => Begin(w) >= End(w),
         pc'[w] = "carryOut" => rows'[w][Slot(Last)] = I[End(w) - 1]
  PROVE  CarryInv'
<1>1. \A v \in Launched : OpenRow(v)' /\ Left(v)'
  BY DEF CarryInv, OpenRow, Left, Begin, End
<1>2. \A i \in written' : Saved(i)'
  BY DEF CarryInv, Saved, Begin, End
<1>3. GroupInOrder'
  BY DEF CarryInv, GroupInOrder
<1>4. QED BY <1>1, <1>2, <1>3 DEF CarryInv

LEMMA WarpCarries ==
  ASSUME IInv, CarryInv, NEW w \in Launched, Warp(w)
  PROVE  CarryInv'
<1>1. TypeOK /\ WarpInv(w) /\ host = "flat"
  BY DEF IInv, Warp, Leave, Start, CarryIn, FlushRead, FlushWrite, Scan, EndsRead,
         EndsWrite, CarryOut, Step
<1>2. CASE Leave(w)
  BY <1>1, <1>2, WarpKeepsCarries DEF Leave, Step, Goto, TypeOK
<1>3. CASE Start(w) \/ CarryIn(w) \/ FlushRead(w) \/ FlushWrite(w)
  BY <1>1, <1>3, WarpKeepsCarries
     DEF Start, CarryIn, FlushRead, FlushWrite, Store, Step, Goto, TypeOK
<1>4. CASE Scan(w) \/ EndsRead(w)
  BY <1>1, <1>4, WarpKeepsCarries DEF Scan, EndsRead, Step, Goto, TypeOK
<1>5. CASE EndsWrite(w)
  <2>1. /\ pc[w] = "ends" /\ UNCHANGED <<I, host, rows, temp, written, group>>
        /\ pc' = [pc EXCEPT ![w] = IF n[w] + WarpSize < End(w) THEN "carry" ELSE "carryOut"]
    BY <1>5 DEF EndsWrite, Step, Goto
  <2>2. ASSUME ~ (n[w] + WarpSize < End(w))
        PROVE  rows[w][Slot(Last)] = I[End(w) - 1]
    <3>1. rows[w][Slot(Last)] = I[n[w] + Last]
      BY <1>1, <2>1, HalfType DEF WarpInv, ChunkLoaded
    <3>2. n[w] + WarpSize <= End(w) /\ n[w] \in Nat /\ End(w) \in Nat
      BY <1>1, <2>1, BoundsType DEF WarpInv, InInterval, Working, TypeOK
    <3>3. n[w] + Last = End(w) - 1
      BY <2>2, <3>2, SizeAssumption DEF Last
    <3>4. QED BY <3>1, <3>3
  <2>3. \A v \in Launched : v # w => pc'[v] = pc[v] /\ rows'[v] = rows[v]
    BY <1>1, <2>1 DEF TypeOK
  <2>4. pc'[w] # "exit" /\ (pc'[w] = "carryOut" => rows'[w][Slot(Last)] = I[End(w) - 1])
    BY <1>1, <2>1, <2>2 DEF TypeOK
  <2>5. QED BY <1>1, <2>1, <2>3, <2>4, WarpKeepsCarries
<1>6. CASE CarryOut(w)
  <2>1. /\ pc[w] = "carryOut" /\ UNCHANGED <<I, host, rows, group>>
        /\ pc' = [pc EXCEPT ![w] = "exit"] /\ written' = written \cup {w}
        /\ temp' = [temp EXCEPT ![w] = [row |-> rows[w][Slot(Last)], val |-> vals[w][Last]]]
    BY <1>6 DEF CarryOut, Step, Goto
  <2>2. Begin(w) < End(w) /\ w < ActiveWarps /\ w \in 0..ActiveWarps-1
    <3>1. ActiveWarps \in Nat
      <4>1. Tail + (IntervalSize - 1) \in Nat
        BY LaunchType, UnitsType
      <4>2. QED BY <4>1, LaunchType, DivType DEF ActiveWarps, CeilDiv
    <3>2. w < ActiveWarps
      BY <2>1, CarryRoom DEF CarryFits
    <3>3. QED BY <1>1, <2>1, <3>1, <3>2, LaunchedType DEF WarpInv, InInterval
  <2>3. \A v \in Launched : OpenRow(v)' /\ Left(v)'
    BY <1>1, <2>1 DEF CarryInv, OpenRow, Left, Begin, End, TypeOK
  <2>4. ASSUME NEW i \in written' PROVE Saved(i)'
    <3>1. CASE i = w
      <4>1. temp'[w].row = I[End(w) - 1]
        BY <1>1, <2>1, <2>2 DEF CarryInv, OpenRow, TypeOK
      <4>2. QED BY <2>1, <2>2, <3>1, <4>1 DEF Saved, Begin, End
    <3>2. CASE i # w
      BY <1>1, <2>1, <2>4, <3>2 DEF CarryInv, Saved, Begin, End, TypeOK
    <3>3. QED BY <3>1, <3>2
  <2>5. QED BY <1>1, <2>1, <2>3, <2>4 DEF CarryInv, GroupInOrder
<1>7. QED BY <1>2, <1>3, <1>4, <1>5, <1>6 DEF Warp

(* The steps that leave the warps and the carries alone.                   *)
LEMMA OthersKeepCarries ==
  ASSUME CarryInv, UNCHANGED <<I, flatVars>>, GroupInOrder',
         host \in {"set", "flat"} /\ host' \notin {"set", "flat"} =>
           \A w \in Launched : pc[w] = "exit"
  PROVE  CarryInv'
BY DEF CarryInv, OpenRow, Left, Saved, Begin, End, flatVars

LEMMA HostCarries ==
  ASSUME IInv, CarryInv, Host
  PROVE  CarryInv'
<1>1. group \in GroupState /\ GroupInOrder
  BY DEF IInv, TypeOK, CarryInv
<1>2. CASE ZeroOut
  BY <1>1, <1>2, OthersKeepCarries DEF ZeroOut, GroupInOrder
<1>3. CASE FlatDone
  <2>1. group'.pc = group.pc /\ group'.held = group.held /\ host = "flat" /\ host' = "reduce"
    BY <1>1, <1>3 DEF FlatDone, GroupState
  <2>2. GroupInOrder'
    BY <1>1, <2>1 DEF GroupInOrder
  <2>3. QED BY <1>3, <2>2, OthersKeepCarries DEF FlatDone
<1>4. CASE Serial
  <2>1. group'.pc = group.pc /\ group'.held = group.held /\ host = "serial" /\ host' = host
    BY <1>1, <1>4 DEF Serial, GroupState
  <2>2. GroupInOrder'
    BY <1>1, <2>1 DEF GroupInOrder
  <2>3. QED BY <1>4, <2>1, <2>2, OthersKeepCarries DEF Serial
<1>5. CASE SerialDone
  BY <1>1, <1>5, OthersKeepCarries DEF SerialDone, GroupInOrder
<1>6. QED BY <1>2, <1>3, <1>4, <1>5 DEF Host

LEMMA GroupCarries ==
  ASSUME SameBlocks, IInv, CarryInv, Group
  PROVE  CarryInv'
<1>1. group \in GroupState /\ GroupInOrder /\ UNCHANGED <<I, flatVars>> /\ host = "reduce"
      /\ group.pc \in {"load", "scan"}
  BY DEF IInv, TypeOK, CarryInv, Group, GroupLoad, GroupScan, GroupNext, GroupDone,
         GroupRead, GroupAdd, InGroup, GroupState
<1>2. 0..ActiveWarps-1 \subseteq written
  BY <1>1, AllWritten DEF CarryInv
<1>3. SUFFICES GroupInOrder'
  BY <1>1, OthersKeepCarries
<1>4. CASE GroupLoad
  <2>1. PICK junk \in [(0..ActiveWarps-1) \ written -> Rows \cup {NoRow}] :
          group' = [group EXCEPT
            !.rows = [s \in 0..Block |-> IF s \in Items THEN LoadedRow(group.base + s, junk)
                                                        ELSE group.rows[s]],
            !.vals = [s \in 0..Block |-> IF s \in Items THEN LoadedVal(group.base + s)
                                                        ELSE group.vals[s]],
            !.stride = 1,
            !.pc = "scan"]
    BY <1>4 DEF GroupLoad
  <2>2. /\ group'.pc = "scan" /\ group'.held = {} /\ group'.base = group.base
        /\ \A s \in Items : group'.rows[s] = LoadedRow(group.base + s, junk)
    BY <1>1, <1>4, <2>1, GroupSizes DEF GroupState, GroupInOrder, GroupLoad, InGroup
  <2>3. ASSUME NEW s \in Items, ~Padded(group.base + s)
        PROVE  LoadedRow(group.base + s, junk) = I[End(group.base + s) - 1]
    <3>1. group.base + s \in 0..ActiveWarps-1
      <4>1. group.base \in Nat /\ s \in Nat
        BY <1>1, GroupSizes DEF GroupState, Items
      <4>2. ActiveWarps \in Nat
        <5>1. Tail + (IntervalSize - 1) \in Nat
          BY LaunchType, UnitsType
        <5>2. QED BY <5>1, LaunchType, DivType DEF ActiveWarps, CeilDiv
      <4>3. QED BY <2>3, <4>1, <4>2 DEF Padded
    <3>2. group.base + s \in written
      BY <1>2, <3>1
    <3>3. QED BY <2>3, <3>2 DEF LoadedRow, CarryInv, Saved
  <2>4. host' = "reduce"
    BY <1>4 DEF GroupLoad, InGroup
  <2>5. QED BY <1>1, <2>2, <2>3, <2>4 DEF GroupInOrder, Padded, End, Begin, flatVars
<1>5. CASE GroupScan
  <2>1. /\ group'.pc = group.pc /\ group'.held = group.held /\ group'.base = group.base
        /\ group'.rows = group.rows /\ group'.added = group.added /\ host' = "reduce"
    BY <1>1, <1>5 DEF GroupScan, GroupState, InGroup
  <2>2. QED BY <1>1, <2>1 DEF GroupInOrder, Updates, Adders, Padded, End, Begin
<1>6. CASE GroupNext
  <2>1. group.held = {}
    BY <1>1, <1>6 DEF GroupNext, InGroup, GroupInOrder, Updates
  <2>2. group'.pc = "load" /\ group'.held = group.held /\ host' = "reduce"
    BY <1>1, <1>6 DEF GroupNext, GroupState, InGroup
  <2>3. QED BY <2>1, <2>2 DEF GroupInOrder
<1>7. CASE GroupDone
  <2>1. group'.pc = group.pc /\ group'.held = group.held /\ group.pc = "load"
    BY <1>1, <1>7 DEF GroupDone, GroupState, InGroup
  <2>2. QED BY <1>1, <2>1 DEF GroupInOrder
<1>8. ASSUME NEW t \in Items, GroupRead(t) PROVE GroupInOrder'
  <2>1. /\ group'.pc = group.pc /\ group'.held = group.held \cup {t} /\ group'.base = group.base
        /\ group'.rows = group.rows /\ group'.added = group.added /\ host' = "reduce"
        /\ t \in Updates /\ t \notin group.added /\ group.pc = "scan"
    BY <1>1, <1>8 DEF GroupRead, GroupState, InGroup, Updates
  <2>2. QED BY <1>1, <2>1 DEF GroupInOrder, Updates, Adders, Padded, End, Begin
<1>9. ASSUME NEW t \in Items, GroupAdd(t) PROVE GroupInOrder'
  <2>1. /\ group'.pc = group.pc /\ group'.held = group.held \ {t} /\ group'.base = group.base
        /\ group'.rows = group.rows /\ group'.added = group.added \cup {t} /\ host' = "reduce"
        /\ group.pc = "scan"
    BY <1>1, <1>9 DEF GroupAdd, GroupState, InGroup
  <2>2. QED BY <1>1, <2>1 DEF GroupInOrder, Updates, Adders, Padded, End, Begin
<1>10. QED BY <1>4, <1>5, <1>6, <1>7, <1>8, <1>9 DEF Group

LEMMA CarryStep ==
  ASSUME SameBlocks
  PROVE  IInv /\ CarryInv /\ [Next]_vars => CarryInv'
<1>1. ASSUME IInv, CarryInv, UNCHANGED vars PROVE CarryInv'
  BY <1>1, OthersKeepCarries DEF vars, CarryInv, GroupInOrder, Updates, Adders, Padded, End,
     Begin, flatVars
<1>2. QED BY <1>1, WarpCarries, HostCarries, GroupCarries DEF Next, AtRest

(* The last entries of the intervals are in the order of the warps.        *)
LEMMA CarriesOrdered ==
  ASSUME SameBlocks, IInv, NEW i \in 0..ActiveWarps-1, NEW j \in 0..ActiveWarps-1, i <= j
  PROVE  /\ I[End(i) - 1] \in Rows /\ I[End(j) - 1] \in Rows
         /\ I[End(i) - 1] <= I[End(j) - 1]
<1>1. /\ i \in Launched /\ Begin(i) < End(i) /\ j \in Launched /\ Begin(j) < End(j)
      /\ i \in Nat /\ j \in Nat
  BY ActiveLaunched, LaunchedType
<1>2. End(i) - 1 \in 0..NNZ-1 /\ End(j) - 1 \in 0..NNZ-1
  BY <1>1, BoundsType, SizeAssumption
<1>3. End(i) <= End(j)
  <2>1. CASE i = j
    BY <1>1, <2>1, BoundsType
  <2>2. CASE i < j
    BY <1>1, <2>2, BoundsType, IntervalsDisjoint
  <2>3. QED BY <1>1, <2>1, <2>2
<1>4. QED BY <1>1, <1>2, <1>3, BoundsType DEF IInv, TypeOK, RowOrdered

(* One item adds the carries of a row.                                     *)
LEMMA AddersApart ==
  ASSUME SameBlocks, IInv, CarryInv, group.pc = "scan", NEW a \in Adders, NEW b \in Adders,
         group.rows[a] = group.rows[b]
  PROVE  a = b
<1>1. group \in GroupState /\ GroupInOrder /\ group.base \in Nat
  BY DEF IInv, TypeOK, CarryInv, GroupState
<1>2. ASSUME NEW s \in Adders, NEW t \in Adders, s < t, group.rows[s] = group.rows[t]
      PROVE  FALSE
  <2>1. s \in Items /\ t \in Items /\ s \in Nat /\ t \in Nat /\ ~Padded(group.base + t)
    BY DEF Adders, Items
  <2>2. group.base + t \in 0..ActiveWarps-1
    BY <1>1, <2>1, ActiveType DEF Padded
  <2>3. /\ s + 1 \in Items /\ group.base + s \in 0..ActiveWarps-1
        /\ group.base + (s + 1) \in 0..ActiveWarps-1
        /\ group.base + s <= group.base + (s + 1) /\ group.base + (s + 1) <= group.base + t
    BY <1>1, <1>2, <2>1, <2>2, ActiveType, SizeAssumption DEF Items
  <2>4. \A u \in Items : group.base + u \in 0..ActiveWarps-1 =>
                           group.rows[u] = I[End(group.base + u) - 1]
    BY <1>1, ActiveType DEF GroupInOrder, Padded
  <2>5. group.rows[s] <= group.rows[s + 1] /\ group.rows[s + 1] <= group.rows[t]
        /\ group.rows[s] \in Rows /\ group.rows[s + 1] \in Rows
    BY <2>1, <2>2, <2>3, <2>4, CarriesOrdered
  <2>6. group.rows[s] = group.rows[s + 1]
    BY <1>2, <2>5 DEF Rows
  <2>7. QED BY <2>6 DEF Adders
<1>3. a \in Int /\ b \in Int
  BY DEF Adders, Items
<1>4. QED BY <1>2, <1>3

LEMMA CarryRaceFree ==
  ASSUME SameBlocks, IInv, CarryInv
  PROVE  NoCarryRace
<1>1. group.pc \in {"load", "scan"} /\ GroupInOrder
  BY DEF IInv, TypeOK, CarryInv, GroupState
<1>2. CASE group.pc = "load"
  BY <1>1, <1>2 DEF GroupInOrder, NoCarryRace
<1>3. CASE group.pc = "scan"
  <2>1. group.held \subseteq Adders
    BY <1>1, <1>3 DEF GroupInOrder, Updates
  <2>2. QED BY <1>3, <2>1, AddersApart DEF NoCarryRace
<1>4. QED BY <1>1, <1>2, <1>3

(* With the same numbers of warps on both sides no carry is read that no   *)
(* warp has written: the warps that are launched are the first ones, and each   *)
(* of them has work and leaves through its slot.                           *)
THEOREM CarriesAllWritten == ASSUME SameBlocks PROVE Spec => []CarriesWritten
<1>1. CarryInv => CarriesWritten
  BY AllWritten DEF CarryInv, CarriesWritten
<1>2. QED BY <1>1, CarryInit, CarryStep, Invariance, PTL DEF Spec

(* And no two work-items of the second kernel update one element of y: the *)
(* carries are in the order of their rows, so that of those with the same  *)
(* row only the last work-item adds to y.                                  *)
THEOREM CarryRaceFreedom == ASSUME SameBlocks PROVE Spec => []NoCarryRace
BY CarryRaceFree, CarryInit, CarryStep, Invariance, PTL DEF Spec

-----------------------------------------------------------------------------
(* The sums.  From here on the warp size is a power of two: otherwise the  *)
(* scan, whose distances double up to half a warp, would not reach back to *)
(* the first lane.                                                         *)

IsDoubling(D) == 1 \in D /\ \A m \in D : m = WarpSize \/ 2 * m \in D
PowerOf2      == \E D \in SUBSET (1..WarpSize) : IsDoubling(D)
Doubles       == CHOOSE D \in SUBSET (1..WarpSize) : IsDoubling(D)

(* The entries of w's interval in the row of entry k, up to k.             *)
Upto(w, k) == {z \in Begin(w)..k : I[z] = I[k]}

(* How far a warp has come, and the row that it has not closed yet.        *)
Ahead(w) ==
  CASE pc[w] = "start"    -> Begin(w)
    [] pc[w] \in Working  -> n[w]
    [] OTHER              -> End(w)

Open(w) ==
  CASE pc[w] \in {"carry", "flush"} -> rows[w][Slot(Last)]
    [] pc[w] \in {"scan", "ends"}   -> I[n[w]]
    [] OTHER                        -> I[End(w) - 1]

(* What it has added to y.                                                 *)
Closed(w) == {z \in Begin(w)..Ahead(w)-1 : I[z] # Open(w)}

(* What a lane has added up at distance s of the scan.                     *)
Near(w, l, s) == {z \in Upto(w, n[w] + l) : l < s \/ z > (n[w] + l) - s}

(* What the lanes of a warp hold; what they have read of y is still there. *)
CarrySums(w) ==
  pc[w] \in {"carry", "flush"} =>
    /\ \A z \in Begin(w)..n[w]-1 : I[z] <= rows[w][Slot(Last)]
    /\ vals[w][Last] = Each(Terms, {z \in Begin(w)..n[w]-1 : I[z] = rows[w][Slot(Last)]})

ScanSums(w) ==
  /\ pc[w] = "scan" => /\ stride[w] \in Doubles
                       /\ \A l \in Lanes : vals[w][l] = Each(Terms, Near(w, l, stride[w]))
  /\ pc[w] = "ends" => \A l \in Lanes : vals[w][l] = Each(Terms, Upto(w, n[w] + l))

FreshReads(w) ==
  /\ pc[w] = "flush" => reg[w][0] = y[rows[w][Slot(Last)]]
  /\ pc[w] = "ends" => \A l \in Ends(w) : reg[w][l] = y[rows[w][Slot(l)]]

OutSum(w) ==
  pc[w] = "carryOut" => vals[w][Last] = Each(Terms, Upto(w, End(w) - 1))

WarpSums(w) == CarrySums(w) /\ ScanSums(w) /\ FreshReads(w) /\ OutSum(w)

(* The carries that the second kernel has added to y, and what it has read *)
(* and added up in the block it works on.                                  *)
CarryOf(i) == Upto(i, End(i) - 1)

Delivered(i) ==
  \/ i < group.base
  \/ \E t \in group.added : i <= group.base + t /\ group.rows[t] = I[End(i) - 1]

Gathered(t, s) ==
  {z \in 0..NNZ-1 : \E u \in 0..t :
     /\ t < s \/ u > t - s
     /\ I[End(group.base + u) - 1] = I[End(group.base + t) - 1]
     /\ z \in CarryOf(group.base + u)}

GroupSums ==
  /\ host \in {"set", "flat"} => group.base = 0 /\ group.added = {}
  /\ group.pc = "load" => group.added = {}
  /\ host = "reduce" => group.rows[Block] = NoRow
  /\ host = "serial" => group.base \in 0..NNZ
  /\ group.pc = "scan" =>
       /\ group.added \subseteq Updates
       /\ group.held \cup group.added # {} => group.stride > Block
       /\ \A t \in group.held : group.reg[t] = y[group.rows[t]]
       /\ \A t \in Items :
            IF Padded(group.base + t) THEN group.rows[t] = NoRow
            ELSE group.vals[t] = Each(Terms, Gathered(t, group.stride))

(* The entries that have been added to y.                                  *)
Brought(w) == Closed(w) \cup (IF Delivered(w) THEN CarryOf(w) ELSE {})

Counted ==
  CASE host = "set"                -> {}
    [] host \in {"flat", "reduce"} -> UNION {Brought(w) : w \in Launched}
    [] host = "serial"             -> 0..group.base-1
    [] OTHER                       -> 0..NNZ-1

InRow(r, S) == {z \in S : I[z] = r}

(* B is what the kernels find in y: nothing when it was cleared, and {NNZ} *)
(* when it was not.                                                        *)
OutputHolds(B) ==
  IF host = "set" THEN \A r \in Rows : y[r] = Only(Terms, NNZ)
  ELSE \A r \in Rows : y[r] = Each(Terms, B \cup InRow(r, Counted))

SumInv(B) ==
  /\ host = "set" => \A w \in Launched : pc[w] = "start"
  /\ \A w \in Launched : WarpSums(w)
  /\ \A i \in written : temp[i].val = Each(Terms, CarryOf(i))
  /\ GroupSums
  /\ OutputHolds(B)

-----------------------------------------------------------------------------

LEMMA DoublesType ==
  ASSUME PowerOf2
  PROVE  /\ 1 \in Doubles
         /\ \A s \in Doubles : /\ s \in 1..WarpSize
                               /\ s <= HalfWarp => 2 * s \in Doubles
                               /\ s > HalfWarp => s = WarpSize
<1>1. Doubles \in SUBSET (1..WarpSize) /\ IsDoubling(Doubles)
  BY DEF PowerOf2, Doubles
<1>2. QED BY <1>1, HalfType, SizeAssumption DEF IsDoubling

(* There is a least number in a set.                                       *)
LEMMA LeastOf ==
  ASSUME NEW T, T \subseteq Nat, T # {}
  PROVE  \E m \in T : \A k \in T : m <= k
<1>1. PICK m \in T : \A k \in T : ~ (<<k, m>> \in OpToRel(<, Nat))
  BY WFMin, NatLessThanWellFounded
<1>2. \A k \in T : ~ (k < m)
  BY <1>1 DEF OpToRel
<1>. QED
  BY <1>2

LEMMA EachSplits ==
  ASSUME NEW A, NEW C, A \cap C = {}
  PROVE  Each(Terms, A) ++ Each(Terms, C) = Each(Terms, A \cup C)
BY DEF Each, ++

LEMMA EachOne ==
  /\ \A t : Only(Terms, t) = Each(Terms, {t})
  /\ None = Each(Terms, {})
  /\ \A S : Each(Terms, S) \in Sum
BY DEF Only, Each, None, Zero, Sum, Sums

(* Entries are added to what y held, and to each other, without overlap.   *)
LEMMA MoreOutput ==
  \A B \in SUBSET {NNZ} : \A S, T :
    S \cap T = {} /\ T \subseteq 0..NNZ-1
      => Each(Terms, B \cup S) ++ Each(Terms, T) = Each(Terms, B \cup (S \cup T))
<1> SUFFICES ASSUME NEW B \in SUBSET {NNZ}, NEW S, NEW T, S \cap T = {}, T \subseteq 0..NNZ-1
             PROVE  Each(Terms, B \cup S) ++ Each(Terms, T) = Each(Terms, B \cup (S \cup T))
  OBVIOUS
<1>1. NNZ \notin T
  BY SizeAssumption
<1>2. (B \cup S) \cap T = {} /\ (B \cup S) \cup T = B \cup (S \cup T)
  BY <1>1
<1>3. QED BY <1>2, EachSplits

LEMMA SumInit ==
  ASSUME NEW B, Init
  PROVE  SumInv(B)
<1>1. \A w \in Launched : WarpSums(w)
  BY DEF Init, WarpSums, CarrySums, ScanSums, FreshReads, OutSum
<1>2. GroupSums
  BY SizeAssumption DEF Init, GroupSums
<1>3. OutputHolds(B)
  BY DEF Init, OutputHolds
<1>4. QED BY <1>1, <1>2, <1>3 DEF Init, SumInv

(* What a warp has brought home is in its interval, and in no other's.     *)
LEMMA BroughtApart ==
  ASSUME IInv, NEW w \in Launched
  PROVE  /\ Closed(w) \subseteq Begin(w)..End(w)-1
         /\ CarryOf(w) \subseteq Begin(w)..End(w)-1
         /\ Brought(w) \subseteq Begin(w)..End(w)-1
         /\ Closed(w) \cap CarryOf(w) \subseteq
              {z \in Begin(w)..End(w)-1 : pc[w] \notin {"carryOut", "exit"}}
<1>1. Begin(w) \in Nat /\ End(w) \in Nat /\ TypeOK /\ InInterval(w)
  BY BoundsType DEF IInv, WarpInv
<1>2. Closed(w) \subseteq Begin(w)..End(w)-1
  <2>1. CASE pc[w] = "start"
    <3>1. Ahead(w) = Begin(w)
      BY <2>1 DEF Ahead, Working
    <3>2. QED BY <1>1, <3>1 DEF Closed
  <2>2. CASE pc[w] \in Working
    <3>1. Ahead(w) = n[w] /\ n[w] \in Nat /\ n[w] + WarpSize <= End(w)
      BY <1>1, <2>2 DEF Ahead, Working, InInterval, TypeOK
    <3>2. QED BY <1>1, <3>1, SizeAssumption DEF Closed
  <2>3. CASE pc[w] \notin {"start"} \cup Working
    <3>1. Ahead(w) = End(w)
      BY <2>3 DEF Ahead, Working
    <3>2. QED BY <1>1, <3>1 DEF Closed
  <2>4. QED BY <2>1, <2>2, <2>3
<1>3. CarryOf(w) \subseteq Begin(w)..End(w)-1
  BY <1>1 DEF CarryOf, Upto
<1>4. ASSUME pc[w] \in {"carryOut", "exit"} PROVE Closed(w) \cap CarryOf(w) = {}
  <2>1. Open(w) = I[End(w) - 1]
    BY <1>4 DEF Open
  <2>2. QED BY <2>1 DEF Closed, CarryOf, Upto
<1>5. QED BY <1>2, <1>3, <1>4 DEF Brought

LEMMA IntervalsApart ==
  ASSUME NEW v \in Launched, NEW w \in Launched, v # w
  PROVE  (Begin(v)..End(v)-1) \cap (Begin(w)..End(w)-1) = {}
<1>1. v \in Nat /\ w \in Nat /\ Begin(v) \in Nat /\ End(v) \in Nat /\ Begin(w) \in Nat
      /\ End(w) \in Nat
  BY LaunchedType, BoundsType
<1>2. CASE v < w
  BY <1>1, <1>2, IntervalsDisjoint
<1>3. CASE w < v
  BY <1>1, <1>3, IntervalsDisjoint
<1>4. QED BY <1>1, <1>2, <1>3

(* While the flat kernel runs no carry has been delivered.                 *)
LEMMA NothingDelivered ==
  ASSUME GroupSums, host \in {"set", "flat"}, NEW w \in Launched
  PROVE  ~ Delivered(w) /\ Brought(w) = Closed(w)
<1>1. group.base = 0 /\ group.added = {} /\ w \in Nat
  BY LaunchedType DEF GroupSums
<1>2. QED BY <1>1 DEF Delivered, Brought

(* A warp's step is nothing to the others: it writes no element of y that  *)
(* one of them has read and is about to write.                             *)
LEMMA OtherSums ==
  ASSUME IInv, NEW w \in Launched, NEW v \in Launched, v # w, WarpSums(v), I' = I,
         pc'[v] = pc[v], n'[v] = n[v], rows'[v] = rows[v], vals'[v] = vals[v],
         reg'[v] = reg[v], stride'[v] = stride[v],
         \A r \in Rows : r \notin Pending(w) => y'[r] = y[r]
  PROVE  WarpSums(v)' /\ Closed(v)' = Closed(v)
<1>1. Pending(v) \cap Pending(w) = {}
  BY RaceFree DEF NoWriteRace
<1>2. \A r \in Pending(v) : y'[r] = y[r]
  <2>1. \A r \in Pending(v) : r \in Rows
    BY PendingRows
  <2>2. QED BY <1>1, <2>1
<1>3. CarrySums(v)'
  BY DEF WarpSums, CarrySums, Begin, End
<1>4. ScanSums(v)'
  BY DEF WarpSums, ScanSums, Near, Upto, Begin, End
<1>5. FreshReads(v)'
  <2>1. pc[v] = "flush" => rows[v][Slot(Last)] \in Pending(v)
    BY DEF Pending
  <2>2. pc[v] = "ends" => \A l \in Ends(v) : rows[v][Slot(l)] \in Pending(v)
    BY DEF Pending
  <2>3. QED BY <1>2, <2>1, <2>2 DEF WarpSums, FreshReads, Ends
<1>6. OutSum(v)'
  BY DEF WarpSums, OutSum, Upto, Begin, End, Minimum
<1>7. Closed(v)' = Closed(v)
  BY DEF Closed, Ahead, Open, Begin, End, Minimum
<1>8. QED BY <1>3, <1>4, <1>5, <1>6, <1>7 DEF WarpSums

LEMMA InRowSplits ==
  ASSUME NEW r, NEW A, NEW B
  PROVE  InRow(r, A \cup B) = InRow(r, A) \cup InRow(r, B)
BY DEF InRow

(* So a step of w is right if it is right for w, and adds to y what it     *)
(* closes.                                                                 *)
LEMMA WarpStepSums ==
  ASSUME NEW B \in SUBSET {NNZ},
         IInv, CarryInv, SumInv(B), NEW w \in Launched, host = "flat",
         UNCHANGED <<I, host, group>>,
         \A v \in Launched : v # w =>
            /\ pc'[v] = pc[v] /\ n'[v] = n[v] /\ rows'[v] = rows[v]
            /\ vals'[v] = vals[v] /\ reg'[v] = reg[v] /\ stride'[v] = stride[v],
         WarpSums(w)',
         \A i \in written' : temp'[i].val = Each(Terms, CarryOf(i)),
         NEW New, New \cap Closed(w) = {}, New \subseteq Begin(w)..End(w)-1,
         Closed(w)' = Closed(w) \cup New,
         \A r \in Rows : \/ y'[r] = y[r] /\ InRow(r, New) = {}
                         \/ r \in Pending(w) /\ y'[r] = y[r] ++ Each(Terms, InRow(r, New))
  PROVE  SumInv(B)'
<1>1. \A r \in Rows : r \notin Pending(w) => y'[r] = y[r]
  OBVIOUS
<1>2. \A v \in Launched : v # w => WarpSums(v)' /\ Closed(v)' = Closed(v)
  BY <1>1, OtherSums DEF SumInv
<1>3. \A v \in Launched : WarpSums(v)'
  BY <1>2
<1>4. \A i \in written' : temp'[i].val = Each(Terms, CarryOf(i)')
  <2>1. \A i : CarryOf(i)' = CarryOf(i)
    BY DEF CarryOf, Upto, Begin, End, Minimum
  <2>2. QED BY <2>1
<1>5. group.pc = "load"
  BY DEF CarryInv, GroupInOrder
<1>6. GroupSums'
  BY <1>5 DEF SumInv, GroupSums
<1>7. Counted = UNION {Closed(v) : v \in Launched}
  <2>1. \A v \in Launched : Brought(v) = Closed(v)
    BY NothingDelivered DEF SumInv
  <2>2. QED BY <2>1 DEF Counted
<1>8. Counted' = UNION {Closed(v)' : v \in Launched}
  <2>1. \A v \in Launched : ~ Delivered(v)
    BY NothingDelivered DEF SumInv
  <2>2. \A v \in Launched : Delivered(v)' = Delivered(v)
    BY DEF Delivered, End, Begin, Minimum
  <2>3. \A v \in Launched : Brought(v)' = Closed(v)'
    BY <2>1, <2>2 DEF Brought
  <2>4. QED BY <2>3 DEF Counted
<1>9. Counted' = Counted \cup New
  BY <1>2, <1>7, <1>8
<1>10. Counted \cap New = {}
  <2>1. \A v \in Launched : v # w => Closed(v) \cap New = {}
    BY BroughtApart, IntervalsApart
  <2>2. QED BY <1>7, <2>1
<1>11. OutputHolds(B)'
  <2>1. SUFFICES ASSUME NEW r \in Rows PROVE y'[r] = Each(Terms, B \cup InRow(r, Counted)')
    BY DEF OutputHolds
  <2>2. y[r] = Each(Terms, B \cup InRow(r, Counted))
    BY DEF SumInv, OutputHolds
  <2>3. InRow(r, Counted)' = InRow(r, Counted) \cup InRow(r, New)
    BY <1>9, InRowSplits DEF InRow
  <2>4. InRow(r, Counted) \cap InRow(r, New) = {}
    BY <1>10 DEF InRow
  <2>5. InRow(r, New) \subseteq 0..NNZ-1
    <3>1. Begin(w) \in Nat /\ End(w) \in Nat /\ End(w) <= NNZ
      BY BoundsType
    <3>2. \A z \in Begin(w)..End(w)-1 : z \in 0..NNZ-1
      BY <3>1, SizeAssumption
    <3>3. QED BY <3>2 DEF InRow
  <2>6. CASE y'[r] = y[r] /\ InRow(r, New) = {}
    BY <2>2, <2>3, <2>6
  <2>7. CASE y'[r] = y[r] ++ Each(Terms, InRow(r, New))
    <3>1. Each(Terms, B \cup InRow(r, Counted)) ++ Each(Terms, InRow(r, New))
            = Each(Terms, B \cup (InRow(r, Counted) \cup InRow(r, New)))
      <4>1. InRow(r, Counted) \cap InRow(r, New) = {} /\ InRow(r, New) \subseteq 0..NNZ-1
        BY <2>4, <2>5
      <4>2. \A S, T : S \cap T = {} /\ T \subseteq 0..NNZ-1
              => Each(Terms, B \cup S) ++ Each(Terms, T) = Each(Terms, B \cup (S \cup T))
        BY MoreOutput
      <4>3. QED BY <4>1, <4>2, Zenon
    <3>2. QED BY <2>2, <2>3, <2>7, <3>1
  <2>8. QED BY <2>6, <2>7
<1>12. QED BY <1>3, <1>4, <1>6, <1>11 DEF SumInv

(* Most steps close nothing and write nothing.                             *)
LEMMA QuietStepSums ==
  ASSUME NEW B \in SUBSET {NNZ},
         IInv, CarryInv, SumInv(B), NEW w \in Launched, host = "flat",
         UNCHANGED <<I, y, host, temp, written, group>>,
         \A v \in Launched : v # w =>
            /\ pc'[v] = pc[v] /\ n'[v] = n[v] /\ rows'[v] = rows[v]
            /\ vals'[v] = vals[v] /\ reg'[v] = reg[v] /\ stride'[v] = stride[v],
         WarpSums(w)', Closed(w)' = Closed(w)
  PROVE  SumInv(B)'
<1>1. \A i \in written' : temp'[i].val = Each(Terms, CarryOf(i))
  BY DEF SumInv
<1>2. \A r \in Rows : y'[r] = y[r] /\ InRow(r, {}) = {}
  BY DEF InRow
<1>3. Closed(w)' = Closed(w) \cup {} /\ {} \cap Closed(w) = {}
  OBVIOUS
<1>4. QED BY <1>1, <1>2, <1>3, WarpStepSums

(* The order of the entries, and those of the chunk of a working warp.     *)
LEMMA Ordered ==
  ASSUME IInv
  PROVE  \A a \in 0..NNZ-1 :
           /\ I[a] \in Rows /\ I[a] \in Int
           /\ \A b \in 0..NNZ-1 : a <= b => I[a] <= I[b]
BY SizeAssumption DEF IInv, TypeOK, RowOrdered, Rows

LEMMA Chunk ==
  ASSUME IInv, NEW w \in Launched, pc[w] \in Working
  PROVE  /\ Begin(w) \in Nat /\ n[w] \in Nat /\ End(w) \in Nat /\ End(w) <= NNZ
         /\ Begin(w) <= n[w] /\ n[w] + WarpSize <= End(w)
         /\ \A l \in Lanes : n[w] + l \in 0..NNZ-1 /\ l \in 0..WarpSize-1
         /\ \A z \in Begin(w)..n[w]+WarpSize-1 : z \in 0..NNZ-1
<1>1. /\ Begin(w) \in Nat /\ n[w] \in Nat /\ End(w) \in Nat /\ End(w) <= NNZ
      /\ Begin(w) <= n[w] /\ n[w] + WarpSize <= End(w)
  BY BoundsType DEF IInv, WarpInv, InInterval, TypeOK
<1>2. QED BY <1>1, SizeAssumption DEF Lanes

LEMMA LeaveSums ==
  ASSUME NEW B \in SUBSET {NNZ},
         IInv, CarryInv, SumInv(B), NEW w \in Launched, Leave(w)
  PROVE  SumInv(B)'
<1>1. /\ TypeOK /\ Begin(w) \in Nat /\ End(w) \in Nat /\ Begin(w) >= End(w)
      /\ pc[w] = "start" /\ pc' = [pc EXCEPT ![w] = "exit"] /\ host = "flat"
      /\ UNCHANGED <<I, y, host, n, vals, reg, stride, temp, written, group>>
  BY BoundsType DEF Leave, Step, Goto, IInv
<1>2. \A v \in Launched : v # w => pc'[v] = pc[v] /\ rows'[v] = rows[v]
  BY <1>1 DEF Leave, TypeOK
<1>3. pc'[w] = "exit"
  BY <1>1 DEF TypeOK
<1>4. WarpSums(w)'
  BY <1>3 DEF WarpSums, CarrySums, ScanSums, FreshReads, OutSum
<1>5. Closed(w)' = Closed(w)
  <2>1. Ahead(w) = Begin(w) /\ Ahead(w)' = End(w)
    BY <1>1, <1>3 DEF Ahead, Working, Begin, End, Minimum
  <2>2. Closed(w) = {} /\ Closed(w)' = {}
    BY <1>1, <2>1 DEF Closed, Begin
  <2>3. QED BY <2>2
<1>6. QED BY <1>1, <1>2, <1>4, <1>5, QuietStepSums

LEMMA StartSums ==
  ASSUME NEW B \in SUBSET {NNZ},
         IInv, CarryInv, SumInv(B), NEW w \in Launched, Start(w)
  PROVE  SumInv(B)'
<1>1. /\ TypeOK /\ Begin(w) \in Nat /\ pc[w] = "start" /\ pc' = [pc EXCEPT ![w] = "carry"]
      /\ n' = [n EXCEPT ![w] = Begin(w)] /\ vals' = [vals EXCEPT ![w][Last] = None]
      /\ UNCHANGED <<I, y, host, reg, stride, temp, written, group>> /\ host = "flat"
  BY BoundsType DEF Start, Step, Goto, IInv
<1>2. \A v \in Launched : v # w =>
        pc'[v] = pc[v] /\ n'[v] = n[v] /\ rows'[v] = rows[v] /\ vals'[v] = vals[v]
  BY <1>1 DEF Start, TypeOK
<1>3. pc'[w] = "carry" /\ n'[w] = Begin(w) /\ vals'[w][Last] = None
  BY <1>1, HalfType DEF TypeOK
<1>4. WarpSums(w)'
  <2>1. Begin(w)..n'[w]-1 = {}
    BY <1>1, <1>3
  <2>2. {z \in Begin(w)..n'[w]-1 : I[z] = rows'[w][Slot(Last)]} = {}
    BY <2>1
  <2>3. CarrySums(w)'
    BY <1>1, <1>3, <2>1, <2>2, EachOne DEF CarrySums, Begin
  <2>4. QED BY <1>3, <2>3 DEF WarpSums, ScanSums, FreshReads, OutSum
<1>5. Closed(w)' = Closed(w)
  <2>1. Ahead(w) = Begin(w) /\ Ahead(w)' = Begin(w)
    BY <1>1, <1>3 DEF Ahead, Working, Begin
  <2>2. Closed(w) = {} /\ Closed(w)' = {}
    BY <1>1, <2>1 DEF Closed, Begin
  <2>3. QED BY <2>2
<1>6. QED BY <1>1, <1>2, <1>4, <1>5, QuietStepSums

(* What the lanes hold before the scan.                                    *)
LEMMA StoreSums ==
  ASSUME IInv, NEW w \in Launched, pc[w] \in Working, NEW first, first \in Sum, Store(w, first),
         PowerOf2, UNCHANGED <<I, n>>, pc'[w] = "scan",
         first = Each(Terms, Upto(w, n[w]))
  PROVE  WarpSums(w)'
<1>1. /\ TypeOK /\ vals'[w] = [l \in Lanes |-> IF l = 0 THEN first ELSE Only(Terms, n[w] + l)]
      /\ stride'[w] = 1
  BY DEF Store, IInv, TypeOK
<1>2. ASSUME NEW l \in Lanes PROVE vals'[w][l] = Each(Terms, Near(w, l, 1))
  <2>1. CASE l = 0
    <3>1. Near(w, 0, 1) = Upto(w, n[w])
      <4>1. n[w] + 0 = n[w]
        BY <1>1 DEF TypeOK
      <4>2. QED BY <4>1 DEF Near
    <3>2. QED BY <1>1, <2>1, <3>1
  <2>2. CASE l # 0
    <3>1. l \in 1..WarpSize-1 /\ n[w] \in Nat /\ Begin(w) <= n[w] /\ Begin(w) \in Nat
      BY <2>2, Chunk
    <3>2. Near(w, l, 1) = {n[w] + l}
      BY <3>1 DEF Near, Upto
    <3>3. QED BY <1>1, <2>2, <3>2, EachOne
  <2>3. QED BY <2>1, <2>2
<1>3. \A l : Near(w, l, 1)' = Near(w, l, 1)
  BY DEF Near, Upto, Begin
<1>4. ScanSums(w)'
  BY <1>1, <1>2, <1>3, DoublesType DEF ScanSums
<1>5. QED BY <1>4 DEF WarpSums, CarrySums, FreshReads, OutSum

LEMMA StoreOthers ==
  ASSUME TypeOK, NEW w \in Launched, NEW first, Store(w, first)
  PROVE  \A v \in Launched : v # w =>
           rows'[v] = rows[v] /\ vals'[v] = vals[v] /\ stride'[v] = stride[v]
BY DEF Store, TypeOK

LEMMA CarryInSums ==
  ASSUME NEW B \in SUBSET {NNZ},
         PowerOf2, IInv, CarryInv, SumInv(B), NEW w \in Launched, CarryIn(w)
  PROVE  SumInv(B)'
<1>1. /\ TypeOK /\ pc[w] = "carry" /\ pc' = [pc EXCEPT ![w] = "scan"] /\ host = "flat"
      /\ UNCHANGED <<I, y, host, n, reg, temp, written, group>>
      /\ I[n[w]] = rows[w][Slot(Last)]
      /\ Store(w, Only(Terms, n[w]) ++ vals[w][Last])
  BY DEF CarryIn, CarryContinues, Step, Goto, IInv
<1>2. \A v \in Launched : v # w =>
        /\ pc'[v] = pc[v] /\ rows'[v] = rows[v] /\ vals'[v] = vals[v] /\ stride'[v] = stride[v]
  BY <1>1, StoreOthers DEF TypeOK
<1>3. pc'[w] = "scan" /\ pc[w] \in Working
  BY <1>1 DEF TypeOK, Working
<1>4. Begin(w) \in Nat /\ n[w] \in Nat /\ Begin(w) <= n[w]
  BY <1>3, Chunk
<1>5. vals[w][Last] = Each(Terms, {z \in Begin(w)..n[w]-1 : I[z] = I[n[w]]})
  BY <1>1 DEF SumInv, WarpSums, CarrySums
<1>6. Only(Terms, n[w]) ++ vals[w][Last] = Each(Terms, Upto(w, n[w]))
  <2>1. {n[w]} \cap {z \in Begin(w)..n[w]-1 : I[z] = I[n[w]]} = {}
    BY <1>4
  <2>2. {n[w]} \cup {z \in Begin(w)..n[w]-1 : I[z] = I[n[w]]} = Upto(w, n[w])
    BY <1>4 DEF Upto
  <2>3. QED BY <1>5, <2>1, <2>2, EachOne, EachSplits
<1>7. WarpSums(w)'
  BY <1>1, <1>3, <1>6, EachOne, StoreSums
<1>8. Closed(w)' = Closed(w)
  <2>1. Ahead(w) = n[w] /\ Ahead(w)' = n[w] /\ Open(w) = I[n[w]] /\ Open(w)' = I[n[w]]
    BY <1>1, <1>3 DEF Ahead, Open, Working
  <2>2. QED BY <1>1, <2>1 DEF Closed, Begin
<1>9. QED BY <1>1, <1>2, <1>7, <1>8, QuietStepSums

LEMMA FlushReadSums ==
  ASSUME NEW B \in SUBSET {NNZ},
         IInv, CarryInv, SumInv(B), NEW w \in Launched, FlushRead(w)
  PROVE  SumInv(B)'
<1>1. /\ TypeOK /\ pc[w] = "carry" /\ pc' = [pc EXCEPT ![w] = "flush"] /\ host = "flat"
      /\ UNCHANGED <<I, y, host, n, rows, vals, stride, temp, written, group>>
      /\ reg' = [reg EXCEPT ![w][0] = y[rows[w][Slot(Last)]]]
  BY DEF FlushRead, Step, Goto, IInv
<1>2. \A v \in Launched : v # w => pc'[v] = pc[v] /\ reg'[v] = reg[v]
  BY <1>1 DEF TypeOK
<1>3. pc'[w] = "flush" /\ reg'[w][0] = y[rows[w][Slot(Last)]]
  <2>1. 0 \in Lanes
    BY HalfType
  <2>2. QED BY <1>1, <2>1 DEF TypeOK
<1>4. WarpSums(w)'
  BY <1>1, <1>3
     DEF SumInv, WarpSums, CarrySums, ScanSums, FreshReads, OutSum, Begin
<1>5. Closed(w)' = Closed(w)
  BY <1>1, <1>3 DEF Closed, Ahead, Open, Working, Begin
<1>6. QED BY <1>1, <1>2, <1>4, <1>5, QuietStepSums

(* A row that was carried has ended: everything up to here is closed.      *)
LEMMA FlushWriteSums ==
  ASSUME NEW B \in SUBSET {NNZ},
         PowerOf2, IInv, CarryInv, SumInv(B), NEW w \in Launched, FlushWrite(w)
  PROVE  SumInv(B)'
<1> DEFINE c == rows[w][Slot(Last)]
           New == {z \in Begin(w)..n[w]-1 : I[z] = c}
<1>1. /\ TypeOK /\ pc[w] = "flush" /\ pc' = [pc EXCEPT ![w] = "scan"] /\ host = "flat"
      /\ UNCHANGED <<I, host, n, reg, temp, written, group>>
      /\ y' = [y EXCEPT ![c] = reg[w][0] ++ vals[w][Last]]
      /\ Store(w, Only(Terms, n[w]))
  BY DEF FlushWrite, Step, Goto, IInv
<1>2. \A v \in Launched : v # w =>
        /\ pc'[v] = pc[v] /\ rows'[v] = rows[v] /\ vals'[v] = vals[v] /\ stride'[v] = stride[v]
  BY <1>1, StoreOthers DEF TypeOK
<1>3. pc'[w] = "scan" /\ pc[w] \in Working
  BY <1>1 DEF TypeOK, Working
<1>4. /\ Begin(w) \in Nat /\ n[w] \in Nat /\ Begin(w) <= n[w] /\ n[w] < End(w)
      /\ n[w] \in 0..NNZ-1 /\ End(w) \in Nat
      /\ \A z \in Begin(w)..n[w] : z \in 0..NNZ-1 /\ z \in Begin(w)..End(w)-1
  BY <1>3, Chunk, SizeAssumption
<1>5. /\ c \in Rows /\ c \in Int /\ c < I[n[w]] /\ I[n[w]] \in Int
      /\ \A z \in Begin(w)..n[w]-1 : I[z] <= c /\ I[z] \in Int
      /\ vals[w][Last] = Each(Terms, New)
      /\ reg[w][0] = y[c]
  <2>1. c \in Rows /\ c <= I[n[w]] /\ c # I[n[w]]
    BY <1>1 DEF IInv, WarpInv, CarryBehind, CarryEnded
  <2>2. I[n[w]] \in Int /\ c \in Int
    BY <1>4, <2>1, Ordered DEF Rows
  <2>3. \A z \in Begin(w)..n[w]-1 : I[z] \in Int
    BY <1>4, Ordered
  <2>4. QED BY <1>1, <2>1, <2>2, <2>3 DEF SumInv, WarpSums, CarrySums, FreshReads
<1> HIDE DEF c
<1>6. WarpSums(w)'
  <2>1. Upto(w, n[w]) = {n[w]}
    BY <1>4, <1>5 DEF Upto
  <2>2. QED BY <1>1, <1>3, <2>1, EachOne, StoreSums
<1>7. Closed(w)' = Closed(w) \cup New /\ New \cap Closed(w) = {}
      /\ New \subseteq Begin(w)..End(w)-1
  <2>1. Ahead(w) = n[w] /\ Ahead(w)' = n[w] /\ Open(w) = c /\ Open(w)' = I[n[w]]
    BY <1>1, <1>3 DEF Ahead, Open, Working, c
  <2>2. Closed(w)' = {z \in Begin(w)..n[w]-1 : I[z] # I[n[w]]}
    BY <1>1, <2>1 DEF Closed, Begin
  <2>3. Closed(w) = {z \in Begin(w)..n[w]-1 : I[z] # c}
    BY <2>1 DEF Closed
  <2>4. QED BY <1>4, <1>5, <2>2, <2>3
<1>8. ASSUME NEW r \in Rows
      PROVE  \/ y'[r] = y[r] /\ InRow(r, New) = {}
             \/ r \in Pending(w) /\ y'[r] = y[r] ++ Each(Terms, InRow(r, New))
  <2>1. CASE r = c
    <3>1. InRow(r, New) = New /\ r \in Pending(w)
      BY <1>1, <2>1 DEF InRow, Pending, c
    <3>2. y'[r] = y[r] ++ Each(Terms, New)
      BY <1>1, <1>5, <2>1 DEF TypeOK
    <3>3. QED BY <3>1, <3>2
  <2>2. CASE r # c
    BY <1>1, <2>2 DEF InRow, TypeOK
  <2>3. QED BY <2>1, <2>2
<1>9. \A i \in written' : temp'[i].val = Each(Terms, CarryOf(i))
  BY <1>1 DEF SumInv
<1> HIDE DEF New
<1>10. QED BY <1>1, <1>2, <1>6, <1>7, <1>8, <1>9, WarpStepSums

LEMMA NearAt ==
  ASSUME NEW w, NEW l, NEW s, NEW K, K = n[w] + l
  PROVE  Near(w, l, s) = {z \in Begin(w)..K : I[z] = I[K] /\ (l < s \/ z > K - s)}
<1>1. Near(w, l, s) = {z \in Upto(w, K) : l < s \/ z > K - s}
  BY DEF Near
<1>2. QED BY <1>1 DEF Upto

(* A step of the scan doubles how far back a lane's sum reaches.           *)
LEMMA ScanLane ==
  ASSUME IInv, NEW w \in Launched, pc[w] = "scan", NEW s \in 1..HalfWarp, NEW l \in Lanes,
         \A k \in Lanes : vals[w][k] = Each(Terms, Near(w, k, s))
  PROVE  (IF rows[w][Slot(l)] = rows[w][Slot(l) - s] THEN vals[w][l] ++ vals[w][l - s]
          ELSE vals[w][l]) = Each(Terms, Near(w, l, 2 * s))
<1>1. /\ pc[w] \in Working /\ \A k \in Lanes : rows[w][Slot(k)] = I[n[w] + k]
      /\ \A k \in 0..HalfWarp-1 : rows[w][k] = NoRow
  BY DEF Working, IInv, WarpInv, ChunkLoaded, PaddingHolds
<1>2. /\ l \in Nat /\ s \in Nat /\ n[w] \in Nat /\ Begin(w) \in Nat /\ Begin(w) <= n[w]
      /\ n[w] + l \in 0..NNZ-1 /\ HalfWarp \in Nat
  BY <1>1, Chunk, HalfType
<1>3. CASE l < s
  <2>1. Slot(l) - s \in 0..HalfWarp-1
    BY <1>2, <1>3 DEF Slot
  <2>2. rows[w][Slot(l)] # rows[w][Slot(l) - s]
    BY <1>1, <1>2, <2>1, Ordered DEF Rows, NoRow
  <2>3. Near(w, l, 2 * s) = Near(w, l, s)
    BY <1>2, <1>3 DEF Near
  <2>4. QED BY <2>2, <2>3
<1>4. CASE l >= s
  <2>1. PICK k \in Lanes : k = l - s /\ l = k + s /\ k \in Nat
    <3>1. l \in 0..WarpSize-1 /\ WarpSize \in Nat
      BY SizeAssumption DEF Lanes
    <3>2. l - s \in 0..WarpSize-1 /\ l = (l - s) + s /\ l - s \in Nat
      BY <1>2, <1>4, <3>1
    <3>3. QED BY <3>2 DEF Lanes
  <2>2. Slot(l) - s = Slot(k) /\ n[w] + k \in 0..NNZ-1
    <3>1. Slot(l) - s = Slot(k)
      BY <1>2, <2>1 DEF Slot
    <3>2. n[w] + k \in 0..NNZ-1
      BY <1>1, <2>1, Chunk
    <3>3. QED BY <3>1, <3>2
  <2>3. PICK K \in 0..NNZ-1, L \in 0..NNZ-1, B \in Nat :
           K = n[w] + k /\ L = n[w] + l /\ B = Begin(w) /\ L = K + s
    BY <1>2, <2>1, <2>2
  <2>4. K \in Nat /\ L \in Nat /\ NNZ \in Nat
    BY SizeAssumption
  <2>5. (n[w] + l) - s = K /\ (n[w] + l) - 2 * s = K - s /\ (k < s <=> l < 2 * s) /\ ~ l < s
    BY <1>2, <1>4, <2>1, <2>3
  <2>6. /\ Near(w, l, s) = {z \in B..L : I[z] = I[L] /\ z > K}
        /\ Near(w, k, s) = {z \in B..K : I[z] = I[K] /\ (k < s \/ z > K - s)}
        /\ Near(w, l, 2 * s) = {z \in B..L : I[z] = I[L] /\ (k < s \/ z > K - s)}
    <3>1. Near(w, l, s) = {z \in B..L : I[z] = I[L] /\ z > K}
      BY <2>3, <2>5 DEF Near, Upto
    <3>2. Near(w, k, s) = {z \in B..K : I[z] = I[K] /\ (k < s \/ z > K - s)}
      BY <2>3, NearAt
    <3>3. Near(w, l, 2 * s) = {z \in B..L : I[z] = I[L] /\ (l < 2 * s \/ z > (n[w] + l) - 2 * s)}
      BY <2>3 DEF Near, Upto
    <3>4. QED BY <2>5, <3>1, <3>2, <3>3
  <2>7. CASE I[L] = I[K]
    <3>1. Near(w, l, s) \cap Near(w, k, s) = {}
      BY <2>4, <2>6
    <3>2. Near(w, l, s) \cup Near(w, k, s) = Near(w, l, 2 * s)
      BY <1>2, <2>3, <2>4, <2>6, <2>7
    <3>3. rows[w][Slot(l)] = rows[w][Slot(l) - s]
      BY <1>1, <2>2, <2>3, <2>7
    <3>4. QED BY <2>1, <3>1, <3>2, <3>3, EachSplits
  <2>8. CASE I[L] # I[K]
    <3>1. ASSUME NEW z \in B..L, I[z] = I[L], z <= K PROVE FALSE
      <4>1. z \in 0..NNZ-1
        BY <2>3, <2>4, <3>1
      <4>2. I[z] <= I[K] /\ I[K] <= I[L] /\ I[K] \in Int /\ I[L] \in Int
        BY <1>2, <2>3, <2>4, <3>1, <4>1, Ordered
      <4>3. QED BY <2>8, <3>1, <4>2
    <3>2. \A z \in B..L : I[z] = I[L] => z > K
      BY <2>3, <2>4, <3>1
    <3>3. Near(w, l, 2 * s) = Near(w, l, s)
      BY <1>2, <2>3, <2>4, <2>6, <3>2
    <3>4. rows[w][Slot(l)] # rows[w][Slot(l) - s]
      BY <1>1, <2>1, <2>2, <2>3, <2>8
    <3>5. QED BY <3>3, <3>4
  <2>9. QED BY <2>7, <2>8
<1>5. QED BY <1>2, <1>3, <1>4

LEMMA ScanStepSums ==
  ASSUME NEW B \in SUBSET {NNZ},
         PowerOf2, IInv, CarryInv, SumInv(B), NEW w \in Launched, Scan(w)
  PROVE  SumInv(B)'
<1>1. /\ TypeOK /\ pc[w] = "scan" /\ host = "flat" /\ stride[w] <= HalfWarp
      /\ UNCHANGED <<I, y, host, pc, n, rows, reg, temp, written, group>>
      /\ stride' = [stride EXCEPT ![w] = 2 * stride[w]]
  BY DEF Scan, Step, IInv
<1>2. \A v \in Launched : v # w => vals'[v] = vals[v] /\ stride'[v] = stride[v]
  BY <1>1 DEF Scan, TypeOK
<1>3. /\ stride[w] \in Doubles /\ stride[w] \in 1..HalfWarp /\ 2 * stride[w] \in Doubles
      /\ \A l \in Lanes : vals[w][l] = Each(Terms, Near(w, l, stride[w]))
  <2>1. stride[w] \in Doubles /\ \A l \in Lanes : vals[w][l] = Each(Terms, Near(w, l, stride[w]))
    BY <1>1 DEF SumInv, WarpSums, ScanSums
  <2>2. QED BY <1>1, <2>1, DoublesType, HalfType, SizeAssumption
<1>4. stride'[w] = 2 * stride[w]
      /\ \A l \in Lanes : vals'[w][l] =
           IF rows[w][Slot(l)] = rows[w][Slot(l) - stride[w]]
           THEN vals[w][l] ++ vals[w][l - stride[w]] ELSE vals[w][l]
  BY <1>1 DEF Scan, TypeOK
<1>5. \A l \in Lanes : vals'[w][l] = Each(Terms, Near(w, l, stride'[w]))
  BY <1>1, <1>3, <1>4, ScanLane
<1>6. \A l : Near(w, l, stride[w])' = Near(w, l, stride'[w])
  BY <1>1 DEF Near, Upto, Begin
<1>7. WarpSums(w)'
  BY <1>1, <1>3, <1>4, <1>5, <1>6 DEF WarpSums, CarrySums, ScanSums, FreshReads, OutSum
<1>8. Closed(w)' = Closed(w)
  BY <1>1 DEF Closed, Ahead, Open, Working, Begin
<1>9. QED BY <1>1, <1>2, <1>7, <1>8, QuietStepSums

LEMMA EndsReadSums ==
  ASSUME NEW B \in SUBSET {NNZ},
         PowerOf2, IInv, CarryInv, SumInv(B), NEW w \in Launched, EndsRead(w)
  PROVE  SumInv(B)'
<1>1. /\ TypeOK /\ pc[w] = "scan" /\ host = "flat" /\ stride[w] > HalfWarp
      /\ UNCHANGED <<I, y, host, n, rows, vals, stride, temp, written, group>>
      /\ pc' = [pc EXCEPT ![w] = "ends"]
      /\ reg' = [reg EXCEPT ![w] =
           [l \in Lanes |-> IF l \in Ends(w) THEN y[rows[w][Slot(l)]] ELSE reg[w][l]]]
  BY DEF EndsRead, Step, Goto, IInv
<1>2. \A v \in Launched : v # w => pc'[v] = pc[v] /\ reg'[v] = reg[v]
  BY <1>1 DEF TypeOK
<1>3. pc'[w] = "ends" /\ \A l \in Ends(w) : reg'[w][l] = y[rows[w][Slot(l)]]
  <2>1. Ends(w) \subseteq Lanes
    BY DEF Ends
  <2>2. QED BY <1>1, <2>1 DEF TypeOK
<1>4. \A l \in Lanes : vals[w][l] = Each(Terms, Upto(w, n[w] + l))
  <2>1. stride[w] \in Doubles /\ \A l \in Lanes : vals[w][l] = Each(Terms, Near(w, l, stride[w]))
    BY <1>1 DEF SumInv, WarpSums, ScanSums
  <2>2. stride[w] = WarpSize
    BY <1>1, <2>1, DoublesType
  <2>3. \A l \in Lanes : l < WarpSize
    BY SizeAssumption DEF Lanes
  <2>4. \A l \in Lanes : Near(w, l, WarpSize) = Upto(w, n[w] + l)
    BY <2>3 DEF Near
  <2>5. QED BY <2>1, <2>2, <2>4
<1>5. WarpSums(w)'
  <2>1. \A l \in Lanes : Upto(w, n[w] + l)' = Upto(w, n[w] + l)
    BY <1>1 DEF Upto, Begin
  <2>2. ScanSums(w)'
    BY <1>1, <1>3, <1>4, <2>1 DEF ScanSums
  <2>3. FreshReads(w)'
    BY <1>1, <1>3 DEF FreshReads, Ends
  <2>4. QED BY <1>3, <2>2, <2>3 DEF WarpSums, CarrySums, OutSum
<1>6. Closed(w)' = Closed(w)
  BY <1>1, <1>3 DEF Closed, Ahead, Open, Working, Begin
<1>7. QED BY <1>1, <1>2, <1>5, <1>6, QuietStepSums

(* The rows that end in the chunk are closed, and the last one is open.    *)
LEMMA EndsClosed ==
  ASSUME IInv, NEW w \in Launched, pc[w] = "ends",
         NEW r \in Rows, NEW L, L = n[w] + Last
  PROVE  LET New == {z \in Begin(w)..L : I[z] # I[L] /\ (z >= n[w] \/ I[z] = I[n[w]])}
         IN  /\ \A l \in Ends(w) : I[n[w] + l] = r => InRow(r, New) = Upto(w, n[w] + l)
             /\ InRow(r, New) # {} => \E l \in Ends(w) : I[n[w] + l] = r
<1> DEFINE New == {z \in Begin(w)..L : I[z] # I[L] /\ (z >= n[w] \/ I[z] = I[n[w]])}
<1>1. /\ pc[w] \in Working /\ \A k \in Lanes : rows[w][Slot(k)] = I[n[w] + k]
      /\ Begin(w) \in Nat /\ n[w] \in Nat /\ Begin(w) <= n[w] /\ WarpSize \in Nat \ {0}
      /\ L \in Nat /\ L = n[w] + (WarpSize - 1) /\ n[w] <= L
  <2>1. pc[w] \in Working /\ \A k \in Lanes : rows[w][Slot(k)] = I[n[w] + k]
    BY DEF Working, IInv, WarpInv, ChunkLoaded
  <2>2. QED BY <2>1, Chunk, SizeAssumption DEF Last
<1>2. \A z \in Begin(w)..L : z \in 0..NNZ-1 /\ z \in Nat
  BY <1>1, Chunk
<1>3. \A a \in Begin(w)..L : I[a] \in Int /\ \A b \in Begin(w)..L : a <= b => I[a] <= I[b]
  BY <1>2, Ordered
<1>4. ASSUME NEW l \in Ends(w), I[n[w] + l] = r
      PROVE  InRow(r, New) = Upto(w, n[w] + l)
  <2>1. PICK e \in Begin(w)..L :
          e = n[w] + l /\ e + 1 \in Begin(w)..L /\ n[w] <= e /\ I[e + 1] # I[e]
    <3>1. l \in 0..WarpSize-2 /\ l \in Lanes /\ l + 1 \in Lanes
      BY <1>1 DEF Ends, Lanes, Last
    <3>2. I[n[w] + (l + 1)] # I[n[w] + l]
      BY <1>1, <3>1 DEF Ends
    <3>3. n[w] + (l + 1) = (n[w] + l) + 1 /\ n[w] + l \in Begin(w)..L
          /\ (n[w] + l) + 1 \in Begin(w)..L /\ n[w] <= n[w] + l
      BY <1>1, <3>1
    <3>4. QED BY <3>2, <3>3
  <2>2. \A z \in Begin(w)..L : I[z] = r => z <= e
    <3>1. SUFFICES ASSUME NEW z \in Begin(w)..L, I[z] = r, e + 1 <= z PROVE FALSE
      BY <1>1, <2>1
    <3>2. I[e] <= I[e + 1] /\ I[e + 1] <= I[z] /\ I[e] = r
      BY <1>1, <1>3, <1>4, <2>1, <3>1
    <3>3. QED BY <1>3, <2>1, <3>1, <3>2
  <2>3. r # I[L]
    BY <1>1, <2>1, <2>2
  <2>4. \A z \in Begin(w)..L : I[z] = r /\ z < n[w] => I[n[w]] = r
    <3>1. SUFFICES ASSUME NEW z \in Begin(w)..L, I[z] = r, z < n[w] PROVE I[n[w]] = r
      OBVIOUS
    <3>2. n[w] \in Begin(w)..L
      BY <1>1
    <3>3. I[z] <= I[n[w]] /\ I[n[w]] <= I[e] /\ I[e] = r
      BY <1>1, <1>2, <1>3, <1>4, <2>1, <3>1, <3>2
    <3>4. QED BY <1>3, <2>1, <3>1, <3>2, <3>3
  <2>5. Upto(w, n[w] + l) = {z \in Begin(w)..e : I[z] = r}
    BY <1>4, <2>1 DEF Upto
  <2>6. InRow(r, New) = {z \in Begin(w)..L : I[z] = r}
    BY <1>1, <1>2, <2>3, <2>4 DEF InRow
  <2>7. {z \in Begin(w)..L : I[z] = r} = {z \in Begin(w)..e : I[z] = r}
    BY <1>1, <2>1, <2>2
  <2>8. QED BY <2>5, <2>6, <2>7
<1>5. ASSUME NEW z \in InRow(r, New) PROVE \E l \in Ends(w) : I[n[w] + l] = r
  <2>1. PICK k \in 0..WarpSize-1 : I[n[w] + k] = r
    <3>1. z \in Begin(w)..L /\ I[z] = r /\ (z >= n[w] \/ I[n[w]] = r)
      BY <1>5 DEF InRow
    <3>2. CASE z >= n[w]
      <4>1. z - n[w] \in 0..WarpSize-1 /\ n[w] + (z - n[w]) = z
        BY <1>1, <3>1, <3>2
      <4>2. QED BY <3>1, <4>1
    <3>3. CASE I[n[w]] = r
      <4>1. n[w] + 0 = n[w] /\ 0 \in 0..WarpSize-1
        BY <1>1
      <4>2. QED BY <3>3, <4>1
    <3>4. QED BY <3>1, <3>2, <3>3
  <2> DEFINE T == {j \in 0..WarpSize-1 : j > k /\ I[n[w] + j] # r}
  <2>2. T # {}
    <3>1. I[L] # r
      BY <1>5 DEF InRow
    <3>2. WarpSize - 1 \in 0..WarpSize-1 /\ k # WarpSize - 1 /\ k < WarpSize - 1
      BY <1>1, <2>1, <3>1
    <3>3. QED BY <1>1, <3>1, <3>2
  <2>3. PICK m \in T : \A j \in T : m <= j
    <3>1. T \subseteq Nat
      OBVIOUS
    <3>2. QED BY <2>2, <3>1, LeastOf
  <2>4. /\ m - 1 \in 0..WarpSize-1 /\ m - 1 >= k /\ (m - 1) + 1 = m /\ m \in Lanes
        /\ m - 1 \in Lanes \ {Last}
    BY <2>1, <2>3, <1>1 DEF Lanes, Last
  <2>5. m - 1 \notin T
    BY <2>3, <2>4
  <2>6. I[n[w] + (m - 1)] = r
    <3>1. CASE m - 1 = k
      BY <2>1, <3>1
    <3>2. CASE m - 1 > k
      BY <2>4, <2>5, <3>2
    <3>3. QED BY <2>1, <2>4, <3>1, <3>2
  <2>7. I[n[w] + m] # r
    BY <2>3
  <2>8. m - 1 \in Ends(w)
    BY <1>1, <2>4, <2>6, <2>7 DEF Ends
  <2>9. QED BY <2>6, <2>8
<1>6. QED BY <1>4, <1>5

LEMMA EndsWriteSums ==
  ASSUME NEW B \in SUBSET {NNZ},
         PowerOf2, IInv, CarryInv, SumInv(B), NEW w \in Launched, EndsWrite(w)
  PROVE  SumInv(B)'
<1> DEFINE ended == {rows[w][Slot(l)] : l \in Ends(w)}
           L == n[w] + Last
           New == {z \in Begin(w)..L : I[z] # I[L] /\ (z >= n[w] \/ I[z] = I[n[w]])}
<1>1. /\ TypeOK /\ pc[w] = "ends" /\ host = "flat" /\ n' = [n EXCEPT ![w] = n[w] + WarpSize]
      /\ UNCHANGED <<I, host, rows, vals, reg, stride, temp, written, group>>
      /\ pc' = [pc EXCEPT ![w] = IF n[w] + WarpSize < End(w) THEN "carry" ELSE "carryOut"]
  BY DEF EndsWrite, Step, Goto, IInv
<1>1a. PICK keep \in [ended -> Ends(w)] :
         /\ \A r \in ended : rows[w][Slot(keep[r])] = r
         /\ y' = [r \in Rows |-> IF r \in ended THEN reg[w][keep[r]] ++ vals[w][keep[r]] ELSE y[r]]
  BY DEF EndsWrite
<1>2. \A v \in Launched : v # w => pc'[v] = pc[v] /\ n'[v] = n[v]
  BY <1>1 DEF TypeOK
<1>3. /\ pc[w] \in Working /\ Begin(w) \in Nat /\ n[w] \in Nat /\ End(w) \in Nat
      /\ Begin(w) <= n[w] /\ n[w] + WarpSize <= End(w) /\ WarpSize \in Nat \ {0}
      /\ L = n[w] + WarpSize - 1 /\ L \in Nat /\ n[w] <= L /\ L < End(w) /\ Last \in Lanes
      /\ \A k \in Lanes : rows[w][Slot(k)] = I[n[w] + k]
  <2>1. pc[w] \in Working /\ \A k \in Lanes : rows[w][Slot(k)] = I[n[w] + k]
    BY <1>1 DEF Working, IInv, WarpInv, ChunkLoaded
  <2>2. QED BY <2>1, Chunk, SizeAssumption DEF Last, Lanes
<1>4. \A z \in Begin(w)..L : /\ z \in 0..NNZ-1 /\ I[z] \in Int
                             /\ \A b \in Begin(w)..L : z <= b => I[z] <= I[b]
  <2>1. \A z \in Begin(w)..L : z \in 0..NNZ-1
    BY <1>3, Chunk
  <2>2. QED BY <2>1, Ordered
<1>5. /\ n'[w] = L + 1 /\ rows'[w][Slot(Last)] = I[L]
      /\ vals'[w][Last] = Each(Terms, Upto(w, L))
      /\ \/ pc'[w] = "carry"
         \/ pc'[w] = "carryOut" /\ L + 1 = End(w)
  <2>1. vals[w][Last] = Each(Terms, Upto(w, L))
    BY <1>1, <1>3 DEF SumInv, WarpSums, ScanSums
  <2>2. n'[w] = L + 1 /\ rows'[w][Slot(Last)] = I[L]
    BY <1>1, <1>3 DEF TypeOK
  <2>3. pc'[w] = IF n[w] + WarpSize < End(w) THEN "carry" ELSE "carryOut"
    BY <1>1 DEF TypeOK
  <2>4. QED BY <1>1, <1>3, <2>1, <2>2, <2>3
<1>6. WarpSums(w)'
  <2>1. Begin(w)' = Begin(w) /\ End(w)' = End(w)
    BY DEF Begin, End
  <2>2. CASE pc'[w] = "carry"
    <3>1. n'[w] - 1 = L
      BY <1>3, <1>5
    <3>2. \A z \in Begin(w)..L : I[z] <= I[L]
      BY <1>3, <1>4
    <3>3. CarrySums(w)'
      BY <1>1, <1>5, <2>1, <3>1, <3>2 DEF CarrySums, Upto
    <3>4. QED BY <2>2, <3>3 DEF WarpSums, ScanSums, FreshReads, OutSum
  <2>3. CASE pc'[w] = "carryOut" /\ L + 1 = End(w)
    <3>1. End(w) - 1 = L
      BY <1>3, <2>3
    <3>2. OutSum(w)'
      BY <1>1, <1>5, <2>1, <3>1 DEF OutSum, Upto
    <3>3. QED BY <2>3, <3>2 DEF WarpSums, CarrySums, ScanSums, FreshReads
  <2>4. QED BY <1>5, <2>2, <2>3
<1>7. /\ Closed(w)' = Closed(w) \cup New /\ New \cap Closed(w) = {}
      /\ New \subseteq Begin(w)..End(w)-1
  <2>1. Ahead(w) = n[w] /\ Open(w) = I[n[w]]
    BY <1>1 DEF Ahead, Open, Working
  <2>2. Ahead(w)' = L + 1 /\ Open(w)' = I[L]
    <3>1. CASE pc'[w] = "carry"
      BY <1>5, <3>1 DEF Ahead, Open, Working
    <3>2. CASE pc'[w] = "carryOut" /\ L + 1 = End(w)
      <4>1. End(w)' = End(w) /\ End(w) - 1 = L
        BY <1>3, <3>2 DEF End, Begin
      <4>2. QED BY <1>1, <3>2, <4>1 DEF Ahead, Open, Working
    <3>3. QED BY <1>5, <3>1, <3>2
  <2>3. Closed(w)' = {z \in Begin(w)..L : I[z] # I[L]}
    <3>1. (L + 1) - 1 = L
      BY <1>3
    <3>2. QED BY <1>1, <2>2, <3>1 DEF Closed, Begin
  <2>4. Closed(w) = {z \in Begin(w)..n[w]-1 : I[z] # I[n[w]]}
    BY <2>1 DEF Closed
  <2>5. \A z \in Closed(w) : z \in Begin(w)..L /\ I[z] # I[L] /\ ~(z >= n[w] \/ I[z] = I[n[w]])
    <3>1. SUFFICES ASSUME NEW z \in Closed(w)
                   PROVE  z \in Begin(w)..L /\ I[z] # I[L] /\ ~(z >= n[w] \/ I[z] = I[n[w]])
      OBVIOUS
    <3>2. z \in Begin(w)..L /\ z < n[w] /\ I[z] # I[n[w]] /\ n[w] \in Begin(w)..L
          /\ L \in Begin(w)..L /\ z <= n[w] /\ z \in Nat
      BY <1>3, <2>4, <3>1
    <3>3. I[z] <= I[n[w]] /\ I[n[w]] <= I[L] /\ I[z] \in Int /\ I[n[w]] \in Int /\ I[L] \in Int
      BY <1>3, <1>4, <3>2
    <3>4. QED BY <1>3, <3>2, <3>3
  <2>6. \A z \in Begin(w)..L : I[z] # I[L] => z \in New \/ z \in Closed(w)
    BY <1>3, <2>4
  <2>7. QED BY <1>3, <2>3, <2>5, <2>6
<1>8. ASSUME NEW r \in Rows
      PROVE  \/ y'[r] = y[r] /\ InRow(r, New) = {}
             \/ r \in Pending(w) /\ y'[r] = y[r] ++ Each(Terms, InRow(r, New))
  <2>1. /\ \A l \in Ends(w) : I[n[w] + l] = r => InRow(r, New) = Upto(w, n[w] + l)
        /\ InRow(r, New) # {} => \E l \in Ends(w) : I[n[w] + l] = r
    <3>1. pc[w] = "ends" /\ L = n[w] + Last
      BY <1>1
    <3> HIDE DEF L
    <3>2. QED BY <3>1, EndsClosed
  <2>2. \A l \in Ends(w) : l \in Lanes /\ rows[w][Slot(l)] = I[n[w] + l]
    BY <1>3 DEF Ends
  <2>3. CASE r \in ended
    <3>1. PICK l \in Ends(w) : l = keep[r] /\ rows[w][Slot(l)] = r
      BY <1>1a, <2>3
    <3>2. I[n[w] + l] = r /\ reg[w][l] = y[r] /\ vals[w][l] = Each(Terms, Upto(w, n[w] + l))
      BY <1>1, <2>2, <3>1 DEF SumInv, WarpSums, ScanSums, FreshReads
    <3>3. y'[r] = y[r] ++ Each(Terms, Upto(w, n[w] + l))
      BY <1>1a, <2>3, <3>1, <3>2
    <3>4. r \in Pending(w)
      BY <1>1, <2>3 DEF Pending
    <3>5. QED BY <2>1, <3>2, <3>3, <3>4
  <2>4. CASE r \notin ended
    <3>1. InRow(r, New) = {}
      BY <2>1, <2>2, <2>4
    <3>2. y'[r] = y[r]
      BY <1>1a, <2>4
    <3>3. QED BY <3>1, <3>2
  <2>5. QED BY <2>3, <2>4
<1>9. \A i \in written' : temp'[i].val = Each(Terms, CarryOf(i))
  BY <1>1 DEF SumInv
<1> HIDE DEF New, L, ended
<1>10. QED BY <1>1, <1>2, <1>6, <1>7, <1>8, <1>9, WarpStepSums

LEMMA CarryOutSums ==
  ASSUME NEW B \in SUBSET {NNZ},
         IInv, CarryInv, SumInv(B), NEW w \in Launched, CarryOut(w)
  PROVE  SumInv(B)'
<1>1. /\ TypeOK /\ pc[w] = "carryOut" /\ pc' = [pc EXCEPT ![w] = "exit"] /\ host = "flat"
      /\ UNCHANGED <<I, y, host, n, rows, vals, reg, stride, group>>
      /\ temp' = [temp EXCEPT ![w] = [row |-> rows[w][Slot(Last)], val |-> vals[w][Last]]]
      /\ written' = written \cup {w}
  BY DEF CarryOut, Step, Goto, IInv
<1>2. \A v \in Launched : v # w => pc'[v] = pc[v]
  BY <1>1 DEF TypeOK
<1>3. pc'[w] = "exit"
  BY <1>1 DEF TypeOK
<1>4. WarpSums(w)'
  BY <1>3 DEF WarpSums, CarrySums, ScanSums, FreshReads, OutSum
<1>5. Closed(w)' = Closed(w) \cup {} /\ {} \cap Closed(w) = {}
  <2>1. Ahead(w)' = Ahead(w) /\ Open(w)' = Open(w)
    BY <1>1, <1>3 DEF Ahead, Open, Working, Begin, End
  <2>2. QED BY <1>1, <2>1 DEF Closed, Begin
<1>6. \A i \in written' : temp'[i].val = Each(Terms, CarryOf(i))
  <2>1. vals[w][Last] = Each(Terms, CarryOf(w))
    BY <1>1 DEF SumInv, WarpSums, OutSum, CarryOf
  <2>2. w \in 0..ActiveWarps-1
    <3>1. w < ActiveWarps /\ w \in Nat /\ ActiveWarps \in Int
      BY <1>1, CarryRoom, LaunchedType, ActiveType DEF CarryFits
    <3>2. QED BY <3>1
  <2>3. ASSUME NEW i \in written' PROVE temp'[i].val = Each(Terms, CarryOf(i))
    <3>1. CASE i = w
      BY <1>1, <2>1, <2>2, <3>1 DEF TypeOK
    <3>2. CASE i # w
      BY <1>1, <2>3, <3>2 DEF SumInv, TypeOK
    <3>3. QED BY <3>1, <3>2
  <2>4. QED BY <2>3
<1>7. \A r \in Rows : y'[r] = y[r] /\ InRow(r, {}) = {}
  BY <1>1 DEF InRow
<1>8. QED BY <1>1, <1>2, <1>4, <1>5, <1>6, <1>7, WarpStepSums

-----------------------------------------------------------------------------
(* The host, and the second kernel.                                        *)

LEMMA NoCarryBeyond ==
  ASSUME NEW w \in Launched, w >= ActiveWarps
  PROVE  CarryOf(w) = {}
<1>1. Begin(w) \in Nat /\ End(w) \in Nat /\ Begin(w) >= End(w)
  BY BoundsType, NoWorkBeyond, LaunchedType, ActiveType
<1>2. QED BY <1>1 DEF CarryOf, Upto

LEMMA WholeInterval ==
  ASSUME NEW w \in Launched, pc[w] = "exit"
  PROVE  Closed(w) \cup CarryOf(w) = Begin(w)..End(w)-1
<1>1. Ahead(w) = End(w) /\ Open(w) = I[End(w) - 1]
  BY DEF Ahead, Open, Working
<1>2. QED BY <1>1 DEF Closed, CarryOf, Upto

(* Every entry below the tail is in the interval of an active warp.        *)
LEMMA IntervalsCover ==
  ASSUME SameBlocks, NEW z \in 0..Tail-1
  PROVE  \E w \in 0..ActiveWarps-1 : w \in Launched /\ z \in Begin(w)..End(w)-1
<1>1. IntervalSize \in Nat \ {0} /\ Tail \in Nat /\ z \in Nat
  BY LaunchType, UnitsType
<1>2. PICK w \in Nat : w * IntervalSize <= z /\ z < (w + 1) * IntervalSize
  BY <1>1, DivType
<1>3. (w + 1) * IntervalSize = w * IntervalSize + IntervalSize /\ w * IntervalSize \in Nat
  BY <1>1
<1>4. w < ActiveWarps
  <2>1. SUFFICES ASSUME ActiveWarps <= w PROVE FALSE
    BY ActiveType
  <2>2. PICK e \in Nat : w = ActiveWarps + e
    BY <2>1, ActiveType
  <2>3. w * IntervalSize = ActiveWarps * IntervalSize + e * IntervalSize
        /\ e * IntervalSize \in Nat
    BY <1>1, <2>2, ActiveType
  <2>4. QED BY <1>1, <1>2, <1>3, <2>3, ActiveType
<1>5. w \in 0..ActiveWarps-1
  BY <1>4, ActiveType
<1>6. z \in Begin(w)..End(w)-1
  BY <1>1, <1>2, <1>3 DEF Begin, End, Minimum
<1>7. QED BY <1>5, <1>6, ActiveLaunched

(* Outside of the flat kernel the warps are as they were.                  *)
LEMMA SettledSums ==
  ASSUME NEW B \in SUBSET {NNZ},
         SumInv(B), UNCHANGED <<I, flatVars>>,
         y' = y \/ \A w \in Launched : pc[w] \in {"start", "exit"}
  PROVE  /\ \A w \in Launched : WarpSums(w)'
         /\ \A i \in written' : temp'[i].val = Each(Terms, CarryOf(i)')
         /\ \A w : Closed(w)' = Closed(w) /\ CarryOf(w)' = CarryOf(w) /\ End(w)' = End(w)
<1>1. UNCHANGED <<I, pc, n, rows, vals, reg, stride, temp, written>>
  BY DEF flatVars
<1>2. \A w : End(w)' = End(w) /\ Begin(w)' = Begin(w)
  BY DEF End, Begin
<1>3. \A w : Closed(w)' = Closed(w) /\ CarryOf(w)' = CarryOf(w)
  BY <1>1, <1>2 DEF Closed, Ahead, Open, CarryOf, Upto
<1>4. ASSUME NEW w \in Launched PROVE WarpSums(w)'
  <2>1. WarpSums(w)
    BY DEF SumInv
  <2>2. CASE y' = y
    <3>1. CarrySums(w)' /\ OutSum(w)'
      BY <1>1, <1>2, <2>1 DEF WarpSums, CarrySums, OutSum, Upto
    <3>2. ScanSums(w)' /\ FreshReads(w)'
      BY <1>1, <1>2, <2>1, <2>2 DEF WarpSums, ScanSums, FreshReads, Near, Upto, Ends
    <3>3. QED BY <3>1, <3>2 DEF WarpSums
  <2>3. CASE pc[w] \in {"start", "exit"}
    BY <1>1, <2>3 DEF WarpSums, CarrySums, ScanSums, FreshReads, OutSum
  <2>4. QED BY <2>2, <2>3
<1>5. QED BY <1>1, <1>2, <1>3, <1>4 DEF SumInv

LEMMA ClearedSums ==
  ASSUME NEW B \in SUBSET {NNZ},
         IInv, CarryInv, SumInv(B), host = "set", host' = "flat", UNCHANGED <<I, flatVars, group>>,
         \A r \in Rows : y'[r] = Each(Terms, B)
  PROVE  SumInv(B)'
<1>1. /\ host = "set" /\ host' = "flat" /\ UNCHANGED <<I, flatVars, group>>
      /\ group.pc = "load" /\ \A w \in Launched : pc[w] = "start"
  BY DEF CarryInv, GroupInOrder, SumInv
<1>2. /\ \A w \in Launched : WarpSums(w)'
      /\ \A i \in written' : temp'[i].val = Each(Terms, CarryOf(i)')
      /\ \A w : Closed(w)' = Closed(w) /\ End(w)' = End(w)
  BY <1>1, SettledSums
<1>3. GroupSums'
  BY <1>1 DEF SumInv, GroupSums
<1>4. ASSUME NEW w \in Launched PROVE Brought(w)' = {}
  <2>1. ~ Delivered(w)
    BY <1>1, NothingDelivered DEF SumInv
  <2>2. ~ Delivered(w)'
    BY <1>1, <1>2, <2>1 DEF Delivered
  <2>3. Closed(w) = {}
    <3>1. Begin(w) \in Nat /\ Ahead(w) = Begin(w)
      BY <1>1, BoundsType DEF Ahead, Working
    <3>2. QED BY <3>1 DEF Closed
  <2>4. QED BY <1>2, <2>2, <2>3 DEF Brought
<1>5. OutputHolds(B)'
  <2>1. Counted' = {}
    BY <1>1, <1>4 DEF Counted
  <2>2. \A r : InRow(r, Counted)' = {}
    BY <2>1 DEF InRow
  <2>3. QED BY <1>1, <2>2 DEF OutputHolds
<1>6. QED BY <1>1, <1>2, <1>3, <1>5 DEF SumInv

LEMMA ZeroOutSums ==
  ASSUME IInv, CarryInv, SumInv({}), ZeroOut
  PROVE  SumInv({})'
<1>1. \A r \in Rows : y'[r] = Each(Terms, {})
  BY EachOne DEF ZeroOut
<1>2. {} \in SUBSET {NNZ}
  OBVIOUS
<1>3. QED BY <1>1, <1>2, ClearedSums DEF ZeroOut

(* A step that adds nothing to y.                                          *)
LEMMA KeepSums ==
  ASSUME NEW B \in SUBSET {NNZ},
         SumInv(B), UNCHANGED <<I, y, flatVars>>, host # "set", host' # "set", GroupSums',
         Counted' = Counted
  PROVE  SumInv(B)'
<1>1. OutputHolds(B)'
  BY DEF SumInv, OutputHolds, InRow
<1>2. QED BY <1>1, SettledSums DEF SumInv

LEMMA FlatDoneSums ==
  ASSUME NEW B \in SUBSET {NNZ},
         IInv, CarryInv, SumInv(B), FlatDone
  PROVE  SumInv(B)'
<1>1. /\ host = "flat" /\ host' = "reduce" /\ UNCHANGED <<I, y, flatVars>>
      /\ group.pc = "load" /\ group.base = 0 /\ group.added = {}
  BY DEF FlatDone, CarryInv, GroupInOrder, SumInv, GroupSums
<1>2. /\ group'.base = group.base /\ group'.added = group.added /\ group'.pc = group.pc
      /\ group'.rows[Block] = NoRow
  <2>1. group \in GroupState /\ Block \in 0..Block
    BY GroupSizes DEF IInv, TypeOK
  <2>2. QED BY <2>1 DEF FlatDone, GroupState
<1>3. GroupSums'
  BY <1>1, <1>2 DEF GroupSums
<1>4. Counted' = Counted
  <2>1. \A w : Delivered(w)' = Delivered(w)
    BY <1>1, <1>2 DEF Delivered
  <2>2. \A w \in Launched : Brought(w)' = Brought(w)
    BY <1>1, <2>1, SettledSums DEF Brought
  <2>3. QED BY <1>1, <2>2 DEF Counted
<1>5. QED BY <1>1, <1>3, <1>4, KeepSums

LEMMA SerialSums ==
  ASSUME NEW B \in SUBSET {NNZ},
         IInv, CarryInv, SumInv(B), Serial
  PROVE  SumInv(B)'
<1>1. /\ host = "serial" /\ host' = "serial" /\ UNCHANGED <<I, flatVars>> /\ group.base < NNZ
      /\ y' = [y EXCEPT ![I[group.base]] = @ ++ Only(Terms, group.base)]
      /\ group' = [group EXCEPT !.base = @ + 1]
      /\ group.pc = "load" /\ \A w \in Launched : pc[w] = "exit"
  BY DEF Serial, CarryInv, GroupInOrder
<1>2. PICK b \in 0..NNZ-1 : b = group.base
  BY <1>1, SizeAssumption DEF SumInv, GroupSums
<1>3. group'.base = b + 1 /\ group'.pc = group.pc /\ group'.added = group.added
  BY <1>1, <1>2 DEF IInv, TypeOK, GroupState
<1>4. GroupSums'
  BY <1>1, <1>2, <1>3, SizeAssumption DEF SumInv, GroupSums
<1>5. OutputHolds(B)'
  <2>1. Counted = 0..b-1 /\ Counted' = 0..b
    BY <1>1, <1>2, <1>3 DEF Counted
  <2>2. Counted' = Counted \cup {b} /\ b \notin Counted
    BY <1>2, <2>1
  <2>3. ASSUME NEW r \in Rows PROVE y'[r] = Each(Terms, B \cup InRow(r, Counted)')
    <3>1. y[r] = Each(Terms, B \cup InRow(r, Counted))
      BY <1>1 DEF SumInv, OutputHolds
    <3>2. CASE r = I[b]
      <4>1. InRow(r, Counted)' = InRow(r, Counted) \cup {b} /\ InRow(r, Counted) \cap {b} = {}
        BY <1>1, <2>2, <3>2 DEF InRow
      <4>2. y'[r] = y[r] ++ Only(Terms, b)
        BY <1>1, <1>2, <3>2 DEF IInv, TypeOK
      <4>3. Each(Terms, B \cup InRow(r, Counted)) ++ Each(Terms, {b})
              = Each(Terms, B \cup (InRow(r, Counted) \cup {b}))
        <5>1. {b} \subseteq 0..NNZ-1
          BY <1>2
        <5>2. QED BY <4>1, <5>1, MoreOutput, Zenon
      <4>4. QED BY <3>1, <4>1, <4>2, <4>3, EachOne
    <3>3. CASE r # I[b]
      <4>1. InRow(r, Counted)' = InRow(r, Counted)
        BY <1>1, <2>2, <3>3 DEF InRow
      <4>2. y'[r] = y[r]
        BY <1>1, <1>2, <3>3 DEF IInv, TypeOK
      <4>3. QED BY <3>1, <4>1, <4>2
    <3>4. QED BY <3>2, <3>3
  <2>4. QED BY <1>1, <2>3 DEF OutputHolds
<1>6. QED BY <1>1, <1>4, <1>5, SettledSums DEF SumInv

LEMMA SerialDoneSums ==
  ASSUME NEW B \in SUBSET {NNZ},
         IInv, CarryInv, SumInv(B), SerialDone
  PROVE  SumInv(B)'
<1>1. /\ host = "serial" /\ host' = "returned" /\ UNCHANGED <<I, y, flatVars, group>>
      /\ group.base >= NNZ /\ group.pc = "load"
  BY DEF SerialDone, CarryInv, GroupInOrder
<1>2. GroupSums'
  BY <1>1 DEF SumInv, GroupSums
<1>3. Counted' = Counted
  <2>1. group.base = NNZ
    BY <1>1, SizeAssumption DEF SumInv, GroupSums
  <2>2. QED BY <1>1, <2>1 DEF Counted
<1>4. QED BY <1>1, <1>2, <1>3, KeepSums

(* What the items of a block hold.                                         *)
LEMMA BlockRows ==
  ASSUME NEW B \in SUBSET {NNZ},
         IInv, CarryInv, host = "reduce", group.pc = "scan", SumInv(B)
  PROVE  /\ group \in GroupState /\ group.base \in Nat /\ Items \subseteq Nat
         /\ \A t \in Items : 0..t \subseteq Items
         /\ \A t \in Items : ~Padded(group.base + t) =>
              /\ group.rows[t] = I[End(group.base + t) - 1]
              /\ group.vals[t] = Each(Terms, Gathered(t, group.stride))
              /\ \A u \in 0..t : ~Padded(group.base + u)
         /\ \A t \in Items : Padded(group.base + t) => group.rows[t] = NoRow
         /\ group.added \subseteq Updates /\ group.held \subseteq Updates
         /\ group.held \cap group.added = {}
<1>1. group \in GroupState /\ group.base \in Nat /\ GroupInOrder /\ GroupSums
  BY DEF IInv, TypeOK, CarryInv, GroupState, SumInv
<1>2. \A t \in Items : t \in Nat /\ 0..t \subseteq Items
  <2>1. PICK m \in Int : m = HostWarps * WarpSize
    BY SizeAssumption
  <2>2. Items = 0..m-1
    BY <2>1 DEF Items
  <2>3. QED BY <2>2
<1>3. \A t \in Items : ~Padded(group.base + t) => \A u \in 0..t : ~Padded(group.base + u)
  BY <1>1, <1>2, ActiveType DEF Padded
<1>4. QED BY <1>1, <1>2, <1>3 DEF GroupInOrder, GroupSums

LEMMA BlockWarps ==
  ASSUME SameBlocks, IInv, group.base \in Nat, NEW t \in Items, ~Padded(group.base + t)
  PROVE  /\ group.base + t \in 0..ActiveWarps-1
         /\ group.base + t \in Launched
         /\ Begin(group.base + t) < End(group.base + t)
         /\ I[End(group.base + t) - 1] \in Rows
<1>1. group.base + t \in 0..ActiveWarps-1
  BY ActiveType DEF Padded, Items
<1>2. I[End(group.base + t) - 1] \in Rows
  BY <1>1, CarriesOrdered, ActiveType
<1>3. QED BY <1>1, <1>2, ActiveLaunched

(* A step of the scan doubles how far back an item's sum reaches.          *)
LEMMA GroupLane ==
  ASSUME NEW B \in SUBSET {NNZ},
         SameBlocks, IInv, CarryInv, SumInv(B), host = "reduce", group.pc = "scan",
         NEW s \in Nat, s = group.stride, NEW t \in Items, ~Padded(group.base + t)
  PROVE  group.vals[t] ++ (IF t >= s /\ group.rows[t] = group.rows[t - s]
                           THEN group.vals[t - s] ELSE None)
           = Each(Terms, Gathered(t, 2 * s))
<1> DEFINE b == group.base
           R(u) == I[End(b + u) - 1]
           C(u) == CarryOf(b + u)
<1>1. /\ b \in Nat /\ t \in Nat /\ 0..t \subseteq Items /\ s >= 0
      /\ \A u \in 0..t : /\ ~Padded(b + u) /\ group.rows[u] = R(u)
                         /\ group.vals[u] = Each(Terms, Gathered(u, s))
  BY BlockRows
<1>2. \A u \in 0..t : R(u) \in Int /\ \A v \in 0..t : u <= v => R(u) <= R(v)
  <2>1. \A u \in 0..t : b + u \in 0..ActiveWarps-1
    BY <1>1, BlockWarps
  <2>2. SUFFICES ASSUME NEW u \in 0..t PROVE R(u) \in Int /\ \A v \in 0..t : u <= v => R(u) <= R(v)
    OBVIOUS
  <2>3. R(u) \in Rows
    BY <1>1, <2>2, BlockWarps
  <2>4. \A v \in 0..t : u <= v => b + u <= b + v
    BY <1>1
  <2>5. \A v \in 0..t : u <= v => R(u) <= R(v)
    BY <2>1, <2>4, CarriesOrdered
  <2>6. QED BY <2>3, <2>5, SizeAssumption DEF Rows
<1>3. \A u \in 0..t, v \in 0..t : u # v => C(u) \cap C(v) = {}
  <2>1. SUFFICES ASSUME NEW u \in 0..t, NEW v \in 0..t, u # v PROVE C(u) \cap C(v) = {}
    OBVIOUS
  <2>2. b + u \in Launched /\ b + v \in Launched /\ b + u # b + v
    BY <1>1, <2>1, BlockWarps
  <2>3. QED BY <2>2, BroughtApart, IntervalsApart
<1>4. \A u \in 0..t, d \in Nat : Gathered(u, d) =
        {z \in 0..NNZ-1 : \E v \in 0..u : (u < d \/ v > u - d) /\ R(v) = R(u) /\ z \in C(v)}
  BY DEF Gathered
<1> HIDE DEF b, R, C
<1>5. None = Each(Terms, {}) /\ Gathered(t, s) \cap {} = {} /\ 2 * s \in Nat /\ t \in 0..t
  BY <1>1, EachOne
<1>5a. /\ Gathered(t, s) = {z \in 0..NNZ-1 : \E v \in 0..t :
                         (t < s \/ v > t - s) /\ R(v) = R(t) /\ z \in C(v)}
       /\ Gathered(t, 2 * s) = {z \in 0..NNZ-1 : \E v \in 0..t :
                         (t < 2 * s \/ v > t - 2 * s) /\ R(v) = R(t) /\ z \in C(v)}
  BY <1>4, <1>5
<1>6. CASE t < s
  <2>1. t < 2 * s
    BY <1>1, <1>6
  <2>2. Gathered(t, 2 * s) = Gathered(t, s)
    BY <1>5a, <1>6, <2>1
  <2>3. Gathered(t, s) \cup {} = Gathered(t, s)
    OBVIOUS
  <2>4. QED BY <1>1, <1>5, <1>6, <2>2, <2>3, EachSplits
<1>7. CASE t >= s /\ R(t) # R(t - s)
  <2>1. t - s \in 0..t
    BY <1>1, <1>7
  <2>2. \A v \in 0..t : R(v) = R(t) => v > t - s
    <3>1. SUFFICES ASSUME NEW v \in 0..t, R(v) = R(t), v <= t - s PROVE FALSE
      BY <2>1
    <3>2. R(v) <= R(t - s) /\ R(t - s) <= R(t)
      BY <1>1, <1>2, <2>1, <3>1
    <3>3. QED BY <1>2, <1>5, <1>7, <2>1, <3>1, <3>2
  <2>3. Gathered(t, 2 * s) = Gathered(t, s) \cup {}
    <3>1. \A v \in 0..t : v > t - s => v > t - 2 * s
      BY <1>1
    <3>2. Gathered(t, 2 * s) = Gathered(t, s)
      BY <1>5a, <1>7, <2>2, <3>1
    <3>3. QED BY <3>2
  <2>4. group.rows[t] # group.rows[t - s]
    BY <1>1, <1>5, <1>7, <2>1
  <2>5. QED BY <1>1, <1>5, <2>3, <2>4, EachSplits
<1>8. CASE t >= s /\ R(t) = R(t - s)
  <2>1. PICK k \in 0..t : k = t - s /\ t = k + s /\ k \in Nat
    BY <1>1, <1>8
  <2>2. Gathered(t, s) \cap Gathered(k, s) = {}
    <3>1. SUFFICES ASSUME NEW z \in Gathered(t, s), z \in Gathered(k, s) PROVE FALSE
      OBVIOUS
    <3>2. PICK v \in 0..t : (t < s \/ v > t - s) /\ z \in C(v)
      BY <1>4, <1>5, <3>1
    <3>3. PICK u \in 0..k : z \in C(u)
      BY <1>4, <3>1
    <3>4. v > k /\ u \in 0..t /\ u # v
      BY <1>1, <1>8, <2>1, <3>2, <3>3
    <3>5. QED BY <1>3, <3>2, <3>3, <3>4
  <2>3. Gathered(t, s) \cup Gathered(k, s) = Gathered(t, 2 * s)
    <3>1. \A v \in 0..t : (t < 2 * s \/ v > t - 2 * s)
             <=> (t < s \/ v > t - s) \/ (v \in 0..k /\ (k < s \/ v > k - s))
      BY <1>1, <1>8, <2>1
    <3>2. R(k) = R(t) /\ k \in Nat
      BY <1>8, <2>1
    <3>3. Gathered(k, s) = {z \in 0..NNZ-1 : \E v \in 0..k :
                              (k < s \/ v > k - s) /\ R(v) = R(k) /\ z \in C(v)}
      BY <1>4, <1>5
    <3>4. Gathered(k, s) = {z \in 0..NNZ-1 : \E v \in 0..k :
                              (k < s \/ v > k - s) /\ R(v) = R(t) /\ z \in C(v)}
      BY <3>2, <3>3
    <3>5. 0..k \subseteq 0..t
      BY <1>1, <2>1
    <3>6. QED BY <1>5a, <3>1, <3>4, <3>5
  <2>4. group.rows[t] = group.rows[t - s] /\ group.vals[t - s] = Each(Terms, Gathered(k, s))
    BY <1>1, <1>5, <1>8, <2>1
  <2>5. QED BY <1>1, <1>5, <1>8, <2>2, <2>3, <2>4, EachSplits
<1>9. QED BY <1>1, <1>6, <1>7, <1>8

LEMMA GroupLoadSums ==
  ASSUME NEW B \in SUBSET {NNZ},
         SameBlocks, IInv, CarryInv, SumInv(B), GroupLoad
  PROVE  SumInv(B)'
<1>1. /\ host = "reduce" /\ host' = "reduce" /\ UNCHANGED <<I, y, flatVars>>
      /\ group.pc = "load" /\ group.held = {} /\ group.added = {} /\ group.base \in Nat
      /\ group \in GroupState /\ group.rows[Block] = NoRow
      /\ \A w \in Launched : pc[w] = "exit"
  BY DEF GroupLoad, InGroup, CarryInv, GroupInOrder, SumInv, GroupSums, IInv, TypeOK, GroupState
<1>2. PICK junk \in [(0..ActiveWarps-1) \ written -> Rows \cup {NoRow}] :
        group' = [group EXCEPT
          !.rows = [s \in 0..Block |-> IF s \in Items THEN LoadedRow(group.base + s, junk)
                                                      ELSE group.rows[s]],
          !.vals = [s \in 0..Block |-> IF s \in Items THEN LoadedVal(group.base + s)
                                                      ELSE group.vals[s]],
          !.stride = 1,
          !.pc = "scan"]
  BY DEF GroupLoad
<1>3. /\ group'.pc = "scan" /\ group'.held = {} /\ group'.added = {} /\ group'.stride = 1
      /\ group'.base = group.base
      /\ group'.rows = [s \in 0..Block |-> IF s \in Items THEN LoadedRow(group.base + s, junk)
                                                          ELSE group.rows[s]]
      /\ group'.vals = [s \in 0..Block |-> IF s \in Items THEN LoadedVal(group.base + s)
                                                          ELSE group.vals[s]]
  BY <1>1, <1>2 DEF GroupState
<1>4. /\ group'.rows[Block] = NoRow
      /\ \A t \in Items : /\ group'.rows[t] = LoadedRow(group.base + t, junk)
                          /\ group'.vals[t] = LoadedVal(group.base + t)
  <2>1. Block \in Nat /\ Block \notin Items /\ Block \in 0..Block
    BY GroupSizes
  <2>2. QED BY <1>1, <1>3, <2>1, GroupSizes
<1>5. ASSUME NEW t \in Items, ~Padded(group.base + t)
      PROVE  group'.vals[t] = Each(Terms, Gathered(t, 1))
  <2>1. /\ group.base + t \in 0..ActiveWarps-1 /\ group.base + t \in Launched
    BY <1>1, <1>5, BlockWarps
  <2>2. group.base + t \in written
    BY <1>1, <2>1, AllWritten
  <2>3. group'.vals[t] = Each(Terms, CarryOf(group.base + t))
    BY <1>4, <1>5, <2>2 DEF LoadedVal, SumInv
  <2>4. Gathered(t, 1) = CarryOf(group.base + t)
    <3>1. \A u \in 0..t : t < 1 \/ u > t - 1 <=> u = t
      BY DEF Items
    <3>2. t \in 0..t
      BY DEF Items
    <3>3. CarryOf(group.base + t) \subseteq 0..NNZ-1
      BY <2>1, BroughtApart, BoundsType, SizeAssumption
    <3>4. Gathered(t, 1) = {z \in 0..NNZ-1 : z \in CarryOf(group.base + t)}
      BY <3>1, <3>2 DEF Gathered
    <3>5. QED BY <3>3, <3>4
  <2>5. QED BY <2>3, <2>4
<1>6. \A t : Padded(group.base + t)' = Padded(group.base + t)
  BY <1>3 DEF Padded
<1>7. \A t \in Items : Padded(group.base + t) => group'.rows[t] = NoRow
  BY <1>4 DEF LoadedRow
<1>8. GroupSums'
  <2>1. \A t : Gathered(t, group.stride)' = Gathered(t, group'.stride)
    BY <1>1, <1>3, SettledSums DEF Gathered
  <2>2. ASSUME NEW t \in Items
        PROVE  IF Padded(group.base + t)' THEN group'.rows[t] = NoRow
               ELSE group'.vals[t] = Each(Terms, Gathered(t, group.stride)')
    <3>1. Padded(group.base + t)' = Padded(group.base + t)
          /\ Gathered(t, group.stride)' = Gathered(t, 1)
      BY <1>3, <1>6, <2>1
    <3>2. QED BY <1>5, <1>7, <3>1
  <2>3. QED BY <1>1, <1>3, <1>4, <2>2 DEF GroupSums
<1>9. Counted' = Counted
  <2>1. \A w : Delivered(w)' = Delivered(w)
    BY <1>1, <1>3 DEF Delivered
  <2>2. \A w \in Launched : Brought(w)' = Brought(w)
    BY <1>1, <2>1, SettledSums DEF Brought
  <2>3. QED BY <1>1, <2>2 DEF Counted
<1>10. QED BY <1>1, <1>8, <1>9, KeepSums

LEMMA GroupScanSums ==
  ASSUME NEW B \in SUBSET {NNZ},
         SameBlocks, IInv, CarryInv, SumInv(B), GroupScan
  PROVE  SumInv(B)'
<1> DEFINE FromLeft(t) == IF t >= group.stride /\ group.rows[t] = group.rows[t - group.stride]
                          THEN group.vals[t - group.stride] ELSE None
<1>1. /\ host = "reduce" /\ host' = "reduce" /\ UNCHANGED <<I, y, flatVars>>
      /\ group.pc = "scan" /\ group \in GroupState /\ group.rows[Block] = NoRow
      /\ group.stride \in Nat \ {0} /\ group.held \cup group.added = {}
      /\ \A w \in Launched : pc[w] = "exit"
  BY GroupSizes
     DEF GroupScan, InGroup, CarryInv, GroupInOrder, SumInv, GroupSums, IInv, TypeOK, GroupState
<1>2. group' = [group EXCEPT
        !.vals = [s \in 0..Block |-> IF s \in Items THEN @[s] ++ FromLeft(s) ELSE @[s]],
        !.stride = 2 * @]
  BY DEF GroupScan
<1> HIDE DEF FromLeft
<1>3. /\ group'.pc = "scan" /\ group'.held = group.held /\ group'.added = group.added
      /\ group'.base = group.base /\ group'.rows = group.rows
      /\ group'.stride = 2 * group.stride
      /\ \A t \in Items : group'.vals[t] = group.vals[t] ++ FromLeft(t)
  BY <1>1, <1>2, GroupSizes DEF GroupState
<1>4. ASSUME NEW t \in Items
      PROVE  IF Padded(group.base + t)' THEN group'.rows[t] = NoRow
             ELSE group'.vals[t] = Each(Terms, Gathered(t, group.stride)')
  <2>1. Padded(group.base + t)' = Padded(group.base + t)
    BY <1>3 DEF Padded
  <2>2. CASE Padded(group.base + t)
    BY <1>1, <1>3, <2>1, <2>2, BlockRows
  <2>3. CASE ~Padded(group.base + t)
    <3>1. group.vals[t] ++ FromLeft(t) = Each(Terms, Gathered(t, 2 * group.stride))
      BY <1>1, <2>3, GroupLane DEF FromLeft
    <3>2. Gathered(t, group.stride)' = Gathered(t, group'.stride)
      BY <1>1, <1>3, SettledSums DEF Gathered
    <3>3. QED BY <1>3, <2>1, <2>3, <3>1, <3>2
  <2>4. QED BY <2>2, <2>3
<1>5. GroupSums'
  BY <1>1, <1>3, <1>4 DEF GroupSums
<1>6. Counted' = Counted
  <2>1. \A w : Delivered(w)' = Delivered(w)
    BY <1>1, <1>3 DEF Delivered
  <2>2. \A w \in Launched : Brought(w)' = Brought(w)
    BY <1>1, <2>1, SettledSums DEF Brought
  <2>3. QED BY <1>1, <2>2 DEF Counted
<1>7. QED BY <1>1, <1>5, <1>6, KeepSums

LEMMA GroupReadSums ==
  ASSUME NEW B \in SUBSET {NNZ},
         SameBlocks, IInv, CarryInv, SumInv(B), NEW t \in Items, GroupRead(t)
  PROVE  SumInv(B)'
<1>1. /\ host = "reduce" /\ host' = "reduce" /\ UNCHANGED <<I, y, flatVars>>
      /\ group.pc = "scan" /\ group.rows[Block] = NoRow /\ group \in GroupState
      /\ group.stride > Block
      /\ \A w \in Launched : pc[w] = "exit"
      /\ GroupSums
  BY GroupSizes
     DEF GroupRead, InGroup, CarryInv, SumInv, GroupSums, IInv, TypeOK, GroupState
<1>2. /\ group'.pc = group.pc /\ group'.held = group.held \cup {t} /\ group'.base = group.base
      /\ group'.rows = group.rows /\ group'.added = group.added /\ group'.vals = group.vals
      /\ group'.stride = group.stride
      /\ group'.reg[t] = y[group.rows[t]] /\ \A s \in Items \ {t} : group'.reg[s] = group.reg[s]
  BY <1>1 DEF GroupRead, GroupState
<1>3. ASSUME NEW s \in Items
      PROVE  IF Padded(group.base + s)' THEN group'.rows[s] = NoRow
             ELSE group'.vals[s] = Each(Terms, Gathered(s, group.stride)')
  <2>1. Padded(group.base + s)' = Padded(group.base + s)
    BY <1>2 DEF Padded
  <2>2. Gathered(s, group.stride)' = Gathered(s, group.stride)
    BY <1>1, <1>2, SettledSums DEF Gathered
  <2>3. QED BY <1>1, <1>2, <2>1, <2>2 DEF GroupSums
<1>4. Updates' = Updates
  BY <1>2 DEF Updates, Adders, Padded
<1>5. \A s \in group'.held : group'.reg[s] = y'[group'.rows[s]]
  <2>1. group.held \subseteq Items
    BY <1>1 DEF GroupState
  <2>2. QED BY <1>1, <1>2, <2>1 DEF GroupSums
<1>6. GroupSums'
  BY <1>1, <1>2, <1>3, <1>4, <1>5 DEF GroupSums
<1>7. Counted' = Counted
  <2>1. \A w : Delivered(w)' = Delivered(w)
    BY <1>1, <1>2 DEF Delivered, End, Begin
  <2>2. \A w \in Launched : Brought(w)' = Brought(w)
    BY <1>1, <2>1, SettledSums DEF Brought
  <2>3. QED BY <1>1, <2>2 DEF Counted
<1>8. QED BY <1>1, <1>6, <1>7, KeepSums

(* An item brings the carries of its row home, of this block and of no     *)
(* other warp.                                                             *)
LEMMA GroupAddBrings ==
  ASSUME NEW B \in SUBSET {NNZ},
         SameBlocks, IInv, CarryInv, SumInv(B), host = "reduce", group.pc = "scan",
         \A w \in Launched : pc[w] = "exit",
         NEW t \in Updates, t \notin group.added, group.stride > Block
  PROVE  /\ Gathered(t, group.stride) \cap Counted = {}
         /\ Gathered(t, group.stride) \subseteq 0..NNZ-1
         /\ \A z \in Gathered(t, group.stride) : I[z] = group.rows[t]
         /\ \A w \in Launched : \A z \in CarryOf(w) :
              z \in Gathered(t, group.stride) <=>
                w >= group.base /\ w <= group.base + t /\ group.rows[t] = I[End(w) - 1]
<1>1. /\ group.base \in Nat /\ t \in Items /\ t \in Nat /\ t \in Adders /\ t < group.stride
      /\ ~Padded(group.base + t) /\ group.rows[t] = I[End(group.base + t) - 1]
      /\ \A u \in 0..t : ~Padded(group.base + u) /\ u \in Items
      /\ group.added \subseteq Adders
  <2>1. t \in Items /\ t \in Adders /\ ~Padded(group.base + t) /\ group.added \subseteq Adders
    BY BlockRows DEF Updates, Adders
  <2>2. t \in 0..Block /\ Block \in Nat /\ group.stride \in Nat
    BY <2>1, GroupSizes, BlockRows DEF GroupState
  <2>3. QED BY <2>1, <2>2, BlockRows
<1>2. Gathered(t, group.stride) =
        {z \in 0..NNZ-1 : \E u \in 0..t :
           group.rows[t] = I[End(group.base + u) - 1] /\ z \in CarryOf(group.base + u)}
  BY <1>1 DEF Gathered
<1>3. \A u \in 0..t : group.base + u \in Launched
  BY <1>1, BlockWarps
<1>4. \A w \in Launched : /\ CarryOf(w) \subseteq Brought(w) \cup CarryOf(w)
                          /\ CarryOf(w) \subseteq 0..NNZ-1
  BY BroughtApart, BoundsType, SizeAssumption
<1>9. Gathered(t, group.stride) \subseteq 0..NNZ-1
  BY <1>2
<1>5. ASSUME NEW w \in Launched, NEW z \in CarryOf(w)
      PROVE  z \in Gathered(t, group.stride) <=>
               w >= group.base /\ w <= group.base + t /\ group.rows[t] = I[End(w) - 1]
  <2>1. w \in Nat /\ z \in 0..NNZ-1
    BY <1>4, LaunchedType
  <2>2. ASSUME z \in Gathered(t, group.stride)
        PROVE  w >= group.base /\ w <= group.base + t /\ group.rows[t] = I[End(w) - 1]
    <3>1. PICK u \in 0..t : group.rows[t] = I[End(group.base + u) - 1]
                            /\ z \in CarryOf(group.base + u)
      BY <1>2, <2>2
    <3>2. w = group.base + u
      <4>1. group.base + u \in Launched
        BY <1>3
      <4>2. QED BY <1>5, <3>1, <4>1, BroughtApart, IntervalsApart
    <3>3. QED BY <1>1, <3>1, <3>2
  <2>3. ASSUME w >= group.base, w <= group.base + t, group.rows[t] = I[End(w) - 1]
        PROVE  z \in Gathered(t, group.stride)
    <3>1. PICK u \in 0..t : w = group.base + u
      <4>1. w - group.base \in 0..t /\ w = group.base + (w - group.base)
        BY <1>1, <2>1, <2>3
      <4>2. QED BY <4>1
    <3>2. QED BY <1>2, <1>5, <2>1, <2>3, <3>1
  <2>4. QED BY <2>2, <2>3
<1>6. \A z \in Gathered(t, group.stride) : I[z] = group.rows[t]
  BY <1>2 DEF CarryOf, Upto
<1>7. ASSUME NEW z \in Gathered(t, group.stride), z \in Counted PROVE FALSE
  <2>1. PICK u \in 0..t : group.rows[t] = I[End(group.base + u) - 1]
                          /\ z \in CarryOf(group.base + u)
    BY <1>2, <1>7
  <2>2. PICK w \in Launched : z \in Brought(w)
    BY <1>7 DEF Counted
  <2>3. w = group.base + u /\ pc[w] = "exit"
    <3>1. group.base + u \in Launched
      BY <1>3
    <3>2. QED BY <2>1, <2>2, <3>1, BroughtApart, IntervalsApart
  <2>4. z \notin Closed(w)
    BY <2>1, <2>3, BroughtApart
  <2>5. Delivered(w)
    BY <2>2, <2>4 DEF Brought
  <2>6. PICK s \in group.added : group.rows[s] = I[End(w) - 1]
    BY <1>1, <2>3, <2>5 DEF Delivered
  <2>7. s = t
    BY <1>1, <2>1, <2>3, <2>6, AddersApart
  <2>8. QED BY <2>6, <2>7
<1>8. QED BY <1>5, <1>6, <1>7, <1>9

LEMMA GroupAddSums ==
  ASSUME NEW B \in SUBSET {NNZ},
         SameBlocks, IInv, CarryInv, SumInv(B), NEW t \in Items, GroupAdd(t)
  PROVE  SumInv(B)'
<1>1. /\ host = "reduce" /\ host' = "reduce" /\ UNCHANGED <<I, flatVars>>
      /\ group.pc = "scan" /\ group.rows[Block] = NoRow /\ group \in GroupState
      /\ \A w \in Launched : pc[w] = "exit"
      /\ GroupSums /\ t \in group.held /\ t \in Updates /\ t \notin group.added
      /\ group.stride > Block
      /\ y' = [y EXCEPT ![group.rows[t]] = group.reg[t] ++ group.vals[t]]
  BY DEF GroupAdd, InGroup, CarryInv, GroupInOrder, SumInv, GroupSums, IInv, TypeOK
<1>2. /\ group'.pc = group.pc /\ group'.held = group.held \ {t} /\ group'.base = group.base
      /\ group'.rows = group.rows /\ group'.added = group.added \cup {t}
      /\ group'.vals = group.vals /\ group'.stride = group.stride /\ group'.reg = group.reg
  BY <1>1 DEF GroupAdd, GroupState
<1> DEFINE New == Gathered(t, group.stride)
           R == group.rows[t]
<1>3. /\ R \in Rows /\ group.reg[t] = y[R] /\ group.vals[t] = Each(Terms, New)
      /\ y'[R] = y[R] ++ Each(Terms, New) /\ \A r \in Rows \ {R} : y'[r] = y[r]
  <2>1. R \in Rows /\ t \in Adders
    BY <1>1 DEF Updates
  <2>2. group.reg[t] = y[R] /\ group.vals[t] = Each(Terms, New)
    BY <1>1, <2>1 DEF GroupSums, Adders
  <2>3. QED BY <1>1, <2>1, <2>2 DEF IInv, TypeOK
<1>4. /\ New \cap Counted = {} /\ New \subseteq 0..NNZ-1 /\ \A z \in New : I[z] = R
      /\ \A w \in Launched : \A z \in CarryOf(w) : z \in New <=>
           w >= group.base /\ w <= group.base + t /\ R = I[End(w) - 1]
  BY <1>1, GroupAddBrings
<1>5. ASSUME NEW s \in Items
      PROVE  IF Padded(group.base + s)' THEN group'.rows[s] = NoRow
             ELSE group'.vals[s] = Each(Terms, Gathered(s, group.stride)')
  <2>1. Padded(group.base + s)' = Padded(group.base + s)
    BY <1>2 DEF Padded
  <2>2. Gathered(s, group.stride)' = Gathered(s, group.stride)
    BY <1>1, <1>2, SettledSums DEF Gathered
  <2>3. QED BY <1>1, <1>2, <2>1, <2>2 DEF GroupSums
<1>6. Updates' = Updates
  BY <1>2 DEF Updates, Adders, Padded
<1>7. ASSUME NEW s \in group'.held PROVE group'.reg[s] = y'[group'.rows[s]]
  <2>1. s \in group.held /\ s # t /\ s \in Adders /\ t \in Adders /\ group.rows[s] \in Rows
    BY <1>1, <1>2, <1>7 DEF CarryInv, GroupInOrder, Updates
  <2>2. group.rows[s] # R
    BY <1>1, <2>1, AddersApart
  <2>3. QED BY <1>1, <1>2, <1>3, <2>1, <2>2 DEF GroupSums
<1>8. GroupSums'
  BY <1>1, <1>2, <1>5, <1>6, <1>7 DEF GroupSums
<1>9. Counted' = Counted \cup New
  <2>1. ASSUME NEW w \in Launched PROVE Brought(w)' = Brought(w) \cup (New \cap CarryOf(w))
    <3>1. End(w)' = End(w) /\ CarryOf(w)' = CarryOf(w) /\ Closed(w)' = Closed(w)
      BY <1>1, SettledSums
    <3>2. Delivered(w)' <=> \/ Delivered(w)
                            \/ w <= group.base + t /\ R = I[End(w) - 1]
      BY <1>1, <1>2, <3>1 DEF Delivered
    <3>3. w \in Nat /\ group.base \in Nat
      BY <1>1, LaunchedType DEF GroupState
    <3>4. CASE Delivered(w)
      BY <3>1, <3>2, <3>4 DEF Brought
    <3>5. CASE ~Delivered(w)
      <4>1. w >= group.base
        BY <3>3, <3>5 DEF Delivered
      <4>2. CASE w <= group.base + t /\ R = I[End(w) - 1]
        <5>1. New \cap CarryOf(w) = CarryOf(w)
          BY <1>4, <4>1, <4>2
        <5>2. QED BY <3>1, <3>2, <3>5, <4>2, <5>1 DEF Brought
      <4>3. CASE ~(w <= group.base + t /\ R = I[End(w) - 1])
        <5>1. New \cap CarryOf(w) = {}
          BY <1>4, <4>3
        <5>2. QED BY <3>1, <3>2, <3>5, <4>3, <5>1 DEF Brought
      <4>4. QED BY <4>2, <4>3
    <3>6. QED BY <3>4, <3>5
  <2>2. \A z \in New : \E w \in Launched : z \in CarryOf(w)
    <3>1. group.base \in Nat /\ \A u \in 0..t : group.base + u \in Launched
      <4>1. ~Padded(group.base + t)
        BY <1>1 DEF Updates, Adders
      <4>2. group.base \in Nat /\ \A u \in 0..t : u \in Items /\ ~Padded(group.base + u)
        BY <1>1, <4>1, BlockRows
      <4>3. QED BY <4>2, BlockWarps
    <3>2. QED BY <3>1 DEF Gathered
  <2>3. Counted = UNION {Brought(w) : w \in Launched}
        /\ Counted' = UNION {Brought(w)' : w \in Launched}
    BY <1>1 DEF Counted
  <2> HIDE DEF New
  <2>4. QED BY <2>1, <2>2, <2>3
<1>10. OutputHolds(B)'
  <2> HIDE DEF New, R
  <2>1. ASSUME NEW r \in Rows PROVE y'[r] = Each(Terms, B \cup InRow(r, Counted)')
    <3>1. y[r] = Each(Terms, B \cup InRow(r, Counted))
      BY <1>1 DEF SumInv, OutputHolds
    <3>2. InRow(r, Counted)' = InRow(r, Counted) \cup InRow(r, New)
      BY <1>1, <1>9, InRowSplits DEF InRow
    <3>3. CASE r = R
      <4>1. InRow(r, New) = New /\ InRow(r, Counted) \cap New = {}
        BY <1>4, <3>3 DEF InRow
      <4>2. Each(Terms, B \cup InRow(r, Counted)) ++ Each(Terms, New)
              = Each(Terms, B \cup (InRow(r, Counted) \cup New))
        <5>1. New \subseteq 0..NNZ-1
          BY <1>4
        <5>2. \A S, T : S \cap T = {} /\ T \subseteq 0..NNZ-1
                => Each(Terms, B \cup S) ++ Each(Terms, T) = Each(Terms, B \cup (S \cup T))
          BY MoreOutput
        <5>3. QED BY <4>1, <5>1, <5>2, Zenon
      <4>3. QED BY <1>3, <3>1, <3>2, <3>3, <4>1, <4>2
    <3>4. CASE r # R
      <4>1. InRow(r, New) = {}
        BY <1>4, <3>4 DEF InRow
      <4>2. QED BY <1>3, <3>1, <3>2, <3>4, <4>1
    <3>5. QED BY <3>3, <3>4
  <2>2. QED BY <1>1, <2>1 DEF OutputHolds
<1>11. QED BY <1>1, <1>8, <1>10, SettledSums DEF SumInv

(* At the barrier every carry of the block has been brought home: the last *)
(* item of its row is an adder.                                            *)
LEMMA BlockDelivered ==
  ASSUME NEW B \in SUBSET {NNZ},
         SameBlocks, IInv, CarryInv, SumInv(B), host = "reduce", group.pc = "scan",
         Updates \subseteq group.added, NEW u \in Items, ~Padded(group.base + u)
  PROVE  Delivered(group.base + u)
<1>1. /\ group.base \in Nat /\ Items \subseteq Nat /\ u \in Nat /\ group.rows[Block] = NoRow
      /\ group.rows[u] = I[End(group.base + u) - 1]
      /\ \A t \in Items : Padded(group.base + t) => group.rows[t] = NoRow
  BY BlockRows DEF SumInv, GroupSums
<1>2. group.rows[u] \in Rows /\ NoRow \notin Rows
  BY <1>1, BlockWarps DEF Rows, NoRow
<1>3. PICK e \in 0..Block : group.rows[e] = NoRow /\ u < e /\ 0..e-1 \subseteq Items
  <2>1. Block \in Nat /\ HostWarps * WarpSize \in Nat /\ ActiveWarps \in Nat
        /\ Items = 0..(HostWarps * WarpSize - 1) /\ Items \subseteq 0..Block
    BY GroupSizes, ActiveType, SizeAssumption DEF Items
  <2>2. CASE HostWarps * WarpSize = Block
    <3>1. Block \in 0..Block /\ u < Block /\ 0..Block-1 \subseteq Items
      BY <2>1, <2>2
    <3>2. QED BY <1>1, <3>1
  <2>3. CASE ActiveWarps < HostWarps * WarpSize
    <3>1. PICK e \in Nat : e = ActiveWarps - group.base /\ u < e
      BY <1>1, <2>1 DEF Padded
    <3>2. e \in Items /\ group.base + e = ActiveWarps
      BY <1>1, <2>1, <2>3, <3>1
    <3>3. group.rows[e] = NoRow
      BY <1>1, <2>1, <3>2 DEF Padded
    <3>4. 0..e-1 \subseteq Items /\ e \in 0..Block
      BY <2>1, <3>1, <3>2
    <3>5. QED BY <3>1, <3>3, <3>4
  <2>4. QED BY <2>2, <2>3, BlockFits
<1> DEFINE T == {t \in 0..Block : t > u /\ group.rows[t] # group.rows[u]}
<1>4. e \in T /\ e \in Nat /\ T \subseteq Nat
  BY <1>1, <1>2, <1>3, GroupSizes
<1>5. PICK m \in T : \A t \in T : m <= t
  <2> HIDE DEF T
  <2>1. QED BY <1>4, LeastOf
<1>6. PICK t \in Items : m = t + 1 /\ u <= t /\ t \in Nat
  <2>1. m \in Nat /\ m <= e /\ m > u
    BY <1>4, <1>5
  <2>2. m - 1 \in 0..e-1 /\ m = (m - 1) + 1 /\ u <= m - 1 /\ m - 1 \in Nat
    BY <1>1, <1>4, <2>1
  <2>3. QED BY <1>3, <2>2
<1>7. group.rows[t] = group.rows[u]
  <2>1. t \notin T /\ t \in 0..Block
    BY <1>5, <1>6, GroupSizes
  <2>2. QED BY <1>1, <1>6, <2>1
<1>8. t \in group.added
  <2>1. ~Padded(group.base + t)
    BY <1>1, <1>2, <1>7
  <2>2. group.rows[t + 1] # group.rows[t]
    BY <1>5, <1>6, <1>7
  <2>3. QED BY <1>2, <1>7, <2>1, <2>2 DEF Updates, Adders
<1>9. QED BY <1>1, <1>6, <1>7, <1>8 DEF Delivered

LEMMA GroupNextSums ==
  ASSUME NEW B \in SUBSET {NNZ},
         SameBlocks, IInv, CarryInv, SumInv(B), GroupNext
  PROVE  SumInv(B)'
<1>1. /\ host = "reduce" /\ host' = "reduce" /\ UNCHANGED <<I, y, flatVars>>
      /\ group.pc = "scan" /\ group.rows[Block] = NoRow /\ group \in GroupState
      /\ Updates \subseteq group.added
  BY DEF GroupNext, InGroup, SumInv, GroupSums, IInv, TypeOK, Updates
<1>2. /\ group'.pc = "load" /\ group'.base = group.base + Block /\ group'.added = {}
      /\ group'.rows = group.rows
  BY <1>1 DEF GroupNext, GroupState
<1>3. GroupSums'
  BY <1>1, <1>2 DEF GroupSums
<1>4. ASSUME NEW w \in Launched PROVE Brought(w)' = Brought(w)
  <2>1. CarryOf(w)' = CarryOf(w) /\ Closed(w)' = Closed(w)
    BY <1>1, SettledSums
  <2>2. /\ w \in Nat /\ group.base \in Nat /\ Block \in Nat
        /\ group.added \subseteq Items /\ \A t \in Items : t \in Nat /\ t < Block
    BY <1>1, LaunchedType, GroupSizes DEF GroupState
  <2>3. CASE w < group.base
    BY <1>2, <2>1, <2>2, <2>3 DEF Brought, Delivered
  <2>4. CASE w >= group.base + Block
    <3>1. ~ Delivered(w) /\ ~ Delivered(w)'
      BY <1>2, <2>2, <2>4 DEF Delivered
    <3>2. QED BY <2>1, <3>1 DEF Brought
  <2>5. CASE w >= group.base /\ w < group.base + Block
    <3>1. CASE Padded(w)
      <4>1. CarryOf(w) = {}
        BY <3>1, NoCarryBeyond DEF Padded
      <4>2. QED BY <2>1, <4>1 DEF Brought
    <3>2. CASE ~Padded(w)
      <4>1. w - group.base \in Nat /\ w - group.base < Block /\ w = group.base + (w - group.base)
            /\ w < ActiveWarps
        BY <2>2, <2>5, <3>2, ActiveType DEF Padded
      <4>2. w - group.base < HostWarps * WarpSize
        BY <2>2, <4>1, BlockFits, ActiveType, SizeAssumption
      <4>3. PICK u \in Items : w = group.base + u
        BY <4>1, <4>2, SizeAssumption DEF Items
      <4>4. Delivered(w)
        BY <1>1, <3>2, <4>3, BlockDelivered
      <4>5. Delivered(w)'
        BY <1>2, <2>5 DEF Delivered
      <4>6. QED BY <2>1, <4>4, <4>5 DEF Brought
    <3>3. QED BY <3>1, <3>2
  <2>6. QED BY <2>2, <2>3, <2>4, <2>5
<1>5. Counted' = Counted
  BY <1>1, <1>4 DEF Counted
<1>6. QED BY <1>1, <1>3, <1>5, KeepSums

(* Then what has been counted is what lies below the tail.                 *)
LEMMA GroupDoneSums ==
  ASSUME NEW B \in SUBSET {NNZ},
         SameBlocks, IInv, CarryInv, SumInv(B), GroupDone
  PROVE  SumInv(B)'
<1>1. /\ host = "reduce" /\ host' = "serial" /\ UNCHANGED <<I, y, flatVars>>
      /\ group.pc = "load" /\ group.base >= ActiveWarps /\ group.base \in Nat
      /\ group \in GroupState /\ group.added = {} /\ \A w \in Launched : pc[w] = "exit"
  BY DEF GroupDone, InGroup, CarryInv, SumInv, GroupSums, IInv, TypeOK, GroupState
<1>2. group'.pc = "load" /\ group'.base = Tail /\ group'.added = {}
  BY <1>1 DEF GroupDone, GroupState
<1>3. GroupSums'
  BY <1>1, <1>2, UnitsType, SizeAssumption DEF GroupSums
<1>4. Counted' = Counted
  <2>1. ASSUME NEW w \in Launched PROVE Brought(w) = Begin(w)..End(w)-1
    <3>1. CASE w < ActiveWarps
      <4>1. Delivered(w)
        BY <1>1, <3>1, LaunchedType, ActiveType DEF Delivered
      <4>2. QED BY <1>1, <4>1, WholeInterval DEF Brought
    <3>2. CASE w >= ActiveWarps
      <4>1. CarryOf(w) = {}
        BY <3>2, NoCarryBeyond
      <4>2. QED BY <1>1, <4>1, WholeInterval DEF Brought
    <3>3. QED BY <3>1, <3>2, LaunchedType, ActiveType
  <2>2. \A w \in Launched : Begin(w)..End(w)-1 \subseteq 0..Tail-1
    <3>1. SUFFICES ASSUME NEW w \in Launched PROVE Begin(w)..End(w)-1 \subseteq 0..Tail-1
      OBVIOUS
    <3>2. End(w) <= Tail /\ Begin(w) \in Nat /\ End(w) \in Nat /\ Tail \in Nat
      BY BoundsType, UnitsType, LaunchType DEF End, Minimum
    <3>3. QED BY <3>2
  <2>3. \A z \in 0..Tail-1 : \E w \in Launched : z \in Begin(w)..End(w)-1
    BY IntervalsCover
  <2>4. Counted = UNION {Begin(w)..End(w)-1 : w \in Launched}
    BY <1>1, <2>1 DEF Counted
  <2>5. Counted = 0..Tail-1
    BY <2>2, <2>3, <2>4
  <2>6. QED BY <1>1, <1>2, <2>5 DEF Counted
<1>5. QED BY <1>1, <1>3, <1>4, KeepSums

LEMMA IdleSums ==
  ASSUME NEW B \in SUBSET {NNZ},
         SumInv(B), UNCHANGED vars
  PROVE  SumInv(B)'
<1>1. UNCHANGED <<I, y, host, flatVars, pc, group>>
  BY DEF vars, flatVars
<1>2. GroupSums'
  <2>1. Updates' = Updates
    BY <1>1 DEF Updates, Adders, Padded
  <2>2. \A t : /\ Padded(group.base + t)' = Padded(group.base + t)
               /\ Gathered(t, group.stride)' = Gathered(t, group.stride)
    BY <1>1, SettledSums DEF Padded, Gathered
  <2>3. QED BY <1>1, <2>1, <2>2 DEF SumInv, GroupSums
<1>3. OutputHolds(B)'
  <2>1. \A w : Delivered(w)' = Delivered(w)
    BY <1>1, SettledSums DEF Delivered
  <2>2. \A w \in Launched : Brought(w)' = Brought(w)
    BY <1>1, <2>1, SettledSums DEF Brought
  <2>3. Counted' = Counted
    BY <1>1, <2>2 DEF Counted
  <2>4. QED BY <1>1, <2>3 DEF SumInv, OutputHolds, InRow
<1>4. QED BY <1>1, <1>2, <1>3, SettledSums DEF SumInv

LEMMA SumStep ==
  ASSUME NEW B \in SUBSET {NNZ},
         SameBlocks, PowerOf2, ZeroOut => B = {}
  PROVE  IInv /\ CarryInv /\ SumInv(B) /\ [Next]_vars => SumInv(B)'
<1> SUFFICES ASSUME IInv, CarryInv, SumInv(B), [Next]_vars PROVE SumInv(B)'
  OBVIOUS
<1>1. ASSUME NEW w \in Launched, Warp(w) PROVE SumInv(B)'
  BY <1>1, LeaveSums, StartSums, CarryInSums, FlushReadSums, FlushWriteSums, ScanStepSums,
     EndsReadSums, EndsWriteSums, CarryOutSums DEF Warp
<1>2. CASE Host
  BY <1>2, ZeroOutSums, FlatDoneSums, SerialSums, SerialDoneSums DEF Host
<1>3. CASE Group
  BY <1>3, GroupLoadSums, GroupScanSums, GroupReadSums, GroupAddSums, GroupNextSums,
     GroupDoneSums DEF Group
<1>4. CASE UNCHANGED vars
  BY <1>4, IdleSums
<1>5. QED BY <1>1, <1>2, <1>3, <1>4 DEF Next, AtRest

-----------------------------------------------------------------------------
(* What the sums say of y.                                                 *)

LEMMA SumsHold == ASSUME SameBlocks, PowerOf2 PROVE Spec => [](IInv /\ CarryInv /\ SumInv({}))
<1>1. Init => CarryInv /\ SumInv({})
  BY CarryInit, SumInit
<1>2. IInv /\ CarryInv /\ SumInv({}) /\ [Next]_vars => CarryInv' /\ SumInv({})'
  BY CarryStep, SumStep
<1>3. QED BY <1>1, <1>2, Invariance, PTL DEF Spec

LEMMA CountedType ==
  ASSUME NEW B \in SUBSET {NNZ},
         IInv, SumInv(B)
  PROVE  Counted \subseteq 0..NNZ-1
<1>1. NNZ \in Nat /\ \A w \in Launched : Brought(w) \subseteq 0..NNZ-1
  BY BroughtApart, BoundsType, SizeAssumption
<1>2. host = "serial" => group.base \in 0..NNZ
  BY DEF SumInv, GroupSums
<1>3. host \in {"set", "flat", "reduce", "serial", "returned"}
  BY DEF IInv, TypeOK
<1>4. QED BY <1>1, <1>2, <1>3 DEF Counted

LEMMA HandledSums ==
  ASSUME SameBlocks, IInv, CarryInv, SumInv({})
  PROVE  FlatHandlesAllButTail
<1> SUFFICES ASSUME host = "reduce", group.pc = "load", group.base = 0, NEW z \in 0..Tail-1
             PROVE  \/ y[I[z]][z] = 1 /\ InCarries(z) = {}
                    \/ y[I[z]][z] = 0 /\ \E i \in written :
                         InCarries(z) = {i} /\ temp[i] = [row |-> I[z],
                                                          val |-> [temp[i].val EXCEPT ![z] = 1]]
  BY DEF FlatHandlesAllButTail
<1>1. /\ TypeOK /\ \A w \in Launched : pc[w] = "exit"
      /\ group.added = {} /\ 0..ActiveWarps-1 \subseteq written
  BY AllWritten DEF IInv, CarryInv, SumInv, GroupSums
<1>2. z \in 0..NNZ-1 /\ z \in Terms /\ I[z] \in Rows
  BY <1>1, UnitsType, SizeAssumption DEF Terms, TypeOK
<1>3. PICK w \in 0..ActiveWarps-1 : w \in Launched /\ z \in Begin(w)..End(w)-1
  BY IntervalsCover
<1>4. \A v \in Launched : ~Delivered(v) /\ Brought(v) = Closed(v)
  <2>1. \A v \in Launched : ~(v < 0)
    BY LaunchedType
  <2>2. \A v \in Launched : ~Delivered(v)
    BY <1>1, <2>1 DEF Delivered
  <2>3. QED BY <2>2 DEF Brought
<1>5. z \in Counted <=> z \in Closed(w)
  <2>1. \A v \in Launched : z \in Closed(v) => v = w
    BY <1>3, BroughtApart, IntervalsApart
  <2>2. Counted = UNION {Closed(v) : v \in Launched}
    BY <1>4 DEF Counted
  <2>3. QED BY <1>3, <2>1, <2>2
<1>6. y[I[z]][z] = IF z \in Closed(w) THEN 1 ELSE 0
  <2>1. y[I[z]] = Each(Terms, InRow(I[z], Counted))
    BY <1>2 DEF SumInv, OutputHolds
  <2>2. QED BY <1>2, <1>5, <2>1 DEF Each, InRow
<1>7. \A i \in written : z \in CarryOf(i) => i = w
  <2>1. \A i \in written : i \in Launched
    BY <1>1 DEF TypeOK
  <2>2. QED BY <1>3, <2>1, BroughtApart, IntervalsApart
<1>8. InCarries(z) = {i \in written : z \in CarryOf(i)}
  <2>1. \A i \in written : temp[i].val = Each(Terms, CarryOf(i))
    BY DEF SumInv
  <2>2. ASSUME NEW i \in written PROVE temp[i].val[z] # 0 <=> z \in CarryOf(i)
    <3>1. Each(Terms, CarryOf(i))[z] = IF z \in CarryOf(i) THEN 1 ELSE 0
      BY <1>2 DEF Each
    <3>2. QED BY <2>1, <3>1
  <2>3. QED BY <2>2 DEF InCarries
<1>9. CASE z \in Closed(w)
  <2>1. z \notin CarryOf(w)
    BY <1>1, <1>3, <1>9, BroughtApart
  <2>2. InCarries(z) = {}
    BY <1>7, <1>8, <2>1
  <2>3. QED BY <1>6, <1>9, <2>2
<1>10. CASE z \notin Closed(w)
  <2>1. z \in CarryOf(w) /\ w \in written
    BY <1>1, <1>3, <1>10, WholeInterval
  <2>2. InCarries(z) = {w}
    BY <1>7, <1>8, <2>1
  <2>3. temp[w].row = I[z]
    BY <2>1 DEF CarryInv, Saved, CarryOf, Upto
  <2>4. temp[w].val = Each(Terms, CarryOf(w)) /\ temp[w] \in Carry
    BY <1>1, <1>3, <2>1 DEF SumInv, TypeOK
  <2>5. temp[w].val = [temp[w].val EXCEPT ![z] = 1]
    BY <1>2, <2>1, <2>4 DEF Each
  <2>6. temp[w] = [row |-> I[z], val |-> [temp[w].val EXCEPT ![z] = 1]]
    BY <2>3, <2>4, <2>5 DEF Carry
  <2>7. QED BY <1>6, <1>10, <2>1, <2>2, <2>6
<1>11. QED BY <1>9, <1>10

(* "Do the last few nonzeros separately": whatever the matrix, the flat    *)
(* kernel leaves every entry below the tail counted once, in y or in one   *)
(* carry of its row, if host and kernel agree about the size of a block.   *)
THEOREM FlatHandles ==
  ASSUME SameBlocks, PowerOf2
  PROVE  Spec => []FlatHandlesAllButTail
BY HandledSums, SumsHold, PTL

(* Nothing that has been added to y is ever lost.                          *)
LEMMA OutputGrows ==
  ASSUME NEW B \in SUBSET {NNZ},
         IInv, CarryInv, SumInv(B), [Next]_vars, host # "set", NEW r \in Rows, NEW z \in Terms
  PROVE  y'[r][z] >= y[r][z]
<1>1. /\ TypeOK /\ y[r][z] \in Nat /\ y[r] \in [Terms -> Nat]
      /\ \A s \in Sum : (y[r] ++ s)[z] >= y[r][z]
  BY DEF IInv, TypeOK, Sum, Sums, ++
<1>2. y'[r] = y[r] \/ \E s \in Sum : y'[r] = y[r] ++ s
  <2>1. ASSUME NEW w \in Launched, FlushWrite(w)
        PROVE  y'[r] = y[r] \/ \E s \in Sum : y'[r] = y[r] ++ s
    <3>1. /\ y' = [y EXCEPT ![rows[w][Slot(Last)]] = reg[w][0] ++ vals[w][Last]]
          /\ pc[w] = "flush" /\ reg[w][0] = y[rows[w][Slot(Last)]]
      BY <2>1 DEF FlushWrite, Step, SumInv, WarpSums, FreshReads
    <3>2. vals[w][Last] \in Sum
      BY <1>1, HalfType DEF TypeOK
    <3>3. QED BY <1>1, <3>1, <3>2 DEF TypeOK
  <2>2. ASSUME NEW w \in Launched, EndsWrite(w)
        PROVE  y'[r] = y[r] \/ \E s \in Sum : y'[r] = y[r] ++ s
    <3> DEFINE ended == {rows[w][Slot(l)] : l \in Ends(w)}
    <3>1. PICK keep \in [ended -> Ends(w)] :
            /\ \A q \in ended : rows[w][Slot(keep[q])] = q
            /\ y' = [q \in Rows |-> IF q \in ended THEN reg[w][keep[q]] ++ vals[w][keep[q]]
                                    ELSE y[q]]
      BY <2>2 DEF EndsWrite
    <3>2. pc[w] = "ends" /\ \A l \in Ends(w) : l \in Lanes /\ reg[w][l] = y[rows[w][Slot(l)]]
      BY <2>2 DEF EndsWrite, Step, SumInv, WarpSums, FreshReads, Ends
    <3> HIDE DEF ended
    <3>3. CASE r \in ended
      <4>1. PICK l \in Ends(w) : l = keep[r] /\ rows[w][Slot(l)] = r
        BY <3>1, <3>3
      <4>2. y'[r] = y[r] ++ vals[w][l] /\ vals[w][l] \in Sum
        BY <1>1, <3>1, <3>2, <3>3, <4>1 DEF TypeOK
      <4>3. QED BY <4>2
    <3>4. CASE r \notin ended
      BY <3>1, <3>4
    <3>5. QED BY <3>3, <3>4
  <2>3. ASSUME NEW t \in Items, GroupAdd(t)
        PROVE  y'[r] = y[r] \/ \E s \in Sum : y'[r] = y[r] ++ s
    <3>1. /\ y' = [y EXCEPT ![group.rows[t]] = group.reg[t] ++ group.vals[t]]
          /\ group.pc = "scan" /\ t \in group.held
      BY <2>3 DEF GroupAdd, InGroup
    <3>2. group.reg[t] = y[group.rows[t]] /\ group.vals[t] \in Sum
      BY <1>1, <3>1, GroupSizes DEF SumInv, GroupSums, TypeOK, GroupState
    <3>3. QED BY <1>1, <3>1, <3>2 DEF TypeOK
  <2>4. ASSUME Serial
        PROVE  y'[r] = y[r] \/ \E s \in Sum : y'[r] = y[r] ++ s
    <3>1. y' = [y EXCEPT ![I[group.base]] = @ ++ Only(Terms, group.base)]
      BY <2>4 DEF Serial
    <3>2. Only(Terms, group.base) \in Sum
      BY EachOne
    <3>3. QED BY <1>1, <3>1, <3>2 DEF TypeOK
  <2>5. ASSUME NEW w \in Launched, Warp(w)
        PROVE  y'[r] = y[r] \/ \E s \in Sum : y'[r] = y[r] ++ s
    BY <2>1, <2>2, <2>5
       DEF Warp, Leave, Start, CarryIn, FlushRead, Scan, EndsRead, CarryOut
  <2>6. CASE Group
    BY <2>3, <2>6 DEF Group, GroupLoad, GroupScan, GroupNext, GroupDone, GroupRead
  <2>7. CASE Host
    BY <2>4, <2>7 DEF Host, ZeroOut, FlatDone, SerialDone
  <2>8. CASE UNCHANGED vars
    BY <2>8 DEF vars
  <2>9. QED BY <2>5, <2>6, <2>7, <2>8 DEF Next, AtRest
<1>3. QED BY <1>1, <1>2

LEMMA AbstractTypes ==
  /\ Abstract!Terms = Terms
  /\ Abstract!Sums(Terms) = Sum
  /\ \A t : Abstract!Only(Terms, t) = Only(Terms, t)
BY SizeAssumption
   DEF Abstract!Terms, Terms, Abstract!Sums, Sums, Sum, Abstract!Only, Only

(* An element of y holds the counted entries of its row, and no old value. *)
OutputExact ==
  host # "set" =>
    \A r \in Rows :
      /\ y[r][NNZ] = 0
      /\ \A z \in 0..NNZ-1 : y[r][z] = IF z \in Counted /\ I[z] = r THEN 1 ELSE 0

LEMMA OutputIsExact == IInv /\ SumInv({}) => OutputExact
<1> SUFFICES ASSUME IInv, SumInv({}), host # "set", NEW r \in Rows
             PROVE  /\ y[r][NNZ] = 0
                    /\ \A z \in 0..NNZ-1 : y[r][z] = IF z \in Counted /\ I[z] = r THEN 1 ELSE 0
  BY DEF OutputExact
<1>1. y[r] = Each(Terms, InRow(r, Counted))
  BY DEF SumInv, OutputHolds
<1>2. NNZ \in Terms /\ NNZ \notin Counted /\ \A z \in 0..NNZ-1 : z \in Terms
  BY CountedType, SizeAssumption DEF Terms
<1>3. QED BY <1>1, <1>2 DEF Each, InRow

LEMMA InitIsInit == Init => Abstract!Init
BY AbstractTypes DEF Init, RowOrdered, Abstract!Init

LEMMA ZeroIsWork == IInv /\ ZeroOut /\ SumInv({}) => Abstract!Work
<1> SUFFICES ASSUME IInv, ZeroOut, SumInv({}) PROVE Abstract!Work
  OBVIOUS
<1>1. /\ host = "set" /\ host' = "flat" /\ I' = I /\ y' = [r \in Rows |-> None]
      /\ \A r \in Rows : y[r] = Only(Terms, NNZ)
  BY DEF ZeroOut, SumInv, OutputHolds
<1>2. y' \in [Rows -> Sum]
  BY <1>1, EachOne
<1>3. NNZ \in Terms /\ \A z \in 0..NNZ-1 : z \in Terms /\ z # NNZ
  BY SizeAssumption DEF Terms
<1>4. \A r \in Rows : y'[r][NNZ] = 0 /\ \A z \in 0..NNZ-1 : y'[r][z] = 0 /\ y[r][z] = 0
  BY <1>1, <1>3 DEF None, Zero, Only
<1>5. QED BY <1>1, <1>2, <1>4, AbstractTypes DEF Abstract!Work

LEMMA WorkIsWork ==
  ASSUME IInv, CarryInv, SumInv({}), OutputExact, IInv', OutputExact', [Next]_vars, I' = I,
         host \notin {"set", "returned"}, host' \notin {"set", "returned"}
  PROVE  Abstract!Work
<1>1. y' \in [Rows -> Sum]
  BY DEF IInv, TypeOK
<1>2. ASSUME NEW r \in Rows
      PROVE  /\ y'[r][NNZ] = 0
             /\ \A z \in 0..NNZ-1 : \/ y'[r][z] = y[r][z]
                                    \/ I[z] = r /\ y[r][z] = 0 /\ y'[r][z] = 1
  <2>1. y'[r][NNZ] = 0
    BY DEF OutputExact
  <2>2. ASSUME NEW z \in 0..NNZ-1
        PROVE  y'[r][z] = y[r][z] \/ (I[z] = r /\ y[r][z] = 0 /\ y'[r][z] = 1)
    <3>1. /\ y[r][z] = IF z \in Counted /\ I[z] = r THEN 1 ELSE 0
          /\ y'[r][z] = IF z \in Counted' /\ I[z] = r THEN 1 ELSE 0
      BY DEF OutputExact
    <3>2. z \in Terms
      BY SizeAssumption DEF Terms
    <3>3. y'[r][z] >= y[r][z]
      BY <3>2, OutputGrows
    <3>4. QED BY <3>1, <3>3
  <2>3. QED BY <2>1, <2>2
<1>3. QED BY <1>1, <1>2, AbstractTypes DEF Abstract!Work

LEMMA ReturnIsReturn == SumInv({}) /\ OutputExact /\ IInv /\ SerialDone => Abstract!Return
<1> SUFFICES ASSUME SumInv({}), OutputExact, IInv, SerialDone PROVE Abstract!Return
  OBVIOUS
<1>1. host = "serial" /\ host' = "returned" /\ UNCHANGED <<I, y>> /\ group.base >= NNZ
  BY DEF SerialDone
<1>2. Counted = 0..NNZ-1
  <2>1. group.base = NNZ
    BY <1>1, SizeAssumption DEF SumInv, GroupSums
  <2>2. QED BY <1>1, <2>1 DEF Counted
<1>3. \A z \in 0..NNZ-1 : I[z] \in Rows
  BY DEF IInv, TypeOK
<1>4. (\A r \in Rows : y[r][NNZ] = 0) /\ \A z \in 0..NNZ-1 : y[I[z]][z] = 1
  BY <1>1, <1>2, <1>3 DEF OutputExact
<1>5. QED BY <1>1, <1>4 DEF Abstract!Return

LEMMA StepIsStep ==
  IInv /\ CarryInv /\ SumInv({}) /\ OutputExact /\ IInv' /\ OutputExact' /\ [Next]_vars
    => [Abstract!Next]_(Abstract!abstractVars)
<1> SUFFICES ASSUME IInv, CarryInv, SumInv({}), OutputExact, IInv', OutputExact', [Next]_vars
             PROVE  Abstract!Next \/ UNCHANGED Abstract!abstractVars
  OBVIOUS
<1>1. CASE UNCHANGED vars
  BY <1>1 DEF vars, Abstract!abstractVars
<1>2. CASE ZeroOut
  BY <1>2, ZeroIsWork DEF Abstract!Next
<1>3. CASE SerialDone
  BY <1>3, ReturnIsReturn DEF Abstract!Next
<1>4. CASE FlatDone \/ Serial \/ Group \/ \E w \in Launched : Warp(w)
  <2>1. I' = I /\ host \in {"flat", "reduce", "serial"} /\ host' \in {"flat", "reduce", "serial"}
    BY <1>4 DEF FlatDone, Serial, Group, GroupLoad, GroupScan, GroupNext, GroupDone, GroupRead,
       GroupAdd, InGroup, Warp, Leave, Start, CarryIn, FlushRead, FlushWrite, Scan, EndsRead,
       EndsWrite, CarryOut, Step
  <2>2. QED BY <2>1, WorkIsWork DEF Abstract!Next
<1>5. QED BY <1>1, <1>2, <1>3, <1>4 DEF Next, Host, AtRest

(* The three kernels, in every interleaving of warps and work-items, do    *)
(* nothing to y that the product of a sparse matrix may not do: what y     *)
(* held is forgotten, an entry is added to its own row and only once, and  *)
(* when multiply returns none is missing.  That it returns is left to TLC. *)
THEOREM CooIsTheProduct ==
  ASSUME SameBlocks, PowerOf2
  PROVE  Spec => Abstract!Init /\ [][Abstract!Next]_(Abstract!abstractVars)
<1>1. Spec => [](IInv /\ CarryInv /\ SumInv({}) /\ OutputExact)
  BY SumsHold, OutputIsExact, PTL
<1>2. QED BY <1>1, InitIsInit, StepIsStep, PTL DEF Spec

-----------------------------------------------------------------------------
(* The hybrid product: the same three kernels, on what the ELL kernel has  *)
(* left in y.                                                              *)

EllInv ==
  /\ HybTypeOK
  /\ host # "set" => running = {}
  /\ old = Rows \cap running

(* There is a work-item for every row.                                     *)
LEMMA RowsHaveItems == Rows \subseteq EllItems
<1>1. NRow \in Nat /\ EllBlock \in Nat \ {0}
  BY SizeAssumption, EllAssumption
<1>2. NRow \div EllBlock \in Nat /\ NRow < (NRow \div EllBlock + 1) * EllBlock
  BY <1>1, DivType
<1>3. (NRow \div EllBlock + 1) * EllBlock \in Nat
  BY <1>1, <1>2
<1>4. QED BY <1>1, <1>2, <1>3 DEF Rows, EllItems

LEMMA HybStarts == HybInit => Init /\ IInv /\ EllInv
<1>1. HybInit => Init /\ IInv
  BY InitInv DEF HybInit
<1>2. HybInit /\ IInv => EllInv
  BY RowsHaveItems DEF HybInit, Init, IInv, EllInv, HybTypeOK
<1>3. QED BY <1>1, <1>2

(* A step of the three kernels, or of the host that launches them.         *)
LEMMA KernelSteps ==
  ASSUME [HybNext]_hybVars
  PROVE  \/ \E t \in EllItems : EllItem(t)
         \/ EllDone
         \/ [Next]_vars /\ ~ZeroOut /\ UNCHANGED <<running, old>>
<1>1. CASE UNCHANGED hybVars
  <2>1. UNCHANGED vars /\ UNCHANGED <<running, old>>
    BY <1>1 DEF hybVars
  <2>2. ~ZeroOut
    BY <2>1 DEF ZeroOut, vars
  <2>3. QED BY <2>1, <2>2
<1>2. CASE \E t \in EllItems : EllItem(t)
  BY <1>2
<1>3. CASE HybHost
  <2>1. FlatDone \/ Serial \/ SerialDone => ~ZeroOut /\ Next
    BY DEF FlatDone, Serial, SerialDone, ZeroOut, Next, Host
  <2>2. QED BY <1>3, <2>1 DEF HybHost, Keeps
<1>4. CASE Keeps(Group)
  <2>1. Group => ~ZeroOut /\ Next
    BY DEF Group, GroupLoad, GroupScan, GroupNext, GroupDone, GroupRead, GroupAdd, InGroup,
           ZeroOut, Next
  <2>2. QED BY <1>4, <2>1 DEF Keeps
<1>5. ASSUME NEW w \in Launched, Keeps(Warp(w))
      PROVE  [Next]_vars /\ ~ZeroOut /\ UNCHANGED <<running, old>>
  <2>1. Warp(w) => ~ZeroOut
    BY DEF Warp, Leave, Start, CarryIn, FlushRead, FlushWrite, Scan, EndsRead, EndsWrite,
           CarryOut, Step, ZeroOut
  <2>2. QED BY <1>5, <2>1 DEF Keeps, Next
<1>6. CASE Keeps(AtRest)
  BY <1>6 DEF Keeps, AtRest, ZeroOut, Next
<1>7. QED BY <1>1, <1>2, <1>3, <1>4, <1>5, <1>6 DEF HybNext

(* No COO kernel runs before the ELL kernel has ended.                     *)
LEMMA EllFirst == [Next]_vars /\ ~ZeroOut /\ host = "set" => host' = "set"
BY DEF Next, Host, ZeroOut, FlatDone, Serial, SerialDone, Group, GroupLoad, GroupScan, GroupNext,
       GroupDone, GroupRead, GroupAdd, Warp, Leave, Start, CarryIn, FlushRead, FlushWrite, Scan,
       EndsRead, EndsWrite, CarryOut, Step, InGroup, AtRest, vars

LEMMA HybStepInv ==
  ASSUME IInv, EllInv, [HybNext]_hybVars
  PROVE  IInv' /\ EllInv'
<1>1. ASSUME NEW t \in EllItems, EllItem(t) PROVE IInv' /\ EllInv'
  <2>1. TypeOK /\ EllSum \in Sum
    BY EachOne DEF IInv, EllSum
  <2>2. y' \in [Rows -> Sum] /\ group' \in GroupState
    BY <1>1, <2>1 DEF EllItem, TypeOK
  <2>3. IInv'
    BY <1>1, <2>1, <2>2, OutsideFlat DEF EllItem, TypeOK
  <2>4. old' = Rows \cap running' /\ running' \subseteq EllItems /\ host' = "set"
    BY <1>1 DEF EllItem, EllInv, HybTypeOK
  <2>5. QED BY <2>3, <2>4 DEF EllInv, HybTypeOK, IInv
<1>2. CASE EllDone
  <2>1. IInv'
    BY <1>2, OutsideFlat DEF EllDone, IInv, TypeOK
  <2>2. QED BY <1>2, <2>1 DEF EllDone, EllInv, HybTypeOK, IInv
<1>3. CASE [Next]_vars /\ ~ZeroOut /\ UNCHANGED <<running, old>>
  <2>1. IInv'
    BY <1>3, StepInv
  <2>2. host' # "set" => running = {}
    BY <1>3, EllFirst DEF EllInv
  <2>3. QED BY <1>3, <2>1, <2>2 DEF EllInv, HybTypeOK, IInv
<1>4. QED BY <1>1, <1>2, <1>3, KernelSteps

LEMMA HybInvariance == HybSpec => [](IInv /\ EllInv)
BY HybStarts, HybStepInv, PTL DEF HybSpec

(* The steps of the ELL kernel leave the carries and the sums alone: an    *)
(* element holds the one term that stands for what was there, and then for *)
(* the ELL part of its row.                                                *)
LEMMA EllItemChangesNothing ==
  ASSUME IInv, SumInv({NNZ}), NEW t \in EllItems, EllItem(t)
  PROVE  UNCHANGED vars
<1>1. host = "set" /\ y \in [Rows -> Sum] /\ \A r \in Rows : y[r] = EllSum
  BY DEF EllItem, SumInv, OutputHolds, IInv, TypeOK, EllSum
<1>2. y' = y
  BY <1>1 DEF EllItem
<1>3. QED BY <1>2 DEF EllItem, vars

LEMMA HybStepSums ==
  ASSUME SameBlocks, PowerOf2, IInv, CarryInv, SumInv({NNZ}), [HybNext]_hybVars
  PROVE  CarryInv' /\ SumInv({NNZ})'
<1>1. {NNZ} \in SUBSET {NNZ}
  OBVIOUS
<1>2. ASSUME [Next]_vars, ~ZeroOut PROVE CarryInv' /\ SumInv({NNZ})'
  BY <1>1, <1>2, CarryStep, SumStep
<1>3. ASSUME NEW t \in EllItems, EllItem(t) PROVE CarryInv' /\ SumInv({NNZ})'
  <2>1. UNCHANGED vars
    BY <1>3, EllItemChangesNothing
  <2>2. [Next]_vars /\ ~ZeroOut
    BY <2>1 DEF vars, ZeroOut
  <2>3. QED BY <1>2, <2>2
<1>4. ASSUME EllDone PROVE CarryInv' /\ SumInv({NNZ})'
  <2>1. CarryInv'
    BY <1>4, OthersKeepCarries DEF EllDone, CarryInv, GroupInOrder
  <2>2. \A r \in Rows : y'[r] = Each(Terms, {NNZ})
    BY <1>4, EachOne DEF EllDone, SumInv, OutputHolds
  <2>3. SumInv({NNZ})'
    BY <1>1, <1>4, <2>2, ClearedSums DEF EllDone
  <2>4. QED BY <2>1, <2>3
<1>5. QED BY <1>2, <1>3, <1>4, KernelSteps

(* What the invariants say when multiply returns.                          *)
LEMMA HybSums ==
  ASSUME IInv, EllInv, SumInv({NNZ})
  PROVE  HybProduct
<1> SUFFICES ASSUME host = "returned"
             PROVE  /\ old = {}
                    /\ \A r \in Rows : y[r] = EllSum ++ Each(Terms, Entries(r))
  BY DEF HybProduct
<1>1. old = {}
  BY DEF EllInv
<1>2. ASSUME NEW r \in Rows PROVE y[r] = EllSum ++ Each(Terms, Entries(r))
  <2>1. InRow(r, Counted) = Entries(r)
    BY DEF Counted, InRow, Entries
  <2>2. y[r] = Each(Terms, {NNZ} \cup Entries(r))
    BY <2>1 DEF SumInv, OutputHolds
  <2>3. {NNZ} \cap Entries(r) = {}
    BY SizeAssumption DEF Entries
  <2>4. Each(Terms, {NNZ}) ++ Each(Terms, Entries(r)) = Each(Terms, {NNZ} \cup Entries(r))
    BY <2>3, EachSplits
  <2>5. QED BY <2>2, <2>4, EachOne DEF EllSum
<1>3. QED BY <1>1, <1>2

(* Every variable of the hybrid product keeps its type.                    *)
THEOREM HybTypeCorrect == HybSpec => []HybTypeOK
<1>1. EllInv => HybTypeOK
  BY DEF EllInv
<1>2. QED BY <1>1, HybInvariance, PTL

(* Two lanes of a warp never update one element of y in one instruction,   *)
(* on whatever the ELL kernel has left, and nor do two warps.              *)
THEOREM HybLaneRaceFreedom == HybSpec => [](NoLaneRace /\ NoWriteRace)
BY HybInvariance, LaneRaceFree, RaceFree, PTL

(* When multiply returns, each element of y is the sum of the ELL part of  *)
(* its row and of the entries the COO part has for it, each added once:    *)
(* the ELL kernel overwrites every row before a COO kernel reads one, and  *)
(* what the COO kernels do is right whatever they find in y.               *)
THEOREM HybIsTheProduct ==
  ASSUME SameBlocks, PowerOf2
  PROVE  HybSpec => []HybProduct
<1>1. HybInit => CarryInv /\ SumInv({NNZ})
  BY HybStarts, CarryInit, SumInit
<1>2. HybSpec => [](IInv /\ EllInv /\ CarryInv /\ SumInv({NNZ}))
  BY <1>1, HybInvariance, HybStepSums, PTL DEF HybSpec
<1>3. QED BY <1>2, HybSums, PTL

=============================================================================
