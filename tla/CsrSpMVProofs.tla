---------------------------- MODULE CsrSpMVProofs ----------------------------
(***************************************************************************)
(* Proofs about CsrSpMV, for every warp size that is a power of two, any   *)
(* number of warps, groups, rows and entries, and every row pattern.       *)
(***************************************************************************)
EXTENDS CsrSpMV, WellFoundedInduction, TLAPS

(* The distances of a fold.                                                *)
IsHalves(S) ==
  WarpSize \in S /\ \A m \in S : m = 1 \/ (m % 2 = 0 /\ m \div 2 \in S)
Halves == CHOOSE S \in SUBSET (1..WarpSize) : IsHalves(S)

LEMMA HalvesType ==
  /\ Halves \subseteq 1..WarpSize /\ WarpSize \in Halves
  /\ \A m \in Halves : \/ m = 1 /\ m \div 2 = 0
                       \/ m \div 2 \in Halves /\ m = 2 * (m \div 2)
<1>1. \E S \in SUBSET (1..WarpSize) : IsHalves(S)
  BY CsrAssumption DEF IsPowerOf2, IsHalves
<1>2. Halves \in SUBSET (1..WarpSize) /\ IsHalves(Halves)
  BY <1>1 DEF Halves
<1>3. \A m \in 1..WarpSize : /\ m = 1 => m \div 2 = 0
                             /\ m % 2 = 0 => m = 2 * (m \div 2)
  BY CsrAssumption
<1>. QED
  BY <1>2, <1>3 DEF IsHalves

-----------------------------------------------------------------------------
(* Arithmetic.                                                             *)

LEMMA DivMod ==
  ASSUME NEW a \in Nat, NEW b \in Nat \ {0}
  PROVE  /\ a \div b \in Nat /\ a % b \in 0..b-1
         /\ a = b * (a \div b) + (a % b)
BY SMTT(30)

LEMMA Gap ==
  ASSUME NEW a \in Nat, NEW b \in Nat, a <= b
  PROVE  \E d \in Nat : b = a + d
<1>1. b - a \in Nat /\ b = a + (b - a)
  OBVIOUS
<1>. QED
  BY <1>1

LEMMA Quotients ==
  ASSUME NEW b \in Nat \ {0}, NEW p \in Nat, NEW q \in Nat,
         NEW r \in 0..b-1, NEW s \in 0..b-1, b * p + r = b * q + s
  PROVE  p = q /\ r = s
<1>1. ASSUME NEW m \in Nat, NEW n \in Nat, m < n PROVE b * m + b <= b * n
  <2>1. PICK k \in Nat : n = m + 1 + k
    BY <1>1
  <2>2. b * n = b * m + b + b * k /\ b * k \in Nat /\ b * m \in Nat
    BY <2>1
  <2>. QED
    BY <2>2
<1>2. b * p \in Nat /\ b * q \in Nat
  OBVIOUS
<1>3. ~ p < q
  BY <1>1, <1>2
<1>4. ~ q < p
  BY <1>1, <1>2
<1>5. p = q
  BY <1>3, <1>4
<1>. QED
  BY <1>2, <1>5

(* Remainders by s are those by 2 * s, folded over.                        *)
LEMMA ModFolds ==
  ASSUME NEW x \in Nat, NEW s \in Nat \ {0}, NEW l \in 0..s-1
  PROVE  x % s = l <=> x % (2 * s) \in {l, l + s}
<1>0. 2 * s \in Nat \ {0}
  OBVIOUS
<1>1. PICK q \in Nat, r \in 0..2*s-1 : x = (2 * s) * q + r /\ r = x % (2 * s)
  BY <1>0, DivMod
<1>2. PICK p \in Nat, t \in 0..s-1 : x = s * p + t /\ t = x % s
  BY DivMod
<1>3. CASE r < s
  <2>1. PICK u \in Nat : u = 2 * q
    OBVIOUS
  <2>2. s * u + r = s * p + t /\ r \in 0..s-1
    BY <1>1, <1>2, <1>3, <2>1
  <2>3. r = t
    BY <2>2, Quotients
  <2>4. t = l <=> r \in {l, l + s}
    BY <1>3, <2>3
  <2>. QED
    BY <1>1, <1>2, <2>4
<1>4. CASE r >= s
  <2>1. PICK u \in Nat, v \in 0..s-1 : u = 2 * q + 1 /\ v = r - s
    BY <1>4
  <2>2. s * u + v = s * p + t
    BY <1>1, <1>2, <2>1
  <2>3. v = t
    BY <2>2, Quotients
  <2>4. t = l <=> r \in {l, l + s}
    BY <1>4, <2>1, <2>3
  <2>. QED
    BY <1>1, <1>2, <2>4
<1>. QED
  BY <1>3, <1>4

(* There is a least number in a set.                                       *)
LEMMA LeastOf ==
  ASSUME NEW T, T \subseteq Nat, T # {}
  PROVE  \E m \in T : \A n \in T : m <= n
<1>1. PICK m \in T : \A n \in T : ~ (<<n, m>> \in OpToRel(<, Nat))
  BY WFMin, NatLessThanWellFounded
<1>2. \A n \in T : ~ (n < m)
  BY <1>1 DEF OpToRel
<1>. QED
  BY <1>2

-----------------------------------------------------------------------------
(* Slots of local memory.                                                  *)

LEMMA HalfType ==
  /\ HalfWarp \in Nat /\ 2 * HalfWarp <= WarpSize /\ HalfWarp \in Halves \cup {0}
  /\ HalfWarp = 0 => WarpSize = 1
  /\ HalfWarp > 0 => 2 * HalfWarp = WarpSize
BY HalvesType, CsrAssumption DEF HalfWarp

LEMMA WarpType ==
  ASSUME NEW w \in Warps
  PROVE  /\ w \in Nat /\ NumWarps \in Nat \ {0} /\ w < NumWarps
         /\ Group(w) \in Groups /\ w % HostWarps \in 0..HostWarps-1
         /\ w = HostWarps * Group(w) + (w % HostWarps)
<1>1. NumWarps \in Nat \ {0}
  BY CsrAssumption DEF NumWarps
<1>2. w \in Nat /\ w < HostWarps * Blocks
  BY <1>1 DEF Warps, NumWarps
<1>3. /\ Group(w) \in Nat /\ w % HostWarps \in 0..HostWarps-1
      /\ w = HostWarps * Group(w) + (w % HostWarps)
  BY <1>2, DivMod, CsrAssumption DEF Group
<1>4. Group(w) < Blocks
  <2>. SUFFICES ASSUME Group(w) >= Blocks PROVE FALSE
    BY <1>3, CsrAssumption
  <2>1. PICK k \in Nat : Group(w) = Blocks + k
    BY <1>3, Gap, CsrAssumption
  <2>2. HostWarps * Group(w) = HostWarps * Blocks + HostWarps * k /\ HostWarps * k \in Nat
    BY <2>1, CsrAssumption
  <2>. QED
    BY <1>2, <1>3, <2>2, CsrAssumption
<1>5. Group(w) \in Groups
  BY <1>3, <1>4, CsrAssumption DEF Groups
<1>. QED
  BY <1>1, <1>2, <1>3, <1>5 DEF NumWarps

LEMMA SlotType ==
  ASSUME NEW w \in Warps, NEW l \in Lanes, NEW s \in 0..HalfWarp
  PROVE  Slot(w, l) + s \in Slots
<1>1. PICK k \in Nat : k = w % HostWarps /\ k + 1 <= HostWarps
  BY WarpType, CsrAssumption
<1>2. k * WarpSize + WarpSize <= HostWarps * WarpSize
  <2>0. k + 1 \in Nat /\ HostWarps \in Nat
    BY CsrAssumption
  <2>1. PICK d \in Nat : HostWarps = (k + 1) + d
    BY <1>1, <2>0, Gap
  <2>2. HostWarps * WarpSize = k * WarpSize + WarpSize + d * WarpSize /\ d * WarpSize \in Nat
    BY <2>1, CsrAssumption
  <2>. QED
    BY <2>2, CsrAssumption
<1>3. /\ k * WarpSize \in Nat /\ HostWarps * WarpSize \in Nat
      /\ Slot(w, l) = k * WarpSize + l /\ l \in Nat /\ l < WarpSize
  BY <1>1, CsrAssumption DEF Slot, Lanes
<1>. QED
  BY <1>2, <1>3, HalfType, CsrAssumption DEF Slots

LEMMA SlotsApart ==
  ASSUME NEW v \in Warps, NEW w \in Warps, Group(v) = Group(w),
         NEW l \in Lanes, NEW m \in Lanes, Slot(v, l) = Slot(w, m)
  PROVE  v = w /\ l = m
<1>1. PICK a \in Nat, b \in Nat : a = v % HostWarps /\ b = w % HostWarps
  BY WarpType, CsrAssumption
<1>2. WarpSize * a + l = WarpSize * b + m
  BY <1>1, CsrAssumption DEF Slot, Lanes
<1>3. a = b /\ l = m
  BY <1>2, Quotients, CsrAssumption DEF Lanes
<1>. QED
  BY <1>1, <1>3, WarpType

-----------------------------------------------------------------------------
(* Formal sums.                                                            *)

LEMMA EachType == \A S : Each(Terms, S) \in Sum
BY DEF Each, Sum, Sums

LEMMA PlusType == ASSUME NEW a \in Sum, NEW b \in Sum PROVE a ++ b \in Sum
BY DEF Sum, Sums, ++

LEMMA JunkType == Junk \in Sum /\ None \in Sum
BY DEF Junk, Only, None, Zero, Sum, Sums

LEMMA EachSplits ==
  ASSUME NEW A, NEW B, A \cap B = {}
  PROVE  Each(Terms, A) ++ Each(Terms, B) = Each(Terms, A \cup B)
BY DEF Each, ++

-----------------------------------------------------------------------------
(* The invariant.                                                          *)

(* What row r comes to.                                                    *)
Result(r) == Each(Terms, Entries(r))

(* The entries of the row of w that lane l stands for, at this width.      *)
Folded(r, l, width) == {e \in Entries(r) : (e - offset[r]) % width = l}

(* The distances are powers of two, so that none is odd before it is 1.    *)
Distances == \A w \in Warps : stride[w] \in Halves \cup {0}

(* Its own slots hold what a warp's lanes hold, whoever else has written.  *)
Published ==
  \A w \in Warps : pc[w] = "fold" =>
    \A l \in Lanes : sdata[Group(w)][Slot(w, l)] = sum[w][l]

(* A warp takes every NumWarps-th row, and is past the last one at the end.*)
Turns ==
  \A w \in Warps : /\ row[w] % NumWarps = w
                   /\ pc[w] = "fold" => row[w] < NRow
                   /\ pc[w] = "exit" => row[w] >= NRow

(* The rows behind a warp, and those of the work-items that ended, are     *)
(* done; an element of y is not touched or is done.                        *)
RowsDone ==
  /\ \A r \in Rows : y[r] \in {Junk, Result(r)}
  /\ \A r \in Rows \cap done : y[r] = Result(r)
  /\ \A w \in Warps, r \in Rows : r % NumWarps = w /\ r < row[w] => y[r] = Result(r)

IInv == TypeOK /\ Distances /\ Published /\ FoldIsClean /\ Turns /\ RowsDone

LEMMA InitInv == Init => IInv
<1>. SUFFICES ASSUME Init PROVE IInv
  OBVIOUS
<1>1. HalfWarp \in 0..HalfWarp
  BY HalfType
<1>2. TypeOK
  BY <1>1, JunkType, WarpType DEF Init, TypeOK
<1>3. Distances
  BY HalfType DEF Init, Distances
<1>4. Published /\ FoldIsClean
  BY DEF Init, Published, FoldIsClean
<1>5. ASSUME NEW w \in Warps PROVE w % NumWarps = w
  <2>1. w \in Nat /\ NumWarps \in Nat \ {0} /\ w < NumWarps
    BY WarpType
  <2>2. PICK q \in Nat, t \in 0..NumWarps-1 : w = NumWarps * q + t /\ t = w % NumWarps
    BY <2>1, DivMod
  <2>3. NumWarps * 0 + w = NumWarps * q + t /\ w \in 0..NumWarps-1
    BY <2>1, <2>2
  <2>. QED
    BY <2>1, <2>2, <2>3, Quotients
<1>6. Turns
  BY <1>5 DEF Init, Turns
<1>7. RowsDone
  <2>1. ASSUME NEW w \in Warps, NEW r \in Rows, r % NumWarps = w, r < w PROVE FALSE
    <3>1. r \in Nat /\ NumWarps \in Nat \ {0} /\ w \in Nat /\ w < NumWarps
      BY WarpType, CsrAssumption DEF Rows
    <3>2. r \in Warps
      BY <2>1, <3>1 DEF Warps
    <3>. QED
      BY <2>1, <3>1, <3>2, <1>5
  <2>. QED
    BY <2>1 DEF Init, RowsDone
<1>. QED
  BY <1>2, <1>3, <1>4, <1>6, <1>7 DEF IInv

LEMMA IsFunction ==
  ASSUME NEW F, NEW D, NEW R, F = [d \in D |-> F[d]], \A d \in D : F[d] \in R
  PROVE  F \in [D -> R]
OBVIOUS

(* What a warp's lock-step changes in local memory: its own slots.         *)
LEMMA PublishGives ==
  ASSUME TypeOK, NEW w \in Warps, Publish(w), sum' \in [Warps -> [Lanes -> Sum]]
  PROVE  /\ sdata' \in [Groups -> [Slots -> Sum]]
         /\ \A l \in Lanes : sdata'[Group(w)][Slot(w, l)] = sum'[w][l]
         /\ \A v \in Warps : v # w =>
              \A l \in Lanes : sdata'[Group(v)][Slot(v, l)] = sdata[Group(v)][Slot(v, l)]
<1>1. Group(w) \in Groups /\ sdata \in [Groups -> [Slots -> Sum]]
  BY WarpType DEF TypeOK
<1>2. \A l \in Lanes : Slot(w, l) - Slot(w, 0) = l /\ Slot(w, l) \in Slots
  <2>1. 0 \in Lanes /\ 0 \in 0..HalfWarp
    BY HalfType, CsrAssumption DEF Lanes
  <2>2. ASSUME NEW l \in Lanes PROVE Slot(w, l) + 0 \in Slots /\ Slot(w, 0) + 0 \in Slots
    BY <2>1, SlotType
  <2>3. PICK k \in Nat : k = (w % HostWarps) * WarpSize
    <3>1. w % HostWarps \in Nat
      BY WarpType, CsrAssumption
    <3>. QED
      BY <3>1, CsrAssumption
  <2>4. \A l \in Lanes : l \in Nat /\ Slot(w, l) = k + l /\ Slot(w, 0) = k
    BY <2>3, CsrAssumption DEF Slot, Lanes
  <2>. QED
    BY <2>2, <2>4
<1>3. sdata'[Group(w)] = [s \in Slots |-> IF \E l \in Lanes : s = Slot(w, l)
                                          THEN sum'[w][s - Slot(w, 0)]
                                          ELSE sdata[Group(w)][s]]
      /\ \A g \in Groups : g # Group(w) => sdata'[g] = sdata[g]
  BY <1>1 DEF Publish
<1>4. \A l \in Lanes : sdata'[Group(w)][Slot(w, l)] = sum'[w][l]
  BY <1>2, <1>3
<1>5. sdata'[Group(w)] \in [Slots -> Sum]
  <2>. SUFFICES ASSUME NEW s \in Slots
                PROVE  (IF \E l \in Lanes : s = Slot(w, l)
                        THEN sum'[w][s - Slot(w, 0)] ELSE sdata[Group(w)][s]) \in Sum
    BY <1>3
  <2>. QED
    BY <1>1, <1>2
<1>6. ASSUME NEW v \in Warps, v # w, NEW l \in Lanes
      PROVE  sdata'[Group(v)][Slot(v, l)] = sdata[Group(v)][Slot(v, l)]
  <2>1. Group(v) \in Groups /\ Slot(v, l) + 0 \in Slots
    BY WarpType, SlotType, HalfType
  <2>2. Slot(v, l) \in Slots
    <3>1. v % HostWarps \in Nat /\ (v % HostWarps) * WarpSize \in Nat
      BY WarpType, CsrAssumption
    <3>2. Slot(v, l) + 0 = Slot(v, l)
      BY <3>1 DEF Slot, Lanes
    <3>. QED
      BY <2>1, <3>2
  <2>3. CASE Group(v) = Group(w)
    <3>1. \A m \in Lanes : Slot(v, l) # Slot(w, m)
      BY <1>6, <2>3, SlotsApart
    <3>. QED
      BY <1>3, <2>2, <2>3, <3>1
  <2>. QED
    BY <1>3, <2>1, <2>3
<1>7. sdata' \in [Groups -> [Slots -> Sum]]
  <2>1. ASSUME NEW g \in Groups PROVE sdata'[g] \in [Slots -> Sum]
    BY <1>1, <1>3, <1>5
  <2>2. sdata' = [g \in Groups |-> sdata'[g]]
    BY <1>1 DEF Publish
  <2>. QED
    BY <2>1, <2>2, IsFunction
<1>. QED
  BY <1>4, <1>6, <1>7

-----------------------------------------------------------------------------
(* Every action keeps the invariant.                                       *)

(* The host's steps and idle ones.                                         *)
LEMMA HostKeeps == IInv /\ (Launch \/ Return \/ UNCHANGED vars) => IInv'
<1>. SUFFICES ASSUME IInv, Launch \/ Return \/ UNCHANGED vars PROVE IInv'
  OBVIOUS
<1>1. UNCHANGED <<offset, y, warpVars, done>> /\ host' \in {"called", "scalar", "vector", "returned"}
  BY DEF IInv, TypeOK, Launch, Return, vars
<1>2. TypeOK'
  BY <1>1 DEF IInv, TypeOK, warpVars
<1>3. Distances' /\ Published' /\ Turns'
  BY <1>1 DEF IInv, Distances, Published, Turns, warpVars
<1>4. FoldIsClean'
  BY <1>1 DEF IInv, FoldIsClean, Entries, warpVars
<1>5. RowsDone'
  BY <1>1 DEF IInv, RowsDone, Result, Entries, warpVars
<1>. QED
  BY <1>2, <1>3, <1>4, <1>5 DEF IInv

(* A row of the scalar kernel.                                             *)
LEMMA ScalarKeeps == ASSUME IInv, NEW t \in ScalarItems, ScalarRow(t) PROVE IInv'
<1>1. UNCHANGED <<offset, host, warpVars>> /\ done' = done \cup {t}
  BY DEF ScalarRow
<1>2. \A r \in Rows : y'[r] = IF r = t THEN Result(r) ELSE y[r]
  BY DEF ScalarRow, Result, IInv, TypeOK
<1>3. y' \in [Rows -> Sum]
  BY EachType DEF ScalarRow, IInv, TypeOK
<1>4. TypeOK'
  BY <1>1, <1>3 DEF IInv, TypeOK, warpVars
<1>5. Distances' /\ Published' /\ Turns'
  BY <1>1 DEF IInv, Distances, Published, Turns, warpVars
<1>6. FoldIsClean'
  BY <1>1 DEF IInv, FoldIsClean, Entries, warpVars
<1>7. \A r \in Rows : Result(r)' = Result(r)
  BY <1>1 DEF Result, Entries
<1>8. RowsDone'
  BY <1>1, <1>2, <1>7 DEF IInv, RowsDone, warpVars
<1>. QED
  BY <1>4, <1>5, <1>6, <1>8 DEF IInv

(* What a warp's step does to the others: nothing they notice.             *)
Elsewhere(w) ==
  \A v \in Warps : v # w =>
    /\ pc'[v] = pc[v] /\ row'[v] = row[v] /\ stride'[v] = stride[v] /\ sum'[v] = sum[v]
    /\ \A l \in Lanes : sdata'[Group(v)][Slot(v, l)] = sdata[Group(v)][Slot(v, l)]

(* So that a step of w need only keep the invariant of w.                  *)
LEMMA OneWarp ==
  ASSUME IInv, NEW w \in Warps, Elsewhere(w), UNCHANGED offset,
         stride'[w] \in Halves \cup {0},
         pc'[w] = "fold" => \A l \in Lanes : sdata'[Group(w)][Slot(w, l)] = sum'[w][l],
         pc'[w] = "fold" =>
           LET width == IF stride'[w] = 0 THEN 1 ELSE 2 * stride'[w]
           IN  \A l \in 0..width-1 : sum'[w][l] = Each(Terms, Folded(row'[w], l, width))
  PROVE  Distances' /\ Published' /\ FoldIsClean'
<1>1. Distances'
  BY DEF IInv, Distances, Elsewhere
<1>2. Published'
  BY DEF IInv, Published, Elsewhere
<1>3. FoldIsClean'
  <2>. SUFFICES ASSUME NEW v \in Warps, pc'[v] = "fold"
                PROVE  LET width == IF stride'[v] = 0 THEN 1 ELSE 2 * stride'[v]
                       IN  \A l \in 0..width-1 :
                             sum'[v][l] = Each(Terms, Folded(row'[v], l, width))
    BY DEF FoldIsClean, Folded, Entries
  <2>1. CASE v = w
    BY <2>1
  <2>2. CASE v # w
    BY <2>2 DEF IInv, FoldIsClean, Elsewhere, Folded
  <2>. QED
    BY <2>1, <2>2
<1>. QED
  BY <1>1, <1>2, <1>3

LEMMA BeginRowKeeps == ASSUME IInv, NEW w \in Warps, BeginRow(w) PROVE IInv'
<1>1. TypeOK /\ Turns /\ RowsDone
  BY DEF IInv
<1>2. /\ sum' = [sum EXCEPT ![w] = [l \in Lanes |-> Each(Terms, Share(row[w], l))]]
      /\ pc' = [pc EXCEPT ![w] = "fold"] /\ stride' = [stride EXCEPT ![w] = HalfWarp]
      /\ UNCHANGED <<offset, y, host, row, done>> /\ row[w] < NRow /\ Publish(w)
  BY DEF BeginRow, Goto
<1>3. sum' \in [Warps -> [Lanes -> Sum]]
  BY <1>1, <1>2, EachType DEF TypeOK
<1>4. /\ sdata' \in [Groups -> [Slots -> Sum]]
      /\ \A l \in Lanes : sdata'[Group(w)][Slot(w, l)] = sum'[w][l]
      /\ \A v \in Warps : v # w =>
           \A l \in Lanes : sdata'[Group(v)][Slot(v, l)] = sdata[Group(v)][Slot(v, l)]
  BY <1>1, <1>2, <1>3, PublishGives
<1>5. TypeOK'
  <2>1. HalfWarp \in 0..HalfWarp
    BY HalfType
  <2>2. pc' \in [Warps -> {"row", "fold", "exit"}] /\ stride' \in [Warps -> 0..HalfWarp]
    BY <1>1, <1>2, <2>1 DEF TypeOK
  <2>. QED
    BY <1>1, <1>2, <1>3, <1>4, <2>2 DEF TypeOK
<1>6. Elsewhere(w)
  BY <1>1, <1>2, <1>4 DEF Elsewhere, TypeOK
<1>7. stride'[w] = HalfWarp /\ row'[w] = row[w]
      /\ \A l \in Lanes : sum'[w][l] = Each(Terms, Folded(row[w], l, WarpSize))
  BY <1>1, <1>2 DEF TypeOK, Share, Folded
<1>8. LET width == IF stride'[w] = 0 THEN 1 ELSE 2 * stride'[w]
      IN  \A l \in 0..width-1 : sum'[w][l] = Each(Terms, Folded(row'[w], l, width))
  <2>1. (IF HalfWarp = 0 THEN 1 ELSE 2 * HalfWarp) = WarpSize
    BY HalfType
  <2>. QED
    BY <1>7, <2>1 DEF Lanes
<1>9. Distances' /\ Published' /\ FoldIsClean'
  BY <1>2, <1>4, <1>6, <1>7, <1>8, HalfType, OneWarp
<1>10. Turns'
  BY <1>1, <1>2 DEF Turns, TypeOK
<1>11. RowsDone'
  BY <1>1, <1>2 DEF RowsDone, Result, Entries
<1>. QED
  BY <1>5, <1>9, <1>10, <1>11 DEF IInv

(* A step of the fold: the distance becomes the new width.                 *)
LEMMA FoldKeeps == ASSUME IInv, NEW w \in Warps, Fold(w) PROVE IInv'
<1>1. TypeOK /\ Distances /\ Published /\ FoldIsClean /\ Turns /\ RowsDone
  BY DEF IInv
<1>2. /\ sum' = [sum EXCEPT ![w] =
                   [l \in Lanes |-> sum[w][l] ++ sdata[Group(w)][Slot(w, l) + stride[w]]]]
      /\ stride' = [stride EXCEPT ![w] = stride[w] \div 2]
      /\ UNCHANGED <<offset, y, host, pc, row, done>>
      /\ pc[w] = "fold" /\ stride[w] > 0 /\ Publish(w)
  BY DEF Fold
<1>3. PICK s \in Halves : s = stride[w] /\ s \in 1..HalfWarp
  <2>1. stride[w] \in Halves \cup {0} /\ stride[w] \in 0..HalfWarp /\ HalfWarp \in Nat
    BY <1>1, HalfType DEF TypeOK, Distances
  <2>. QED
    BY <1>2, <2>1
<1>4. /\ s \div 2 \in Halves \cup {0} /\ s \div 2 \in 0..HalfWarp
      /\ (IF s \div 2 = 0 THEN 1 ELSE 2 * (s \div 2)) = s
  <2>1. s \div 2 \in Nat /\ s \div 2 <= s /\ HalfWarp \in Nat
    BY <1>3, HalfType
  <2>2. \/ s = 1 /\ s \div 2 = 0
        \/ s \div 2 \in Halves /\ s = 2 * (s \div 2)
    BY HalvesType
  <2>. QED
    BY <1>3, <2>1, <2>2
<1>5. 2 * s <= WarpSize /\ \A l \in 0..2*s-1 : l \in Lanes
  BY <1>3, HalfType, CsrAssumption DEF Lanes
<1>6. sum' \in [Warps -> [Lanes -> Sum]]
  <2>1. ASSUME NEW l \in Lanes PROVE sum[w][l] ++ sdata[Group(w)][Slot(w, l) + s] \in Sum
    <3>1. s \in 0..HalfWarp
      BY <1>3
    <3>2. Slot(w, l) + s \in Slots /\ Group(w) \in Groups
      BY <3>1, SlotType, WarpType
    <3>. QED
      BY <1>1, <3>2, PlusType DEF TypeOK
  <2>2. [l \in Lanes |-> sum[w][l] ++ sdata[Group(w)][Slot(w, l) + s]] \in [Lanes -> Sum]
    BY <2>1
  <2>. QED
    BY <1>1, <1>2, <1>3, <2>2 DEF TypeOK
<1>7. /\ sdata' \in [Groups -> [Slots -> Sum]]
      /\ \A l \in Lanes : sdata'[Group(w)][Slot(w, l)] = sum'[w][l]
      /\ \A v \in Warps : v # w =>
           \A l \in Lanes : sdata'[Group(v)][Slot(v, l)] = sdata[Group(v)][Slot(v, l)]
  BY <1>1, <1>2, <1>6, PublishGives
<1>8. stride'[w] = s \div 2 /\ row'[w] = row[w]
  BY <1>1, <1>2, <1>3 DEF TypeOK
<1>9. TypeOK'
  <2>1. stride' \in [Warps -> 0..HalfWarp]
    BY <1>1, <1>2, <1>3, <1>4 DEF TypeOK
  <2>. QED
    BY <1>1, <1>2, <1>6, <1>7, <2>1 DEF TypeOK
<1>10. Elsewhere(w)
  BY <1>1, <1>2, <1>7 DEF Elsewhere, TypeOK
<1>11. ASSUME NEW l \in 0..s-1 PROVE sum'[w][l] = Each(Terms, Folded(row[w], l, s))
  <2>1. l \in Lanes /\ l + s \in Lanes /\ l \in 0..2*s-1 /\ l + s \in 0..2*s-1
    BY <1>3, <1>5
  <2>2. Slot(w, l) + s = Slot(w, l + s)
    <3>1. PICK k \in Nat : k = (w % HostWarps) * WarpSize
      <4>1. w % HostWarps \in Nat
        BY WarpType, CsrAssumption
      <4>. QED
        BY <4>1, CsrAssumption
    <3>. QED
      BY <1>3, <2>1, <3>1 DEF Slot, Lanes
  <2>3. sum'[w][l] = sum[w][l] ++ sum[w][l + s]
    BY <1>1, <1>2, <1>3, <2>1, <2>2 DEF TypeOK, Published
  <2>4. /\ sum[w][l] = Each(Terms, Folded(row[w], l, 2 * s))
        /\ sum[w][l + s] = Each(Terms, Folded(row[w], l + s, 2 * s))
    <3>1. (IF stride[w] = 0 THEN 1 ELSE 2 * stride[w]) = 2 * s
      BY <1>3
    <3>. QED
      BY <1>1, <1>2, <2>1, <3>1 DEF FoldIsClean, Folded
  <2>5. Folded(row[w], l, 2 * s) \cap Folded(row[w], l + s, 2 * s) = {}
    BY <1>3, <2>1 DEF Folded
  <2>6. Folded(row[w], l, 2 * s) \cup Folded(row[w], l + s, 2 * s) = Folded(row[w], l, s)
    <3>1. row[w] \in Rows
      BY <1>1, <1>2, CsrAssumption DEF TypeOK, Turns, Rows
    <3>2. ASSUME NEW e \in Entries(row[w])
          PROVE  (e - offset[row[w]]) % s = l
                 <=> (e - offset[row[w]]) % (2 * s) \in {l, l + s}
      <4>1. e - offset[row[w]] \in Nat
        BY <1>1, <3>1, CsrAssumption DEF TypeOK, RowOffsets, Entries, Rows
      <4>2. s \in Nat \ {0}
        BY <1>3
      <4>. QED
        BY <4>1, <4>2, ModFolds
    <3>. QED
      BY <3>2 DEF Folded
  <2>. QED
    BY <2>3, <2>4, <2>5, <2>6, EachSplits
<1>12. LET width == IF stride'[w] = 0 THEN 1 ELSE 2 * stride'[w]
       IN  \A l \in 0..width-1 : sum'[w][l] = Each(Terms, Folded(row'[w], l, width))
  BY <1>4, <1>8, <1>11
<1>13. Distances' /\ Published' /\ FoldIsClean'
  BY <1>2, <1>4, <1>7, <1>8, <1>10, <1>12, OneWarp
<1>14. Turns'
  BY <1>1, <1>2 DEF Turns
<1>15. RowsDone'
  BY <1>1, <1>2 DEF RowsDone, Result, Entries
<1>. QED
  BY <1>9, <1>13, <1>14, <1>15 DEF IInv

(* The next row of a warp has the same rest, and no row lies between.      *)
LEMMA NextTurn ==
  ASSUME NEW n \in Nat \ {0}, NEW a \in Nat
  PROVE  /\ (a + n) % n = a % n
         /\ \A r \in Nat : r % n = a % n /\ r < a + n => r < a \/ r = a
<1>1. PICK p \in Nat, t \in 0..n-1 : a = n * p + t /\ t = a % n
  BY DivMod
<1>2. (a + n) % n = t
  <2>1. PICK q \in Nat, u \in 0..n-1 : a + n = n * q + u /\ u = (a + n) % n
    <3>1. a + n \in Nat
      OBVIOUS
    <3>. QED
      BY <3>1, DivMod
  <2>2. PICK m \in Nat : m = p + 1
    OBVIOUS
  <2>3. n * m + t = n * q + u
    BY <1>1, <2>1, <2>2
  <2>4. \A i \in Nat, j \in Nat, k \in 0..n-1, l \in 0..n-1 :
          n * i + k = n * j + l => k = l
    BY Quotients
  <2>5. t = u
    BY <2>3, <2>4
  <2>. QED
    BY <2>1, <2>5
<1>3. ASSUME NEW r \in Nat, r % n = a % n, r < a + n, r > a PROVE FALSE
  <2>1. PICK q \in Nat : r = n * q + t
    BY <1>1, <1>3, DivMod
  <2>2. n * p < n * q /\ n * q < n * p + n
    BY <1>1, <1>3, <2>1
  <2>3. p < q
    <3>. SUFFICES ASSUME q <= p PROVE FALSE
      BY <1>1, <2>1
    <3>1. PICK d \in Nat : p = q + d
      BY <2>1, Gap
    <3>2. n * p = n * q + n * d /\ n * d \in Nat
      BY <3>1
    <3>. QED
      BY <2>2, <3>2
  <2>4. PICK d \in Nat : q = p + 1 + d
    <3>1. p + 1 \in Nat /\ p + 1 <= q
      BY <2>3
    <3>. QED
      BY <3>1, Gap
  <2>5. n * q = n * p + n + n * d /\ n * d \in Nat /\ n * p \in Nat /\ n * q \in Nat
    BY <2>4
  <2>. QED
    BY <2>2, <2>5
<1>. QED
  BY <1>1, <1>2, <1>3

(* At the end of the fold lane 0 holds the whole row.                      *)
LEMMA LaneZero ==
  ASSUME TypeOK, FoldIsClean, Turns, NEW w \in Warps, pc[w] = "fold", stride[w] = 0
  PROVE  sum[w][0] = Result(row[w])
<1>1. row[w] \in Rows
  BY CsrAssumption DEF TypeOK, Turns, Rows
<1>2. 0 \in 0..1-1 /\ (IF stride[w] = 0 THEN 1 ELSE 2 * stride[w]) = 1
  OBVIOUS
<1>3. sum[w][0] = Each(Terms, {e \in Entries(row[w]) : (e - offset[row[w]]) % 1 = 0})
  BY <1>2 DEF FoldIsClean
<1>4. \A e \in Entries(row[w]) : (e - offset[row[w]]) % 1 = 0
  BY <1>1, CsrAssumption DEF TypeOK, RowOffsets, Entries, Rows
<1>5. {e \in Entries(row[w]) : (e - offset[row[w]]) % 1 = 0} = Entries(row[w])
  BY <1>4
<1>. QED
  BY <1>3, <1>5 DEF Result

LEMMA EndRowKeeps == ASSUME IInv, NEW w \in Warps, EndRow(w) PROVE IInv'
<1>1. TypeOK /\ Distances /\ Published /\ FoldIsClean /\ Turns /\ RowsDone
  BY DEF IInv
<1>2. /\ pc[w] = "fold" /\ stride[w] = 0
      /\ y' = [y EXCEPT ![row[w]] = sum[w][0]]
      /\ row' = [row EXCEPT ![w] = row[w] + NumWarps]
      /\ pc' = [pc EXCEPT ![w] = "row"]
      /\ UNCHANGED <<offset, host, sum, stride, sdata, done>>
  BY DEF EndRow, Goto
<1>3. row[w] \in Rows /\ row[w] \in Nat /\ NumWarps \in Nat \ {0}
  BY <1>1, <1>2, WarpType, CsrAssumption DEF TypeOK, Turns, Rows
<1>4. sum[w][0] = Result(row[w])
  BY <1>1, <1>2, LaneZero
<1>5. \A r \in Rows : y'[r] = IF r = row[w] THEN Result(r) ELSE y[r]
  BY <1>1, <1>2, <1>4 DEF TypeOK
<1>6. TypeOK'
  <2>1. y' \in [Rows -> Sum]
    BY <1>1, <1>2, <1>4, EachType DEF TypeOK, Result
  <2>2. row' \in [Warps -> Nat] /\ pc' \in [Warps -> {"row", "fold", "exit"}]
    BY <1>1, <1>2, <1>3 DEF TypeOK
  <2>. QED
    BY <1>1, <1>2, <2>1, <2>2 DEF TypeOK
<1>7. Elsewhere(w) /\ pc'[w] = "row" /\ stride'[w] = 0
  BY <1>1, <1>2 DEF Elsewhere, TypeOK
<1>8. Distances' /\ Published' /\ FoldIsClean'
  BY <1>2, <1>7, OneWarp
<1>9. Turns'
  <2>1. row'[w] = row[w] + NumWarps /\ \A v \in Warps : v # w => row'[v] = row[v]
    BY <1>1, <1>2 DEF TypeOK
  <2>2. row'[w] % NumWarps = w
    BY <1>1, <1>3, <2>1, NextTurn DEF Turns
  <2>. QED
    BY <1>1, <1>7, <2>1, <2>2 DEF Turns, Elsewhere
<1>10. RowsDone'
  <2>1. \A r \in Rows : Result(r)' = Result(r)
    BY <1>2 DEF Result, Entries
  <2>2. ASSUME NEW v \in Warps, NEW r \in Rows, r % NumWarps = v, r < row'[v]
        PROVE  y'[r] = Result(r)
    <3>1. CASE v # w
      BY <1>1, <1>5, <1>7, <2>2, <3>1 DEF RowsDone, Elsewhere
    <3>2. CASE v = w
      <4>1. r \in Nat /\ r < row[w] + NumWarps /\ row[w] % NumWarps = w
        BY <1>1, <1>2, <2>2, <3>2, CsrAssumption DEF TypeOK, Turns, Rows
      <4>2. r < row[w] \/ r = row[w]
        BY <1>3, <2>2, <3>2, <4>1, NextTurn
      <4>. QED
        BY <1>1, <1>5, <2>2, <3>2, <4>2 DEF RowsDone
    <3>. QED
      BY <3>1, <3>2
  <2>. QED
    BY <1>1, <1>2, <1>5, <2>1, <2>2 DEF RowsDone
<1>. QED
  BY <1>6, <1>8, <1>9, <1>10 DEF IInv

LEMMA LeaveKeeps == ASSUME IInv, NEW w \in Warps, Leave(w) PROVE IInv'
<1>1. TypeOK /\ Distances /\ Turns /\ RowsDone
  BY DEF IInv
<1>2. /\ pc' = [pc EXCEPT ![w] = "exit"] /\ row[w] >= NRow
      /\ UNCHANGED <<offset, y, host, row, sum, stride, sdata, done>>
  BY DEF Leave, Goto
<1>3. TypeOK'
  BY <1>1, <1>2 DEF TypeOK
<1>4. Elsewhere(w) /\ pc'[w] = "exit"
  BY <1>1, <1>2 DEF Elsewhere, TypeOK
<1>5. Distances' /\ Published' /\ FoldIsClean'
  BY <1>1, <1>2, <1>4, OneWarp DEF Distances
<1>6. Turns'
  BY <1>1, <1>2, <1>4 DEF Turns, Elsewhere
<1>7. RowsDone'
  BY <1>1, <1>2 DEF RowsDone, Result, Entries
<1>. QED
  BY <1>3, <1>5, <1>6, <1>7 DEF IInv

LEMMA NextInv == IInv /\ [Next]_vars => IInv'
BY HostKeeps, ScalarKeeps, BeginRowKeeps, FoldKeeps, EndRowKeeps, LeaveKeeps
   DEF Next, AtRest, Warp

LEMMA Invariance == Spec => []IInv
BY InitInv, NextInv, PTL DEF Spec

(* Whatever the upper lanes read while they fold along, from the slots of  *)
(* a warp that is elsewhere or from the padding, stays out of the lanes    *)
(* that are folded on: at every distance a lane below the width holds the  *)
(* entries of its row that leave its number as the remainder.              *)
THEOREM FoldsAreClean == Spec => []FoldIsClean
BY Invariance, PTL DEF IInv

(* Every variable keeps its type; in particular no lane reads a slot       *)
(* outside local memory.                                                   *)
THEOREM CsrTypes == Spec => []TypeOK
BY Invariance, PTL DEF IInv

-----------------------------------------------------------------------------
(* Both kernels implement the abstract product.                            *)

(* Offsets never decrease: the least number that is a counterexample would *)
(* be smaller than the one before it.                                      *)
LEMMA OffsetsGrow ==
  ASSUME offset \in RowOffsets, NEW a \in 0..NRow, NEW b \in 0..NRow, a <= b
  PROVE  offset[a] <= offset[b]
<1>. DEFINE T == {c \in a..NRow : ~ offset[a] <= offset[c]}
<1>. SUFFICES ASSUME T # {} PROVE FALSE
  BY CsrAssumption
<1>1. T \subseteq Nat
  BY CsrAssumption
<1>2. PICK m \in T : \A n \in T : m <= n
  BY <1>1, LeastOf
<1>3. m - 1 \in a..NRow /\ m \in a..NRow /\ m - 1 \in Rows
  BY <1>2, CsrAssumption DEF RowOffsets, Rows
<1>4. offset[a] <= offset[m - 1]
  BY <1>2, <1>3
<1>5. offset[m - 1] <= offset[m]
  BY <1>3, CsrAssumption DEF RowOffsets
<1>6. offset[a] \in Nat /\ offset[m - 1] \in Nat /\ offset[m] \in Nat
  BY <1>3, CsrAssumption DEF RowOffsets, Rows
<1>. QED
  BY <1>2, <1>4, <1>5, <1>6

(* So every entry is in exactly one row.                                   *)
LEMMA OneRow ==
  ASSUME offset \in RowOffsets, NEW e \in 0..NNZ-1
  PROVE  /\ RowOf(e) \in Rows /\ e \in Entries(RowOf(e))
         /\ \A r \in Rows : e \in Entries(r) => r = RowOf(e)
<1>1. \A k \in 0..NRow : offset[k] \in Nat
  BY CsrAssumption DEF RowOffsets
<1>2. \E r \in Rows : e \in Entries(r)
  <2>. DEFINE T == {k \in 0..NRow : e < offset[k]}
  <2>1. T \subseteq Nat /\ NRow \in T
    BY CsrAssumption DEF RowOffsets
  <2>2. PICK m \in T : \A n \in T : m <= n
    BY <2>1, LeastOf
  <2>3. m # 0
    BY <2>2 DEF RowOffsets
  <2>4. m - 1 \in Rows /\ m - 1 \in 0..NRow /\ m - 1 \notin T
    BY <2>2, <2>3, CsrAssumption DEF Rows
  <2>5. e \in Entries(m - 1)
    <3>1. offset[m - 1] <= e /\ e < offset[m] /\ m = (m - 1) + 1
      BY <1>1, <2>2, <2>4
    <3>. QED
      BY <1>1, <2>2, <2>4, <3>1 DEF Entries
  <2>. QED
    BY <2>4, <2>5
<1>3. ASSUME NEW r \in Rows, NEW s \in Rows, e \in Entries(r), e \in Entries(s), r < s
      PROVE  FALSE
  <2>1. r + 1 \in 0..NRow /\ s \in 0..NRow /\ r + 1 <= s /\ s + 1 \in 0..NRow
    BY <1>3, CsrAssumption DEF Rows
  <2>2. offset[r + 1] <= offset[s]
    BY <2>1, OffsetsGrow
  <2>3. e < offset[r + 1] /\ offset[s] <= e
    BY <1>1, <1>3, <2>1 DEF Entries, Rows
  <2>. QED
    BY <1>1, <2>1, <2>2, <2>3
<1>4. RowOf(e) \in Rows /\ e \in Entries(RowOf(e))
  BY <1>2 DEF RowOf
<1>. QED
  BY <1>3, <1>4, CsrAssumption DEF Rows

(* What a finished row holds of each term.                                 *)
LEMMA ResultHolds ==
  ASSUME offset \in RowOffsets, NEW r \in Rows
  PROVE  /\ Result(r)[NNZ] = 0
         /\ \A z \in 0..NNZ-1 : Result(r)[z] = IF r = RowOf(z) THEN 1 ELSE 0
         /\ Junk[NNZ] = 1 /\ \A z \in 0..NNZ-1 : Junk[z] = 0
<1>1. NNZ \notin Entries(r)
  BY CsrAssumption DEF RowOffsets, Entries, Rows
<1>2. NNZ \in Terms /\ \A z \in 0..NNZ-1 : z \in Terms /\ z # NNZ
  BY CsrAssumption DEF Terms
<1>3. \A z \in 0..NNZ-1 : z \in Entries(r) <=> r = RowOf(z)
  BY OneRow
<1>. QED
  BY <1>1, <1>2, <1>3 DEF Result, Each, Junk, Only

LEMMA AbstractTypes ==
  Abstract!Terms = Terms /\ Abstract!Sums(Terms) = Sum
BY CsrAssumption DEF Abstract!Terms, Terms, Abstract!Sums, Sums, Sum

(* The end of one row is work, whichever kernel ends it.                   *)
LEMMA RowIsWork ==
  ASSUME IInv, IInv', NEW t \in Rows, y' = [y EXCEPT ![t] = Result(t)],
         UNCHANGED <<offset, host>>, host # "returned"
  PROVE  Abstract!Work
<1>1. offset \in RowOffsets /\ y \in [Rows -> Sum] /\ y' \in [Rows -> Sum]
  BY DEF IInv, TypeOK
<1>2. \A e \in 0..NNZ-1 : RowOf(e)' = RowOf(e)
  BY DEF RowOf, Entries
<1>3. y' \in [Rows -> Abstract!Sums(Abstract!Terms)]
  BY <1>1, AbstractTypes
<1>4. ASSUME NEW r \in Rows
      PROVE  /\ y'[r][NNZ] \in {y[r][NNZ], 0}
             /\ \A z \in 0..NNZ-1 :
                  \/ y'[r][z] = y[r][z]
                  \/ RowOf(z) = r /\ y[r][z] = 0 /\ y'[r][z] = 1
  <2>1. CASE r # t
    BY <1>1, <2>1
  <2>2. CASE r = t
    <3>1. y'[r] = Result(r) /\ y[r] \in {Junk, Result(r)}
      BY <1>1, <2>2 DEF IInv, RowsDone
    <3>2. CASE y[r] = Result(r)
      BY <3>1, <3>2
    <3>3. CASE y[r] = Junk
      BY <1>1, <3>1, <3>3, ResultHolds
    <3>. QED
      BY <3>1, <3>2, <3>3
  <2>. QED
    BY <2>1, <2>2
<1>. QED
  BY <1>2, <1>3, <1>4 DEF Abstract!Work

(* The scalar kernel is launched with a work-item for every row.           *)
LEMMA EnoughItems == Rows \subseteq ScalarItems
<1>1. PICK q \in Nat, r \in 0..LocalSize-1 : NRow = LocalSize * q + r /\ q = NRow \div LocalSize
  BY DivMod, CsrAssumption
<1>2. (q + 1) * LocalSize = LocalSize * q + LocalSize /\ LocalSize * q \in Nat
  BY CsrAssumption
<1>. QED
  BY <1>1, <1>2, CsrAssumption DEF Rows, ScalarItems

(* When multiply returns every row is done.                                *)
LEMMA ReturnIsReturn == IInv /\ Return => Abstract!Return
<1>. SUFFICES ASSUME IInv, Return PROVE Abstract!Return
  OBVIOUS
<1>1. TypeOK /\ Turns /\ RowsDone
  BY DEF IInv
<1>2. ASSUME NEW r \in Rows PROVE y[r] = Result(r)
  <2>1. CASE done = ScalarItems
    BY <1>1, <2>1, EnoughItems DEF RowsDone
  <2>2. CASE \A w \in Warps : pc[w] = "exit"
    <3>1. NumWarps \in Nat \ {0} /\ r \in Nat /\ r < NRow
      BY CsrAssumption DEF NumWarps, Rows
    <3>2. PICK w \in Warps : w = r % NumWarps
      BY <3>1, DivMod DEF Warps
    <3>3. row[w] >= NRow /\ row[w] \in Nat
      BY <1>1, <2>2 DEF Turns, TypeOK
    <3>4. r < row[w]
      BY <3>1, <3>3, CsrAssumption
    <3>. QED
      BY <1>1, <3>2, <3>4 DEF RowsDone
  <2>. QED
    BY <2>1, <2>2 DEF Return
<1>3. \A r \in Rows : y[r][NNZ] = 0
  BY <1>1, <1>2, ResultHolds DEF TypeOK
<1>4. \A z \in 0..NNZ-1 : y[RowOf(z)][z] = 1
  BY <1>1, <1>2, ResultHolds, OneRow DEF TypeOK
<1>5. host # "returned" /\ host' = "returned" /\ UNCHANGED <<offset, y>>
  BY DEF Return
<1>6. \A e \in 0..NNZ-1 : RowOf(e)' = RowOf(e)
  BY <1>5 DEF RowOf, Entries
<1>. QED
  BY <1>3, <1>4, <1>5, <1>6 DEF Abstract!Return

(* Nothing else is seen by the caller.                                     *)
LEMMA RestStutters ==
  ASSUME UNCHANGED <<offset, y>>, (host' = "returned") = (host = "returned")
  PROVE  UNCHANGED Abstract!abstractVars
<1>1. \A e \in 0..NNZ-1 : RowOf(e)' = RowOf(e)
  BY DEF RowOf, Entries
<1>. QED
  BY <1>1 DEF Abstract!abstractVars

LEMMA InitIsInit == Init => Abstract!Init
<1>. SUFFICES ASSUME Init PROVE Abstract!Init
  OBVIOUS
<1>1. [e \in 0..NNZ-1 |-> RowOf(e)] \in [0..NNZ-1 -> Rows]
  BY OneRow DEF Init
<1>2. Abstract!Only(Abstract!Terms, NNZ) = Junk
  BY AbstractTypes DEF Abstract!Only, Junk, Only
<1>. QED
  BY <1>1, <1>2 DEF Init, Abstract!Init

LEMMA StepIsStep == IInv /\ IInv' /\ [Next]_vars => [Abstract!Next]_(Abstract!abstractVars)
<1>. SUFFICES ASSUME IInv, IInv', [Next]_vars
              PROVE  Abstract!Next \/ UNCHANGED Abstract!abstractVars
  OBVIOUS
<1>1. CASE Launch
  <2>1. UNCHANGED <<offset, y>> /\ (host' = "returned") = (host = "returned")
    BY <1>1 DEF Launch
  <2>. QED
    BY <2>1, RestStutters
<1>2. CASE Return
  BY <1>2, ReturnIsReturn DEF Abstract!Next
<1>3. CASE UNCHANGED vars
  <2>1. UNCHANGED <<offset, y>> /\ (host' = "returned") = (host = "returned")
    BY <1>3 DEF vars
  <2>. QED
    BY <2>1, RestStutters
<1>4. ASSUME NEW t \in ScalarItems, ScalarRow(t)
      PROVE  Abstract!Next \/ UNCHANGED Abstract!abstractVars
  <2>1. UNCHANGED <<offset, host>> /\ host # "returned"
    BY <1>4 DEF ScalarRow
  <2>2. CASE t \in Rows
    <3>1. y' = [y EXCEPT ![t] = Result(t)]
      BY <1>4, <2>2 DEF ScalarRow, Result
    <3>. QED
      BY <2>1, <2>2, <3>1, RowIsWork DEF Abstract!Next
  <2>3. CASE t \notin Rows
    <3>1. y' = y
      BY <1>4, <2>3 DEF ScalarRow
    <3>. QED
      BY <2>1, <3>1, RestStutters
  <2>. QED
    BY <2>2, <2>3
<1>5. ASSUME NEW w \in Warps, EndRow(w) PROVE Abstract!Next
  <2>1. UNCHANGED <<offset, host>> /\ host # "returned"
    BY <1>5 DEF EndRow
  <2>2. row[w] \in Rows
    BY <1>5, CsrAssumption DEF EndRow, IInv, Turns, TypeOK, Rows
  <2>3. y' = [y EXCEPT ![row[w]] = Result(row[w])]
    BY <1>5, LaneZero DEF EndRow, IInv
  <2>. QED
    BY <2>1, <2>2, <2>3, RowIsWork DEF Abstract!Next
<1>6. ASSUME NEW w \in Warps, BeginRow(w) \/ Fold(w) \/ Leave(w)
      PROVE  UNCHANGED Abstract!abstractVars
  <2>1. UNCHANGED <<offset, y>> /\ (host' = "returned") = (host = "returned")
    BY <1>6 DEF BeginRow, Fold, Leave
  <2>. QED
    BY <2>1, RestStutters
<1>. QED
  BY <1>1, <1>2, <1>3, <1>4, <1>5, <1>6 DEF Next, AtRest, Warp

(* Both kernels, in every interleaving of warps and work-items, do nothing *)
(* to y that the product of a sparse matrix may not do: what y held is     *)
(* forgotten, a nonzero is added to its own row and only once, and when    *)
(* multiply returns none is missing.  (That it returns is left to TLC.)    *)
THEOREM CsrIsTheProduct ==
  Spec => Abstract!Init /\ [][Abstract!Next]_(Abstract!abstractVars)
<1>1. Init => Abstract!Init
  BY InitIsInit
<1>2. IInv /\ IInv' /\ [Next]_vars => [Abstract!Next]_(Abstract!abstractVars)
  BY StepIsStep
<1>. QED
  BY <1>1, <1>2, Invariance, PTL DEF Spec

=============================================================================
