--------------------------- MODULE SolutionProofs ---------------------------
(***************************************************************************)
(* The division of a problem and the sequences of steps: the parts tile    *)
(* the result, no kernel of a call starts before what the caller waits     *)
(* for, no two kernels that run together are in conflict, and what is left *)
(* in the matrix is what the function computes of the whole problem; for   *)
(* all problems, numbers of queues, devices, alignments and thresholds.    *)
(*                                                                         *)
(* PartsTile speaks of the end only.  Its strengthening keeps account of   *)
(* every element at every step: it is either in what is left, and in no    *)
(* part, or in exactly one part, which is live.  For what is left to be    *)
(* empty in the end, totalCUs has to be the compute units of the queues    *)
(* not served yet as long as something is left (CUsLeft).                  *)
(*                                                                         *)
(* For the sequences, each step but the first of its queue waits for the   *)
(* event of the step before it and for nothing else, and no event belongs  *)
(* to two steps (Chained): so the kernels of a queue run one after another *)
(* on any kind of queue (InTurn), the first one when the caller's events   *)
(* are complete.  Kernels of different queues write in their parts only    *)
(* (InItsPart), and the parts follow each other by rows or columns         *)
(* (PartsInOrder).                                                         *)
(*                                                                         *)
(* For the numbers, DataInv says what the matrix holds while kernels run:  *)
(* of which elements the kernels done so far have made what.               *)
(***************************************************************************)
EXTENDS SolutionSeq, FiniteSetTheorems, SequenceTheorems, WellFoundedInduction, TLAPS

Extents == [y : Nat, x : Nat]
Parts   == [offset : Extents, size : Extents, live : BOOLEAN]

DivTypeOK ==
  /\ problem \in Problems
  /\ next \in 1..Len(problem.cus) /\ totalCUs \in Nat
  /\ offset \in Extents /\ size \in Extents
  /\ part \in Seq(Parts) /\ Len(part) = next - 1
  /\ FromBottom => offset.y = size.y

CUsLeft ==
  /\ totalCUs # 0 => totalCUs = problem.cus[next]
  /\ totalCUs = 0 => size.y = 0 \/ size.x = 0

Served == 1..(next - 1)

Accounted ==
  \A i, j \in Nat :
    <<i, j>> \in Cells =>
      IF InRest(i, j) THEN \A q \in Served : ~ InPart(q, i, j)
      ELSE \E q \in Served :
             /\ part[q].live /\ InPart(q, i, j)
             /\ \A r \in Served : InPart(r, i, j) => r = q

(* A triangle cut from the top is cut at multiples of the alignment.       *)
FromTopAligned ==
  problem.kind = "triangle" /\ ~ problem.upper /\ totalCUs # 0 =>
    \E k \in Nat : offset.y = k * Alignment

DivInv == DivTypeOK /\ CUsLeft /\ FromTopAligned /\ Accounted

-----------------------------------------------------------------------------
(* Arithmetic of the shares.                                               *)

LEMMA QuotientNat == ASSUME NEW a \in Nat, NEW b \in Nat, b > 0 PROVE a \div b \in Nat
  OBVIOUS

LEMMA ProductNat == ASSUME NEW a \in Nat, NEW b \in Nat PROVE a * b \in Nat
  OBVIOUS

LEMMA AlignNat == ASSUME NEW v \in Nat PROVE Align(v) \in Nat
<1>1. Alignment \in Nat /\ Alignment > 0
  BY DivisionAssumption
<1>2. Alignment \div 2 \in Nat
  BY <1>1
<1>3. (v + Alignment \div 2) \div Alignment \in Nat
  <2> DEFINE a == v + Alignment \div 2
  <2>1. a \in Nat
    BY <1>2
  <2> HIDE DEF a
  <2>2. a \div Alignment \in Nat
    BY <1>1, <2>1, QuotientNat
  <2> QED
    BY <2>2 DEF a
<1> DEFINE d == (v + Alignment \div 2) \div Alignment
<1> HIDE DEF d
<1>4. d * Alignment \in Nat
  BY <1>1, <1>3, ProductNat DEF d
<1> QED
  BY <1>4 DEF Align, d

(* Rounding moves by at most half of the alignment, rounded to a multiple. *)
LEMMA AlignBounds ==
  ASSUME NEW v \in Nat
  PROVE  /\ \E k \in Nat : Align(v) = k * Alignment
         /\ Align(v) <= v + Alignment \div 2
<1>1. Alignment \in Nat /\ Alignment > 0
  BY DivisionAssumption
<1> DEFINE a == v + Alignment \div 2
<1>2. a \in Nat
  BY <1>1
<1> DEFINE k == a \div Alignment
<1> HIDE DEF a
<1>3. k \in Nat
  BY <1>1, <1>2, QuotientNat
<1>4. k * Alignment <= a
  BY <1>1, <1>2
<1> HIDE DEF k
<1>5. Align(v) = k * Alignment
  BY DEF Align, a, k
<1> QED
  BY <1>3, <1>4, <1>5 DEF a

LEMMA AlignFix == ASSUME NEW k \in Nat PROVE Align(k * Alignment) = k * Alignment
<1>1. Alignment \in Nat /\ Alignment > 0
  BY DivisionAssumption
<1> DEFINE h == Alignment \div 2
<1>2. h \in 0..(Alignment - 1)
  BY <1>1
<1> HIDE DEF h
<1>3. (k * Alignment + h) \div Alignment = k
  BY <1>1, <1>2
<1> QED
  BY <1>3 DEF Align, h

LEMMA ShareNat ==
  ASSUME NEW len \in Nat, NEW nr \in Nat, NEW total \in Nat, total > 0
  PROVE  Share(len, nr, total) \in Nat
<1> DEFINE a == 2 * len * nr + total
<1> DEFINE b == 2 * total
<1>1. a \in Nat
  BY ProductNat
<1>2. b \in Nat /\ b > 0
  OBVIOUS
<1> HIDE DEF a, b
<1>3. a \div b \in Nat
  BY <1>1, <1>2, QuotientNat
<1> QED
  BY <1>3 DEF Share, a, b

LEMMA TriangleShareNat ==
  ASSUME NEW len \in Nat, NEW nr, NEW total, NEW top
  PROVE  TriangleShare(len, nr, total, top) \in Nat
<1> DEFINE S == {n \in 1..len :
      ((n + top) * (n + top) - top * top) * total <= nr * len * (top + problem.x)}
<1>1. IsFiniteSet(1..len)
  BY FS_Interval
<1>2. S \subseteq 1..len
  OBVIOUS
<1>3. IsFiniteSet(S)
  BY <1>1, <1>2, FS_Subset
<1>4. Cardinality(S) \in Nat
  BY <1>3, FS_CardinalityType
<1> QED
  BY <1>4 DEF TriangleShare

-----------------------------------------------------------------------------
(* A chunk is never more than there is; and one that is not the last is    *)
(* cut from what the queues after it can still take.                       *)
LEMMA ChunkWithin ==
  ASSUME DivTypeOK, ~ Divided, NEW len \in Nat, NEW share \in Nat
  PROVE  /\ Chunk(len, share).len \in 0..len
         /\ Chunk(len, share).last \in BOOLEAN
         /\ Chunk(len, share).last => Chunk(len, share).len = len
         /\ ~ Chunk(len, share).last => totalCUs # NrCU(next)
  BY DEF Chunk

LEMMA TriangleChunkWithin ==
  ASSUME DivTypeOK, FromTopAligned, ~ Divided, totalCUs # 0, problem.kind = "triangle",
         NEW v \in Nat
  PROVE  LET c == TriangleChunk(Align(v))
         IN  /\ c.len \in 0..size.y
             /\ c.last \in BOOLEAN
             /\ c.last => c.len = size.y
             /\ ~ c.last => totalCUs # NrCU(next)
<1> DEFINE c == TriangleChunk(Align(v))
<1>1. size.y \in Nat /\ offset.y \in Nat
  BY DEF DivTypeOK, Extents
<1>2. Align(v) \in Nat
  BY AlignNat
<1>3. CASE totalCUs = NrCU(next) \/ Align(v) = 0 \/ Align(v) > size.y
  BY <1>1, <1>3 DEF TriangleChunk
<1>4. CASE /\ ~ (totalCUs = NrCU(next) \/ Align(v) = 0 \/ Align(v) > size.y)
           /\ offset.y = Align(offset.y)
  BY <1>1, <1>2, <1>4 DEF TriangleChunk
<1>5. CASE /\ ~ (totalCUs = NrCU(next) \/ Align(v) = 0 \/ Align(v) > size.y)
           /\ offset.y # Align(offset.y)
  <2>1. FromBottom
    <3>1. SUFFICES ASSUME ~ problem.upper PROVE FALSE
      BY DivisionAssumption DEF FromBottom, DivTypeOK
    <3>2. PICK k \in Nat : offset.y = k * Alignment
      BY <3>1 DEF FromTopAligned
    <3> QED
      BY <3>2, <1>5, AlignFix
  <2>2. offset.y = size.y
    BY <2>1 DEF DivTypeOK
  <2>3. Alignment \in Nat /\ Alignment > 0
    BY DivisionAssumption
  <2>4. Align(v) >= Alignment
    <3>1. PICK k \in Nat : Align(v) = k * Alignment
      BY AlignBounds
    <3>2. k # 0
      BY <3>1, <1>5, <2>3
    <3> QED
      BY <3>1, <3>2, <2>3
  <2> DEFINE o == Align(offset.y - Align(v))
  <2>5. offset.y - Align(v) \in Nat
    BY <1>1, <1>2, <1>5, <2>2
  <2>6. o \in Nat /\ o <= offset.y - Align(v) + Alignment \div 2
    BY <2>5, AlignNat, AlignBounds
  <2> HIDE DEF o
  <2>7. o <= offset.y
    BY <1>1, <1>2, <2>3, <2>4, <2>6
  <2>8. TriangleChunk(Align(v)) = [len |-> offset.y - o, last |-> FALSE]
    <3>1. ~ (o > offset.y)
      BY <1>1, <2>6, <2>7
    <3>2. TriangleChunk(Align(v))
            = [len |-> offset.y - (IF o > offset.y THEN o - 2 * Alignment ELSE o), last |-> FALSE]
      BY <1>5, Zenon DEF TriangleChunk, o
    <3> QED
      BY <3>1, <3>2, Zenon
  <2> QED
    BY <1>1, <1>5, <2>2, <2>6, <2>7, <2>8
<1> QED
  BY <1>3, <1>4, <1>5

-----------------------------------------------------------------------------
(* Cutting a part off what is left keeps account of every element.         *)
LEMMA CutAccounted ==
  ASSUME DivTypeOK, Accounted, NEW p \in Parts,
         part' = Append(part, p), next' = next + 1, problem' = problem,
         \A i, j \in Nat : InRest(i, j) <=> Within(i, j, p.offset, p.size) \/ InRest(i, j)',
         \A i, j \in Nat : ~ (Within(i, j, p.offset, p.size) /\ InRest(i, j)'),
         \A i, j \in Nat : Within(i, j, p.offset, p.size) => p.live
  PROVE  Accounted'
<1>1. SUFFICES ASSUME NEW i \in Nat, NEW j \in Nat, <<i, j>> \in Cells
      PROVE  IF InRest(i, j)' THEN \A q \in Served' : ~ InPart(q, i, j)'
             ELSE \E q \in Served' :
                    /\ part'[q].live /\ InPart(q, i, j)'
                    /\ \A r \in Served' : InPart(r, i, j)' => r = q
  BY Zenon DEF Accounted, Cells
<1> PICK n \in Nat : n = next
  BY DEF DivTypeOK
<1>2. Served' = Served \cup {n} /\ n \notin Served
  BY DEF Served, DivTypeOK
<1>3. \A q \in Served : part'[q] = part[q]
  BY DEF DivTypeOK, Served
<1>4. part'[n] = p
  BY DEF DivTypeOK
<1>5. \A q \in Served : InPart(q, i, j)' <=> InPart(q, i, j)
  BY Zenon, <1>3 DEF InPart, Within
<1>6. InPart(n, i, j)' <=> Within(i, j, p.offset, p.size)
  BY <1>4 DEF InPart, Within
<1>7. IF InRest(i, j) THEN \A q \in Served : ~ InPart(q, i, j)
      ELSE \E q \in Served :
             /\ part[q].live /\ InPart(q, i, j)
             /\ \A r \in Served : InPart(r, i, j) => r = q
  BY <1>1 DEF Accounted
<1>8. CASE InRest(i, j)'
  <2>1. InRest(i, j) /\ ~ Within(i, j, p.offset, p.size)
    BY <1>8
  <2>2. \A q \in Served : ~ InPart(q, i, j)'
    BY <1>5, <1>7, <2>1
  <2>3. \A q \in Served' : ~ InPart(q, i, j)'
    BY <1>2, <1>6, <2>1, <2>2
  <2> QED
    BY <1>8, <2>3
<1>9. CASE Within(i, j, p.offset, p.size)
  <2>1. InRest(i, j) /\ ~ InRest(i, j)' /\ p.live
    BY <1>9
  <2>2. \A q \in Served : ~ InPart(q, i, j)'
    BY <1>5, <1>7, <2>1
  <2>3. \A r \in Served' : InPart(r, i, j)' => r = n
    BY <1>2, <2>2
  <2>4. n \in Served' /\ part'[n].live /\ InPart(n, i, j)'
    BY <1>2, <1>4, <1>6, <1>9, <2>1
  <2> QED
    BY Zenon, <2>1, <2>3, <2>4
<1>10. CASE ~ InRest(i, j)' /\ ~ Within(i, j, p.offset, p.size)
  <2>1. ~ InRest(i, j)
    BY <1>10
  <2>2. PICK q \in Served : /\ part[q].live /\ InPart(q, i, j)
                            /\ \A r \in Served : InPart(r, i, j) => r = q
    BY <1>7, <2>1
  <2>3. q \in Served' /\ part'[q].live /\ InPart(q, i, j)'
    BY Zenon, <1>2, <1>3, <1>5, <2>2
  <2>4. ASSUME NEW r \in Served', InPart(r, i, j)' PROVE r = q
    <3>1. r \in Served
      BY <1>2, <1>6, <1>10, <2>4
    <3> QED
      BY <1>5, <2>2, <2>4, <3>1
  <2> QED
    BY Zenon, <1>10, <2>3, <2>4
<1> QED
  BY Zenon, <1>8, <1>9, <1>10

-----------------------------------------------------------------------------
(* What a queue may be given: of len, and all of it if nothing follows.    *)
Sound(c, len) ==
  /\ c.len \in 0..len /\ c.last \in BOOLEAN
  /\ c.last => c.len = len
  /\ ~ c.last => totalCUs # NrCU(next)

LEMMA ServeKeeps ==
  ASSUME DivInv, ~ Divided, totalCUs # 0, NEW p \in Parts, NEW c, NEW len \in Nat,
         Sound(c, len), Serve(p, c.last), c.last => size'.y = 0 \/ size'.x = 0
  PROVE  /\ next' \in 1..Len(problem'.cus) /\ totalCUs' \in Nat
         /\ part' \in Seq(Parts) /\ Len(part') = next' - 1
         /\ problem' = problem /\ problem' \in Problems
         /\ CUsLeft'
<1>1. /\ problem \in Problems /\ next \in 1..(Len(problem.cus) - 1) /\ totalCUs \in Nat
      /\ part \in Seq(Parts) /\ Len(part) = next - 1
  BY DEF DivInv, DivTypeOK, Divided, Queues
<1>2. problem.cus \in Seq(Nat) /\ problem.cus[next] > problem.cus[next + 1]
  BY Zenon, <1>1, DivisionAssumption
<1>3. totalCUs = problem.cus[next] /\ problem.cus[next] \in Nat /\ problem.cus[next + 1] \in Nat
  <2>1. totalCUs = problem.cus[next]
    BY Zenon DEF DivInv, CUsLeft
  <2>2. /\ next \in 1..Len(problem.cus) /\ next + 1 \in 1..Len(problem.cus)
        /\ problem.cus \in [1..Len(problem.cus) -> Nat]
    BY <1>1, <1>2
  <2> QED
    BY Zenon, <2>1, <2>2
<1>4. next' = next + 1 /\ problem' = problem /\ part' = Append(part, p)
  BY DEF Serve
<1>5. totalCUs' \in Nat /\ CUsLeft'
  <2>1. CASE c.last
    BY <1>4, <2>1 DEF Serve, CUsLeft
  <2>2. CASE ~ c.last
    <3>1. totalCUs' = problem.cus[next + 1]
      BY <1>3, <2>2 DEF Serve, NrCU
    <3>2. totalCUs' # 0
      BY <1>3, <2>2, <3>1 DEF Sound, NrCU
    <3> QED
      BY <1>3, <1>4, <3>1, <3>2 DEF CUsLeft
  <2> QED
    BY <2>1, <2>2 DEF Sound
<1> QED
  BY <1>1, <1>4, <1>5

LEMMA CutYKeeps ==
  ASSUME DivInv, ~ Divided, totalCUs # 0, problem.kind # "triangle",
         NEW c, Sound(c, size.y), CutY(c)
  PROVE  DivInv'
<1> DEFINE p == Step(offset, [size EXCEPT !.y = c.len], c.last \/ c.len # 0)
<1>1. offset \in Extents /\ size \in Extents /\ size.y \in Nat /\ c.len \in 0..size.y
  BY DEF DivInv, DivTypeOK, Sound, Extents
<1>2. /\ offset' = [y |-> offset.y + c.len, x |-> offset.x]
      /\ size' = [y |-> size.y - c.len, x |-> size.x]
  BY <1>1 DEF CutY, Extents
<1>3. /\ p \in Parts
      /\ p.offset = offset /\ p.size = [y |-> c.len, x |-> size.x] /\ p.live = (c.last \/ c.len # 0)
  BY <1>1 DEF Step, Parts, Extents, Sound
<1>4. Serve(p, c.last)
  BY DEF CutY
<1> HIDE DEF p
<1>5. /\ next' \in 1..Len(problem'.cus) /\ totalCUs' \in Nat
      /\ part' \in Seq(Parts) /\ Len(part') = next' - 1
      /\ problem' = problem /\ problem' \in Problems
      /\ CUsLeft'
  <2>1. c.last => size'.y = 0
    BY <1>1, <1>2 DEF Sound
  <2> QED
    BY <1>1, <1>3, <1>4, <2>1, ServeKeeps
<1>6. ~ FromBottom /\ ~ FromBottom'
  BY <1>5 DEF FromBottom
<1>7. DivTypeOK'
  BY SMTT(20), <1>1, <1>2, <1>5, <1>6 DEF DivTypeOK, Extents
<1>8. FromTopAligned'
  BY <1>5 DEF FromTopAligned
<1>9. Accounted'
  <2>1. \A i, j \in Nat :
          /\ InRest(i, j) <=> Within(i, j, p.offset, p.size) \/ InRest(i, j)'
          /\ ~ (Within(i, j, p.offset, p.size) /\ InRest(i, j)')
          /\ Within(i, j, p.offset, p.size) => p.live
    <3>1. SUFFICES ASSUME NEW i \in Nat, NEW j \in Nat
          PROVE  /\ InRest(i, j) <=> Within(i, j, p.offset, p.size) \/ InRest(i, j)'
                 /\ ~ (Within(i, j, p.offset, p.size) /\ InRest(i, j)')
                 /\ Within(i, j, p.offset, p.size) => p.live
      OBVIOUS
    <3>2. InRest(i, j) <=> /\ i \in offset.y..(offset.y + size.y - 1)
                           /\ j \in offset.x..(offset.x + size.x - 1)
      BY <1>6 DEF InRest, Within
    <3>3. InRest(i, j)' <=> /\ i \in offset'.y..(offset'.y + size'.y - 1)
                            /\ j \in offset'.x..(offset'.x + size'.x - 1)
      BY <1>6 DEF InRest, Within
    <3>4. Within(i, j, p.offset, p.size)
            <=> /\ i \in p.offset.y..(p.offset.y + p.size.y - 1)
                /\ j \in p.offset.x..(p.offset.x + p.size.x - 1)
      BY DEF Within
    <3>5. /\ offset.y \in Nat /\ offset.x \in Nat /\ size.y \in Nat /\ size.x \in Nat
          /\ c.len \in Nat
      BY <1>1 DEF Extents
    <3>6. Within(i, j, p.offset, p.size) => c.len # 0
      BY <1>3, <3>4, <3>5
    <3>7. c.len # 0 => p.live
      BY <1>3, Zenon
    <3> QED
      BY <1>1, <1>2, <1>3, <3>2, <3>3, <3>4, <3>5, <3>6, <3>7
  <2>2. part' = Append(part, p) /\ next' = next + 1
    BY <1>4 DEF Serve
  <2> QED
    BY <1>3, <1>5, <2>1, <2>2, CutAccounted DEF DivInv
<1> QED
  BY <1>5, <1>7, <1>8, <1>9 DEF DivInv

LEMMA CutXKeeps ==
  ASSUME DivInv, ~ Divided, totalCUs # 0, problem.kind # "triangle",
         NEW c, Sound(c, size.x), CutX(c)
  PROVE  DivInv'
<1> DEFINE p == Step(offset, [size EXCEPT !.x = c.len], c.last \/ c.len # 0)
<1>1. offset \in Extents /\ size \in Extents /\ size.x \in Nat /\ c.len \in 0..size.x
  BY DEF DivInv, DivTypeOK, Sound, Extents
<1>2. /\ offset' = [y |-> offset.y, x |-> offset.x + c.len]
      /\ size' = [y |-> size.y, x |-> size.x - c.len]
  BY <1>1 DEF CutX, Extents
<1>3. /\ p \in Parts
      /\ p.offset = offset /\ p.size = [y |-> size.y, x |-> c.len] /\ p.live = (c.last \/ c.len # 0)
  BY <1>1 DEF Step, Parts, Extents, Sound
<1>4. Serve(p, c.last)
  BY DEF CutX
<1> HIDE DEF p
<1>5. /\ next' \in 1..Len(problem'.cus) /\ totalCUs' \in Nat
      /\ part' \in Seq(Parts) /\ Len(part') = next' - 1
      /\ problem' = problem /\ problem' \in Problems
      /\ CUsLeft'
  <2>1. c.last => size'.x = 0
    BY <1>1, <1>2 DEF Sound
  <2> QED
    BY <1>1, <1>3, <1>4, <2>1, ServeKeeps
<1>6. ~ FromBottom /\ ~ FromBottom'
  BY <1>5 DEF FromBottom
<1>7. DivTypeOK'
  BY SMTT(20), <1>1, <1>2, <1>5, <1>6 DEF DivTypeOK, Extents
<1>8. FromTopAligned'
  BY <1>5 DEF FromTopAligned
<1>9. Accounted'
  <2>1. \A i, j \in Nat :
          /\ InRest(i, j) <=> Within(i, j, p.offset, p.size) \/ InRest(i, j)'
          /\ ~ (Within(i, j, p.offset, p.size) /\ InRest(i, j)')
          /\ Within(i, j, p.offset, p.size) => p.live
    <3>1. SUFFICES ASSUME NEW i \in Nat, NEW j \in Nat
          PROVE  /\ InRest(i, j) <=> Within(i, j, p.offset, p.size) \/ InRest(i, j)'
                 /\ ~ (Within(i, j, p.offset, p.size) /\ InRest(i, j)')
                 /\ Within(i, j, p.offset, p.size) => p.live
      OBVIOUS
    <3>2. InRest(i, j) <=> /\ i \in offset.y..(offset.y + size.y - 1)
                           /\ j \in offset.x..(offset.x + size.x - 1)
      BY <1>6 DEF InRest, Within
    <3>3. InRest(i, j)' <=> /\ i \in offset'.y..(offset'.y + size'.y - 1)
                            /\ j \in offset'.x..(offset'.x + size'.x - 1)
      BY <1>6 DEF InRest, Within
    <3>4. Within(i, j, p.offset, p.size)
            <=> /\ i \in p.offset.y..(p.offset.y + p.size.y - 1)
                /\ j \in p.offset.x..(p.offset.x + p.size.x - 1)
      BY DEF Within
    <3>5. /\ offset.y \in Nat /\ offset.x \in Nat /\ size.y \in Nat /\ size.x \in Nat
          /\ c.len \in Nat
      BY <1>1 DEF Extents
    <3>6. Within(i, j, p.offset, p.size) => c.len # 0
      BY <1>3, <3>4, <3>5
    <3>7. c.len # 0 => p.live
      BY <1>3, Zenon
    <3> QED
      BY <1>1, <1>2, <1>3, <3>2, <3>3, <3>4, <3>5, <3>6, <3>7
  <2>2. part' = Append(part, p) /\ next' = next + 1
    BY <1>4 DEF Serve
  <2> QED
    BY Zenon, <1>3, <1>5, <2>1, <2>2, CutAccounted DEF DivInv
<1> QED
  BY <1>5, <1>7, <1>8, <1>9 DEF DivInv

LEMMA TriangleKeeps ==
  ASSUME DivInv, TriMatrixStripeDivision
  PROVE  DivInv'
<1> DEFINE top == problem.y - size.y
           c   == TriangleChunk(Align(TriangleShare(size.y, NrCU(next), totalCUs, top)))
           o   == [offset EXCEPT !.y = IF FromBottom THEN @ - c.len ELSE @ + c.len]
           p   == Step(IF FromBottom THEN o ELSE offset, [size EXCEPT !.y = c.len], TRUE)
<1>1. /\ ~ Divided /\ totalCUs # 0 /\ problem.kind = "triangle"
      /\ offset \in Extents /\ size \in Extents /\ size.y \in Nat
      /\ FromBottom => offset.y = size.y
      /\ totalCUs \in Nat
  BY DEF TriMatrixStripeDivision, Serving, DivInv, DivTypeOK, Extents
<1>2. Serve(p, c.last) /\ offset' = o /\ size' = [size EXCEPT !.y = @ - c.len]
  BY Zenon DEF TriMatrixStripeDivision
<1>3. Sound(c, size.y)
  <2>1. TriangleShare(size.y, NrCU(next), totalCUs, top) \in Nat
    BY <1>1, TriangleShareNat
  <2> QED
    BY <1>1, <2>1, TriangleChunkWithin DEF DivInv, Sound
<1>4. ~ c.last => (offset.y = Align(offset.y) => \E k \in Nat : c.len = k * Alignment)
  <2>1. SUFFICES ASSUME ~ c.last, offset.y = Align(offset.y)
        PROVE  \E k \in Nat : c.len = k * Alignment
    OBVIOUS
  <2>2. c.len = Align(TriangleShare(size.y, NrCU(next), totalCUs, top))
    BY <2>1 DEF TriangleChunk
  <2>3. TriangleShare(size.y, NrCU(next), totalCUs, top) \in Nat
    BY <1>1, TriangleShareNat
  <2> QED
    BY <2>2, <2>3, AlignBounds
<1> HIDE DEF c
<1>5. c.len \in 0..size.y /\ (c.last => c.len = size.y) /\ c.len \in Nat
  BY <1>1, <1>3 DEF Sound
<1>6. /\ p \in Parts /\ p.live
      /\ p.size = [y |-> c.len, x |-> size.x]
      /\ p.offset = [y |-> IF FromBottom THEN offset.y - c.len ELSE offset.y, x |-> offset.x]
  BY <1>1, <1>5 DEF Step, Parts, Extents
<1>7. /\ offset' = [y |-> IF FromBottom THEN offset.y - c.len ELSE offset.y + c.len, x |-> offset.x]
      /\ size' = [y |-> size.y - c.len, x |-> size.x]
  BY <1>1, <1>2, <1>5 DEF Extents
<1> HIDE DEF p, o
<1>8. /\ next' \in 1..Len(problem'.cus) /\ totalCUs' \in Nat
      /\ part' \in Seq(Parts) /\ Len(part') = next' - 1
      /\ problem' = problem /\ problem' \in Problems
      /\ CUsLeft'
  <2>1. c.last => size'.y = 0
    BY <1>1, <1>5, <1>7
  <2> QED
    BY <1>1, <1>2, <1>3, <1>6, <2>1, ServeKeeps
<1>9. FromBottom' <=> FromBottom
  BY <1>8 DEF FromBottom
<1>10. DivTypeOK'
  <2>1. offset' \in Extents /\ size' \in Extents /\ (FromBottom => offset'.y = size'.y)
    BY <1>1, <1>5, <1>7 DEF Extents
  <2> QED
    BY <1>8, <1>9, <2>1 DEF DivTypeOK
<1>11. FromTopAligned'
  <2>1. SUFFICES ASSUME ~ problem.upper, totalCUs' # 0
        PROVE  \E k \in Nat : offset'.y = k * Alignment
    BY <1>8 DEF FromTopAligned
  <2>2. ~ FromBottom /\ ~ c.last
    BY <1>2, <1>3, <2>1 DEF FromBottom, Serve, Sound
  <2>3. PICK k \in Nat : offset.y = k * Alignment
    BY <1>1, <2>1 DEF DivInv, FromTopAligned
  <2>4. PICK l \in Nat : c.len = l * Alignment
    BY <1>4, <2>2, <2>3, AlignFix
  <2>5. Alignment \in Nat
    BY DivisionAssumption
  <2>6. offset'.y = (k + l) * Alignment
    BY <1>1, <1>5, <1>7, <2>2, <2>3, <2>4, <2>5
  <2> QED
    BY <2>6
<1>12. Accounted'
  <2>1. \A i, j \in Nat :
          /\ InRest(i, j) <=> Within(i, j, p.offset, p.size) \/ InRest(i, j)'
          /\ ~ (Within(i, j, p.offset, p.size) /\ InRest(i, j)')
    <3>1. SUFFICES ASSUME NEW i \in Nat, NEW j \in Nat
          PROVE  /\ InRest(i, j) <=> Within(i, j, p.offset, p.size) \/ InRest(i, j)'
                 /\ ~ (Within(i, j, p.offset, p.size) /\ InRest(i, j)')
      OBVIOUS
    <3>2. Within(i, j, p.offset, p.size)
            <=> /\ i \in p.offset.y..(p.offset.y + p.size.y - 1)
                /\ j \in p.offset.x..(p.offset.x + p.size.x - 1)
      BY DEF Within
    <3>3. /\ offset.y \in Nat /\ offset.x \in Nat /\ size.x \in Nat
      BY <1>1 DEF Extents
    <3>4. CASE FromBottom
      <4>1. InRest(i, j) <=> i \in 0..(size.y - 1) /\ j \in offset.x..(offset.x + size.x - 1)
        BY <1>1, <3>3, <3>4 DEF InRest, Within, Extents
      <4>2. InRest(i, j)' <=> /\ i \in 0..(size.y - c.len - 1)
                              /\ j \in offset.x..(offset.x + size.x - 1)
        BY <1>1, <1>5, <1>7, <1>9, <3>3, <3>4 DEF InRest, Within
      <4> QED
        BY <1>1, <1>5, <1>6, <3>2, <3>3, <3>4, <4>1, <4>2
    <3>5. CASE ~ FromBottom
      <4>1. InRest(i, j) <=> /\ i \in offset.y..(offset.y + size.y - 1)
                             /\ j \in offset.x..(offset.x + size.x - 1)
        BY <3>5 DEF InRest, Within
      <4>2. InRest(i, j)' <=> /\ i \in offset'.y..(offset'.y + size'.y - 1)
                              /\ j \in offset'.x..(offset'.x + size'.x - 1)
        BY <1>9, <3>5 DEF InRest, Within
      <4> QED
        BY <1>1, <1>5, <1>6, <1>7, <3>2, <3>3, <3>5, <4>1, <4>2
    <3> QED
      BY <3>4, <3>5
  <2>2. part' = Append(part, p) /\ next' = next + 1
    BY <1>2 DEF Serve
  <2> QED
    BY <1>6, <1>8, <2>1, <2>2, CutAccounted DEF DivInv
<1> QED
  BY <1>8, <1>10, <1>11, <1>12 DEF DivInv

(* A queue for which nothing is left gets a part without elements.         *)
LEMMA DropKeeps ==
  ASSUME DivInv, DropQueue
  PROVE  DivInv'
<1> DEFINE p == Step(offset, [y |-> 0, x |-> 0], FALSE)
<1>1. /\ problem \in Problems /\ next \in 1..(Len(problem.cus) - 1) /\ totalCUs = 0
      /\ offset \in Extents /\ size \in Extents
      /\ size.y = 0 \/ size.x = 0
      /\ part \in Seq(Parts) /\ Len(part) = next - 1
  BY DEF DropQueue, DivInv, DivTypeOK, CUsLeft, Divided, Queues
<1>2. /\ part' = Append(part, p) /\ next' = next + 1
      /\ problem' = problem /\ totalCUs' = totalCUs /\ offset' = offset /\ size' = size
  BY DEF DropQueue
<1>3. p \in Parts /\ p.offset = offset /\ p.size = [y |-> 0, x |-> 0]
  BY <1>1 DEF Step, Parts, Extents
<1> HIDE DEF p
<1>4. FromBottom' <=> FromBottom
  BY <1>2 DEF FromBottom
<1>5. DivTypeOK'
  BY <1>1, <1>2, <1>3, <1>4 DEF DivTypeOK, DivInv
<1>6. CUsLeft' /\ FromTopAligned'
  BY <1>1, <1>2 DEF CUsLeft, FromTopAligned
<1>7. Accounted'
  <2>1. \A i, j \in Nat : InRest(i, j)' <=> InRest(i, j)
    BY <1>2, <1>4 DEF InRest, Within
  <2>2. \A i, j \in Nat : ~ Within(i, j, p.offset, p.size)
    BY <1>1, <1>3 DEF Within, Extents
  <2>3. \A i, j \in Nat : InRest(i, j) <=> Within(i, j, p.offset, p.size) \/ InRest(i, j)'
    BY <2>1, <2>2
  <2>4. DivTypeOK /\ Accounted
    BY DEF DivInv
  <2> QED
    BY Zenon, <1>2, <1>3, <2>2, <2>3, <2>4, CutAccounted
<1> QED
  BY <1>5, <1>6, <1>7 DEF DivInv

-----------------------------------------------------------------------------
LEMMA DivisionInitInv == DivisionInit => DivInv
<1> SUFFICES ASSUME DivisionInit PROVE DivInv
  OBVIOUS
<1>1. /\ problem \in Problems /\ next = 1 /\ totalCUs = problem.cus[1] /\ part = <<>>
      /\ offset = [y |-> IF FromBottom THEN problem.y ELSE 0, x |-> 0]
      /\ size = [y |-> problem.y, x |-> problem.x]
  BY DEF DivisionInit
<1>2. problem.y \in Nat /\ problem.x \in Nat /\ problem.cus \in Seq(Nat) /\ Len(problem.cus) > 1
  BY <1>1, DivisionAssumption
<1>3. problem.cus[1] > problem.cus[2]
  BY <1>1, <1>2, DivisionAssumption
<1>4. problem.cus[1] \in Nat /\ problem.cus[2] \in Nat
  BY <1>2
<1>5. DivTypeOK
  BY <1>1, <1>2, <1>4 DEF DivTypeOK, Extents
<1>6. CUsLeft
  BY <1>1, <1>3, <1>4 DEF CUsLeft
<1>7. FromTopAligned
  <2>1. 0 = 0 * Alignment
    BY DivisionAssumption
  <2> QED
    BY <1>1, <2>1 DEF FromTopAligned, FromBottom
<1>8. Accounted
  <2>1. ASSUME NEW i \in Nat, NEW j \in Nat, <<i, j>> \in Cells PROVE InRest(i, j)
    <3>1. i \in 0..(problem.y - 1) /\ j \in 0..(problem.x - 1)
      BY <2>1 DEF Cells
    <3>2. CASE FromBottom
      BY <1>1, <1>2, <3>1, <3>2 DEF InRest, Within
    <3>3. CASE ~ FromBottom
      BY <1>1, <1>2, <3>1, <3>3 DEF InRest, Within
    <3> QED
      BY <3>2, <3>3
  <2>2. Served = {}
    BY <1>1 DEF Served
  <2> QED
    BY <2>1, <2>2 DEF Accounted
<1> QED
  BY <1>5, <1>6, <1>7, <1>8 DEF DivInv

LEMMA DivideKeeps == DivInv /\ [Divide]_dvars => DivInv'
<1> SUFFICES ASSUME DivInv, [Divide]_dvars PROVE DivInv'
  OBVIOUS
<1>1. size.y \in Nat /\ size.x \in Nat /\ totalCUs \in Nat
  BY DEF DivInv, DivTypeOK, Extents
<1>2. ASSUME ~ Divided, NEW len \in Nat, totalCUs # 0 PROVE Sound(Chunk(len, AlignedShare(len)), len)
  <2>1. NrCU(next) \in Nat
    <3>1. problem \in Problems /\ next \in 1..(Len(problem.cus) - 1)
      BY <1>2 DEF DivInv, DivTypeOK, Divided, Queues
    <3>2. problem.cus \in Seq(Nat) /\ problem.cus[next] > problem.cus[next + 1]
      BY Zenon, <3>1, DivisionAssumption
    <3>3. problem.cus[next] \in Nat /\ problem.cus[next + 1] \in Nat
      BY <3>1, <3>2
    <3> QED
      BY <3>2, <3>3 DEF NrCU
  <2>2. AlignedShare(len) \in Nat
    <3>1. Share(len, NrCU(next), totalCUs) \in Nat
      BY <1>1, <1>2, <2>1, ShareNat
    <3> QED
      BY <3>1, AlignNat DEF AlignedShare
  <2> QED
    BY <1>2, <2>2, ChunkWithin DEF Sound, DivInv
<1>3. CASE DropQueue
  BY <1>3, DropKeeps
<1>4. CASE StripeDivision
  <2>1. ~ Divided /\ totalCUs # 0 /\ problem.kind # "triangle"
    BY <1>1, <1>4 DEF StripeDivision, Serving
  <2>2. CASE problem.across
    BY <1>1, <1>2, <1>4, <2>1, <2>2, CutYKeeps DEF StripeDivision
  <2>3. CASE ~ problem.across
    BY <1>1, <1>2, <1>4, <2>1, <2>3, CutXKeeps DEF StripeDivision
  <2> QED
    BY <2>2, <2>3
<1>5. CASE RectDivision
  <2>1. ~ Divided /\ totalCUs # 0 /\ problem.kind # "triangle"
    BY <1>1, <1>5 DEF RectDivision, Serving
  <2>2. CASE size.y > size.x
    BY <1>1, <1>2, <1>5, <2>1, <2>2, CutYKeeps DEF RectDivision
  <2>3. CASE ~ (size.y > size.x)
    BY <1>1, <1>2, <1>5, <2>1, <2>3, CutXKeeps DEF RectDivision
  <2> QED
    BY <2>2, <2>3
<1>6. CASE TriMatrixStripeDivision
  BY <1>6, TriangleKeeps
<1>7. CASE UNCHANGED dvars
  BY <1>7 DEF dvars, DivInv, DivTypeOK, CUsLeft, FromTopAligned, Accounted, FromBottom, Served,
              Cells, InRest, InPart, Within
<1> QED
  BY <1>3, <1>4, <1>5, <1>6, <1>7 DEF Divide

LEMMA DivInvTiles == DivInv => PartsTile
<1> SUFFICES ASSUME DivInv, Divided, NEW c \in Cells
    PROVE  \E q \in Queues : /\ part[q].live /\ InPart(q, c[1], c[2])
                            /\ \A r \in Queues : InPart(r, c[1], c[2]) => r = q
  BY DEF PartsTile
<1>1. /\ problem \in Problems /\ next \in 1..Len(problem.cus) /\ next \notin Queues
      /\ offset \in Extents /\ size \in Extents
      /\ FromBottom => offset.y = size.y
  BY DEF DivInv, DivTypeOK, Divided
<1>2. problem.cus \in Seq(Nat) /\ Len(problem.cus) > 1 /\ problem.cus[Len(problem.cus)] = 0
  BY <1>1, DivisionAssumption
<1>3. next = Len(problem.cus) /\ Served = Queues
  BY <1>1, <1>2 DEF Queues, Served
<1>4. size.y = 0 \/ size.x = 0
  BY <1>2, <1>3 DEF DivInv, CUsLeft
<1>5. PICK i \in Nat, j \in Nat : c = <<i, j>> /\ <<i, j>> \in Cells
  <2>1. problem.y \in Nat /\ problem.x \in Nat
    BY <1>1, DivisionAssumption
  <2> QED
    BY <2>1 DEF Cells
<1>6. ~ InRest(i, j)
  <2>1. CASE FromBottom
    BY <1>1, <1>4, <2>1 DEF InRest, Within, Extents
  <2>2. CASE ~ FromBottom
    BY <1>1, <1>4, <2>2 DEF InRest, Within, Extents
  <2> QED
    BY <2>1, <2>2
<1> QED
  BY <1>3, <1>5, <1>6 DEF DivInv, Accounted

(* For every problem, any number of queues of any devices and any          *)
(* alignment: the parts of the queues tile the result.                     *)
THEOREM PartsAlwaysTile == DivisionSpec => []PartsTile
<1>1. DivisionSpec => []DivInv
  BY DivisionInitInv, DivideKeeps, PTL DEF DivisionSpec
<1> QED
  BY <1>1, DivInvTiles, PTL
-----------------------------------------------------------------------------
(* The parts of the queues one after another: of two, the earlier one ends *)
(* before the later one, and before what is left, in its rows or columns.  *)
RowsOnly == problem.kind = "triangle" \/ (problem.kind = "stripe" /\ problem.across)

Ahead(p, o, s) ==
  IF FromBottom THEN o.y + s.y <= p.offset.y
  ELSE \/ p.offset.y + p.size.y <= o.y
       \/ ~ RowsOnly /\ p.offset.x + p.size.x <= o.x

Left == IF FromBottom THEN [offset EXCEPT !.y = 0] ELSE offset

PartsInOrder ==
  \A q \in Served :
    /\ Ahead(part[q], Left, size)
    /\ \A r \in Served : q < r => Ahead(part[q], part[r].offset, part[r].size)

(* The steps of a queue follow each other, the first waits for the caller, *)
(* any other one for the event of the one before it; events are different. *)
StepFields == {"func", "queue", "offset", "size", "lhs", "rhs", "waits", "event"}
PoolEvents(from, to) == {NoEvent} \cup {Pool(k) : k \in from..(to - 1)}

First(i) == \A k \in 1..(i - 1) : seq[k].queue # seq[i].queue

Linked(i) ==
  /\ StepFields \subseteq DOMAIN seq[i]
  /\ seq[i].queue \in Queues
  /\ seq[i].event \in PoolEvents(0, events.num) \cup {Output(seq[i].queue)}
  /\ seq[i].waits = IF First(i) THEN {User} ELSE {seq[i - 1].event}
  /\ ~ First(i) => seq[i - 1].queue = seq[i].queue

OwnEvents ==
  \A i, j \in DOMAIN seq : i # j /\ seq[i].event = seq[j].event => seq[i].event = NoEvent

(* The caller's event of a queue is that of its last step, and only of it. *)
Last(i) == \A k \in DOMAIN seq : k > i => seq[k].queue # seq[i].queue
OutputLast == \A i \in DOMAIN seq : seq[i].event = Output(seq[i].queue) <=> Last(i)

(* A step that is not of TRMM or TRSM computes in the part of its queue.   *)
OfPart(s, q) ==
  /\ s.func = func /\ s.lhs # "out" /\ s.rhs # "out"
  /\ s.offset = part[q].offset /\ s.size = part[q].size
InItsPart == ~ Trxm => \A i \in DOMAIN seq : OfPart(seq[i], seq[i].queue)

(* A kernel runs after those of its queue that come before it.             *)
InTurn ==
  \A j \in DOMAIN status :
    /\ status[j] # "made" => NoEvent \notin seq[j].waits
    /\ status[j] \in {"running", "done"} =>
         userEvent /\ \A i \in 1..(j - 1) : seq[i].queue = seq[j].queue => status[i] = "done"

Chained == (\A i \in DOMAIN seq : Linked(i)) /\ OwnEvents /\ OutputLast

IsSeq(s) == \E S : s \in Seq(S)
EventsOK == events \in [first : Nat, num : Nat, max : Nat] /\ events.num <= events.max

PhaseOK ==
  /\ phase \in {"divide", "decompose", "enqueue", "returned"}
  /\ phase = "divide" => seq = <<>> /\ current = 1
  /\ phase # "divide" => Divided
  /\ current \in Nat /\ EventsOK /\ IsSeq(seq)
  /\ phase \in {"divide", "decompose"} => status = <<>>
  /\ phase = "decompose" => \A i \in DOMAIN seq : seq[i].queue \in 1..(current - 1)
  /\ phase \in {"enqueue", "returned"} =>
       status \in [DOMAIN seq -> {"made", "queued", "running", "done"}]
  /\ phase = "enqueue" => \A i \in DOMAIN seq : i >= current => status[i] = "made"

CallInv == DivInv /\ PartsInOrder /\ PhaseOK /\ (lost = {} => Chained /\ InItsPart /\ InTurn)

-----------------------------------------------------------------------------
(* The parts in order.                                                     *)

LEMMA OrderKept ==
  ASSUME DivTypeOK, PartsInOrder, NEW p \in Parts,
         part' = Append(part, p), next' = next + 1, problem' = problem,
         \A r \in Parts : Ahead(r, Left, size) =>
                            Ahead(r, p.offset, p.size) /\ Ahead(r, Left', size'),
         Ahead(p, Left', size')
  PROVE  PartsInOrder'
<1> PICK n \in Nat : n = next
  BY DEF DivTypeOK
<1>1. Served' = Served \cup {n} /\ n \notin Served /\ \A q \in Served : q \in Nat /\ q < n
  BY DEF Served, DivTypeOK
<1>2. \A q \in Served : part'[q] = part[q] /\ part[q] \in Parts
  BY DEF DivTypeOK, Served
<1>3. part'[n] = p
  BY DEF DivTypeOK
<1>4. \A r, o, s : Ahead(r, o, s)' <=> Ahead(r, o, s)
  BY DEF Ahead, FromBottom, RowsOnly
<1> DEFINE L == Left'  Z == size'
<1>5. \A q \in Served : Ahead(part[q], p.offset, p.size) /\ Ahead(part[q], L, Z)
  BY <1>2 DEF PartsInOrder
<1>6. \A q \in Served' : Ahead(part'[q], L, Z)
  BY Zenon, <1>1, <1>2, <1>3, <1>5
<1>7. \A q, r \in Served' : q < r => Ahead(part'[q], part'[r].offset, part'[r].size)
  <2> SUFFICES ASSUME NEW q \in Served', NEW r \in Served', q < r
               PROVE  Ahead(part'[q], part'[r].offset, part'[r].size)
    BY Zenon
  <2>1. q \in Served
    BY <1>1
  <2>2. CASE r \in Served
    BY Zenon, <1>2, <2>1, <2>2 DEF PartsInOrder
  <2>3. CASE r = n
    BY Zenon, <1>2, <1>3, <1>5, <2>1, <2>3
  <2> QED
    BY Zenon, <1>1, <2>2, <2>3
<1> QED
  BY Zenon, <1>6, <1>7 DEF PartsInOrder, Ahead, FromBottom, RowsOnly

LEMMA CutOrdered ==
  ASSUME DivTypeOK, PartsInOrder, ~ FromBottom, NEW n \in Nat, NEW z \in Extents, NEW live \in BOOLEAN,
         part' = Append(part, Step(offset, z, live)), next' = next + 1, problem' = problem,
         size' \in Extents,
         \/ z.y = n /\ offset' = [offset EXCEPT !.y = @ + n]
         \/ z.x = n /\ offset' = [offset EXCEPT !.x = @ + n] /\ ~ RowsOnly
         \/ z.y = 0 /\ offset' = offset
  PROVE  PartsInOrder'
<1> DEFINE p == Step(offset, z, live)
<1>1. p \in Parts /\ p.offset = offset /\ p.size = z /\ offset \in Extents
  BY DEF Step, Parts, DivTypeOK
<1>2. /\ Left = offset /\ Left' = offset'
      /\ offset.y \in Nat /\ offset.x \in Nat /\ z.y \in Nat /\ z.x \in Nat
  BY <1>1 DEF Left, FromBottom, Extents
<1>3. \A r \in Parts : Ahead(r, Left, size) =>
                         Ahead(r, p.offset, p.size) /\ Ahead(r, Left', size')
  <2> SUFFICES ASSUME NEW r \in Parts, Ahead(r, Left, size)
               PROVE  Ahead(r, p.offset, p.size) /\ Ahead(r, Left', size')
    OBVIOUS
  <2>1. /\ r.offset.y \in Nat /\ r.offset.x \in Nat /\ r.size.y \in Nat /\ r.size.x \in Nat
    BY DEF Parts, Extents
  <2>2. offset'.y >= offset.y /\ offset'.x >= offset.x /\ offset'.y \in Nat /\ offset'.x \in Nat
    BY SMTT(20), <1>1, <1>2 DEF Extents
  <2>3. r.offset.y + r.size.y <= offset.y \/ (~ RowsOnly /\ r.offset.x + r.size.x <= offset.x)
    BY <1>2 DEF Ahead
  <2>4. r.offset.y + r.size.y <= offset'.y \/ (~ RowsOnly /\ r.offset.x + r.size.x <= offset'.x)
    BY SMTT(20), <1>2, <2>1, <2>2, <2>3
  <2> QED
    BY <1>1, <1>2, <2>3, <2>4 DEF Ahead
<1>4. Ahead(p, Left', size')
  <2>1. offset.y + z.y <= offset'.y \/ (~ RowsOnly /\ offset.x + z.x <= offset'.x)
    BY <1>1, <1>2 DEF Extents
  <2> QED
    BY <1>1, <1>2, <2>1 DEF Ahead
<1> HIDE DEF p
<1> QED
  BY <1>1, <1>3, <1>4, OrderKept DEF p

LEMMA TriangleOrdered ==
  ASSUME DivInv, PartsInOrder, FromBottom, NEW n \in 0..size.y, NEW z \in Extents, NEW live \in BOOLEAN,
         z.y = n, offset' = [offset EXCEPT !.y = @ - n], size' = [size EXCEPT !.y = @ - n],
         \/ part' = Append(part, Step(offset', z, live))
         \/ part' = Append(part, Step(offset, z, live)) /\ n = 0,
         next' = next + 1, problem' = problem
  PROVE  PartsInOrder'
<1> DEFINE p == Step(offset', z, live)
<1>0. /\ offset \in Extents /\ size \in Extents /\ offset.y = size.y
  BY DEF DivInv, DivTypeOK
<1>1. /\ offset.y \in Nat /\ offset.x \in Nat /\ size.y \in Nat /\ n \in Nat /\ n <= size.y
      /\ offset' = [y |-> offset.y - n, x |-> offset.x] /\ size'.y = size.y - n
      /\ Left.y = 0 /\ Left'.y = 0
  BY <1>0 DEF Left, FromBottom, Extents
<1>2. p \in Parts /\ p.offset = offset' /\ p.size = z
  BY <1>0, <1>1 DEF Step, Parts, Extents
<1>6. /\ offset'.y = offset.y - n /\ size'.y = size.y - n /\ Left'.y = 0 /\ z.y = n
      /\ offset.y \in Nat /\ size.y \in Nat /\ n \in Nat
  BY <1>1
<1>3. part' = Append(part, p)
  <2>1. n = 0 => offset' = offset
    BY <1>0, <1>1 DEF Extents
  <2> QED
    BY <2>1
<1>4. \A r \in Parts : Ahead(r, Left, size) =>
                         Ahead(r, p.offset, p.size) /\ Ahead(r, Left', size')
  <2> SUFFICES ASSUME NEW r \in Parts, Ahead(r, Left, size)
               PROVE  Ahead(r, p.offset, p.size) /\ Ahead(r, Left', size')
    BY Zenon
  <2>1. r.offset.y \in Nat
    BY DEF Parts, Extents
  <2>2. size.y <= r.offset.y
    BY <1>1 DEF Ahead
  <2>3. offset'.y + z.y <= r.offset.y /\ Left'.y + size'.y <= r.offset.y
    BY <1>0, <1>6, <2>1, <2>2
  <2> QED
    BY Zenon, <1>2, <2>3 DEF Ahead
<1>5. Ahead(p, Left', size')
  <2>1. Left'.y + size'.y = size.y - n
    BY <1>6
  <2>2. p.offset.y = offset.y - n
    BY Zenon, <1>2, <1>6
  <2>3. Left'.y + size'.y <= p.offset.y
    BY <1>0, <1>6, <2>1, <2>2
  <2> QED
    BY <2>3 DEF Ahead
<1> HIDE DEF p
<1> QED
  BY Zenon, <1>2, <1>3, <1>4, <1>5, OrderKept DEF DivInv

LEMMA DivideOrders == DivInv /\ PartsInOrder /\ Divide => PartsInOrder'
<1> SUFFICES ASSUME DivInv, PartsInOrder, Divide PROVE PartsInOrder'
  OBVIOUS
<1>1. /\ DivTypeOK /\ DivInv'
      /\ offset \in Extents /\ size \in Extents /\ size' \in Extents
      /\ FromBottom => offset.y = size.y
  <2>1. DivInv'
    BY DivideKeeps
  <2> QED
    BY <2>1 DEF DivInv, DivTypeOK
<1>2. CASE DropQueue
  <2> DEFINE z == [y |-> 0, x |-> 0]
  <2>1. /\ part' = Append(part, Step(offset, z, FALSE)) /\ next' = next + 1
        /\ problem' = problem /\ offset' = offset /\ size' = size /\ z \in Extents /\ z.y = 0
    BY <1>2 DEF DropQueue, Extents
  <2> HIDE DEF z
  <2>2. CASE ~ FromBottom
    BY Zenon, <1>1, <2>1, <2>2, CutOrdered
  <2>3. CASE FromBottom
    <3>1. offset' = [offset EXCEPT !.y = @ - 0] /\ size' = [size EXCEPT !.y = @ - 0] /\ 0 \in 0..size.y
      BY <1>1, <2>1 DEF Extents
    <3> QED
      BY Zenon, <1>1, <2>1, <2>3, <3>1, TriangleOrdered
  <2> QED
    BY <2>2, <2>3
<1>3. ASSUME NEW c, (Serving("stripe") /\ problem.across) \/ Serving("rect"), CutY(c) PROVE PartsInOrder'
  <2>1. ~ FromBottom
    BY <1>3 DEF Serving, FromBottom
  <2> DEFINE z == [size EXCEPT !.y = c.len]
  <2> DEFINE live == c.last \/ c.len # 0
  <2>2. /\ part' = Append(part, Step(offset, z, live)) /\ next' = next + 1 /\ problem' = problem
        /\ offset' = [offset EXCEPT !.y = @ + c.len]
    BY <1>3 DEF CutY, Serve
  <2>3. z.y = c.len
    BY <1>1 DEF Extents
  <2>4. Step(offset, z, live) \in Parts
    <3>1. part' \in Seq(Parts) /\ Len(part') = Len(part) + 1 /\ part \in Seq(Parts)
      BY <1>1, <2>2 DEF DivInv, DivTypeOK
    <3>2. part'[Len(part) + 1] = Step(offset, z, live)
      BY <2>2, <3>1
    <3> QED
      BY <3>1, <3>2
  <2>5. z \in Extents /\ live \in BOOLEAN /\ c.len \in Nat
    BY <2>3, <2>4 DEF Step, Parts, Extents
  <2> HIDE DEF z, live
  <2> QED
    BY Zenon, <1>1, <2>1, <2>2, <2>3, <2>5, CutOrdered
<1>4. ASSUME NEW c, (Serving("stripe") /\ ~ problem.across) \/ Serving("rect"), CutX(c) PROVE PartsInOrder'
  <2>1. ~ FromBottom /\ ~ RowsOnly
    BY <1>4 DEF Serving, FromBottom, RowsOnly
  <2> DEFINE z == [size EXCEPT !.x = c.len]
  <2> DEFINE live == c.last \/ c.len # 0
  <2>2. /\ part' = Append(part, Step(offset, z, live)) /\ next' = next + 1 /\ problem' = problem
        /\ offset' = [offset EXCEPT !.x = @ + c.len]
    BY <1>4 DEF CutX, Serve
  <2>3. z.x = c.len
    BY <1>1 DEF Extents
  <2>4. Step(offset, z, live) \in Parts
    <3>1. part' \in Seq(Parts) /\ Len(part') = Len(part) + 1 /\ part \in Seq(Parts)
      BY <1>1, <2>2 DEF DivInv, DivTypeOK
    <3>2. part'[Len(part) + 1] = Step(offset, z, live)
      BY <2>2, <3>1
    <3> QED
      BY <3>1, <3>2
  <2>5. z \in Extents /\ live \in BOOLEAN /\ c.len \in Nat
    BY <2>3, <2>4 DEF Step, Parts, Extents
  <2> HIDE DEF z, live
  <2> QED
    BY Zenon, <1>1, <2>1, <2>2, <2>3, <2>5, CutOrdered
<1>5. CASE StripeDivision
  BY <1>3, <1>4, <1>5 DEF StripeDivision
<1>6. CASE RectDivision
  BY <1>3, <1>4, <1>6 DEF RectDivision
<1>7. CASE TriMatrixStripeDivision
  <2> DEFINE c == TriangleChunk(Align(TriangleShare(size.y, NrCU(next), totalCUs, problem.y - size.y)))
  <2> DEFINE z == [size EXCEPT !.y = c.len]
  <2> DEFINE p == Step(IF FromBottom THEN offset' ELSE offset, z, TRUE)
  <2>1. /\ part' = Append(part, p)
        /\ next' = next + 1 /\ problem' = problem
        /\ offset' = [offset EXCEPT !.y = IF FromBottom THEN @ - c.len ELSE @ + c.len]
        /\ size' = [size EXCEPT !.y = @ - c.len]
    BY <1>7 DEF TriMatrixStripeDivision, Serve
  <2> HIDE DEF c
  <2>2. z.y = c.len
    BY <1>1 DEF Extents
  <2> HIDE DEF z
  <2>6. p \in Parts
    <3> HIDE DEF p
    <3>1. part' \in Seq(Parts) /\ Len(part') = Len(part) + 1 /\ part \in Seq(Parts)
      BY <1>1, <2>1 DEF DivInv, DivTypeOK
    <3>2. part'[Len(part) + 1] = p
      BY <2>1, <3>1
    <3> QED
      BY <3>1, <3>2
  <2>3. z \in Extents /\ c.len \in Nat /\ size'.y = size.y - c.len /\ size'.y \in Nat
    BY <1>1, <2>1, <2>2, <2>6 DEF Step, Parts, Extents
  <2>4. CASE ~ FromBottom
    BY Zenon, <1>1, <2>1, <2>2, <2>3, <2>4, CutOrdered
  <2>5. CASE FromBottom
    <3>1. c.len \in 0..size.y
      BY <1>1, <2>3 DEF Extents
    <3>2. offset' = [offset EXCEPT !.y = @ - c.len] /\ part' = Append(part, Step(offset', z, TRUE))
      BY Zenon, <2>1, <2>5
    <3> QED
      BY Zenon, <2>1, <2>2, <2>3, <2>5, <3>1, <3>2, TriangleOrdered
  <2> QED
    BY <2>4, <2>5
<1> QED
  BY <1>2, <1>5, <1>6, <1>7 DEF Divide

LEMMA SameParts ==
  ASSUME DivInv, PartsInOrder, UNCHANGED dvars
  PROVE  DivInv' /\ PartsInOrder'
<1>1. DivInv'
  BY DivideKeeps
<1>2. PartsInOrder'
  BY DEF PartsInOrder, Served, Ahead, Left, FromBottom, RowsOnly, dvars
<1> QED
  BY <1>1, <1>2

-----------------------------------------------------------------------------
(* Sequences, whatever they are made of.                                   *)

LEMMA SeqFacts ==
  ASSUME NEW s, IsSeq(s)
  PROVE  Len(s) \in Nat /\ DOMAIN s = 1..Len(s)
<1>1. PICK S : s \in Seq(S)
  BY DEF IsSeq
<1> QED
  BY <1>1

LEMMA TupleFacts ==
  ASSUME NEW a, NEW b, NEW c
  PROVE  /\ IsSeq(<<>>) /\ DOMAIN <<>> = {}
         /\ IsSeq(<<a>>) /\ Len(<<a>>) = 1 /\ DOMAIN <<a>> = {1}
         /\ IsSeq(<<a, b>>) /\ Len(<<a, b>>) = 2 /\ DOMAIN <<a, b>> = {1, 2}
         /\ IsSeq(<<a, b, c>>) /\ Len(<<a, b, c>>) = 3 /\ DOMAIN <<a, b, c>> = {1, 2, 3}
<1>1. <<>> \in Seq({a}) /\ <<a>> \in Seq({a}) /\ <<a, b>> \in Seq({a, b}) /\ <<a, b, c>> \in Seq({a, b, c})
  OBVIOUS
<1>2. IsSeq(<<>>) /\ IsSeq(<<a>>) /\ IsSeq(<<a, b>>) /\ IsSeq(<<a, b, c>>)
  BY <1>1, Zenon DEF IsSeq
<1>3. Len(<<>>) = 0 /\ Len(<<a>>) = 1 /\ Len(<<a, b>>) = 2 /\ Len(<<a, b, c>>) = 3
  OBVIOUS
<1>4. DOMAIN <<>> = 1..0 /\ DOMAIN <<a>> = 1..1 /\ DOMAIN <<a, b>> = 1..2 /\ DOMAIN <<a, b, c>> = 1..3
  BY <1>2, <1>3, SeqFacts
<1>5. 1..0 = {} /\ 1..1 = {1} /\ 1..2 = {1, 2} /\ 1..3 = {1, 2, 3}
  OBVIOUS
<1> QED
  BY <1>2, <1>3, <1>4, <1>5

LEMMA ConcatFacts ==
  ASSUME NEW s, NEW t, IsSeq(s), IsSeq(t)
  PROVE  /\ IsSeq(s \o t) /\ Len(s \o t) = Len(s) + Len(t)
         /\ \A i \in 1..Len(s) : (s \o t)[i] = s[i]
         /\ \A k \in 1..Len(t) : (s \o t)[Len(s) + k] = t[k]
<1>1. PICK S : s \in Seq(S)
  BY DEF IsSeq
<1>2. PICK T : t \in Seq(T)
  BY DEF IsSeq
<1>3. s \in Seq(S \cup T) /\ t \in Seq(S \cup T)
  BY <1>1, <1>2
<1>4. (s \o t) \in Seq(S \cup T)
  BY <1>3
<1>5. IsSeq(s \o t)
  BY <1>4, Zenon DEF IsSeq
<1>6. /\ Len(s \o t) = Len(s) + Len(t)
      /\ \A i \in 1..Len(s) : (s \o t)[i] = s[i]
      /\ \A k \in 1..Len(t) : (s \o t)[Len(s) + k] = t[k]
  BY <1>3
<1> QED
  BY <1>5, <1>6

-----------------------------------------------------------------------------
(* Events.                                                                 *)

LEMMA EventsDiffer ==
  /\ \A q : Output(q) # User /\ Output(q) # NoEvent
  /\ \A n : Pool(n) # User /\ Pool(n) # NoEvent
  /\ \A q, n : Output(q) # Pool(n)
  /\ \A q, r : Output(q) = Output(r) => q = r
  /\ \A n, m : Pool(n) = Pool(m) => n = m
  /\ NoEvent # User
  BY DEF Output, Pool, User, NoEvent

(* What is allocated is new, or nothing, and no event is given twice.      *)
LEMMA EventsAllocated ==
  ASSUME EventsOK, NEW n \in 1..3, NEW e, DecomposeEventsAlloc(n, e)
  PROVE  /\ EventsOK' /\ events'.num >= events.num
         /\ lost' = {} => lost = {}
         /\ \A i \in 1..n : e[i] \in PoolEvents(events.num, events'.num)
         /\ \A i, j \in 1..n : i # j /\ e[i] = e[j] => e[i] = NoEvent
<1>1. /\ events.num \in Nat /\ events.max \in Nat /\ events.num <= events.max
      /\ AllocationStep \in Nat /\ AllocationStep >= 3 /\ n \in Nat /\ n <= 3
      /\ events \in [first : Nat, num : Nat, max : Nat]
  BY CallAssumption DEF EventsOK
<1>2. /\ events' \in [first : Nat, num : Nat, max : Nat]
      /\ events'.num >= events.num /\ events'.num <= events'.max
      /\ lost' = {} => lost = {}
      /\ \A i \in 1..n : \/ e[i] = NoEvent
                         \/ e[i] = Pool(events.num + i - 1) /\ events.num + i <= events'.num
  <2>1. CASE /\ Fits(n) /\ e = [i \in 1..n |-> Pool(events.num + i - 1)]
             /\ events' = [events EXCEPT !.num = @ + n] /\ UNCHANGED lost
    BY <1>1, <2>1 DEF Fits
  <2>2. CASE /\ ~ Fits(n) /\ e = [i \in 1..n |-> Pool(events.num + i - 1)]
             /\ events' = [events EXCEPT !.num = @ + n, !.max = @ + AllocationStep]
             /\ lost' \in {lost, lost \cup {Pool(i) : i \in events.first..(events.max - 1)}}
    <3>1. lost' = {} => lost = {}
      BY <2>2
    <3>3. events' = [first |-> events.first, num |-> events.num + n, max |-> events.max + AllocationStep]
      BY Zenon, <1>1, <2>2
    <3>2. events'.num = events.num + n /\ events'.max = events.max + AllocationStep
          /\ events' \in [first : Nat, num : Nat, max : Nat]
      BY <1>1, <3>3
    <3>4. events.num + n <= events.max + AllocationStep
      BY <1>1
    <3> QED
      BY <1>1, <2>2, <3>1, <3>2, <3>4
  <2>3. CASE /\ ~ Fits(n)
             /\ e = [i \in 1..n |-> IF events.num + i <= events.max THEN Pool(events.num + i - 1) ELSE NoEvent]
             /\ events' = [events EXCEPT !.num = events.max] /\ UNCHANGED lost
    <3>1. events'.num = events.max /\ events'.max = events.max
          /\ events' \in [first : Nat, num : Nat, max : Nat]
      BY <1>1, <2>3
    <3>2. \A i \in 1..n : e[i] = IF events.num + i <= events.max THEN Pool(events.num + i - 1) ELSE NoEvent
      BY <2>3, Zenon
    <3>3. \A i \in 1..n : \/ e[i] = NoEvent
                          \/ e[i] = Pool(events.num + i - 1) /\ events.num + i <= events'.num
      BY <3>1, <3>2, Zenon
    <3>4. lost' = {} => lost = {}
      BY <2>3
    <3>5. events'.num >= events.num /\ events'.num <= events'.max
      BY <1>1, <3>1
    <3> QED
      BY <3>1, <3>3, <3>4, <3>5
  <2> QED
    BY <2>1, <2>2, <2>3 DEF DecomposeEventsAlloc
<1>3. \A i \in 1..n : e[i] \in PoolEvents(events.num, events'.num)
  <2> SUFFICES ASSUME NEW i \in 1..n PROVE e[i] \in PoolEvents(events.num, events'.num)
    OBVIOUS
  <2>1. CASE e[i] = NoEvent
    BY <2>1 DEF PoolEvents
  <2>2. CASE e[i] = Pool(events.num + i - 1) /\ events.num + i <= events'.num
    <3>1. events.num + i - 1 \in events.num..(events'.num - 1)
      BY <1>1, <1>2, <2>2
    <3> QED
      BY <2>2, <3>1 DEF PoolEvents
  <2> QED
    BY <1>2, <2>1, <2>2
<1>4. ASSUME NEW i \in 1..n, NEW j \in 1..n, i # j, e[i] = e[j] PROVE e[i] = NoEvent
  <2>1. events.num + i - 1 # events.num + j - 1
    BY <1>1, <1>4
  <2>2. Pool(events.num + i - 1) # Pool(events.num + j - 1)
    BY <2>1, EventsDiffer, Zenon
  <2> QED
    BY <1>2, <1>4, <2>2
<1> QED
  BY <1>2, <1>3, <1>4 DEF EventsOK

-----------------------------------------------------------------------------
(* A queue's steps at the end of the sequence.                             *)

Tidy(steps) ==
  /\ IsSeq(steps)
  /\ \A k \in DOMAIN steps :
       /\ StepFields \subseteq DOMAIN steps[k] /\ steps[k].queue = current
       /\ steps[k].event \in PoolEvents(events.num, events'.num) \cup {Output(current)}
       /\ steps[k].waits = IF k = 1 THEN {User} ELSE {steps[k - 1].event}
       /\ ~ Trxm => OfPart(steps[k], current)
  /\ \A k, l \in DOMAIN steps : k # l /\ steps[k].event = steps[l].event => steps[k].event = NoEvent
  /\ \A k \in DOMAIN steps : steps[k].event = Output(current) <=> k = Len(steps)

LEMMA StepsAppended ==
  ASSUME CallInv, Decomposing, NEW steps, DecomposeInto(steps), Tidy(steps),
         EventsOK', events'.num >= events.num, lost' = {} => lost = {}
  PROVE  CallInv'
<1>0. IsSeq(seq) /\ IsSeq(steps)
  BY DEF CallInv, PhaseOK, Tidy
<1> PICK n \in Nat, m \in Nat : n = Len(seq) /\ m = Len(steps)
  BY <1>0, SeqFacts
<1>1. /\ IsSeq(seq) /\ IsSeq(steps) /\ n \in Nat /\ m \in Nat
      /\ DOMAIN seq = 1..n /\ DOMAIN steps = 1..m
      /\ current \in Nat /\ current \in Queues /\ phase = "decompose" /\ status = <<>> /\ Divided
      /\ \A i \in 1..n : seq[i].queue \in 1..(current - 1)
  BY SeqFacts DEF CallInv, PhaseOK, Decomposing, Tidy
<1>2. /\ IsSeq(seq') /\ DOMAIN seq' = 1..(n + m)
      /\ \A i \in 1..n : seq'[i] = seq[i]
      /\ \A k \in 1..m : seq'[n + k] = steps[k]
  <2>1. seq' = seq \o steps
    BY DEF DecomposeInto
  <2>2. /\ IsSeq(seq') /\ Len(seq') = n + m
        /\ \A i \in 1..n : seq'[i] = seq[i]
        /\ \A k \in 1..m : seq'[n + k] = steps[k]
    BY <1>1, <2>1, ConcatFacts
  <2>3. DOMAIN seq' = 1..(n + m)
    BY <2>2, SeqFacts
  <2> QED
    BY Zenon, <2>2, <2>3
<1>3. /\ UNCHANGED dvars /\ current' = current + 1
      /\ phase' = phase /\ status' = status /\ userEvent' = userEvent
      /\ Queues' = Queues /\ func' = func /\ (Trxm' <=> Trxm) /\ (Divided' <=> Divided)
      /\ \A s, q : OfPart(s, q)' <=> OfPart(s, q)
  BY DEF DecomposeInto, dvars, Queues, func, Trxm, OfPart, Divided
<1>20. ASSUME NEW k \in 1..m
       PROVE  seq'[n + k] = steps[k] /\ steps[k].queue = current /\ seq'[n + k].queue = current
  <2>1. seq'[n + k] = steps[k]
    BY Zenon, <1>2
  <2>2. steps[k].queue = current
    BY Zenon, <1>1 DEF Tidy
  <2> QED
    BY <2>1, <2>2
<1>4. \A k \in 1..m :
        /\ StepFields \subseteq DOMAIN steps[k]
        /\ steps[k].event \in PoolEvents(events.num, events'.num) \cup {Output(current)}
        /\ steps[k].waits = IF k = 1 THEN {User} ELSE {steps[k - 1].event}
        /\ ~ Trxm => OfPart(steps[k], current)
  BY Zenon, <1>1 DEF Tidy
<1>5. \A i \in 1..(n + m) : i \in 1..n \/ \E k \in 1..m : i = n + k
  <2> SUFFICES ASSUME NEW i \in 1..(n + m), i \notin 1..n PROVE \E k \in 1..m : i = n + k
    OBVIOUS
  <2>1. i - n \in 1..m /\ i = n + (i - n)
    BY <1>1
  <2> QED
    BY Zenon, <2>1
<1>6. DivInv' /\ PartsInOrder'
  BY <1>3, SameParts DEF CallInv
<1>7. PhaseOK'
  <2>1. \A i \in 1..(n + m) : seq'[i].queue \in 1..current
    <3> SUFFICES ASSUME NEW i \in 1..(n + m) PROVE seq'[i].queue \in 1..current
      OBVIOUS
    <3>1. CASE i \in 1..n
      BY <1>1, <1>2, <3>1
    <3>2. ASSUME NEW k \in 1..m, i = n + k PROVE seq'[i].queue \in 1..current
      <4>1. seq'[i].queue = current
        BY <1>20, <3>2
      <4> QED
        BY <1>1, <4>1 DEF Queues
    <3> QED
      BY <1>5, <3>1, <3>2
  <2>2. current' - 1 = current /\ current' \in Nat
    BY <1>1, <1>3
  <2>3. \A i \in DOMAIN seq' : seq'[i].queue \in 1..(current' - 1)
    BY <1>2, <2>1, <2>2
  <2> QED
    BY <1>1, <1>2, <1>3, <2>2, <2>3 DEF PhaseOK
<1> SUFFICES ASSUME lost' = {} PROVE Chained' /\ InItsPart' /\ InTurn'
  BY <1>6, <1>7 DEF CallInv
<1>8. Chained /\ InItsPart /\ InTurn /\ events.num \in Nat /\ events'.num \in Nat
  BY DEF CallInv, PhaseOK, EventsOK
<1>9. InTurn'
  BY <1>1, <1>3 DEF InTurn
<1>10. \A i \in 1..n : First(i)' <=> First(i)
  <2> SUFFICES ASSUME NEW i \in 1..n PROVE First(i)' <=> First(i)
    OBVIOUS
  <2>1. \A k \in 1..(i - 1) : seq'[k] = seq[k]
    BY <1>1, <1>2
  <2> QED
    BY <1>2, <2>1 DEF First
<1>11. \A k \in 1..m : First(n + k)' <=> k = 1
  <2> SUFFICES ASSUME NEW k \in 1..m PROVE First(n + k)' <=> k = 1
    OBVIOUS
  <2>1. seq'[n + k].queue = current
    BY <1>20
  <2>2. CASE k = 1
    <3>1. \A i \in 1..(n + k - 1) : i \in 1..n
      BY <1>1, <2>2
    <3>2. \A i \in 1..n : seq'[i].queue # current
      BY <1>1, <1>2
    <3> QED
      BY <2>1, <2>2, <3>1, <3>2 DEF First
  <2>3. CASE k # 1
    <3>1. k - 1 \in 1..m /\ n + (k - 1) \in 1..(n + k - 1)
      BY <1>1, <2>3
    <3>2. seq'[n + (k - 1)].queue = current
      BY <1>20, <3>1
    <3>3. ~ First(n + k)'
      <4> PICK i \in Nat : i = n + k
        OBVIOUS
      <4> PICK j \in Nat : j = n + (k - 1)
        BY <2>3
      <4>1. seq'[i].queue = seq'[j].queue /\ j \in 1..(i - 1)
        BY <2>1, <3>1, <3>2
      <4>2. ~ First(i)'
        BY <4>1 DEF First
      <4> QED
        BY <4>2
    <3> QED
      BY <2>3, <3>3
  <2> QED
    BY <2>2, <2>3
<1>12. PoolEvents(0, events.num) \subseteq PoolEvents(0, events'.num)
       /\ PoolEvents(events.num, events'.num) \subseteq PoolEvents(0, events'.num)
  BY <1>8 DEF PoolEvents
<1>13. ASSUME NEW i \in 1..n PROVE Linked(i)'
  <2>1. Linked(i) /\ seq'[i] = seq[i] /\ (First(i)' <=> First(i))
    BY Zenon, <1>1, <1>2, <1>8, <1>10 DEF Chained
  <2>2. ~ First(i) => i - 1 \in 1..n /\ seq'[i - 1] = seq[i - 1]
    <3>1. i # 1 => i - 1 \in 1..n
      BY <1>1
    <3>2. i = 1 => First(i)
      BY DEF First
    <3> QED
      BY <1>2, <3>1, <3>2
  <2> QED
    BY Zenon, <1>3, <1>12, <2>1, <2>2 DEF Linked
<1>14. ASSUME NEW k \in 1..m PROVE Linked(n + k)'
  <2> PICK i \in Nat : i = n + k
    BY <1>1
  <2>1. seq'[i] = steps[k] /\ (First(i)' <=> k = 1) /\ steps[k].queue = current
    BY <1>11, <1>20
  <2>2. ASSUME k # 1 PROVE seq'[i - 1] = steps[k - 1] /\ seq'[i - 1].queue = current
    <3>1. k - 1 \in 1..m /\ i - 1 = n + (k - 1)
      BY <1>1, <2>2
    <3> QED
      BY <1>20, <3>1
  <2>3. /\ StepFields \subseteq DOMAIN seq'[i] /\ seq'[i].queue \in Queues'
        /\ seq'[i].event \in PoolEvents(0, events'.num) \cup {Output(seq'[i].queue)}
    BY Zenon, <1>1, <1>3, <1>4, <1>12, <2>1
  <2>4. seq'[i].waits = IF k = 1 THEN {User} ELSE {steps[k - 1].event}
    BY Zenon, <1>4, <2>1
  <2>5. seq'[i].waits = IF First(i)' THEN {User} ELSE {seq'[i - 1].event}
    BY <2>1, <2>2, <2>4, Zenon
  <2>6. ~ First(i)' => seq'[i - 1].queue = seq'[i].queue
    BY <2>1, <2>2, Zenon
  <2>7. Linked(i)'
    BY <2>3, <2>5, <2>6, Zenon DEF Linked, PoolEvents, StepFields, Output
  <2> QED
    BY <2>7
<1>15. \A i \in DOMAIN seq' : Linked(i)'
  <2> SUFFICES ASSUME NEW i \in 1..(n + m) PROVE Linked(i)'
    BY <1>2
  <2>1. CASE i \in 1..n
    BY <1>13, <2>1
  <2>2. ASSUME NEW k \in 1..m, i = n + k PROVE Linked(i)'
    BY <1>14, <2>2
  <2> QED
    BY <1>5, <2>1, <2>2
<1>16. ASSUME NEW i \in 1..n, NEW k \in 1..m, seq[i].event = steps[k].event
       PROVE  seq[i].event = NoEvent
  <2>1. seq[i].event \in PoolEvents(0, events.num) \cup {Output(seq[i].queue)}
    BY Zenon, <1>1, <1>8 DEF Chained, Linked
  <2>5. seq[i].queue # current
    BY <1>1
  <2>2. steps[k].event \in PoolEvents(events.num, events'.num) \cup {Output(current)}
    BY Zenon, <1>4
  <2>3. CASE seq[i].event = Output(seq[i].queue)
    BY <1>16, <2>2, <2>3, <2>5, EventsDiffer, Zenon DEF PoolEvents
  <2>4. ASSUME NEW a \in 0..(events.num - 1), seq[i].event = Pool(a) PROVE FALSE
    <3>1. steps[k].event # Output(current) /\ steps[k].event # NoEvent
      BY <1>16, <2>4, EventsDiffer, Zenon
    <3>2. PICK b \in events.num..(events'.num - 1) : steps[k].event = Pool(b)
      BY <2>2, <3>1, Zenon DEF PoolEvents
    <3>3. a = b
      BY <1>16, <2>4, <3>2, EventsDiffer, Zenon
    <3> QED
      BY <1>8, <3>3
  <2> QED
    BY <2>1, <2>3, <2>4, Zenon DEF PoolEvents
<1>17. OwnEvents'
  <2> SUFFICES ASSUME NEW i \in 1..(n + m), NEW j \in 1..(n + m), i # j, seq'[i].event = seq'[j].event
               PROVE  seq'[i].event = NoEvent
    BY <1>2 DEF OwnEvents
  <2>1. CASE i \in 1..n /\ j \in 1..n
    BY <1>1, <1>2, <1>8, <2>1 DEF Chained, OwnEvents
  <2>2. ASSUME NEW k \in 1..m, NEW l \in 1..m, i = n + k, j = n + l PROVE seq'[i].event = NoEvent
    <3>1. k # l /\ seq'[i] = steps[k] /\ seq'[j] = steps[l]
      BY <1>2, <2>2
    <3> QED
      BY <1>1, <3>1 DEF Tidy
  <2>3. ASSUME NEW k \in 1..m, i \in 1..n, j = n + k PROVE seq'[i].event = NoEvent
    BY <1>2, <1>16, <2>3
  <2>4. ASSUME NEW k \in 1..m, j \in 1..n, i = n + k PROVE seq'[i].event = NoEvent
    BY <1>2, <1>16, <2>4
  <2> QED
    BY <1>5, <2>1, <2>2, <2>3, <2>4
<1>19. OutputLast'
  <2> SUFFICES ASSUME NEW i \in 1..(n + m)
               PROVE  seq'[i].event = Output(seq'[i].queue) <=> Last(i)'
    BY <1>2, Zenon DEF OutputLast, Output
  <2>1. ASSUME i \in 1..n PROVE seq'[i].event = Output(seq'[i].queue) <=> Last(i)'
    <3>1. seq'[i] = seq[i] /\ seq[i].queue # current
      BY <1>1, <1>2, <2>1
    <3>2. \A k \in 1..m : seq'[n + k].queue = current
      BY <1>20
    <3>3. \A k \in 1..n : seq'[k] = seq[k]
      BY <1>2
    <3>4. Last(i)' <=> \A k \in 1..(n + m) : k > i => seq'[k].queue # seq'[i].queue
      BY <1>2, Zenon DEF Last
    <3>5. Last(i) <=> \A k \in 1..n : k > i => seq[k].queue # seq[i].queue
      BY <1>1, Zenon DEF Last
    <3>6. \A k \in 1..n : k \in 1..(n + m)
      BY <1>1
    <3>7. Last(i)' <=> Last(i)
      BY ONLY <1>5, <3>1, <3>2, <3>3, <3>4, <3>5, <3>6
    <3>8. seq[i].event = Output(seq[i].queue) <=> Last(i)
      BY <1>1, <1>8, <2>1 DEF Chained, OutputLast
    <3> QED
      BY <3>1, <3>7, <3>8
  <2>2. ASSUME NEW k \in 1..m, i = n + k PROVE seq'[i].event = Output(seq'[i].queue) <=> Last(i)'
    <3>1. seq'[i] = steps[k] /\ seq'[i].queue = current
      BY <1>20, <2>2
    <3>2. steps[k].event = Output(current) <=> k = m
      BY <1>1 DEF Tidy
    <3>3. Last(i)' <=> \A j \in 1..(n + m) : j > i => seq'[j].queue # current
      BY <1>2, <3>1, Zenon DEF Last
    <3>4. ASSUME k # m PROVE ~ Last(i)'
      <4>1. m \in 1..m /\ n + m \in 1..(n + m) /\ n + m > i
        BY <1>1, <2>2, <3>4
      <4>2. seq'[n + m].queue = current
        BY Zenon, <1>20, <4>1
      <4> QED
        BY <3>3, <4>1, <4>2
    <3>5. ASSUME k = m PROVE Last(i)'
      <4>1. \A j \in 1..(n + m) : ~ (j > i)
        BY <1>1, <2>2, <3>5
      <4> QED
        BY <3>3, <4>1
    <3> QED
      BY <3>1, <3>2, <3>4, <3>5
  <2> QED
    BY <1>5, <2>1, <2>2
<1>18. InItsPart'
  <2> SUFFICES ASSUME ~ Trxm, NEW i \in 1..(n + m) PROVE OfPart(seq'[i], seq'[i].queue)
    BY <1>2, <1>3 DEF InItsPart
  <2>1. CASE i \in 1..n
    BY Zenon, <1>1, <1>2, <1>8, <2>1 DEF InItsPart
  <2>2. ASSUME NEW k \in 1..m, i = n + k PROVE OfPart(seq'[i], seq'[i].queue)
    <3>1. OfPart(steps[k], current)
      BY Zenon, <1>4
    <3>2. seq'[i] = steps[k] /\ seq'[i].queue = current
      BY <1>20, <2>2
    <3> QED
      BY <3>1, <3>2
  <2> QED
    BY <1>5, <2>1, <2>2
<1> QED
  BY <1>9, <1>15, <1>17, <1>18, <1>19 DEF Chained

(* The step that makeSolutionSeq has made for the queue.                   *)
Shell(s) == StepFields \subseteq DOMAIN s /\ s.queue = current
MadeFor(s) ==
  /\ Shell(s) /\ s.waits = {User} /\ s.event = Output(current)
  /\ ~ Trxm => OfPart(s, current)

LEMMA CurrentStepMade ==
  ASSUME problem \in Problems
  PROVE  /\ MadeFor(CurrentStep) /\ CurrentStep.func = func
         /\ MadeFor(FixupGemmOffsets(CurrentStep, 0))
<1> DEFINE s == CurrentStep
           g == FixupGemmOffsets(s, 0)
<1>1. /\ DOMAIN s = {"func", "queue", "offset", "size", "K", "lhs", "rhs", "offA", "offB", "alpha",
                     "beta", "diagonal", "twoProducts", "waits", "event"}
      /\ s.func = func /\ s.queue = current /\ s.waits = {User} /\ s.event = Output(current)
      /\ s.lhs # "out" /\ s.rhs # "out"
      /\ s.offset = Turned(part[current].offset) /\ s.size = Turned(part[current].size)
  BY DEF CurrentStep, StepOf
<1>2. ~ Trxm => ~ problem.right
  BY CallAssumption DEF Trxm, func
<1>3. ~ Trxm => s.offset = part[current].offset /\ s.size = part[current].size
  BY <1>1, <1>2 DEF Turned
<1>4. MadeFor(s) /\ s.func = func
  BY <1>1, <1>3 DEF MadeFor, Shell, StepFields, OfPart
<1> HIDE DEF s
<1>5. DOMAIN g = DOMAIN s /\ \A f \in StepFields : g[f] = s[f]
  BY <1>1 DEF FixupGemmOffsets, StepFields
<1>6. MadeFor(g)
  BY <1>4, <1>5 DEF MadeFor, Shell, StepFields, OfPart
<1> QED
  BY <1>4, <1>6 DEF s

LEMMA OneTidy ==
  ASSUME NEW s, MadeFor(s)
  PROVE  Tidy(<<s>>)
<1> DEFINE u == <<s>>
<1>1. u[1] = s
  OBVIOUS
<1>2. IsSeq(u) /\ DOMAIN u = {1} /\ Len(u) = 1
  BY TupleFacts, Zenon
<1> HIDE DEF u
<1>3. Tidy(u)
  BY <1>1, <1>2 DEF Tidy, MadeFor, Shell
<1> QED
  BY <1>3 DEF u

NewEvents(n, e) ==
  /\ \A i \in 1..n : e[i] \in PoolEvents(events.num, events'.num)
  /\ \A i, j \in 1..n : i # j /\ e[i] = e[j] => e[i] = NoEvent

LEMMA NotOutput ==
  ASSUME NEW n, NEW e, NewEvents(n, e), NEW i \in 1..n
  PROVE  e[i] # Output(current) /\ e[i] \in PoolEvents(events.num, events'.num)
  BY EventsDiffer, Zenon DEF NewEvents, PoolEvents

LEMMA TwoTidy ==
  ASSUME NEW s, NEW t, NEW d, d \in PoolEvents(events.num, events'.num), Shell(s), Shell(t),
         s.waits = {User}, s.event = d, t.waits = {d}, t.event = Output(current),
         ~ Trxm => OfPart(s, current) /\ OfPart(t, current)
  PROVE  Tidy(<<s, t>>)
<1> DEFINE u == <<s, t>>
<1>1. u[1] = s /\ u[2] = t
  OBVIOUS
<1>4. IsSeq(u) /\ DOMAIN u = {1, 2} /\ Len(u) = 2
  BY TupleFacts, Zenon
<1>2. d # Output(current)
  BY EventsDiffer, Zenon DEF PoolEvents
<1> HIDE DEF u
<1>3. Tidy(u)
  BY <1>1, <1>2, <1>4 DEF Tidy, Shell
<1> QED
  BY <1>3 DEF u

LEMMA TiedTidy ==
  ASSUME NEW a, NEW g, NEW b, NEW e, NewEvents(2, e), Trxm, Shell(a), Shell(g), Shell(b),
         a.waits = {User}, b.event = Output(current)
  PROVE  Tidy(Tied(a, g, b, e))
<1> DEFINE x == [a EXCEPT !.event = e[1]]
           y == [g EXCEPT !.waits = {e[1]}, !.event = e[2]]
           z == [b EXCEPT !.waits = {e[2]}]
           u == <<x, y, z>>
<1>1. x.waits = {User} /\ x.event = e[1] /\ Shell(x)
  BY DEF Shell, StepFields
<1>2. y.waits = {e[1]} /\ y.event = e[2] /\ Shell(y)
  BY DEF Shell, StepFields
<1>3. z.waits = {e[2]} /\ z.event = Output(current) /\ Shell(z)
  BY DEF Shell, StepFields
<1>4. /\ e[1] # Output(current) /\ e[1] \in PoolEvents(events.num, events'.num)
      /\ e[2] # Output(current) /\ e[2] \in PoolEvents(events.num, events'.num)
      /\ e[1] = e[2] => e[1] = NoEvent
  BY NotOutput DEF NewEvents
<1>5. Tied(a, g, b, e) = u
  BY DEF Tied
<1> HIDE DEF x, y, z
<1>6. u[1] = x /\ u[2] = y /\ u[3] = z
  OBVIOUS
<1>8. IsSeq(u) /\ DOMAIN u = {1, 2, 3} /\ Len(u) = 3
  BY TupleFacts, ZenonT(40)
<1> HIDE DEF u
<1>7. Tidy(u)
  BY <1>1, <1>2, <1>3, <1>4, <1>6, <1>8 DEF Tidy, Shell
<1> QED
  BY <1>5, <1>7

LEMMA FourTidy ==
  ASSUME NEW x, NEW y, NEW z, NEW w, NEW e, NewEvents(3, e),
         Shell(x), Shell(y), Shell(z), Shell(w),
         x.waits = {User}, x.event = e[2], y.waits = {e[2]}, y.event = e[1],
         z.waits = {e[1]}, z.event = e[3], w.waits = {e[3]}, w.event = Output(current),
         ~ Trxm => /\ OfPart(x, current) /\ OfPart(y, current)
                   /\ OfPart(z, current) /\ OfPart(w, current)
  PROVE  Tidy(<<x, y>> \o <<z, w>>)
<1> DEFINE u == <<x, y>> \o <<z, w>>
<1>1. IsSeq(u) /\ Len(u) = 4 /\ u[1] = x /\ u[2] = y /\ u[3] = z /\ u[4] = w
  <2> DEFINE S == {x, y, z, w}
  <2>1. <<x, y>> \in Seq(S) /\ <<z, w>> \in Seq(S) /\ Len(<<x, y>>) = 2 /\ Len(<<z, w>>) = 2
    OBVIOUS
  <2>2. /\ IsSeq(u) /\ Len(u) = 4
        /\ u[1] = <<x, y>>[1] /\ u[2] = <<x, y>>[2]
        /\ u[2 + 1] = <<z, w>>[1] /\ u[2 + 2] = <<z, w>>[2]
    <3> PICK v, r : v = <<x, y>> /\ r = <<z, w>>
      BY Zenon
    <3>1. IsSeq(v) /\ IsSeq(r) /\ Len(v) = 2 /\ Len(r) = 2
      BY Zenon, <2>1, TupleFacts
    <3>3. 1 \in 1..Len(v) /\ 2 \in 1..Len(v) /\ 1 \in 1..Len(r) /\ 2 \in 1..Len(r)
      BY <3>1
    <3>4. /\ IsSeq(v \o r) /\ Len(v \o r) = Len(v) + Len(r)
          /\ \A i \in 1..Len(v) : (v \o r)[i] = v[i]
          /\ \A k \in 1..Len(r) : (v \o r)[Len(v) + k] = r[k]
      BY <3>1, ConcatFacts
    <3>2. /\ IsSeq(v \o r) /\ Len(v \o r) = 4
          /\ (v \o r)[1] = v[1] /\ (v \o r)[2] = v[2]
          /\ (v \o r)[2 + 1] = r[1] /\ (v \o r)[2 + 2] = r[2]
      BY <3>1, <3>3, <3>4
    <3> QED
      BY <3>2
  <2> QED
    BY <2>2
<1> HIDE DEF u
<1>2. DOMAIN u = {1, 2, 3, 4}
  BY <1>1, SeqFacts
<1>3. \A i \in 1..3 : e[i] # Output(current) /\ e[i] \in PoolEvents(events.num, events'.num)
  BY NotOutput
<1>4. /\ e[1] = e[2] => e[1] = NoEvent
      /\ e[2] = e[3] => e[2] = NoEvent
      /\ e[1] = e[3] => e[1] = NoEvent
  BY DEF NewEvents
<1>5. \A k \in DOMAIN u :
        /\ StepFields \subseteq DOMAIN u[k] /\ u[k].queue = current
        /\ u[k].event \in PoolEvents(events.num, events'.num) \cup {Output(current)}
        /\ u[k].waits = IF k = 1 THEN {User} ELSE {u[k - 1].event}
        /\ ~ Trxm => OfPart(u[k], current)
  <2> SUFFICES ASSUME NEW k \in DOMAIN u
               PROVE  /\ StepFields \subseteq DOMAIN u[k] /\ u[k].queue = current
                      /\ u[k].event \in PoolEvents(events.num, events'.num) \cup {Output(current)}
                      /\ u[k].waits = IF k = 1 THEN {User} ELSE {u[k - 1].event}
                      /\ ~ Trxm => OfPart(u[k], current)
    BY Zenon
  <2>1. CASE k = 1
    BY <1>1, <1>3, <2>1 DEF Shell
  <2>2. CASE k = 2
    BY <1>1, <1>3, <2>2 DEF Shell
  <2>3. CASE k = 3
    BY <1>1, <1>3, <2>3 DEF Shell
  <2>4. CASE k = 4
    BY <1>1, <1>3, <2>4 DEF Shell
  <2> QED
    BY <1>2, <2>1, <2>2, <2>3, <2>4
<1>6. \A k, l \in DOMAIN u : k # l /\ u[k].event = u[l].event => u[k].event = NoEvent
  BY <1>1, <1>2, <1>3, <1>4
<1>8. \A k \in DOMAIN u : u[k].event = Output(current) <=> k = 4
  BY <1>1, <1>2, <1>3
<1>7. Tidy(u)
  BY Zenon, <1>1, <1>5, <1>6, <1>8 DEF Tidy
<1> QED
  BY <1>7 DEF u

(* However a step is taken apart, its steps are tied together.             *)
LEMMA DecomposeKeeps ==
  ASSUME CallInv, PassOver \/ KeepStep \/ DecomposeTRXM \/ DecomposeSYRK \/ DecomposeSYR2K
  PROVE  CallInv'
<1> DEFINE s == CurrentStep
<1>1. Decomposing /\ EventsOK /\ problem \in Problems
  BY DEF PassOver, KeepStep, DecomposeTRXM, DecomposeSYRK, DecomposeSYR2K, CallInv, PhaseOK, DivInv, DivTypeOK
<1>2. MadeFor(s) /\ s.func = func /\ MadeFor(FixupGemmOffsets(s, 0))
  BY <1>1, CurrentStepMade
<1> HIDE DEF s
<1>3. ASSUME NEW steps, DecomposeInto(steps), UNCHANGED <<events, lost>>, Tidy(steps)
      PROVE  CallInv'
  <2>1. EventsOK' /\ events'.num >= events.num /\ (lost' = {} => lost = {})
    BY <1>1, <1>3 DEF EventsOK
  <2> QED
    BY <1>1, <1>3, <2>1, StepsAppended
<1>4. ASSUME NEW steps, NEW n \in 1..3, NEW e, DecomposeEventsAlloc(n, e), DecomposeInto(steps),
             NewEvents(n, e) => Tidy(steps)
      PROVE  CallInv'
  BY <1>1, <1>4, EventsAllocated, StepsAppended DEF NewEvents
<1>5. CASE PassOver
  <2>1. Tidy(<<>>)
    <3> DEFINE u == <<>>
    <3>1. IsSeq(u) /\ DOMAIN u = {}
      BY TupleFacts, Zenon
    <3> HIDE DEF u
    <3>2. Tidy(u)
      BY <3>1 DEF Tidy
    <3> QED
      BY <3>2 DEF u
  <2> QED
    BY <1>3, <1>5, <2>1 DEF PassOver
<1>6. CASE KeepStep
  <2>1. Tidy(<<s>>) /\ Tidy(<<FixupGemmOffsets(s, 0)>>)
    BY <1>2, OneTidy
  <2>2. Tidy(<<IF func = "GEMM" THEN FixupGemmOffsets(s, 0) ELSE s>>)
    BY <2>1
  <2> QED
    BY <1>3, <1>6, <2>2 DEF KeepStep, s
<1>7. CASE DecomposeTRXM
  <2>1. Trxm
    BY <1>7 DEF DecomposeTRXM
  <2>2. PICK e : DecomposeEventsAlloc(2, e) /\ DecomposeInto(TrxmSequence(s, e))
    BY <1>7 DEF DecomposeTRXM, s
  <2>3. ASSUME NewEvents(2, e) PROVE Tidy(TrxmSequence(s, e))
    <3> DEFINE o == Turned(s.offset)
               n == Turned(s.size)
               h == Half(n.y)
               FirstHalf  == [s EXCEPT !.size = Turned([y |-> h, x |-> n.x])]
               SecondHalf == [s EXCEPT !.offset = Turned([y |-> o.y + h, x |-> o.x]),
                                       !.size = Turned([y |-> n.y - h, x |-> n.x])]
               Written == IF SecondGetsBlock THEN SecondHalf ELSE FirstHalf
               Gemm == FixupGemmOffsets(
                         [Written EXCEPT !.func = "GEMM", !.alpha = GemmAlpha(s), !.beta = 1,
                                         !.lhs = IF problem.right THEN "out" ELSE "A",
                                         !.rhs = IF problem.right THEN "A" ELSE "out",
                                         !.K = IF SecondGetsBlock THEN Half(s.K) ELSE s.K - Half(s.K)],
                         IF SecondGetsBlock THEN 0 ELSE Half(s.K))
    <3>1. TrxmSequence(s, e) = IF SwapHalves(s) THEN Tied(SecondHalf, Gemm, FirstHalf, e)
                               ELSE Tied(FirstHalf, Gemm, SecondHalf, e)
      BY Zenon DEF TrxmSequence
    <3>2. Shell(FirstHalf) /\ FirstHalf.waits = {User} /\ FirstHalf.event = Output(current)
      BY <1>2 DEF MadeFor, Shell, StepFields
    <3>3. Shell(SecondHalf) /\ SecondHalf.waits = {User} /\ SecondHalf.event = Output(current)
      BY <1>2 DEF MadeFor, Shell, StepFields
    <3> HIDE DEF FirstHalf, SecondHalf
    <3>4. Shell(Written)
      BY <3>2, <3>3
    <3> HIDE DEF Written
    <3>5. Shell(Gemm)
      BY <3>4 DEF FixupGemmOffsets, Shell, StepFields
    <3> HIDE DEF Gemm
    <3> QED
      BY <2>1, <2>3, <3>1, <3>2, <3>3, <3>5, TiedTidy
  <2> QED
    BY <1>4, <2>2, <2>3
<1>8. ASSUME NEW t, Shell(t), ~ Trxm, OfPart(t, current), NEW d
      PROVE  LET p == SyrkPair(t, d)
             IN  /\ p = <<p[1], p[2]>> /\ Shell(p[1]) /\ Shell(p[2])
                 /\ p[1].waits = t.waits /\ p[1].event = d /\ p[2].waits = {d} /\ p[2].event = t.event
                 /\ OfPart(p[1], current) /\ OfPart(p[2], current)
  <2> DEFINE x == [t EXCEPT !.diagonal = "off", !.event = d]
             y == [t EXCEPT !.diagonal = "on", !.waits = {d}]
  <2>1. Shell(x) /\ x.waits = t.waits /\ x.event = d /\ OfPart(x, current)
    BY <1>8 DEF Shell, StepFields, OfPart
  <2>2. Shell(y) /\ y.waits = {d} /\ y.event = t.event /\ OfPart(y, current)
    BY <1>8 DEF Shell, StepFields, OfPart
  <2>3. SyrkPair(t, d) = <<x, y>>
    BY DEF SyrkPair
  <2> HIDE DEF x, y
  <2> QED
    BY <2>1, <2>2, <2>3
<1>9. ASSUME ~ Trxm, NEW d
      PROVE  LET p == Syr2kHalves(s, d)
             IN  /\ p = <<p[1], p[2]>> /\ Shell(p[1]) /\ Shell(p[2])
                 /\ p[1].waits = {User} /\ p[1].event = d /\ p[2].waits = {d}
                 /\ p[2].event = Output(current)
                 /\ OfPart(p[1], current) /\ OfPart(p[2], current)
  <2> DEFINE x == [s EXCEPT !.twoProducts = FALSE, !.event = d]
             y == [s EXCEPT !.twoProducts = FALSE, !.lhs = s.rhs, !.rhs = s.lhs,
                            !.beta = BetaOnce(s), !.waits = {d}]
  <2>0. OfPart(s, current) /\ Shell(s) /\ s.waits = {User} /\ s.event = Output(current)
    BY <1>2, <1>9 DEF MadeFor
  <2>1. Shell(x) /\ x.waits = {User} /\ x.event = d /\ OfPart(x, current)
    BY <2>0 DEF Shell, StepFields, OfPart
  <2>2. Shell(y) /\ y.waits = {d} /\ y.event = Output(current) /\ OfPart(y, current)
    BY <2>0 DEF Shell, StepFields, OfPart
  <2>3. Syr2kHalves(s, d) = <<x, y>>
    BY DEF Syr2kHalves
  <2> HIDE DEF x, y
  <2> QED
    BY <2>1, <2>2, <2>3
<1>10. ASSUME NEW n \in 1..3, NEW e, NewEvents(n, e) PROVE e[1] \in PoolEvents(events.num, events'.num)
  BY <1>10 DEF NewEvents
<1>11. ASSUME ~ Trxm, NEW p, NEW d, d \in PoolEvents(events.num, events'.num),
              p = <<p[1], p[2]>>, Shell(p[1]), Shell(p[2]),
              p[1].waits = {User}, p[1].event = d, p[2].waits = {d}, p[2].event = Output(current),
              OfPart(p[1], current), OfPart(p[2], current)
       PROVE  Tidy(p)
  <2> PICK x, y : x = p[1] /\ y = p[2]
    OBVIOUS
  <2>1. Tidy(<<x, y>>)
    BY <1>11, TwoTidy
  <2> QED
    BY <1>11, <2>1
<1>12. CASE DecomposeSYRK
  <2>1. ~ Trxm
    BY <1>12 DEF DecomposeSYRK, Trxm
  <2>2. PICK e : DecomposeEventsAlloc(1, e) /\ DecomposeInto(SyrkPair(s, e[1]))
    BY <1>12 DEF DecomposeSYRK, s
  <2>3. ASSUME NewEvents(1, e) PROVE Tidy(SyrkPair(s, e[1]))
    BY <1>2, <1>8, <1>10, <1>11, <2>1, <2>3 DEF MadeFor
  <2> QED
    BY <1>4, <2>2, <2>3
<1>13. CASE DecomposeSYR2K
  <2>1. ~ Trxm
    BY <1>13 DEF DecomposeSYR2K, Trxm
  <2>2. CASE Separate(s)
    <3>1. PICK e : /\ DecomposeEventsAlloc(3, e)
                   /\ LET halves == Syr2kHalves(s, e[1])
                      IN  DecomposeInto(SyrkPair(halves[1], e[2]) \o SyrkPair(halves[2], e[3]))
      BY <1>13, <2>2 DEF DecomposeSYR2K, s
    <3> DEFINE halves == Syr2kHalves(s, e[1])
               p == SyrkPair(halves[1], e[2])
               r == SyrkPair(halves[2], e[3])
    <3>2. /\ Shell(halves[1]) /\ Shell(halves[2])
          /\ halves[1].waits = {User} /\ halves[1].event = e[1] /\ halves[2].waits = {e[1]}
          /\ halves[2].event = Output(current)
          /\ OfPart(halves[1], current) /\ OfPart(halves[2], current)
      BY <1>9, <2>1
    <3> HIDE DEF halves
    <3>3. /\ p = <<p[1], p[2]>> /\ Shell(p[1]) /\ Shell(p[2])
          /\ p[1].waits = {User} /\ p[1].event = e[2] /\ p[2].waits = {e[2]} /\ p[2].event = e[1]
          /\ OfPart(p[1], current) /\ OfPart(p[2], current)
      BY <1>8, <2>1, <3>2
    <3>4. /\ r = <<r[1], r[2]>> /\ Shell(r[1]) /\ Shell(r[2])
          /\ r[1].waits = {e[1]} /\ r[1].event = e[3] /\ r[2].waits = {e[3]}
          /\ r[2].event = Output(current)
          /\ OfPart(r[1], current) /\ OfPart(r[2], current)
      BY SMTT(20), <1>8, <2>1, <3>2
    <3> HIDE DEF p, r
    <3> PICK x, y, z, w : x = p[1] /\ y = p[2] /\ z = r[1] /\ w = r[2]
      OBVIOUS
    <3>5. ASSUME NewEvents(3, e) PROVE Tidy(p \o r)
      <4>1. Tidy(<<x, y>> \o <<z, w>>)
        BY <3>3, <3>4, <3>5, FourTidy
      <4> QED
        BY <3>3, <3>4, <4>1
    <3>6. DecomposeInto(p \o r)
      BY <3>1 DEF p, r, halves
    <3> QED
      BY <1>4, <3>1, <3>5, <3>6
  <2>3. CASE ~ Separate(s)
    <3>1. PICK e : DecomposeEventsAlloc(1, e) /\ DecomposeInto(Syr2kHalves(s, e[1]))
      BY <1>13, <2>3 DEF DecomposeSYR2K, s
    <3>2. ASSUME NewEvents(1, e) PROVE Tidy(Syr2kHalves(s, e[1]))
      BY <1>9, <1>10, <1>11, <2>1, <3>2
    <3> QED
      BY <1>4, <3>1, <3>2
  <2> QED
    BY <2>2, <2>3
<1> QED
  BY <1>5, <1>6, <1>7, <1>12, <1>13

-----------------------------------------------------------------------------
(* The other actions.                                                      *)

SameSteps ==
  /\ DOMAIN seq' = DOMAIN seq
  /\ \A i \in DOMAIN seq : StepFields \subseteq DOMAIN seq[i] =>
       /\ StepFields \subseteq DOMAIN seq'[i]
       /\ \A f \in StepFields : seq'[i][f] = seq[i][f]

LEMMA StepsKept ==
  ASSUME CallInv, UNCHANGED <<dvars, events>>, SameSteps
  PROVE  Chained /\ InItsPart => Chained' /\ InItsPart'
<1> SUFFICES ASSUME Chained, InItsPart PROVE Chained' /\ InItsPart'
  OBVIOUS
<1> PICK n \in Nat : n = Len(seq)
  BY SeqFacts DEF CallInv, PhaseOK
<1>1. DOMAIN seq = 1..n /\ DOMAIN seq' = 1..n
  BY SeqFacts DEF CallInv, PhaseOK, SameSteps
<1>2. \A i \in 1..n :
        /\ StepFields \subseteq DOMAIN seq'[i]
        /\ seq'[i].func = seq[i].func /\ seq'[i].queue = seq[i].queue
        /\ seq'[i].offset = seq[i].offset /\ seq'[i].size = seq[i].size
        /\ seq'[i].lhs = seq[i].lhs /\ seq'[i].rhs = seq[i].rhs
        /\ seq'[i].waits = seq[i].waits /\ seq'[i].event = seq[i].event
  BY Zenon, <1>1 DEF SameSteps, Chained, Linked, StepFields
<1>3. Queues' = Queues /\ func' = func /\ (Trxm' <=> Trxm) /\ events' = events /\ part' = part
  BY DEF dvars, Queues, func, Trxm
<1>4. ASSUME NEW i \in 1..n PROVE Linked(i)'
  <2>1. Linked(i)
    BY <1>1 DEF Chained
  <2>2. \A k \in 1..(i - 1) : k \in 1..n
    OBVIOUS
  <2>3. First(i)' <=> First(i)
    BY <1>2, <2>2 DEF First
  <2>4. ~ First(i) => i - 1 \in 1..n
    <3>1. i # 1 => i - 1 \in 1..n
      OBVIOUS
    <3>2. i = 1 => First(i)
      BY DEF First
    <3> QED
      BY <3>1, <3>2
  <2>5. ~ First(i) => seq'[i - 1].event = seq[i - 1].event /\ seq'[i - 1].queue = seq[i - 1].queue
    BY <1>2, <2>4
  <2> QED
    BY Zenon, <1>2, <1>3, <2>1, <2>3, <2>5 DEF Linked
<1>5. OwnEvents'
  BY <1>1, <1>2 DEF Chained, OwnEvents
<1>6. InItsPart'
  BY <1>1, <1>2, <1>3 DEF InItsPart, OfPart
<1>7. OutputLast'
  <2> SUFFICES ASSUME NEW i \in 1..n PROVE seq'[i].event = Output(seq'[i].queue) <=> Last(i)'
    BY <1>1, Zenon DEF OutputLast, Output
  <2>1. Last(i)' <=> Last(i)
    BY <1>1, <1>2 DEF Last
  <2>2. seq[i].event = Output(seq[i].queue) <=> Last(i)
    BY <1>1 DEF Chained, OutputLast
  <2> QED
    BY <1>2, <2>1, <2>2
<1> QED
  BY <1>1, <1>4, <1>5, <1>6, <1>7 DEF Chained

LEMMA EndDecompositionKeeps == ASSUME CallInv, EndDecomposition PROVE CallInv'
<1> PICK n \in Nat : n = Len(seq) /\ DOMAIN seq = 1..n
  BY SeqFacts DEF CallInv, PhaseOK
<1>1. DivInv' /\ PartsInOrder'
  BY SameParts DEF CallInv, EndDecomposition
<1>2. /\ phase = "decompose" /\ phase' = "enqueue" /\ current' = 1
      /\ status' = [i \in 1..n |-> "made"]
      /\ UNCHANGED <<dvars, seq, events, lost>>
  BY DEF EndDecomposition
<1>3. PhaseOK'
  BY <1>2 DEF CallInv, PhaseOK, EventsOK, Divided, Queues, dvars
<1>4. SameSteps
  BY <1>2 DEF SameSteps
<1>5. InTurn'
  BY <1>2 DEF InTurn
<1> QED
  BY <1>1, <1>2, <1>3, <1>4, <1>5, StepsKept DEF CallInv

LEMMA EnqueueKeeps == ASSUME CallInv, EnqueueKernel PROVE CallInv'
<1> PICK n \in Nat : n = Len(seq) /\ DOMAIN seq = 1..n
  BY SeqFacts DEF CallInv, PhaseOK
<1>1. DivInv' /\ PartsInOrder'
  BY SameParts DEF CallInv, EnqueueKernel
<1>2. /\ phase = "enqueue" /\ current \in 1..n /\ NoEvent \notin seq[current].waits
      /\ status' = [status EXCEPT ![current] = "queued"] /\ current' = current + 1
      /\ UNCHANGED <<dvars, phase, events, lost, userEvent>>
  BY DEF EnqueueKernel, Enqueuing
<1>3. PICK w \in {seq[current].waits, seq[current].waits \ lost} : seq' = [seq EXCEPT ![current].waits = w]
  BY Zenon DEF EnqueueKernel
<1>4. /\ status \in [1..n -> {"made", "queued", "running", "done"}]
      /\ \A i \in 1..n : i >= current => status[i] = "made"
  BY <1>2 DEF CallInv, PhaseOK
<1>5. IsSeq(seq') /\ DOMAIN seq' = 1..n
  <2>1. PICK S : seq \in Seq(S)
    BY DEF CallInv, PhaseOK, IsSeq
  <2> DEFINE r == [seq[current] EXCEPT !.waits = w]
  <2>2. seq' = [seq EXCEPT ![current] = r]
    BY <1>3
  <2> HIDE DEF r
  <2>3. seq' \in Seq(S \cup {r})
    BY <1>2, <2>1, <2>2
  <2>4. DOMAIN seq' = 1..n
    BY <2>1, <2>2
  <2> QED
    BY <2>3, <2>4, Zenon DEF IsSeq
<1>6. PhaseOK'
  <2>1. status' \in [1..n -> {"made", "queued", "running", "done"}]
    BY <1>2, <1>4
  <2>2. \A i \in 1..n : i >= current' => status'[i] = "made"
    BY <1>2, <1>4
  <2>3. current' \in Nat
    BY <1>2
  <2> QED
    BY <1>2, <1>5, <2>1, <2>2, <2>3 DEF CallInv, PhaseOK, EventsOK, Divided, Queues, dvars
<1> SUFFICES ASSUME lost = {} PROVE Chained' /\ InItsPart' /\ InTurn'
  BY <1>1, <1>2, <1>6 DEF CallInv
<1>7. w = seq[current].waits /\ Chained /\ InItsPart /\ InTurn
  BY DEF CallInv
<1>8. SameSteps
  <2>1. \A i \in 1..n : i # current => seq'[i] = seq[i]
    BY <1>3
  <2>2. seq'[current] = [seq[current] EXCEPT !.waits = seq[current].waits]
    BY <1>2, <1>3, <1>7
  <2>3. DOMAIN seq'[current] = DOMAIN seq[current]
        /\ \A f \in DOMAIN seq[current] : seq'[current][f] = seq[current][f]
    BY <2>2
  <2> QED
    BY <1>5, <2>1, <2>3 DEF SameSteps
<1>9. \A i \in 1..n : seq'[i].queue = seq[i].queue /\ seq'[i].waits = seq[i].waits
  BY Zenon, <1>7, <1>8 DEF SameSteps, Chained, Linked, StepFields
<1>10. InTurn'
  <2> SUFFICES ASSUME NEW j \in 1..n
               PROVE  /\ status'[j] # "made" => NoEvent \notin seq'[j].waits
                      /\ status'[j] \in {"running", "done"} =>
                           /\ userEvent
                           /\ \A i \in 1..(j - 1) : seq'[i].queue = seq'[j].queue => status'[i] = "done"
    BY <1>2, <1>4 DEF InTurn
  <2>1. /\ status[j] # "made" => NoEvent \notin seq[j].waits
        /\ status[j] \in {"running", "done"} =>
             userEvent /\ \A i \in 1..(j - 1) : seq[i].queue = seq[j].queue => status[i] = "done"
    BY <1>4, <1>7 DEF InTurn
  <2>2. CASE j = current
    BY <1>2, <1>4, <1>9, <2>2
  <2>3. CASE j # current
    <3>1. status'[j] = status[j]
      BY <1>2, <1>4, <2>3
    <3>2. SUFFICES ASSUME status[j] \in {"running", "done"}, NEW i \in 1..(j - 1),
                          seq[i].queue = seq[j].queue
                   PROVE  status'[i] = "done"
      BY <1>9, <2>1, <3>1
    <3>3. j < current
      BY <1>2, <1>4, <3>2
    <3>4. i # current /\ i \in 1..n
      BY <1>2, <3>3
    <3> QED
      BY <1>2, <1>4, <2>1, <3>2, <3>4
  <2> QED
    BY <2>2, <2>3
<1> QED
  BY <1>2, <1>7, <1>8, <1>10, StepsKept

LEMMA EndKeeps == ASSUME CallInv, EnqueueFails \/ ReturnSuccess PROVE CallInv'
<1>1. DivInv' /\ PartsInOrder'
  BY SameParts DEF CallInv, EnqueueFails, ReturnSuccess
<1>2. /\ phase = "enqueue" /\ phase' = "returned"
      /\ UNCHANGED <<dvars, seq, current, events, lost, status, userEvent>>
  BY DEF EnqueueFails, ReturnSuccess, Enqueuing
<1>3. PhaseOK'
  BY <1>2 DEF CallInv, PhaseOK, EventsOK, Divided, Queues, dvars
<1>4. SameSteps
  BY <1>2 DEF SameSteps
<1>5. InTurn => InTurn'
  BY <1>2 DEF InTurn
<1> QED
  BY <1>1, <1>2, <1>3, <1>4, <1>5, StepsKept DEF CallInv

(* A kernel starts when the one before it in its queue is done.            *)
LEMMA KernelKeeps == ASSUME CallInv, NEW j \in DOMAIN status, StartKernel(j) \/ EndKernel(j) PROVE CallInv'
<1> PICK n \in Nat : n = Len(seq) /\ DOMAIN seq = 1..n
  BY SeqFacts DEF CallInv, PhaseOK
<1>1. DivInv' /\ PartsInOrder'
  BY SameParts DEF CallInv, StartKernel, EndKernel
<1>2. /\ UNCHANGED <<dvars, phase, seq, current, events, lost, userEvent>>
      /\ \/ status[j] = "queued" /\ status' = [status EXCEPT ![j] = "running"]
         \/ status[j] = "running" /\ status' = [status EXCEPT ![j] = "done"]
  BY DEF StartKernel, EndKernel
<1>3. /\ phase \in {"enqueue", "returned"} /\ j \in 1..n
      /\ status \in [1..n -> {"made", "queued", "running", "done"}]
      /\ phase = "enqueue" => \A i \in 1..n : i >= current => status[i] = "made"
  <2>1. status # <<>>
    BY TupleFacts
  <2> QED
    BY <2>1 DEF CallInv, PhaseOK
<1>4. status' \in [1..n -> {"made", "queued", "running", "done"}]
  BY <1>2, <1>3
<1>5. PhaseOK'
  <2>1. \A i \in 1..n : status[i] = "made" => status'[i] = "made"
    BY <1>2, <1>3
  <2> QED
    BY <1>2, <1>3, <1>4, <2>1 DEF CallInv, PhaseOK, EventsOK, Divided, Queues, dvars
<1> SUFFICES ASSUME lost = {} PROVE Chained' /\ InItsPart' /\ InTurn'
  BY <1>1, <1>2, <1>5 DEF CallInv
<1>6. Chained /\ InItsPart /\ InTurn
  BY DEF CallInv
<1>7. SameSteps
  BY <1>2 DEF SameSteps
<1>8. NoEvent \notin seq[j].waits
  BY <1>2, <1>6 DEF InTurn
<1>9. userEvent /\ \A i \in 1..(j - 1) : seq[i].queue = seq[j].queue => status[i] = "done"
  <2>1. CASE status[j] = "running"
    BY <1>6, <2>1 DEF InTurn
  <2>2. CASE StartKernel(j)
    <3>1. /\ \A e \in seq[j].waits : Complete(e)
          /\ Linked(j)
      BY <1>3, <1>6, <2>2 DEF StartKernel, Chained
    <3>2. CASE First(j)
      <4>1. Complete(User)
        BY <3>1, <3>2 DEF Linked
      <4>2. \A i \in 1..n : seq[i].event # User
        <5> SUFFICES ASSUME NEW i \in 1..n PROVE seq[i].event # User
          OBVIOUS
        <5>1. seq[i].event \in PoolEvents(0, events.num) \cup {Output(seq[i].queue)}
          BY Zenon, <1>6 DEF Chained, Linked
        <5> QED
          BY <5>1, EventsDiffer, Zenon DEF PoolEvents
      <4>3. userEvent
        BY <1>3, <4>1, <4>2 DEF Complete
      <4> QED
        BY <3>2, <4>3 DEF First
    <3>3. CASE ~ First(j)
      <4>1. /\ seq[j].waits = {seq[j - 1].event}
            /\ seq[j - 1].queue = seq[j].queue
        BY <3>1, <3>3 DEF Linked
      <4>2. j # 1
        <5>1. j = 1 => First(j)
          BY DEF First
        <5> QED
          BY <3>3, <5>1
      <4> PICK h \in 1..n : h = j - 1
        BY <1>3, <4>2
      <4>3. Complete(seq[h].event) /\ seq[h].event # NoEvent
        BY <1>8, <3>1, <4>1
      <4>4. seq[h].event # User
        <5>1. seq[h].event \in PoolEvents(0, events.num) \cup {Output(seq[h].queue)}
          BY Zenon, <1>6 DEF Chained, Linked
        <5> QED
          BY <5>1, EventsDiffer, Zenon DEF PoolEvents
      <4>5. PICK i \in 1..n : seq[i].event = seq[h].event /\ status[i] = "done"
        BY <1>3, <4>3, <4>4 DEF Complete
      <4>6. i = h
        BY <4>3, <4>5, <1>6 DEF Chained, OwnEvents
      <4>7. userEvent /\ \A k \in 1..(h - 1) : seq[k].queue = seq[h].queue => status[k] = "done"
        BY <1>3, <1>6, <4>5, <4>6 DEF InTurn
      <4>8. \A k \in 1..(j - 1) : k = h \/ k \in 1..(h - 1)
        BY <1>3
      <4> QED
        BY <4>1, <4>5, <4>6, <4>7, <4>8
    <3> QED
      BY <3>2, <3>3
  <2> QED
    BY <2>1, <2>2 DEF EndKernel
<1>10. InTurn'
  <2> SUFFICES ASSUME NEW i \in 1..n
               PROVE  /\ status'[i] # "made" => NoEvent \notin seq[i].waits
                      /\ status'[i] \in {"running", "done"} =>
                           /\ userEvent
                           /\ \A k \in 1..(i - 1) : seq[k].queue = seq[i].queue => status'[k] = "done"
    BY <1>2, <1>4 DEF InTurn
  <2>1. \A k \in 1..n : status[k] = "done" => status'[k] = "done"
    BY <1>2, <1>3
  <2>2. \A k \in 1..(i - 1) : k \in 1..n
    OBVIOUS
  <2>3. CASE i = j
    BY <1>8, <1>9, <2>1, <2>2, <2>3
  <2>4. CASE i # j
    <3>1. status'[i] = status[i]
      BY <1>2, <1>3, <2>4
    <3>2. /\ status[i] # "made" => NoEvent \notin seq[i].waits
          /\ status[i] \in {"running", "done"} =>
               userEvent /\ \A k \in 1..(i - 1) : seq[k].queue = seq[i].queue => status[k] = "done"
      BY <1>3, <1>6 DEF InTurn
    <3> QED
      BY <2>1, <2>2, <3>1, <3>2
  <2> QED
    BY <2>3, <2>4
<1> QED
  BY <1>2, <1>6, <1>7, <1>10, StepsKept

LEMMA AllocatedEnough == ASSUME NEW k \in Nat PROVE Allocated(k) \in Nat /\ k <= Allocated(k)
<1> PICK s \in Nat : s = AllocationStep /\ s > 0
  BY CallAssumption
<1> PICK a \in Nat : a = k + s - 1
  OBVIOUS
<1> PICK d \in Nat : d = a \div s
  OBVIOUS
<1>1. d * s \in Nat
  BY ProductNat
<1>2. a < d * s + s
  OBVIOUS
<1>3. k <= d * s
  BY <1>1, <1>2
<1>4. Allocated(k) = d * s
  BY DEF Allocated
<1> QED
  BY <1>1, <1>3, <1>4

LEMMA CallInit == SInit => CallInv
<1> SUFFICES ASSUME SInit PROVE CallInv
  OBVIOUS
<1>1. DivInv
  BY DivisionInitInv DEF SInit
<1>2. /\ phase = "divide" /\ seq = <<>> /\ current = 1 /\ status = <<>> /\ next = 1
  BY DEF SInit, DivisionInit
<1>3. IsSeq(seq) /\ DOMAIN seq = {} /\ DOMAIN status = {}
  BY Zenon, <1>2, TupleFacts
<1>4. PartsInOrder
  BY <1>2 DEF PartsInOrder, Served
<1>5. EventsOK
  <2>1. PICK k \in EventsBefore : events = [first |-> k, num |-> k, max |-> Allocated(k)]
    BY DEF SInit
  <2>2. k \in Nat /\ Allocated(k) \in Nat /\ k <= Allocated(k)
    BY AllocatedEnough, CallAssumption
  <2> QED
    BY <2>1, <2>2 DEF EventsOK
<1>6. PhaseOK
  BY <1>2, <1>3, <1>5 DEF PhaseOK
<1>7. Chained /\ InItsPart /\ InTurn
  BY <1>3 DEF Chained, OwnEvents, OutputLast, InItsPart, InTurn
<1> QED
  BY <1>1, <1>4, <1>6, <1>7 DEF CallInv

LEMMA CallNext == CallInv /\ [SNext]_svars => CallInv'
<1> SUFFICES ASSUME CallInv, [SNext]_svars PROVE CallInv'
  OBVIOUS
<1>1. CASE DividePart
  <2>1. DivInv' /\ PartsInOrder'
    BY <1>1, DivideKeeps, DivideOrders DEF DividePart, CallInv
  <2>2. UNCHANGED callVars /\ phase = "divide" /\ seq = <<>> /\ status = <<>>
    BY <1>1 DEF DividePart, CallInv, PhaseOK
  <2>3. DOMAIN seq' = {} /\ DOMAIN status' = {}
    BY <2>2, TupleFacts DEF callVars
  <2>4. PhaseOK'
    BY <2>2, <2>3 DEF CallInv, PhaseOK, EventsOK, callVars
  <2>5. Chained' /\ InItsPart' /\ InTurn'
    BY <2>3 DEF Chained, OwnEvents, OutputLast, InItsPart, InTurn
  <2> QED
    BY <2>1, <2>4, <2>5 DEF CallInv
<1>2. CASE EndDivision
  <2>1. DivInv' /\ PartsInOrder'
    BY <1>2, SameParts DEF EndDivision, CallInv
  <2>2. /\ phase = "divide" /\ phase' = "decompose" /\ Divided /\ seq = <<>> /\ status = <<>>
        /\ UNCHANGED <<dvars, seq, current, events, lost, status>>
    BY <1>2 DEF EndDivision, CallInv, PhaseOK
  <2>3. DOMAIN seq' = {} /\ DOMAIN status' = {}
    BY <2>2, TupleFacts
  <2>4. PhaseOK'
    BY <2>2, <2>3 DEF CallInv, PhaseOK, EventsOK, Divided, Queues, dvars
  <2>5. Chained' /\ InItsPart' /\ InTurn'
    BY <2>3 DEF Chained, OwnEvents, OutputLast, InItsPart, InTurn
  <2> QED
    BY <2>1, <2>4, <2>5 DEF CallInv
<1>3. ASSUME UNCHANGED <<dvars, phase, seq, current, events, lost, status>>, userEvent => userEvent'
      PROVE  CallInv'
  <2>1. DivInv' /\ PartsInOrder'
    BY <1>3, SameParts DEF CallInv
  <2>2. PhaseOK'
    BY <1>3 DEF CallInv, PhaseOK, EventsOK, Divided, Queues, dvars
  <2>3. SameSteps /\ (InTurn => InTurn')
    BY <1>3 DEF SameSteps, InTurn
  <2> QED
    BY <1>3, <2>1, <2>2, <2>3, StepsKept DEF CallInv
<1>4. CASE UserEventCompletes
  BY <1>3, <1>4 DEF UserEventCompletes, callVars
<1>5. CASE UNCHANGED svars
  BY <1>3, <1>5 DEF svars
<1>6. CASE PassOver \/ KeepStep \/ DecomposeTRXM \/ DecomposeSYRK \/ DecomposeSYR2K
  BY <1>6, DecomposeKeeps
<1>7. CASE EndDecomposition \/ EnqueueKernel \/ EnqueueFails \/ ReturnSuccess
  BY <1>7, EndDecompositionKeeps, EnqueueKeeps, EndKeeps
<1>8. CASE RunKernels
  BY <1>8, KernelKeeps DEF RunKernels
<1> QED
  BY <1>1, <1>2, <1>4, <1>5, <1>6, <1>7, <1>8 DEF SNext, Call

-----------------------------------------------------------------------------
LEMMA CallInvAlways == SSpec => []CallInv
  BY CallInit, CallNext, PTL DEF SSpec

(* The division is a part of a call: its parts tile the result there too.  *)
THEOREM CallTiles == SSpec => []PartsTile
<1>1. CallInv => PartsTile
  BY DivInvTiles DEF CallInv
<1> QED
  BY CallInvAlways, <1>1, PTL

(* No kernel starts before what the caller waits for is complete, although *)
(* only the first step of a sequence has the caller's wait list.           *)
THEOREM NoKernelIsEarly == SSpec => []NothingEarly
<1>1. CallInv => NothingEarly
  <2> SUFFICES ASSUME CallInv, lost = {}, ~ userEvent, NEW i \in DOMAIN status
               PROVE  status[i] \in {"made", "queued"}
    BY DEF NothingEarly
  <2>1. status # <<>>
    BY TupleFacts
  <2>2. status \in [DOMAIN seq -> {"made", "queued", "running", "done"}]
    BY <2>1 DEF CallInv, PhaseOK
  <2> QED
    BY <2>2 DEF CallInv, InTurn
<1> QED
  BY CallInvAlways, <1>1, PTL

(* A queue is done when the event that it has for the caller is complete.  *)
LEMMA QueueDone ==
  ASSUME CallInv, lost = {}, NEW i \in DOMAIN status,
         seq[i].event = Output(seq[i].queue), status[i] = "done",
         NEW j \in DOMAIN seq, seq[j].queue = seq[i].queue
  PROVE  j <= i /\ j \in DOMAIN status /\ status[j] = "done"
<1> PICK n \in Nat : DOMAIN seq = 1..n
  BY SeqFacts DEF CallInv, PhaseOK
<1>1. DOMAIN status = 1..n
  <2>1. status # <<>>
    BY TupleFacts
  <2> QED
    BY <2>1 DEF CallInv, PhaseOK
<1>2. Last(i)
  BY <1>1 DEF CallInv, Chained, OutputLast
<1>3. j <= i /\ i \in 1..n /\ j \in 1..n
  BY <1>1, <1>2 DEF Last
<1>4. \A k \in 1..(i - 1) : seq[k].queue = seq[i].queue => status[k] = "done"
  BY DEF CallInv, InTurn
<1>5. j = i \/ j \in 1..(i - 1)
  BY <1>3
<1> QED
  BY <1>1, <1>3, <1>4, <1>5

(* The event that the caller gets for a queue is that of the last step of  *)
(* the queue, and when it is complete every kernel of the queue is done,   *)
(* even if the call failed at a step of another one.                       *)
THEOREM OutputMeansQueueDone ==
  SSpec => [](lost = {} =>
    \A i \in DOMAIN status : seq[i].event = Output(seq[i].queue) /\ status[i] = "done" =>
      \A j \in DOMAIN seq : seq[j].queue = seq[i].queue => j <= i /\ status[j] = "done")
<1>1. CallInv =>
        (lost = {} =>
          \A i \in DOMAIN status : seq[i].event = Output(seq[i].queue) /\ status[i] = "done" =>
            \A j \in DOMAIN seq : seq[j].queue = seq[i].queue => j <= i /\ status[j] = "done")
  BY QueueDone
<1> QED
  BY CallInvAlways, <1>1, PTL

(* What the kernels of one part write, and that they read no more.         *)
LEMMA WritesOfPart ==
  ASSUME CallInv, ~ Trxm, NEW s, NEW q, OfPart(s, q)
  PROVE  /\ Reads(s) = Writes(s)
         /\ \A c \in Writes(s) :
              /\ c[1] \in Span(part[q].offset.y, part[q].size.y)
              /\ RowsOnly \/ c[2] \in Span(part[q].offset.x, part[q].size.x)
<1>1. Reads(s) = Writes(s)
  BY DEF Reads, OfPart
<1>2. problem \in Problems /\ problem.func = func
  BY DEF CallInv, DivInv, DivTypeOK, func
<1>3. s.func = func /\ s.offset = part[q].offset /\ s.size = part[q].size
  BY DEF OfPart
<1>4. CASE func = "GEMM"
  <2>1. Writes(s) = Span(s.offset.y, s.size.y) \X Span(s.offset.x, s.size.x)
    BY <1>3, <1>4 DEF Writes, Kernel, GemmKernel
  <2> QED
    BY <1>1, <1>3, <2>1
<1>5. CASE func = "GEMV"
  <2>1. Writes(s) = Span(s.offset.y, s.size.y) \X {0}
    BY <1>3, <1>5 DEF Writes, Kernel, GemvKernel
  <2>2. RowsOnly
    BY <1>2, <1>5, CallAssumption DEF RowsOnly
  <2> QED
    BY <1>1, <1>3, <2>1, <2>2
<1>6. CASE func \in {"SYRK", "SYR2K"}
  <2>1. Writes(s) = SyrkCells(s)
    BY <1>3, <1>6 DEF Writes, Kernel, SyrkKernel
  <2>2. \A c \in SyrkCells(s) : c[1] \in Span(s.offset.y, s.size.y)
    BY DEF SyrkCells
  <2>3. RowsOnly
    BY <1>2, <1>6, CallAssumption DEF RowsOnly
  <2> QED
    BY <1>1, <1>3, <2>1, <2>2, <2>3
<1> QED
  BY <1>2, <1>4, <1>5, <1>6, CallAssumption DEF Trxm

LEMMA OneQueue ==
  ASSUME problem \in Problems, Trxm
  PROVE  \A q, r \in Queues : q = r
<1>1. Len(problem.cus) = 2
  BY CallAssumption DEF Trxm, func
<1>2. Queues = 1..1
  <2>1. Len(problem.cus) - 1 = 1
    BY <1>1
  <2> QED
    BY <2>1, Zenon DEF Queues
<1>3. \A q \in 1..1 : q = 1
  OBVIOUS
<1> QED
  BY <1>2, <1>3, Zenon

LEMMA PartsApart ==
  ASSUME NEW p \in Parts, NEW r \in Parts,
         Ahead(p, r.offset, r.size) \/ Ahead(r, p.offset, p.size),
         NEW i, i \in Span(p.offset.y, p.size.y), i \in Span(r.offset.y, r.size.y),
         NEW j, ~ RowsOnly => j \in Span(p.offset.x, p.size.x) /\ j \in Span(r.offset.x, r.size.x)
  PROVE  FALSE
<1>1. \A k, o1, s1, o2, s2 : o1 \in Nat /\ s1 \in Nat /\ o2 \in Nat /\ s2 \in Nat =>
        (k \in Span(o1, s1) /\ k \in Span(o2, s2) => ~ (o1 + s1 <= o2) /\ ~ (o2 + s2 <= o1))
  BY DEF Span
<1>2. /\ p.offset.y \in Nat /\ p.offset.x \in Nat /\ p.size.y \in Nat /\ p.size.x \in Nat
      /\ r.offset.y \in Nat /\ r.offset.x \in Nat /\ r.size.y \in Nat /\ r.size.x \in Nat
  BY DEF Parts, Extents
<1>3. ~ (p.offset.y + p.size.y <= r.offset.y) /\ ~ (r.offset.y + r.size.y <= p.offset.y)
  BY <1>1, <1>2, Zenon
<1>4. ~ RowsOnly => /\ ~ (p.offset.x + p.size.x <= r.offset.x)
                    /\ ~ (r.offset.x + r.size.x <= p.offset.x)
  BY <1>1, <1>2, Zenon
<1> QED
  BY <1>3, <1>4, Zenon DEF Ahead

(* No kernel writes what another one that runs at the same time reads or   *)
(* writes: two of one queue never run together, and those of two queues    *)
(* stay in their parts.                                                    *)
THEOREM NoKernelsConflict == SSpec => []NoConflict
<1>1. ASSUME CallInv, lost = {}, NEW i \in Running, NEW j \in Running, i # j
      PROVE  Writes(seq[i]) \cap Reads(seq[j]) = {}
  <2> PICK n \in Nat : n = Len(seq) /\ DOMAIN seq = 1..n
    BY <1>1, SeqFacts DEF CallInv, PhaseOK
  <2>1. status # <<>>
    BY TupleFacts DEF Running
  <2>2. /\ status \in [1..n -> {"made", "queued", "running", "done"}]
        /\ phase # "divide" /\ Divided
    BY <1>1, <2>1 DEF CallInv, PhaseOK
  <2>3. i \in 1..n /\ j \in 1..n /\ status[i] = "running" /\ status[j] = "running"
    BY <2>2 DEF Running
  <2>4. Chained /\ InItsPart /\ InTurn /\ PartsInOrder /\ DivInv
    BY <1>1 DEF CallInv
  <2> DEFINE q == seq[i].queue
             r == seq[j].queue
  <2>5. q # r
    <3>1. i \in 1..(j - 1) \/ j \in 1..(i - 1)
      BY <1>1, <2>3
    <3> QED
      BY <2>2, <2>3, <2>4, <3>1 DEF InTurn
  <2>6. q \in Queues /\ r \in Queues
    BY Zenon, <2>3, <2>4 DEF Chained, Linked
  <2>7. problem \in Problems /\ next \in 1..Len(problem.cus) /\ problem.cus \in Seq(Nat)
    BY <2>4, DivisionAssumption DEF DivInv, DivTypeOK
  <2>8. ~ Trxm
    BY <2>5, <2>6, <2>7, OneQueue
  <2>9. Served = Queues
    BY <2>2, <2>7 DEF Divided, Served, Queues
  <2>10. OfPart(seq[i], q) /\ OfPart(seq[j], r)
    BY <2>3, <2>4, <2>8 DEF InItsPart
  <2> HIDE DEF q, r
  <2>11. q \in Nat /\ r \in Nat /\ part[q] \in Parts /\ part[r] \in Parts
    <3>1. part \in Seq(Parts) /\ Len(part) = next - 1
      BY <2>4 DEF DivInv, DivTypeOK
    <3> QED
      BY SMTT(20), <2>6, <2>7, <2>9, <3>1 DEF Served
  <2>12. Ahead(part[q], part[r].offset, part[r].size) \/ Ahead(part[r], part[q].offset, part[q].size)
    BY <2>4, <2>5, <2>6, <2>9, <2>11 DEF PartsInOrder
  <2> SUFFICES ASSUME NEW c, c \in Writes(seq[i]), c \in Writes(seq[j])
               PROVE  FALSE
    BY <1>1, <2>8, <2>10, WritesOfPart
  <2>14. /\ c[1] \in Span(part[q].offset.y, part[q].size.y)
         /\ RowsOnly \/ c[2] \in Span(part[q].offset.x, part[q].size.x)
         /\ c[1] \in Span(part[r].offset.y, part[r].size.y)
         /\ RowsOnly \/ c[2] \in Span(part[r].offset.x, part[r].size.x)
    BY <1>1, <2>8, <2>10, WritesOfPart
  <2> QED
    BY Zenon, <2>11, <2>12, <2>14, PartsApart
<1>2. CallInv => NoConflict
  BY <1>1 DEF NoConflict
<1> QED
  BY CallInvAlways, <1>2, PTL

-----------------------------------------------------------------------------
(* What the kernels compute.  Numbers modulo the prime are a field: sums   *)
(* of terms can be split, reordered and multiplied term by term.           *)

(* There is a least number in a set.                                       *)
LEMMA LeastOf ==
  ASSUME NEW T, T \subseteq Nat, T # {}
  PROVE  \E m \in T : \A n \in T : m <= n
<1>1. PICK m \in T : \A n \in T : ~ (<<n, m>> \in OpToRel(<, Nat))
  BY Zenon, WFMin, NatLessThanWellFounded
<1>2. \A n \in T : ~ (n < m)
  BY Zenon, <1>1 DEF OpToRel
<1>. QED
  BY <1>2

(* What has 0 and with each number the next one has all of them.           *)
LEMMA Inductive ==
  ASSUME NEW n \in Nat, NEW T, 0 \in T, \A i \in 0..n-1 : i \in T => i + 1 \in T
  PROVE  \A i \in 0..n : i \in T
<1> DEFINE R == {i \in 0..n : i \notin T}
<1> SUFFICES ASSUME R # {} PROVE FALSE
  OBVIOUS
<1>1. R \subseteq Nat
  OBVIOUS
<1> HIDE DEF R
<1>2. PICK m \in R : \A i \in R : m <= i
  BY Zenon, <1>1, LeastOf
<1>3. m \in 1..n /\ m - 1 \in 0..n-1 /\ m - 1 \notin R
  BY <1>1, <1>2 DEF R
<1>4. m - 1 \in T /\ m - 1 + 1 = m
  BY <1>3 DEF R
<1> QED
  BY <1>2, <1>3, <1>4 DEF R

-----------------------------------------------------------------------------
(* Numbers modulo Prime.                                                   *)

Residues == 0..(Prime - 1)

LEMMA ModFacts ==
  /\ Prime \in Nat \ {0} /\ Prime > 1 /\ 0 \in Residues
  /\ \A a \in Residues : a \in Nat /\ Mod(a) = a
  /\ \A a \in Int : Mod(a) \in Residues
<1> PICK d \in Nat : d = Prime /\ d > 1
  BY CallAssumption
<1>1. \A a \in 0..(d - 1) : a % d = a
  OBVIOUS
<1>2. \A a \in Int : a % d \in 0..(d - 1)
  OBVIOUS
<1> QED
  BY <1>1, <1>2 DEF Residues, Mod

Equal(a, b) == Mod(a) = Mod(b)

LEMMA EqualIs ==
  ASSUME NEW a \in Int, NEW b \in Int
  PROVE  Equal(a, b) <=> \E k \in Int : a = b + k * Prime
<1> PICK d \in Nat \ {0} : d = Prime
  BY ModFacts
<1>1. a = d * (a \div d) + (a % d) /\ a \div d \in Int /\ a % d \in 0..(d - 1)
  OBVIOUS
<1>2. b = d * (b \div d) + (b % d) /\ b \div d \in Int /\ b % d \in 0..(d - 1)
  OBVIOUS
<1>3. ASSUME a % d = b % d PROVE \E k \in Int : a = b + k * d
  <2> PICK p \in Int, q \in Int : p = a \div d /\ q = b \div d
    BY <1>1, <1>2
  <2>1. a - b = d * p - d * q
    BY <1>1, <1>2, <1>3
  <2>2. d * p - d * q = (p - q) * d /\ p - q \in Int
    OBVIOUS
  <2>3. a = b + (p - q) * d
    BY <2>1, <2>2
  <2> QED
    BY Zenon, <2>2, <2>3
<1>4. ASSUME \E k \in Int : a = b + k * d PROVE a % d = b % d
  <2> PICK k \in Int : a = b + k * d
    BY <1>4
  <2> PICK p \in Int, q \in Int, r \in 0..(d - 1), t \in 0..(d - 1) :
        p = a \div d /\ q = b \div d /\ r = a % d /\ t = b % d
    BY Zenon, <1>1, <1>2
  <2>1. d * p + r = d * q + t + k * d
    BY <1>1, <1>2
  <2>2. PICK m \in Int : m = p - q - k
    BY ONLY p \in Int, q \in Int, k \in Int
  <2>3. d * m = d * p - d * q - k * d /\ d * m \in Int
    BY <2>2
  <2>4. d * m = t - r
    BY <2>1, <2>3
  <2>5. m = 0
    <3>1. ASSUME m >= 1 PROVE FALSE
      <4> PICK e \in Nat : m = e + 1
        BY <3>1
      <4>1. d * m = d * e + d /\ d * e \in Nat
        OBVIOUS
      <4> QED
        BY <2>4, <4>1
    <3>2. ASSUME m <= -1 PROVE FALSE
      <4> PICK e \in Nat : m = - e - 1
        BY <3>2
      <4>1. d * m = - (d * e) - d /\ d * e \in Nat
        OBVIOUS
      <4> QED
        BY <2>4, <4>1
    <3> QED
      BY <3>1, <3>2
  <2> QED
    BY <2>4, <2>5
<1> QED
  BY Zenon, <1>3, <1>4 DEF Equal, Mod

LEMMA EqualAdd ==
  ASSUME NEW a \in Int, NEW b \in Int, NEW c \in Int, NEW e \in Int, Equal(a, b), Equal(c, e)
  PROVE  Equal(a + c, b + e) /\ Equal(a - c, b - e)
<1> PICK d \in Nat : d = Prime
  BY ModFacts
<1> PICK k \in Int : a = b + k * d
  BY EqualIs
<1> PICK l \in Int : c = e + l * d
  BY EqualIs
<1>1. a + c = (b + e) + (k + l) * d /\ k + l \in Int
  OBVIOUS
<1>2. a - c = (b - e) + (k - l) * d /\ k - l \in Int
  OBVIOUS
<1>3. a + c \in Int /\ b + e \in Int /\ a - c \in Int /\ b - e \in Int
  OBVIOUS
<1> QED
  BY Zenon, <1>1, <1>2, <1>3, EqualIs

LEMMA EqualMul ==
  ASSUME NEW a \in Int, NEW b \in Int, NEW c \in Int, Equal(a, b)
  PROVE  Equal(a * c, b * c) /\ Equal(c * a, c * b)
<1> PICK d \in Nat : d = Prime
  BY ModFacts
<1> PICK k \in Int : a = b + k * d
  BY EqualIs
<1>1. a * c = b * c + (k * c) * d /\ k * c \in Int
  <2>1. (b + k * d) * c = b * c + (k * d) * c
    OBVIOUS
  <2>2. (k * d) * c = (k * c) * d
    OBVIOUS
  <2> QED
    BY <2>1, <2>2
<1>2. c * a = a * c /\ c * b = b * c
  OBVIOUS
<1>3. a * c \in Int /\ b * c \in Int
  OBVIOUS
<1> QED
  BY <1>1, <1>2, <1>3, EqualIs

LEMMA EqualOrder ==
  ASSUME NEW a \in Int, NEW b \in Int, NEW c \in Int
  PROVE  /\ Equal(a, a) /\ (Equal(a, b) => Equal(b, a))
         /\ Equal(a, b) /\ Equal(b, c) => Equal(a, c)
         /\ Equal(Mod(a), a) /\ Equal(a, Mod(a))
  BY ModFacts DEF Equal

-----------------------------------------------------------------------------
(* Sums and products modulo Prime, as operators.                           *)

Plus(a, b)  == Mod(a + b)
Times(a, b) == Mod(a * b)
Minus(a)    == Mod(Prime - a)

LEMMA PlusMod ==
  ASSUME NEW a \in Int, NEW b \in Int
  PROVE  /\ Plus(a, b) \in Residues /\ Plus(a, b) = Plus(b, a)
         /\ Plus(Mod(a), b) = Plus(a, b) /\ Plus(a, Mod(b)) = Plus(a, b)
         /\ Equal(Plus(a, b), a + b)
<1> PICK c \in Int, d \in Int, e \in Int : c = Mod(a) /\ d = Mod(b) /\ e = a + b
  BY ModFacts
<1>1. Equal(c, a) /\ Equal(d, b) /\ Equal(a, a) /\ Equal(b, b)
  BY EqualOrder
<1>2. Equal(c + b, a + b) /\ Equal(a + d, a + b)
  BY Zenon, <1>1, EqualAdd
<1>3. b + a = e
  OBVIOUS
<1>4. Mod(e) \in Residues /\ Equal(Mod(e), e)
  BY Zenon, ModFacts, EqualOrder
<1> QED
  BY <1>2, <1>3, <1>4 DEF Equal, Plus

LEMMA PlusAssociates ==
  ASSUME NEW a \in Int, NEW b \in Int, NEW c \in Int
  PROVE  Plus(Plus(a, b), c) = Plus(a, Plus(b, c))
<1> PICK p \in Int, q \in Int : p = a + b /\ q = b + c
  OBVIOUS
<1>1. Plus(a, b) = Mod(p) /\ Plus(b, c) = Mod(q)
  BY DEF Plus
<1>2. Plus(Mod(p), c) = Plus(p, c) /\ Plus(a, Mod(q)) = Plus(a, q)
  BY PlusMod
<1>3. p + c = a + q
  OBVIOUS
<1>4. Plus(p, c) = Plus(a, q)
  BY <1>3 DEF Plus
<1> QED
  BY <1>1, <1>2, <1>4

LEMMA TimesMod ==
  ASSUME NEW a \in Int, NEW b \in Int
  PROVE  /\ Times(a, b) \in Residues /\ Times(a, b) = Times(b, a)
         /\ Times(Mod(a), b) = Times(a, b) /\ Times(a, Mod(b)) = Times(a, b)
         /\ Equal(Times(a, b), a * b)
<1> PICK c \in Int, d \in Int, e \in Int : c = Mod(a) /\ d = Mod(b) /\ e = a * b
  BY ModFacts
<1>1. Equal(c, a) /\ Equal(d, b)
  BY EqualOrder
<1>2. Equal(c * b, a * b) /\ Equal(a * d, a * b)
  BY Zenon, <1>1, EqualMul
<1>3. b * a = e
  OBVIOUS
<1>4. Mod(e) \in Residues /\ Equal(Mod(e), e)
  BY Zenon, ModFacts, EqualOrder
<1> QED
  BY <1>2, <1>3, <1>4 DEF Equal, Times

LEMMA TimesAssociates ==
  ASSUME NEW a \in Int, NEW b \in Int, NEW c \in Int
  PROVE  Times(Times(a, b), c) = Times(a, Times(b, c))
<1> PICK p \in Int, q \in Int : p = a * b /\ q = b * c
  OBVIOUS
<1>1. Times(a, b) = Mod(p) /\ Times(b, c) = Mod(q)
  BY DEF Times
<1>2. Times(Mod(p), c) = Times(p, c) /\ Times(a, Mod(q)) = Times(a, q)
  BY TimesMod
<1>3. p * c = a * q
  OBVIOUS
<1>4. Times(p, c) = Times(a, q)
  BY <1>3 DEF Times
<1> QED
  BY <1>1, <1>2, <1>4

LEMMA Distributes ==
  ASSUME NEW a \in Int, NEW b \in Int, NEW c \in Int
  PROVE  Times(a, Plus(b, c)) = Plus(Times(a, b), Times(a, c))
<1> PICK p \in Int, q \in Int, r \in Int : p = b + c /\ q = a * b /\ r = a * c
  OBVIOUS
<1>1. Times(a, Mod(p)) = Times(a, p)
  BY TimesMod
<1>2. Plus(Mod(q), Mod(r)) = Plus(q, r)
  <2> PICK t \in Int : t = Mod(r)
    BY ModFacts
  <2>1. Plus(Mod(q), t) = Plus(q, t) /\ Plus(q, Mod(r)) = Plus(q, r)
    BY Zenon, PlusMod
  <2> QED
    BY <2>1
<1>3. a * p = q + r
  OBVIOUS
<1>4. Times(a, p) = Plus(q, r)
  BY <1>3 DEF Times, Plus
<1> QED
  BY <1>1, <1>2, <1>4 DEF Times, Plus

LEMMA UnitFacts ==
  ASSUME NEW a \in Residues
  PROVE  /\ a \in Int /\ Plus(0, a) = a /\ Plus(a, 0) = a
         /\ Times(0, a) = 0 /\ Times(a, 0) = 0 /\ Times(1, a) = a /\ Times(a, 1) = a
         /\ Minus(a) \in Residues /\ Plus(a, Minus(a)) = 0 /\ Minus(0) = 0
<1>1. a \in Int /\ Mod(a) = a /\ 0 \in Residues /\ Mod(0) = 0
  BY ModFacts
<1>2. 0 + a = a /\ a + 0 = a /\ 0 * a = 0 /\ a * 0 = 0 /\ 1 * a = a /\ a * 1 = a
  BY <1>1
<1> PICK d \in Int : d = Prime /\ d - 0 = d
  BY ModFacts
<1>3. Mod(d) = 0
  <2>1. d > 0
    BY ModFacts
  <2>2. d % d = 0
    <3>1. \A k \in Nat \ {0} : k % k = 0
      OBVIOUS
    <3> QED
      BY <2>1, <3>1
  <2> QED
    BY <2>2 DEF Mod
<1> PICK e \in Int : e = d - a
  BY <1>1
<1>4. Mod(e) \in Residues
  BY ModFacts
<1>5. Plus(a, Mod(e)) = Plus(a, e) /\ a + e = d
  BY <1>1, PlusMod
<1> QED
  BY <1>1, <1>2, <1>3, <1>4, <1>5 DEF Plus, Times, Minus

-----------------------------------------------------------------------------
(* Sums.                                                                   *)

(* What the recursion of Total computes.                                   *)
Sums(g, n, f) ==
  /\ g \in [0..n -> Residues] /\ g[0] = 0
  /\ \A i \in 0..(n - 1) : g[i + 1] = Plus(g[i], f[i])

Numbers(f, n) == \A i \in 0..(n - 1) : f[i] \in Int

LEMMA SumsExist ==
  ASSUME NEW n \in Nat, NEW f, Numbers(f, n)
  PROVE  \E g : Sums(g, n, f)
<1> DEFINE T == {k \in 0..n : \E g : Sums(g, k, f)}
<1>1. 0 \in T
  <2> PICK g : g = [i \in 0..0 |-> 0]
    BY Zenon
  <2>1. Sums(g, 0, f)
    BY ModFacts DEF Sums
  <2> QED
    BY <2>1
<1>2. ASSUME NEW i \in 0..(n - 1), i \in T PROVE i + 1 \in T
  <2> PICK g : Sums(g, i, f)
    BY <1>2
  <2> PICK h : h = [j \in 0..(i + 1) |-> IF j \in 0..i THEN g[j] ELSE Plus(g[i], f[i])]
    BY Zenon
  <2>1. Plus(g[i], f[i]) \in Residues
    <3>1. g[i] \in Int /\ f[i] \in Int
      BY ModFacts DEF Sums, Numbers, Residues
    <3> QED
      BY Zenon, <3>1, PlusMod
  <2>2. h \in [0..(i + 1) -> Residues] /\ h[0] = 0
    BY <2>1 DEF Sums
  <2>3. ASSUME NEW j \in 0..(i + 1 - 1) PROVE h[j + 1] = Plus(h[j], f[j])
    <3>1. CASE j = i
      BY <3>1
    <3>2. CASE j \in 0..(i - 1)
      BY <3>2 DEF Sums
    <3> QED
      BY <3>1, <3>2
  <2>4. Sums(h, i + 1, f)
    BY ONLY <2>2, <2>3 DEF Sums
  <2>5. i + 1 \in 0..n
    OBVIOUS
  <2> QED
    BY <2>4, <2>5
<1> HIDE DEF T
<1>3. n \in T
  BY <1>1, <1>2, Inductive
<1> QED
  BY <1>3 DEF T

LEMMA TotalIs ==
  ASSUME NEW n \in Nat, NEW f, Numbers(f, n), NEW g, Sums(g, n, f)
  PROVE  Total(n, f) = g[n]
<1> DEFINE Rec(s) == s = [i \in 0..n |-> IF i = 0 THEN 0 ELSE Plus(s[i - 1], f[i - 1])]
<1>1. Rec(g)
  <2> PICK h : h = [i \in 0..n |-> IF i = 0 THEN 0 ELSE Plus(g[i - 1], f[i - 1])]
    BY Zenon
  <2>1. ASSUME NEW i \in 0..n PROVE g[i] = h[i]
    <3>1. CASE i = 0
      BY <3>1 DEF Sums
    <3>2. CASE i # 0
      <4>1. i - 1 \in 0..(n - 1) /\ (i - 1) + 1 = i
        BY <3>2
      <4>2. g[(i - 1) + 1] = Plus(g[i - 1], f[i - 1])
        BY <4>1 DEF Sums
      <4> QED
        BY <3>2, <4>1, <4>2
    <3> QED
      BY <3>1, <3>2
  <2>2. g = h
    BY <2>1 DEF Sums
  <2> QED
    BY <2>2
<1>2. Total(n, f) = (CHOOSE s : Rec(s))[n]
  BY DEF Total, Plus
<1>3. PICK s : s = (CHOOSE q : Rec(q)) /\ Rec(s)
  BY <1>1
<1>4. ASSUME NEW i \in 0..n PROVE s[i] = IF i = 0 THEN 0 ELSE Plus(s[i - 1], f[i - 1])
  BY Zenon, <1>3
<1> DEFINE T == {i \in 0..n : s[i] = g[i]}
<1>5. 0 \in T
  BY <1>4 DEF Sums
<1>6. ASSUME NEW i \in 0..(n - 1), i \in T PROVE i + 1 \in T
  <2>1. s[i + 1] = Plus(s[i], f[i])
    <3>1. i + 1 \in 0..n /\ i + 1 # 0 /\ (i + 1) - 1 = i
      OBVIOUS
    <3> QED
      BY <1>4, <3>1
  <2>2. g[i + 1] = Plus(g[i], f[i])
    BY DEF Sums
  <2>3. s[i] = g[i]
    BY <1>6
  <2> QED
    BY <2>1, <2>2, <2>3
<1> HIDE DEF T
<1>7. n \in T
  BY <1>5, <1>6, Inductive
<1> QED
  BY <1>2, <1>3, <1>7 DEF T

LEMMA TotalType ==
  ASSUME NEW n \in Nat, NEW f, Numbers(f, n)
  PROVE  Total(n, f) \in Residues
<1> PICK g : Sums(g, n, f)
  BY SumsExist
<1>1. Total(n, f) = g[n] /\ n \in 0..n
  BY TotalIs
<1> QED
  BY <1>1 DEF Sums

LEMMA SameTotal ==
  ASSUME NEW n \in Nat, NEW f, NEW e, Numbers(f, n), \A i \in 0..(n - 1) : f[i] = e[i]
  PROVE  Total(n, f) = Total(n, e)
<1> PICK g : Sums(g, n, f)
  BY SumsExist
<1>1. Sums(g, n, e) /\ Numbers(e, n)
  BY DEF Sums, Numbers
<1> QED
  BY <1>1, TotalIs

LEMMA TotalZero ==
  ASSUME NEW n \in Nat, NEW f, \A i \in 0..(n - 1) : f[i] = 0
  PROVE  Total(n, f) = 0
<1> PICK g : g = [i \in 0..n |-> 0]
  BY Zenon
<1>1. Numbers(f, n)
  BY DEF Numbers
<1>2. Plus(0, 0) = 0
  BY ModFacts, UnitFacts
<1>4. \A i \in 0..(n - 1) : g[i + 1] = Plus(g[i], f[i])
  BY <1>2
<1>5. g \in [0..n -> Residues] /\ g[0] = 0
  BY ModFacts
<1>3. Sums(g, n, f)
  BY ONLY <1>4, <1>5 DEF Sums
<1> QED
  BY <1>1, <1>3, TotalIs

(* A sum is that of the first numbers and that of the others.              *)
LEMMA TotalSplit ==
  ASSUME NEW a \in Nat, NEW b \in Nat, NEW f, Numbers(f, a + b),
         NEW e, \A i \in 0..(b - 1) : e[i] = f[a + i]
  PROVE  /\ Numbers(f, a) /\ Numbers(e, b)
         /\ Total(a + b, f) = Plus(Total(a, f), Total(b, e))
<1>1. Numbers(f, a) /\ Numbers(e, b)
  <2>1. \A i \in 0..(a - 1) : i \in 0..(a + b - 1)
    OBVIOUS
  <2>2. \A i \in 0..(b - 1) : a + i \in 0..(a + b - 1)
    OBVIOUS
  <2> QED
    BY <2>1, <2>2 DEF Numbers
<1> PICK g : Sums(g, a + b, f)
  BY SumsExist
<1> PICK h : Sums(h, b, e)
  BY <1>1, SumsExist
<1> PICK p : p = [i \in 0..a |-> g[i]]
  BY Zenon
<1>2. Sums(p, a, f)
  BY DEF Sums
<1>3. Total(a, f) = g[a]
  BY <1>1, <1>2, TotalIs
<1> DEFINE T == {i \in 0..b : g[a + i] = Plus(g[a], h[i])}
<1>4. 0 \in T
  <2>1. g[a] \in Residues /\ h[0] = 0 /\ 0 \in 0..b /\ a + 0 = a
    BY DEF Sums
  <2>2. g[a] = Plus(g[a], 0)
    BY <2>1, UnitFacts
  <2> QED
    BY <2>1, <2>2
<1>5. ASSUME NEW i \in 0..(b - 1), i \in T PROVE i + 1 \in T
  <2> PICK x \in Int, y \in Int, z \in Int, w \in Int :
        x = g[a + i] /\ y = g[a] /\ z = h[i] /\ w = f[a + i]
    <3>1. g[a + i] \in Residues /\ g[a] \in Residues /\ h[i] \in Residues
      BY DEF Sums
    <3>2. f[a + i] \in Int
      BY DEF Numbers
    <3>3. \A r \in Residues : r \in Int
      BY ModFacts
    <3> QED
      BY ONLY <3>1, <3>2, <3>3
  <2>1. x = Plus(y, z)
    BY <1>5
  <2>2. g[a + (i + 1)] = Plus(x, w)
    <3>1. a + i \in 0..(a + b - 1) /\ (a + i) + 1 = a + (i + 1)
      OBVIOUS
    <3>2. \A j \in 0..(a + b - 1) : g[j + 1] = Plus(g[j], f[j])
      BY DEF Sums
    <3>3. g[(a + i) + 1] = Plus(g[a + i], f[a + i])
      BY <3>1, <3>2
    <3> QED
      BY <3>1, <3>3
  <2>3. h[i + 1] = Plus(z, w)
    BY DEF Sums
  <2>5. Plus(x, w) = Plus(y, Plus(z, w))
    BY <2>1, PlusAssociates
  <2>6. g[a + (i + 1)] = Plus(g[a], h[i + 1])
    BY ONLY <2>2, <2>3, <2>5, y = g[a], Zenon
  <2>7. i + 1 \in 0..b
    OBVIOUS
  <2> QED
    BY <2>6, <2>7
<1>6. b \in T
  <2> HIDE DEF T
  <2>1. \A i \in 0..(b - 1) : i \in T => i + 1 \in T
    BY <1>5
  <2>2. \A i \in 0..b : i \in T
    BY ONLY <1>4, <2>1, b \in Nat, Inductive
  <2> QED
    BY <2>2
<1>7. Total(a + b, f) = g[a + b] /\ Total(b, e) = h[b]
  BY <1>1, TotalIs
<1> QED
  BY <1>1, <1>3, <1>6, <1>7

-----------------------------------------------------------------------------
(* The matrices.                                                           *)

LEMMA ProductOfNats == ASSUME NEW a \in Nat, NEW b \in Nat PROVE a * b \in Nat
  OBVIOUS

LEMMA StoredType ==
  ASSUME NEW i \in Nat, NEW k \in Nat
  PROVE  /\ Stored(i, k) \in Residues \ {0} /\ OpB(i, k) \in Residues
         /\ InitialOut(i, k) \in Residues
<1> PICK d \in Nat : d = Prime - 1 /\ d > 0
  BY ModFacts
<1>1. \A a \in Nat : 1 + (a % d) \in 1..d
  BY ONLY d \in Nat, d > 0
<1> PICK a \in Nat : a = 3 * i + 5 * k + i * k
  BY ProductOfNats
<1> PICK b \in Nat : b = 7 * i + 2 * k + i * k
  BY ProductOfNats
<1> PICK c \in Nat : c = i + 4 * k + i * k
  BY ProductOfNats
<1>2. \A e \in 1..d : e \in 0..d /\ e # 0
  OBVIOUS
<1>3. /\ Stored(i, k) = 1 + (a % d) /\ OpB(i, k) = 1 + (b % d) /\ InitialOut(i, k) = 1 + (c % d)
  BY DEF Stored, OpB, InitialOut
<1> QED
  BY Zenon, <1>1, <1>2, <1>3 DEF Residues

LEMMA OpAType ==
  ASSUME NEW i \in Nat, NEW k \in Nat
  PROVE  OpA(i, k) \in Residues \ {0}
  BY StoredType DEF OpA

LEMMA AlongType ==
  ASSUME NEW t \in Nat, NEW s \in Nat
  PROVE  /\ Along(t, s) \in Residues /\ Along(t, t) \in Residues \ {0}
         /\ Along(t, s) \in Int
<1>1. TriangleA(t, s) \in Residues /\ TriangleA(s, t) \in Residues /\ TriangleA(t, t) \in Residues \ {0}
  BY OpAType, ModFacts DEF TriangleA
<1>2. \A r \in Residues : r \in Int
  BY ModFacts
<1> QED
  BY <1>1, <1>2 DEF Along

(* The triangle, as a matrix of places: above its diagonal there are zeros *)
(* if the second half gets the block, and below it otherwise.              *)
LEMMA AlongZero ==
  ASSUME NEW t \in Nat, NEW s \in Nat, problem.right \in BOOLEAN,
         problem.upper \in BOOLEAN, problem.trans \in BOOLEAN
  PROVE  /\ SecondGetsBlock <=> FromTop
         /\ SecondGetsBlock /\ t < s => Along(t, s) = 0
         /\ ~ SecondGetsBlock /\ t > s => Along(t, s) = 0
         /\ SecondGetsBlock /\ t > s => Along(t, s) = IF problem.right THEN OpA(s, t) ELSE OpA(t, s)
         /\ ~ SecondGetsBlock /\ t < s => Along(t, s) = IF problem.right THEN OpA(s, t) ELSE OpA(t, s)
<1>1. PositionUpper \in BOOLEAN
  BY DEF PositionUpper
<1>2. SecondGetsBlock <=> FromTop
  BY DEF SecondGetsBlock, FromTop
<1>3. SecondGetsBlock <=> (PositionUpper <=> problem.right)
  BY <1>1 DEF SecondGetsBlock
<1>4. t < s => t # s /\ ~ (t > s) /\ s > t /\ ~ (s < t)
  OBVIOUS
<1>5. t > s => t # s /\ ~ (t < s) /\ s < t /\ ~ (s > t)
  OBVIOUS
<1> HIDE DEF PositionUpper
<1> QED
  BY <1>1, <1>2, <1>3, <1>4, <1>5 DEF Along, TriangleA

LEMMA ReciprocalIs ==
  ASSUME NEW a \in Residues \ {0}
  PROVE  Reciprocal(a) \in 1..(Prime - 1) /\ Mod(a * Reciprocal(a)) = 1
<1>1. a \in 1..(Prime - 1)
  BY ModFacts DEF Residues
<1>2. PICK b \in 1..(Prime - 1) : Mod(a * b) = 1
  BY Zenon, <1>1, CallAssumption DEF Invertible
<1> QED
  BY <1>2, Zenon DEF Reciprocal

-----------------------------------------------------------------------------
(* A product of a row of the triangle, from place o on, with a line.       *)
Terms(t, v, o, n) == [i \in 0..(n - 1) |-> Along(t, o + i) * v[o + i]]
Dot(t, v, o, n)   == Total(n, Terms(t, v, o, n))

IsLine(v, n) == \A i \in 0..(n - 1) : v[i] \in Residues

LEMMA DotTerms ==
  ASSUME NEW t \in Nat, NEW o \in Nat, NEW n \in Nat, NEW e \in Nat, o + n <= e, NEW v, IsLine(v, e)
  PROVE  /\ Numbers(Terms(t, v, o, n), n)
         /\ Dot(t, v, o, n) \in Residues /\ Dot(t, v, o, n) \in Int
<1> PICK f : f = Terms(t, v, o, n)
  OBVIOUS
<1>1. ASSUME NEW i \in 0..(n - 1) PROVE f[i] \in Int
  <2>1. o + i \in 0..(e - 1) /\ o + i \in Nat
    OBVIOUS
  <2>5. v[o + i] \in Residues
    BY <2>1 DEF IsLine
  <2>2. v[o + i] \in Int
    BY <2>5, ModFacts
  <2>3. Along(t, o + i) \in Int
    BY <2>1, AlongType
  <2> PICK a \in Int, b \in Int : a = Along(t, o + i) /\ b = v[o + i]
    BY <2>2, <2>3
  <2>4. f[i] = a * b
    BY DEF Terms
  <2> QED
    BY <2>4
<1>2. Numbers(f, n)
  BY <1>1 DEF Numbers
<1>3. Total(n, f) \in Residues
  BY <1>2, TotalType
<1> QED
  BY <1>2, <1>3, ModFacts DEF Dot

LEMMA DotSplit ==
  ASSUME NEW t \in Nat, NEW o \in Nat, NEW a \in Nat, NEW b \in Nat, NEW e \in Nat, o + a + b <= e,
         NEW v, IsLine(v, e)
  PROVE  Dot(t, v, o, a + b) = Plus(Dot(t, v, o, a), Dot(t, v, o + a, b))
<1> PICK n \in Nat, p \in Nat : n = a + b /\ p = o + a
  OBVIOUS
<1> PICK f : f = Terms(t, v, o, n)
  OBVIOUS
<1> PICK g : g = Terms(t, v, p, b)
  OBVIOUS
<1> PICK h : h = Terms(t, v, o, a)
  OBVIOUS
<1>1. Numbers(f, n) /\ Numbers(h, a)
  <2>1. o + n <= e /\ o + a <= e
    OBVIOUS
  <2>2. Numbers(Terms(t, v, o, n), n)
    BY <2>1, DotTerms
  <2>3. Numbers(Terms(t, v, o, a), a)
    BY <2>1, DotTerms
  <2> QED
    BY <2>2, <2>3
<1>2. \A i \in 0..(b - 1) : g[i] = f[a + i]
  <2> SUFFICES ASSUME NEW i \in 0..(b - 1) PROVE g[i] = f[a + i]
    OBVIOUS
  <2>1. a + i \in 0..(n - 1) /\ o + (a + i) = p + i
    OBVIOUS
  <2>2. f[a + i] = Along(t, o + (a + i)) * v[o + (a + i)]
    BY <2>1 DEF Terms
  <2>3. g[i] = Along(t, p + i) * v[p + i]
    BY DEF Terms
  <2> QED
    BY <2>1, <2>2, <2>3
<1>3. Total(a + b, f) = Plus(Total(a, f), Total(b, g))
  <2>1. Numbers(f, a + b)
    BY <1>1
  <2> QED
    BY ONLY <2>1, <1>2, a \in Nat, b \in Nat, TotalSplit
<1>4. Total(a, h) = Total(a, f)
  <2>1. \A i \in 0..(a - 1) : h[i] = f[i]
    <3> SUFFICES ASSUME NEW i \in 0..(a - 1) PROVE h[i] = f[i]
      OBVIOUS
    <3>1. i \in 0..(n - 1)
      OBVIOUS
    <3> QED
      BY <3>1 DEF Terms
  <2> QED
    BY ONLY <1>1, <2>1, a \in Nat, SameTotal
<1>5. /\ Dot(t, v, o, n) = Total(n, f) /\ Dot(t, v, o, a) = Total(a, h)
      /\ Dot(t, v, p, b) = Total(b, g)
  BY DEF Dot
<1> QED
  BY <1>3, <1>4, <1>5

LEMMA DotZero ==
  ASSUME NEW t \in Nat, NEW o \in Nat, NEW n \in Nat, NEW e \in Nat, o + n <= e, NEW v, IsLine(v, e),
         \A i \in 0..(n - 1) : Along(t, o + i) = 0
  PROVE  Dot(t, v, o, n) = 0
<1> PICK f : f = Terms(t, v, o, n)
  OBVIOUS
<1>1. ASSUME NEW i \in 0..(n - 1) PROVE f[i] = 0
  <2>1. f[i] = Along(t, o + i) * v[o + i] /\ Along(t, o + i) = 0
    BY Zenon DEF Terms
  <2>2. o + i \in 0..(e - 1)
    OBVIOUS
  <2>3. v[o + i] \in Residues
    BY <2>2 DEF IsLine
  <2> PICK b \in Int : b = v[o + i]
    BY <2>3, ModFacts
  <2> QED
    BY <2>1
<1>2. Dot(t, v, o, n) = Total(n, f)
  BY DEF Dot
<1>3. Total(n, f) = 0
  BY ONLY <1>1, n \in Nat, TotalZero
<1> QED
  BY <1>2, <1>3

LEMMA DotSame ==
  ASSUME NEW t \in Nat, NEW o \in Nat, NEW n \in Nat, NEW e \in Nat, o + n <= e,
         NEW v, IsLine(v, e), NEW w, \A i \in o..(o + n - 1) : v[i] = w[i]
  PROVE  Dot(t, v, o, n) = Dot(t, w, o, n)
<1> PICK f : f = Terms(t, v, o, n)
  OBVIOUS
<1> PICK g : g = Terms(t, w, o, n)
  OBVIOUS
<1>1. ASSUME NEW i \in 0..(n - 1) PROVE f[i] = g[i]
  <2>1. o + i \in o..(o + n - 1)
    OBVIOUS
  <2>2. v[o + i] = w[o + i]
    BY <2>1
  <2> QED
    BY <2>2 DEF Terms
<1>2. Dot(t, v, o, n) = Total(n, f) /\ Dot(t, w, o, n) = Total(n, g)
  BY DEF Dot
<1>3. Numbers(f, n)
  BY DotTerms
<1>4. Total(n, f) = Total(n, g)
  BY ONLY <1>1, <1>3, n \in Nat, SameTotal
<1> QED
  BY <1>2, <1>4

LEMMA TotalOne ==
  ASSUME NEW f, f[0] \in Int
  PROVE  Total(1, f) = Mod(f[0])
<1>1. Numbers(f, 1)
  BY DEF Numbers
<1> PICK g : Sums(g, 1, f)
  BY <1>1, SumsExist
<1>2. Total(1, f) = g[1]
  BY <1>1, TotalIs
<1>3. g[0 + 1] = Plus(g[0], f[0]) /\ g[0] = 0
  BY DEF Sums
<1> PICK a \in Int : a = f[0]
  OBVIOUS
<1>4. 0 + a = a
  OBVIOUS
<1> QED
  BY <1>2, <1>3, <1>4 DEF Plus

(* The order of the terms of a sum may be turned around.                   *)
LEMMA TotalReverse ==
  ASSUME NEW n \in Nat, NEW f, Numbers(f, n), NEW g, \A i \in 0..(n - 1) : g[i] = f[n - 1 - i]
  PROVE  Total(n, f) = Total(n, g)
<1> DEFINE Back(k) == [i \in 0..(k - 1) |-> f[k - 1 - i]]
           T == {k \in 0..n : Total(k, f) = Total(k, Back(k))}
<1>0. ASSUME NEW k \in 0..n PROVE Numbers(f, k) /\ Numbers(Back(k), k)
  <2>1. \A i \in 0..(k - 1) : i \in 0..(n - 1) /\ k - 1 - i \in 0..(n - 1)
    OBVIOUS
  <2> QED
    BY <2>1 DEF Numbers
<1>1. 0 \in T
  <2> PICK e : e = Back(0)
    OBVIOUS
  <2>1. Total(0, f) = 0 /\ Total(0, e) = 0
    BY ONLY TotalZero
  <2> QED
    BY <2>1
<1>2. ASSUME NEW k \in 0..(n - 1), k \in T PROVE k + 1 \in T
  <2> PICK e : e = Back(k + 1)
    BY Zenon
  <2> PICK b : b = Back(k)
    BY Zenon
  <2>1. Numbers(f, k + 1) /\ Numbers(e, k + 1) /\ Numbers(b, k) /\ k \in 0..n /\ k + 1 \in 0..n /\ k \in Nat
    <3>1. k \in 0..n /\ k + 1 \in 0..n /\ k \in Nat
      OBVIOUS
    <3>2. Numbers(f, k + 1) /\ Numbers(Back(k + 1), k + 1)
      BY <1>0, <3>1, Zenon
    <3>3. Numbers(Back(k), k)
      BY <1>0, <3>1, Zenon
    <3> QED
      BY <3>1, <3>2, <3>3, Zenon
  <2>2. \A i \in 0..k : e[i] = f[k - i]
    <3>1. \A i \in 0..k : (k + 1) - 1 - i = k - i /\ (k + 1) - 1 = k
      OBVIOUS
    <3> QED
      BY <3>1
  <2>3. \A i \in 0..(k - 1) : b[i] = e[1 + i]
    <3> SUFFICES ASSUME NEW i \in 0..(k - 1) PROVE b[i] = e[1 + i]
      OBVIOUS
    <3>1. 1 + i \in 0..k /\ k - (1 + i) = k - 1 - i
      OBVIOUS
    <3>2. b[i] = f[k - 1 - i]
      OBVIOUS
    <3> QED
      BY <2>2, <3>1, <3>2
  <2> PICK h : h = [i \in 0..0 |-> f[k + i]]
    BY Zenon
  <2>4. Total(k + 1, f) = Plus(Total(k, f), Total(1, h))
    <3>1. \A i \in 0..(1 - 1) : h[i] = f[k + i]
      OBVIOUS
    <3> QED
      BY ONLY <2>1, <3>1, 1 \in Nat, TotalSplit
  <2>5. Total(1 + k, e) = Plus(Total(1, e), Total(k, b))
    <3>1. Numbers(e, 1 + k)
      <4>1. 1 + k = k + 1
        OBVIOUS
      <4> QED
        BY <2>1, <4>1
    <3> QED
      BY ONLY <2>1, <2>3, <3>1, 1 \in Nat, TotalSplit
  <2>6. Total(1, h) = Mod(f[k]) /\ Total(1, e) = Mod(f[k])
    <3>1. f[k] \in Int
      BY <2>1 DEF Numbers
    <3>2. h[0] = f[k] /\ e[0] = f[k]
      <4>1. k + 0 = k /\ k - 0 = k /\ 0 \in 0..k
        OBVIOUS
      <4> QED
        BY <2>2, <4>1
    <3> QED
      BY ONLY <3>1, <3>2, TotalOne
  <2>7. Total(k, f) = Total(k, b)
    BY <1>2
  <2>8. Total(k, f) \in Int /\ Mod(f[k]) \in Int
    <3>1. Total(k, f) \in Residues /\ f[k] \in Int
      BY <1>0, <2>1, TotalType DEF Numbers
    <3> QED
      BY <3>1, ModFacts
  <2>9. Total(k + 1, f) = Total(k + 1, e)
    <3> PICK x \in Int, y \in Int : x = Total(k, f) /\ y = Mod(f[k])
      BY <2>8
    <3>1. Plus(x, y) = Plus(y, x)
      BY PlusMod
    <3>2. 1 + k = k + 1
      OBVIOUS
    <3> QED
      BY <2>4, <2>5, <2>6, <2>7, <3>1, <3>2
  <2> QED
    BY <2>1, <2>9
<1>3. n \in T
  <2> HIDE DEF T
  <2>1. \A i \in 0..(n - 1) : i \in T => i + 1 \in T
    BY <1>2
  <2>2. \A i \in 0..n : i \in T
    BY ONLY <1>1, <2>1, n \in Nat, Inductive
  <2> QED
    BY <2>2
<1>4. Total(n, f) = Total(n, Back(n))
  BY <1>3
<1> PICK b : b = Back(n)
  BY Zenon
<1>5. Numbers(b, n) /\ \A i \in 0..(n - 1) : b[i] = g[i]
  BY <1>0
<1>6. Total(n, b) = Total(n, g)
  BY ONLY <1>5, n \in Nat, SameTotal
<1> QED
  BY <1>4, <1>6

-----------------------------------------------------------------------------
(* TRMM on a line: the halves one after another, with the block between    *)
(* them, give what the whole gives.                                        *)

(* A half of length n from place o; and the product with the block.        *)
Multiplied(v, w, a, o, n, e) ==
  \A t \in 0..(e - 1) : w[t] = IF t \in o..(o + n - 1) THEN Times(a, Dot(t, v, o, n)) ELSE v[t]
Added(v, w, a, o, n, from, len, e) ==
  \A t \in 0..(e - 1) :
    w[t] = IF t \in o..(o + n - 1) THEN Plus(Times(a, Dot(t, v, from, len)), v[t]) ELSE v[t]

Shape == problem.right \in BOOLEAN /\ problem.upper \in BOOLEAN /\ problem.trans \in BOOLEAN

LEMMA LineKept ==
  ASSUME NEW e \in Nat, NEW v, IsLine(v, e), NEW w, NEW a \in Residues,
         NEW o \in Nat, NEW n \in Nat, o + n <= e, NEW from \in Nat, NEW len \in Nat, from + len <= e,
         Multiplied(v, w, a, o, n, e) \/ Added(v, w, a, o, n, from, len, e)
  PROVE  IsLine(w, e)
<1> SUFFICES ASSUME NEW t \in 0..(e - 1) PROVE w[t] \in Residues
  BY DEF IsLine
<1>1. v[t] \in Residues /\ v[t] \in Int /\ a \in Int
  BY ModFacts DEF IsLine
<1>2. Dot(t, v, o, n) \in Int /\ Dot(t, v, from, len) \in Int
  BY DotTerms
<1>3. Times(a, Dot(t, v, o, n)) \in Residues /\ Times(a, Dot(t, v, from, len)) \in Residues
  BY Zenon, <1>1, <1>2, TimesMod
<1>4. Plus(Times(a, Dot(t, v, from, len)), v[t]) \in Residues
  <2>1. Times(a, Dot(t, v, from, len)) \in Int
    BY <1>3, ModFacts
  <2> QED
    BY Zenon, <1>1, <2>1, PlusMod
<1> QED
  BY <1>1, <1>3, <1>4 DEF Multiplied, Added

LEMMA TrmmLine ==
  ASSUME Shape, NEW a \in Residues, NEW h \in Nat, NEW k \in Nat, NEW e, e = h + k,
         NEW v, IsLine(v, e), NEW w, NEW x, NEW y,
         IF SecondGetsBlock
         THEN /\ Multiplied(v, w, a, h, k, e) /\ Added(w, x, a, h, k, 0, h, e)
              /\ Multiplied(x, y, a, 0, h, e)
         ELSE /\ Multiplied(v, w, a, 0, h, e) /\ Added(w, x, a, 0, h, h, k, e)
              /\ Multiplied(x, y, a, h, k, e)
  PROVE  Multiplied(v, y, a, 0, e, e)
<1>0. e \in Nat /\ h + k <= e /\ 0 + h <= e /\ 0 + e <= e /\ h + k = e /\ 0 + h = h /\ 0 + e = e
      /\ h \in 0..e /\ h <= e
  OBVIOUS
<1>1. IsLine(w, e)
  BY <1>0, LineKept
<1>2. IsLine(x, e)
  BY <1>0, <1>1, LineKept
<1> SUFFICES ASSUME NEW t \in 0..(e - 1) PROVE y[t] = Times(a, Dot(t, v, 0, e))
  BY DEF Multiplied
<1>3. t \in Nat /\ (t \in 0..(h - 1) \/ t \in h..(e - 1))
      /\ ~ (t \in 0..(h - 1) /\ t \in h..(e - 1))
  BY <1>0
<1>4. Dot(t, v, 0, e) = Plus(Dot(t, v, 0, h), Dot(t, v, h, k))
  BY <1>0, DotSplit
<1>5. /\ Dot(t, v, 0, h) \in Residues /\ Dot(t, v, h, k) \in Residues
      /\ Dot(t, v, 0, h) \in Int /\ Dot(t, v, h, k) \in Int /\ a \in Int
  <2>1. Dot(t, v, 0, h) \in Residues /\ Dot(t, v, 0, h) \in Int
    BY ONLY <1>0, <1>3, h \in Nat, 0 \in Nat, IsLine(v, e), DotTerms
  <2>2. Dot(t, v, h, k) \in Residues /\ Dot(t, v, h, k) \in Int
    BY ONLY <1>0, <1>3, h \in Nat, k \in Nat, IsLine(v, e), DotTerms
  <2> QED
    BY <2>1, <2>2, ModFacts
<1> PICK p \in Residues, q \in Residues : p = Dot(t, v, 0, h) /\ q = Dot(t, v, h, k)
  BY <1>5
<1>6. p \in Int /\ q \in Int /\ Plus(p, 0) = p /\ Plus(0, q) = q
  BY ModFacts, UnitFacts
<1>7. CASE SecondGetsBlock
  <2>1. /\ Multiplied(v, w, a, h, k, e) /\ Added(w, x, a, h, k, 0, h, e)
        /\ Multiplied(x, y, a, 0, h, e)
    BY <1>7
  <2>2. CASE t \in 0..(h - 1)
    <3>1. ASSUME NEW i \in 0..(k - 1) PROVE Along(t, h + i) = 0
      <4>1. h + i \in Nat /\ t < h + i
        BY <2>2
      <4> QED
        BY <1>3, <1>7, <4>1, AlongZero DEF Shape
    <3>2. q = 0
      <4>1. \A i \in 0..(k - 1) : Along(t, h + i) = 0
        BY <3>1
      <4>2. t \in Nat /\ h + k <= e /\ e \in Nat
        BY <1>0, <1>3
      <4>3. Dot(t, v, h, k) = 0
        BY ONLY <4>1, <4>2, h \in Nat, k \in Nat, IsLine(v, e), DotZero, Zenon
      <4> QED
        BY <4>3
    <3>3. \A i \in 0..(0 + h - 1) : v[i] = x[i]
      <4> SUFFICES ASSUME NEW i \in 0..(h - 1) PROVE v[i] = x[i]
        BY <1>0
      <4>1. i \in 0..(e - 1) /\ i \notin h..(h + k - 1)
        BY <1>0
      <4> QED
        BY <2>1, <4>1 DEF Multiplied, Added
    <3>4. Dot(t, v, 0, h) = Dot(t, x, 0, h)
      BY <1>0, <1>3, <3>3, DotSame
    <3>5. y[t] = Times(a, Dot(t, x, 0, h))
      BY <1>0, <2>1, <2>2 DEF Multiplied
    <3> QED
      BY <1>4, <1>6, <3>2, <3>4, <3>5
  <2>3. CASE t \in h..(e - 1)
    <3>1. w[t] = Times(a, q)
      BY <1>0, <2>1, <2>3 DEF Multiplied
    <3>2. x[t] = Plus(Times(a, Dot(t, w, 0, h)), w[t])
      BY <1>0, <2>1, <2>3 DEF Added
    <3>3. y[t] = x[t]
      BY <1>0, <1>3, <2>1, <2>3 DEF Multiplied
    <3>4. \A i \in 0..(0 + h - 1) : v[i] = w[i]
      <4> SUFFICES ASSUME NEW i \in 0..(h - 1) PROVE v[i] = w[i]
        BY <1>0
      <4>1. i \in 0..(e - 1) /\ i \notin h..(h + k - 1)
        BY <1>0
      <4> QED
        BY <2>1, <4>1 DEF Multiplied
    <3>5. p = Dot(t, w, 0, h)
      BY <1>0, <1>3, <3>4, DotSame
    <3>6. Times(a, Plus(p, q)) = Plus(Times(a, p), Times(a, q))
      BY <1>5, <1>6, Distributes
    <3> QED
      BY <1>4, <3>1, <3>2, <3>3, <3>5, <3>6
  <2> QED
    BY <1>3, <2>2, <2>3
<1>8. CASE ~ SecondGetsBlock
  <2>1. /\ Multiplied(v, w, a, 0, h, e) /\ Added(w, x, a, 0, h, h, k, e)
        /\ Multiplied(x, y, a, h, k, e)
    BY <1>8
  <2>2. CASE t \in h..(e - 1)
    <3>1. ASSUME NEW i \in 0..(h - 1) PROVE Along(t, 0 + i) = 0
      <4>1. 0 + i \in Nat /\ t > 0 + i
        BY <2>2
      <4> QED
        BY <1>3, <1>8, <4>1, AlongZero DEF Shape
    <3>2. p = 0
      BY <1>0, <1>3, <3>1, DotZero
    <3>3. \A i \in h..(h + k - 1) : v[i] = x[i]
      <4> SUFFICES ASSUME NEW i \in h..(e - 1) PROVE v[i] = x[i]
        BY <1>0
      <4>1. i \in 0..(e - 1) /\ i \notin 0..(0 + h - 1)
        BY <1>0
      <4> QED
        BY <2>1, <4>1 DEF Multiplied, Added
    <3>4. Dot(t, v, h, k) = Dot(t, x, h, k)
      BY <1>0, <1>3, <3>3, DotSame
    <3>5. y[t] = Times(a, Dot(t, x, h, k))
      BY <1>0, <2>1, <2>2 DEF Multiplied
    <3> QED
      BY <1>4, <1>6, <3>2, <3>4, <3>5
  <2>3. CASE t \in 0..(h - 1)
    <3>1. w[t] = Times(a, p)
      BY <1>0, <2>1, <2>3 DEF Multiplied
    <3>2. x[t] = Plus(Times(a, Dot(t, w, h, k)), w[t])
      BY <1>0, <2>1, <2>3 DEF Added
    <3>3. y[t] = x[t]
      BY <1>0, <1>3, <2>1, <2>3 DEF Multiplied
    <3>4. \A i \in h..(h + k - 1) : v[i] = w[i]
      <4> SUFFICES ASSUME NEW i \in h..(e - 1) PROVE v[i] = w[i]
        BY <1>0
      <4>1. i \in 0..(e - 1) /\ i \notin 0..(0 + h - 1)
        BY <1>0
      <4> QED
        BY <2>1, <4>1 DEF Multiplied
    <3>5. q = Dot(t, w, h, k)
      BY <1>0, <1>3, <3>4, DotSame
    <3>6. Times(a, Plus(p, q)) = Plus(Times(a, q), Times(a, p))
      <4> PICK r \in Residues, s \in Residues : r = Times(a, p) /\ s = Times(a, q)
        BY Zenon, <1>5, <1>6, TimesMod
      <4>1. Times(a, Plus(p, q)) = Plus(r, s)
        BY <1>5, <1>6, Distributes
      <4>3. r \in Int /\ s \in Int
        BY ModFacts
      <4>2. Plus(r, s) = Plus(s, r)
        BY <4>3, PlusMod
      <4> QED
        BY <4>1, <4>2
    <3> QED
      BY <1>4, <3>1, <3>2, <3>3, <3>5, <3>6
  <2> QED
    BY <1>3, <2>2, <2>3
<1> QED
  BY <1>7, <1>8

-----------------------------------------------------------------------------
(* A line of TRSM: a column of the result, or a row on the right side.     *)
(* The solution is what satisfies its equations place by place, and there  *)
(* is only one.                                                            *)

(* A line of TRSM: what is solved before place i is known.                 *)
Knowns(x, t, i, o, n) == [k \in 0..(i - 1) |-> Along(t, SolvedAt(k, o, n)) * x[k]]
Known(x, t, i, o, n)  == Total(i, Knowns(x, t, i, o, n))
Value(a, b, known, t) == Mod((a * b + Prime - known) * Reciprocal(Along(t, t)))

SolvedUpTo(x, v, a, o, n, k) ==
  /\ x \in [0..(k - 1) -> Residues]
  /\ \A i \in 0..(k - 1) :
       x[i] = Value(a, v[SolvedAt(i, o, n)], Known(x, SolvedAt(i, o, n), i, o, n), SolvedAt(i, o, n))
IsSolved(x, v, a, o, n) == SolvedUpTo(x, v, a, o, n, n)

LEMMA SolvedAtType ==
  ASSUME NEW o \in Nat, NEW n \in Nat, NEW i \in 0..(n - 1)
  PROVE  SolvedAt(i, o, n) \in o..(o + n - 1) /\ SolvedAt(i, o, n) \in Nat
  BY DEF SolvedAt

LEMMA KnownType ==
  ASSUME NEW o \in Nat, NEW n \in Nat, NEW i \in 0..n, NEW t \in Nat, NEW x, IsLine(x, i)
  PROVE  Numbers(Knowns(x, t, i, o, n), i) /\ Known(x, t, i, o, n) \in Residues
<1> PICK f : f = Knowns(x, t, i, o, n)
  OBVIOUS
<1>1. ASSUME NEW k \in 0..(i - 1) PROVE f[k] \in Int
  <2>1. SolvedAt(k, o, n) \in Nat /\ x[k] \in Residues
    BY SolvedAtType DEF IsLine
  <2>2. Along(t, SolvedAt(k, o, n)) \in Int /\ x[k] \in Int
    <3>1. Along(t, SolvedAt(k, o, n)) \in Int
      BY <2>1, AlongType
    <3> QED
      BY <2>1, <3>1, ModFacts
  <2> PICK c \in Int, d \in Int : c = Along(t, SolvedAt(k, o, n)) /\ d = x[k]
    BY <2>2
  <2>3. f[k] = c * d
    BY DEF Knowns
  <2> QED
    BY <2>3
<1>2. Numbers(f, i)
  BY <1>1 DEF Numbers
<1>3. Total(i, f) \in Residues
  BY <1>2, TotalType
<1> QED
  BY <1>2, <1>3 DEF Known

Agree(x, o, n, y, p, m, i) ==
  \A k \in 0..(i - 1) : x[k] = y[k] /\ SolvedAt(k, o, n) = SolvedAt(k, p, m)

LEMMA KnownSame ==
  ASSUME NEW o \in Nat, NEW n \in Nat, NEW i \in 0..n, NEW t \in Nat, NEW x, IsLine(x, i),
         NEW p \in Nat, NEW m \in Nat, NEW y, Agree(x, o, n, y, p, m, i)
  PROVE  Known(x, t, i, o, n) = Known(y, t, i, p, m)
<1> PICK f : f = Knowns(x, t, i, o, n)
  OBVIOUS
<1> PICK g : g = Knowns(y, t, i, p, m)
  OBVIOUS
<1>1. \A k \in 0..(i - 1) : f[k] = g[k]
  BY DEF Knowns, Agree
<1>2. Numbers(f, i)
  BY KnownType
<1>3. Total(i, f) = Total(i, g)
  BY ONLY <1>1, <1>2, i \in 0..n, n \in Nat, SameTotal
<1> QED
  BY <1>3 DEF Known

LEMMA ValueType ==
  ASSUME NEW a \in Residues, NEW b \in Residues, NEW known \in Residues, NEW t \in Nat
  PROVE  Value(a, b, known, t) \in Residues
<1>1. a \in Int /\ b \in Int /\ known \in Int /\ Prime \in Int
  BY ModFacts
<1>2. Reciprocal(Along(t, t)) \in Int
  <2>1. Reciprocal(Along(t, t)) \in 1..(Prime - 1)
    BY AlongType, ReciprocalIs
  <2> QED
    BY <1>1, <2>1
<1> PICK r \in Int, d \in Int : r = Reciprocal(Along(t, t)) /\ d = Prime
  BY <1>1, <1>2
<1>3. (a * b + d - known) * r \in Int
  BY <1>1
<1> QED
  BY <1>3, ModFacts DEF Value

LEMMA SolutionExists ==
  ASSUME NEW a \in Residues, NEW o \in Nat, NEW n \in Nat, NEW e \in Nat, o + n <= e,
         NEW v, IsLine(v, e)
  PROVE  \E x : IsSolved(x, v, a, o, n)
<1> DEFINE T == {k \in 0..n : \E x : SolvedUpTo(x, v, a, o, n, k)}
<1>1. 0 \in T
  <2> PICK x : x = [i \in 0..(0 - 1) |-> 0]
    OBVIOUS
  <2>1. SolvedUpTo(x, v, a, o, n, 0)
    BY DEF SolvedUpTo
  <2> QED
    BY <2>1
<1>2. ASSUME NEW k \in 0..(n - 1), k \in T PROVE k + 1 \in T
  <2> PICK x : SolvedUpTo(x, v, a, o, n, k)
    BY <1>2
  <2> PICK t : t = SolvedAt(k, o, n)
    OBVIOUS
  <2> PICK z : z = Value(a, v[t], Known(x, t, k, o, n), t)
    OBVIOUS
  <2> PICK y : y = [i \in 0..k |-> IF i \in 0..(k - 1) THEN x[i] ELSE z]
    BY Zenon
  <2>1. IsLine(x, k)
    BY DEF SolvedUpTo, IsLine
  <2>2. t \in Nat /\ v[t] \in Residues
    <3>1. t \in o..(o + n - 1)
      BY SolvedAtType
    <3>2. t \in 0..(e - 1)
      BY <3>1
    <3> QED
      BY <3>2 DEF IsLine
  <2>3. z \in Residues
    <3>1. Known(x, t, k, o, n) \in Residues
      BY <2>1, <2>2, KnownType
    <3> QED
      BY Zenon, <2>2, <3>1, ValueType
  <2>4. y \in [0..(k + 1 - 1) -> Residues]
    <3>1. k + 1 - 1 = k
      OBVIOUS
    <3> QED
      BY <2>3, <3>1 DEF SolvedUpTo
  <2>5. ASSUME NEW i \in 0..(k + 1 - 1)
        PROVE  y[i] = Value(a, v[SolvedAt(i, o, n)], Known(y, SolvedAt(i, o, n), i, o, n), SolvedAt(i, o, n))
    <3> PICK u : u = SolvedAt(i, o, n)
      OBVIOUS
    <3>1. i \in 0..k /\ i \in 0..(n - 1) /\ i \in 0..n
      OBVIOUS
    <3>2. u \in Nat
      BY <3>1, SolvedAtType
    <3>3. IsLine(x, i)
      BY <2>1, <3>1 DEF IsLine
    <3>4. Agree(x, o, n, y, o, n, i)
      BY <3>1 DEF Agree
    <3>5. Known(x, u, i, o, n) = Known(y, u, i, o, n)
      BY ONLY <3>1, <3>2, <3>3, <3>4, o \in Nat, n \in Nat, KnownSame
    <3>6. y[i] = Value(a, v[u], Known(x, u, i, o, n), u)
      <4>1. CASE i = k
        BY <3>1, <4>1
      <4>2. CASE i \in 0..(k - 1)
        BY <3>1, <4>2 DEF SolvedUpTo
      <4> QED
        BY <3>1, <4>1, <4>2
    <3> QED
      BY <3>5, <3>6
  <2>6. SolvedUpTo(y, v, a, o, n, k + 1)
    BY ONLY <2>4, <2>5 DEF SolvedUpTo
  <2>7. k + 1 \in 0..n
    OBVIOUS
  <2> QED
    BY <2>6, <2>7
<1>3. n \in T
  <2> HIDE DEF T
  <2>1. \A i \in 0..(n - 1) : i \in T => i + 1 \in T
    BY <1>2
  <2>2. \A i \in 0..n : i \in T
    BY ONLY <1>1, <2>1, n \in Nat, Inductive
  <2> QED
    BY <2>2
<1> QED
  BY <1>3 DEF IsSolved

(* Whatever satisfies the recursion is the same.                           *)
LEMMA SolutionUnique ==
  ASSUME NEW o \in Nat, NEW n \in Nat, NEW a, NEW v, NEW x, IsSolved(x, v, a, o, n),
         NEW p \in Nat, NEW y,
         \A i \in 0..(n - 1) :
           y[i] = Value(a, v[SolvedAt(i, o, n)], Known(y, SolvedAt(i, o, n), i, o, n), SolvedAt(i, o, n))
  PROVE  \A i \in 0..(n - 1) : x[i] = y[i]
<1> DEFINE T == {k \in 0..n : \A i \in 0..(k - 1) : x[i] = y[i]}
<1>1. 0 \in T
  OBVIOUS
<1>2. ASSUME NEW k \in 0..(n - 1), k \in T PROVE k + 1 \in T
  <2>1. \A i \in 0..(k - 1) : x[i] = y[i]
    BY <1>2
  <2> PICK t : t = SolvedAt(k, o, n)
    OBVIOUS
  <2>2. t \in Nat /\ k \in 0..n
    BY SolvedAtType
  <2>3. IsLine(x, k)
    BY DEF IsSolved, SolvedUpTo, IsLine
  <2>4. Agree(x, o, n, y, o, n, k)
    BY <2>1 DEF Agree
  <2>5. Known(x, t, k, o, n) = Known(y, t, k, o, n)
    BY ONLY <2>2, <2>3, <2>4, o \in Nat, n \in Nat, KnownSame
  <2>6. x[k] = Value(a, v[t], Known(x, t, k, o, n), t)
    BY DEF IsSolved, SolvedUpTo
  <2>7. y[k] = Value(a, v[t], Known(y, t, k, o, n), t)
    OBVIOUS
  <2>8. x[k] = y[k]
    BY <2>5, <2>6, <2>7
  <2>9. k + 1 \in 0..n /\ \A i \in 0..(k + 1 - 1) : i = k \/ i \in 0..(k - 1)
    OBVIOUS
  <2> QED
    BY <2>1, <2>8, <2>9
<1>3. n \in T
  <2> HIDE DEF T
  <2>1. \A i \in 0..(n - 1) : i \in T => i + 1 \in T
    BY <1>2
  <2>2. \A i \in 0..n : i \in T
    BY ONLY <1>1, <2>1, n \in Nat, Inductive
  <2> QED
    BY <2>2
<1> QED
  BY <1>3

(* The kernel computes it.                                                 *)
LEMMA SolutionIs ==
  ASSUME NEW a \in Residues, NEW o \in Nat, NEW n \in Nat, NEW e \in Nat, o + n <= e,
         NEW m, NEW l, NEW v, IsLine(v, e), \A t \in 0..(e - 1) : v[t] = m[Cell(t, l)]
  PROVE  IsSolved(Solution(a, m, l, o, n), v, a, o, n)
<1> DEFINE Right(x, i) == Value(a, m[Cell(SolvedAt(i, o, n), l)],
                                Known(x, SolvedAt(i, o, n), i, o, n), SolvedAt(i, o, n))
           Rec(x) == x = [i \in 0..(n - 1) |-> Right(x, i)]
<1> PICK z : IsSolved(z, v, a, o, n)
  BY SolutionExists
<1>1. \A i \in 0..(n - 1) : v[SolvedAt(i, o, n)] = m[Cell(SolvedAt(i, o, n), l)]
  <2> SUFFICES ASSUME NEW i \in 0..(n - 1)
               PROVE  v[SolvedAt(i, o, n)] = m[Cell(SolvedAt(i, o, n), l)]
    OBVIOUS
  <2>1. SolvedAt(i, o, n) \in o..(o + n - 1)
    BY SolvedAtType
  <2>2. SolvedAt(i, o, n) \in 0..(e - 1)
    BY <2>1
  <2> QED
    BY <2>2
<1>2. Rec(z)
  <2> HIDE DEF Right
  <2>1. ASSUME NEW i \in 0..(n - 1) PROVE z[i] = Right(z, i)
    BY <1>1 DEF IsSolved, SolvedUpTo, Right
  <2>2. DOMAIN z = 0..(n - 1) /\ z = [i \in DOMAIN z |-> z[i]]
    BY DEF IsSolved, SolvedUpTo
  <2> QED
    BY <2>1, <2>2
<1>3. Solution(a, m, l, o, n) = (CHOOSE x : Rec(x))
  BY DEF Solution, Value, Known, Knowns
<1> PICK s : s = (CHOOSE x : Rec(x)) /\ Rec(s)
  BY <1>2
<1>4. \A i \in 0..(n - 1) : s[i] = Right(s, i)
  <2> HIDE DEF Right
  <2> QED
    OBVIOUS
<1>5. \A i \in 0..(n - 1) :
        s[i] = Value(a, v[SolvedAt(i, o, n)], Known(s, SolvedAt(i, o, n), i, o, n), SolvedAt(i, o, n))
  BY <1>1, <1>4
<1>6. \A i \in 0..(n - 1) : z[i] = s[i]
  BY <1>5, SolutionUnique
<1>7. s = z
  <2> HIDE DEF Right
  <2>1. DOMAIN z = 0..(n - 1) /\ z = [i \in DOMAIN z |-> z[i]]
    BY DEF IsSolved, SolvedUpTo
  <2> QED
    BY Zenon, <1>6, <2>1
<1> QED
  BY Zenon, <1>3, <1>7

(* The block moves what it knows from one side of the equation to the      *)
(* other one; that is why it is multiplied by minus one by alpha.          *)
Undoing(g, a) == IF a = 0 THEN g = 0 ELSE g = Prime - Reciprocal(a)

LEMMA UndoingType ==
  ASSUME NEW a \in Residues, NEW g, Undoing(g, a)
  PROVE  g \in Residues /\ g \in Int /\ (a # 0 => Equal(a * g, -1))
<1>1. CASE a = 0
  BY <1>1, ModFacts DEF Undoing
<1>2. CASE a # 0
  <2>1. Reciprocal(a) \in 1..(Prime - 1) /\ Mod(a * Reciprocal(a)) = 1
    BY <1>2, ReciprocalIs
  <2> PICK r \in Int, d \in Nat : r = Reciprocal(a) /\ d = Prime /\ r \in 1..(d - 1)
    BY <2>1, ModFacts
  <2>2. g = d - r
    BY <1>2 DEF Undoing
  <2>3. g \in 0..(d - 1) /\ g \in Int
    BY <2>2
  <2>4. a \in Int /\ 1 \in Residues /\ Mod(1) = 1
    BY ModFacts DEF Residues
  <2>5. Equal(a * r, 1)
    BY <2>1, <2>4 DEF Equal
  <2> PICK p \in Int : p = a * r
    BY <2>4
  <2>6. a * g = a * d - p
    BY <2>2, <2>4
  <2>7. Equal(a * d, 0)
    <3>1. a * d = 0 + a * d /\ a * d \in Int
      BY <2>4
    <3> QED
      BY <2>4, <3>1, EqualIs
  <2>8. Equal(a * d - p, 0 - 1)
    <3> PICK q \in Int : q = a * d
      BY <2>4
    <3> QED
      BY <2>5, <2>7, EqualAdd
  <2>9. 0 - 1 = -1
    OBVIOUS
  <2> QED
    BY <1>2, <2>3, <2>6, <2>8, <2>9 DEF Residues
<1> QED
  BY <1>1, <1>2

LEMMA ValueMoved ==
  ASSUME NEW a \in Residues, NEW g, Undoing(g, a), NEW b \in Residues, NEW k \in Residues,
         NEW j \in Residues, a = 0 => k = 0, NEW t \in Nat
  PROVE  Value(a, Plus(Times(g, k), b), j, t) = Value(a, b, Plus(k, j), t)
<1>1. a \in Int /\ b \in Int /\ k \in Int /\ j \in Int /\ g \in Int /\ Prime \in Int
  BY UndoingType, ModFacts
<1> PICK d \in Int : d = Prime
  BY <1>1
<1> PICK r \in Int : r = Reciprocal(Along(t, t))
  <2>1. Reciprocal(Along(t, t)) \in 1..(Prime - 1)
    BY AlongType, ReciprocalIs
  <2> QED
    BY <1>1, <2>1
<1> PICK y \in Int : y = Times(g, k)
  <2>1. Times(g, k) \in Residues
    BY <1>1, TimesMod
  <2> QED
    BY <2>1, ModFacts
<1> PICK z \in Int : z = Plus(y, b)
  <2>1. Plus(y, b) \in Residues
    BY <1>1, PlusMod
  <2> QED
    BY <2>1, ModFacts
<1> PICK w \in Int : w = Plus(k, j)
  <2>1. Plus(k, j) \in Residues
    BY <1>1, PlusMod
  <2> QED
    BY <2>1, ModFacts
<1>2. Equal(a * y, 0 - k)
  <2> PICK gk \in Int : gk = g * k
    BY <1>1
  <2>1. Equal(y, gk)
    BY <1>1, TimesMod
  <2>2. Equal(a * y, a * gk)
    BY Zenon, <1>1, <2>1, EqualMul
  <2>3. Equal(a * gk, 0 - k)
    <3>1. CASE a = 0
      <4>2. k = 0
        BY <3>1
      <4>3. \A q \in Int : 0 * q = 0
        OBVIOUS
      <4>1. a * gk = 0 /\ 0 - k = 0
        BY ONLY <1>1, <3>1, <4>2, <4>3, gk \in Int
      <4> QED
        BY <4>1 DEF Equal
    <3>2. CASE a # 0
      <4> PICK ag \in Int : ag = a * g
        BY <1>1
      <4>1. Equal(ag, -1)
        BY <3>2, UndoingType
      <4>2. Equal(ag * k, (-1) * k)
        <5> PICK c \in Int : c = -1
          OBVIOUS
        <5>1. Equal(ag, c)
          BY <4>1
        <5>2. Equal(ag * k, c * k)
          BY ONLY Zenon, <5>1, <1>1, ag \in Int, c \in Int, EqualMul
        <5> QED
          BY <5>2
      <4>3. ag * k = a * gk
        BY <1>1
      <4>4. (-1) * k = 0 - k
        BY <1>1
      <4> QED
        BY <4>2, <4>3, <4>4
    <3> QED
      BY <3>1, <3>2
  <2> PICK p \in Int, q \in Int, s \in Int : p = a * y /\ q = a * gk /\ s = 0 - k
    BY <1>1
  <2>4. Equal(p, q) /\ Equal(q, s)
    BY <2>2, <2>3
  <2>5. Equal(p, s)
    BY <2>4, EqualOrder
  <2> QED
    BY <2>5
<1>3. Equal(a * z, a * b - k)
  <2> PICK p \in Int, q \in Int, s \in Int, u \in Int :
        p = a * z /\ q = a * (y + b) /\ s = a * y /\ u = a * b
    BY <1>1
  <2>1. Equal(z, y + b)
    BY <1>1, PlusMod
  <2>2. Equal(p, q)
    <3> PICK c \in Int : c = y + b
      BY <1>1
    <3> QED
      BY <1>1, <2>1, EqualMul
  <2>3. q = s + u
    BY <1>1
  <2>4. Equal(s + u, 0 - k + u)
    <3> PICK c \in Int : c = 0 - k
      BY <1>1
    <3>1. Equal(s, c) /\ Equal(u, u)
      BY <1>2, EqualOrder
    <3> QED
      BY <3>1, EqualAdd
  <2> PICK c \in Int : c = 0 - k + u
    BY <1>1
  <2>5. Equal(p, q) /\ Equal(q, c)
    BY <2>2, <2>3, <2>4
  <2>6. Equal(p, c)
    BY <2>5, EqualOrder
  <2>7. c = u - k
    BY <1>1
  <2> QED
    BY <2>6, <2>7
<1>4. Equal(a * z + d - j, a * b + d - w)
  <2> PICK p \in Int, u \in Int : p = a * z /\ u = a * b
    BY <1>1
  <2> PICK q \in Int, s \in Int : q = u - k /\ s = d - j
    BY <1>1
  <2>1. Equal(p + s, q + s)
    <3>1. Equal(p, q) /\ Equal(s, s)
      BY <1>3, EqualOrder
    <3> QED
      BY <3>1, EqualAdd
  <2>2. Equal(u + d - w, u + d - (k + j))
    <3> PICK c \in Int, e \in Int : c = u + d /\ e = k + j
      BY <1>1
    <3>1. Equal(w, e) /\ Equal(c, c)
      BY Zenon, <1>1, PlusMod, EqualOrder
    <3>2. Equal(c - w, c - e)
      BY <3>1, EqualAdd
    <3> QED
      BY <3>2
  <2> PICK c \in Int, e \in Int, f \in Int : c = p + s /\ e = q + s /\ f = u + d - w
    OBVIOUS
  <2>3. u + d - (k + j) = e
    BY <1>1
  <2>4. Equal(c, e) /\ Equal(f, e)
    BY <2>1, <2>2, <2>3
  <2>5. Equal(e, f)
    BY <2>4, EqualOrder
  <2>6. Equal(c, f)
    BY <2>4, <2>5, EqualOrder
  <2>7. c = p + d - j
    BY <1>1
  <2> QED
    BY <2>6, <2>7
<1>5. Mod((a * z + d - j) * r) = Mod((a * b + d - w) * r)
  <2> PICK p \in Int, q \in Int : p = a * z + d - j /\ q = a * b + d - w
    BY <1>1
  <2>1. Equal(p * r, q * r)
    BY <1>4, EqualMul
  <2> QED
    BY <2>1 DEF Equal
<1> QED
  BY <1>5 DEF Value

-----------------------------------------------------------------------------
(* Halves of a line: to multiply, or to solve, one half, to add the        *)
(* product of the block and the other half, and then to multiply, or to    *)
(* solve, the other half gives the same as to do the whole at once.        *)

(* The place at which row t is solved.                                     *)
Placed(t, o, n) == IF FromTop THEN t - o ELSE o + n - 1 - t

Solves(v, w, a, o, n, e) ==
  \E x : /\ IsSolved(x, v, a, o, n)
         /\ \A t \in 0..(e - 1) : w[t] = IF t \in o..(o + n - 1) THEN x[Placed(t, o, n)] ELSE v[t]

LEMMA PlacedWithin ==
  ASSUME NEW o \in Nat, NEW n \in Nat
  PROVE  /\ \A t \in o..(o + n - 1) : Placed(t, o, n) \in 0..(n - 1) /\ SolvedAt(Placed(t, o, n), o, n) = t
         /\ \A i \in 0..(n - 1) : Placed(SolvedAt(i, o, n), o, n) = i /\ SolvedAt(i, o, n) \in o..(o + n - 1)
<1>1. CASE FromTop
  BY <1>1 DEF Placed, SolvedAt
<1>2. CASE ~ FromTop
  BY <1>2 DEF Placed, SolvedAt
<1> QED
  BY <1>1, <1>2

LEMMA SolvedLine ==
  ASSUME NEW e \in Nat, NEW v, IsLine(v, e), NEW w, NEW a, NEW o \in Nat, NEW n \in Nat, o + n <= e,
         Solves(v, w, a, o, n, e)
  PROVE  IsLine(w, e)
<1> SUFFICES ASSUME NEW t \in 0..(e - 1) PROVE w[t] \in Residues
  BY DEF IsLine
<1> PICK x : /\ IsSolved(x, v, a, o, n)
             /\ \A u \in 0..(e - 1) : w[u] = IF u \in o..(o + n - 1) THEN x[Placed(u, o, n)] ELSE v[u]
  BY DEF Solves
<1>1. t \in o..(o + n - 1) => x[Placed(t, o, n)] \in Residues
  BY Zenon, PlacedWithin DEF IsSolved, SolvedUpTo
<1> QED
  BY <1>1 DEF IsLine

(* With alpha zero everything is zero.                                     *)
LEMMA SolvedZero ==
  ASSUME NEW o \in Nat, NEW n \in Nat, NEW e \in Nat, o + n <= e, NEW v, IsLine(v, e),
         NEW x, IsSolved(x, v, 0, o, n)
  PROVE  \A i \in 0..(n - 1) : x[i] = 0
<1> DEFINE T == {k \in 0..n : \A i \in 0..(k - 1) : x[i] = 0}
<1>1. 0 \in T
  OBVIOUS
<1>2. ASSUME NEW k \in 0..(n - 1), k \in T PROVE k + 1 \in T
  <2>1. \A i \in 0..(k - 1) : x[i] = 0
    BY <1>2
  <2> PICK t : t = SolvedAt(k, o, n)
    OBVIOUS
  <2>2. t \in o..(o + n - 1) /\ t \in Nat /\ t \in 0..(e - 1)
    BY SolvedAtType
  <2> PICK f : f = Knowns(x, t, k, o, n)
    OBVIOUS
  <2>3. ASSUME NEW i \in 0..(k - 1) PROVE f[i] = 0
    <3>1. SolvedAt(i, o, n) \in Nat
      <4>1. i \in 0..(n - 1)
        OBVIOUS
      <4> QED
        BY Zenon, <4>1, SolvedAtType
    <3>2. Along(t, SolvedAt(i, o, n)) \in Int
      BY <2>2, <3>1, AlongType
    <3>3. f[i] = Along(t, SolvedAt(i, o, n)) * x[i] /\ x[i] = 0
      BY <2>1 DEF Knowns
    <3> QED
      BY <3>2, <3>3
  <2>4. Known(x, t, k, o, n) = 0
    <3>1. Total(k, f) = 0
      BY ONLY <2>3, k \in 0..(n - 1), TotalZero
    <3> QED
      BY <3>1 DEF Known
  <2> PICK r \in Int : r = Reciprocal(Along(t, t))
    <3>1. Reciprocal(Along(t, t)) \in 1..(Prime - 1)
      BY <2>2, AlongType, ReciprocalIs
    <3> QED
      BY <3>1, ModFacts
  <2> PICK b \in Int : b = v[t]
    <3>1. v[t] \in Residues
      BY <2>2 DEF IsLine
    <3> QED
      BY <3>1, ModFacts
  <2> PICK d \in Int : d = Prime
    BY ModFacts
  <2>5. x[k] = Mod((0 * b + d - 0) * r)
    <3>1. x[k] = Value(0, v[t], Known(x, t, k, o, n), t)
      BY DEF IsSolved, SolvedUpTo
    <3> QED
      BY <2>4, <3>1 DEF Value
  <2>6. (0 * b + d - 0) * r = 0 + r * d
    OBVIOUS
  <2> PICK p \in Int : p = r * d
    OBVIOUS
  <2>7. Equal(0 + p, 0)
    <3>1. 0 + p = 0 + r * d /\ 0 + p \in Int
      OBVIOUS
    <3> QED
      BY <3>1, EqualIs
  <2>8. x[k] = 0
    <3>1. Mod(0) = 0
      BY ModFacts
    <3> QED
      BY <2>5, <2>6, <2>7, <3>1 DEF Equal
  <2>9. k + 1 \in 0..n /\ \A i \in 0..(k + 1 - 1) : i = k \/ i \in 0..(k - 1)
    OBVIOUS
  <2> QED
    BY <2>1, <2>8, <2>9
<1>3. n \in T
  <2> HIDE DEF T
  <2>1. \A i \in 0..(n - 1) : i \in T => i + 1 \in T
    BY <1>2
  <2>2. \A i \in 0..n : i \in T
    BY ONLY <1>1, <2>1, n \in Nat, Inductive
  <2> QED
    BY <2>2
<1> QED
  BY <1>3

SolvedIn(w, x, o, p) == \A u \in o..(o + p - 1) : w[u] = x[Placed(u, o, p)]
Joined(z, x, p, y, i) ==
  (\A j \in 0..(p - 1) : z[j] = x[j]) /\ (\A j \in 0..(i - 1) : z[p + j] = y[j])
HalvesAt(o1, o2, p, q) == IF FromTop THEN o1 = 0 /\ o2 = p ELSE o1 = q /\ o2 = 0

(* The product with the block is what the first half contributes.          *)
LEMMA BlockKnown ==
  ASSUME NEW e \in Nat, NEW o \in Nat, NEW p \in Nat, o + p <= e, NEW w, IsLine(w, e),
         NEW x, x \in [0..(p - 1) -> Residues],
         SolvedIn(w, x, o, p), NEW t \in Nat
  PROVE  Dot(t, w, o, p) = Known(x, t, p, o, p)
<1> PICK f : f = Terms(t, w, o, p)
  OBVIOUS
<1> PICK g : g = Knowns(x, t, p, o, p)
  OBVIOUS
<1>1. Numbers(f, p)
  BY DotTerms
<1>2. ASSUME NEW i \in 0..(p - 1) PROVE o + i \in o..(o + p - 1) /\ f[i] = Along(t, o + i) * x[Placed(o + i, o, p)]
  <2>1. o + i \in o..(o + p - 1)
    OBVIOUS
  <2>2. w[o + i] = x[Placed(o + i, o, p)]
    BY <2>1 DEF SolvedIn
  <2> QED
    BY <2>1, <2>2 DEF Terms
<1>3. CASE FromTop
  <2>1. ASSUME NEW i \in 0..(p - 1) PROVE f[i] = g[i]
    <3>1. Placed(o + i, o, p) = i /\ SolvedAt(i, o, p) = o + i
      BY <1>3 DEF Placed, SolvedAt
    <3> QED
      BY <1>2, <3>1 DEF Knowns
  <2>2. Total(p, f) = Total(p, g)
    BY ONLY <1>1, <2>1, p \in Nat, SameTotal
  <2> QED
    BY <2>2 DEF Dot, Known
<1>4. CASE ~ FromTop
  <2>1. ASSUME NEW i \in 0..(p - 1) PROVE g[i] = f[p - 1 - i]
    <3> PICK j \in 0..(p - 1) : j = p - 1 - i
      OBVIOUS
    <3>1. Placed(o + j, o, p) = i /\ SolvedAt(i, o, p) = o + j
      BY <1>4 DEF Placed, SolvedAt
    <3>2. f[j] = Along(t, o + j) * x[i]
      BY Zenon, <1>2, <3>1
    <3>3. g[i] = Along(t, o + j) * x[i]
      BY <3>1 DEF Knowns
    <3> QED
      BY <3>2, <3>3
  <2>2. Total(p, f) = Total(p, g)
    BY ONLY <1>1, <2>1, p \in Nat, TotalReverse
  <2> QED
    BY <2>2 DEF Dot, Known
<1> QED
  BY <1>3, <1>4

LEMMA KnownSplit ==
  ASSUME NEW p \in Nat, NEW q \in Nat, NEW e, e = p + q, NEW o1 \in Nat, NEW o2 \in Nat,
         HalvesAt(o1, o2, p, q),
         NEW i \in 0..q, NEW x, IsLine(x, p), NEW y, IsLine(y, i),
         NEW z, Joined(z, x, p, y, i), NEW t \in Nat
  PROVE  Known(z, t, p + i, 0, e) = Plus(Known(x, t, p, o1, p), Known(y, t, i, o2, q))
<1> PICK f : f = Knowns(z, t, p + i, 0, e)
  OBVIOUS
<1> PICK g : g = Knowns(x, t, p, o1, p)
  OBVIOUS
<1> PICK h : h = Knowns(y, t, i, o2, q)
  OBVIOUS
<1>0. (\A j \in 0..(p - 1) : z[j] = x[j]) /\ (\A j \in 0..(i - 1) : z[p + j] = y[j])
  BY DEF Joined
<1>1. ASSUME NEW j \in 0..(p - 1) PROVE f[j] = g[j]
  <2>1. SolvedAt(j, 0, e) = SolvedAt(j, o1, p)
    BY DEF SolvedAt, HalvesAt
  <2>2. j \in 0..(p + i - 1)
    OBVIOUS
  <2> QED
    BY <1>0, <2>1, <2>2 DEF Knowns
<1>2. ASSUME NEW j \in 0..(i - 1) PROVE h[j] = f[p + j]
  <2>1. SolvedAt(p + j, 0, e) = SolvedAt(j, o2, q)
    BY DEF SolvedAt, HalvesAt
  <2>2. p + j \in 0..(p + i - 1)
    OBVIOUS
  <2> QED
    BY <1>0, <2>1, <2>2 DEF Knowns
<1>3. IsLine(z, p + i)
  <2> SUFFICES ASSUME NEW j \in 0..(p + i - 1) PROVE z[j] \in Residues
    BY DEF IsLine
  <2>1. CASE j \in 0..(p - 1)
    BY <1>0, <2>1 DEF IsLine
  <2>2. CASE j \notin 0..(p - 1)
    <3> PICK k \in 0..(i - 1) : k = j - p /\ p + k = j
      BY <2>2
    <3> QED
      BY <1>0 DEF IsLine
  <2> QED
    BY <2>1, <2>2
<1>4. Numbers(f, p + i)
  <2>1. e \in Nat /\ p + i \in 0..e
    OBVIOUS
  <2> QED
    BY <1>3, <2>1, KnownType
<1>5. Total(p + i, f) = Plus(Total(p, f), Total(i, h))
  BY ONLY <1>2, <1>4, p \in Nat, i \in 0..q, q \in Nat, TotalSplit
<1>6. Total(p, g) = Total(p, f)
  <2>1. Numbers(g, p)
    <3>1. p \in 0..p
      OBVIOUS
    <3> QED
      BY <3>1, KnownType
  <2>2. \A j \in 0..(p - 1) : g[j] = f[j]
    BY <1>1
  <2> QED
    BY ONLY <2>1, <2>2, p \in Nat, SameTotal
<1> QED
  BY <1>5, <1>6 DEF Known

(* One half solved, the other one changed by the block, and solved.        *)
LEMMA TrsmHalves ==
  ASSUME NEW a \in Residues, NEW g, Undoing(g, a), NEW p \in Nat, NEW q \in Nat, NEW e, e = p + q,
         NEW o1 \in Nat, NEW o2 \in Nat, HalvesAt(o1, o2, p, q),
         NEW v, IsLine(v, e), NEW w, Solves(v, w, a, o1, p, e),
         NEW x, Added(w, x, g, o2, q, o1, p, e), NEW y, Solves(x, y, a, o2, q, e)
  PROVE  Solves(v, y, a, 0, e, e)
<1>0. /\ e \in Nat /\ o1 + p <= e /\ o2 + q <= e
      /\ \A t \in 0..(e - 1) : t \in Nat /\ (t \in o1..(o1 + p - 1) <=> t \notin o2..(o2 + q - 1))
      /\ \A t \in o1..(o1 + p - 1) : t \in 0..(e - 1)
      /\ \A t \in o2..(o2 + q - 1) : t \in 0..(e - 1)
  BY DEF HalvesAt
<1>20. e \in Nat /\ o1 + p <= e
  BY <1>0
<1>1. IsLine(w, e)
  BY ONLY <1>0, p \in Nat, o1 \in Nat, IsLine(v, e), Solves(v, w, a, o1, p, e), SolvedLine
<1>2. IsLine(x, e)
  BY <1>0, <1>1, UndoingType, LineKept
<1> PICK r : /\ IsSolved(r, v, a, o1, p)
             /\ \A t \in 0..(e - 1) : w[t] = IF t \in o1..(o1 + p - 1) THEN r[Placed(t, o1, p)] ELSE v[t]
  BY DEF Solves
<1> PICK s : /\ IsSolved(s, x, a, o2, q)
             /\ \A t \in 0..(e - 1) : y[t] = IF t \in o2..(o2 + q - 1) THEN s[Placed(t, o2, q)] ELSE x[t]
  BY DEF Solves
<1>3. r \in [0..(p - 1) -> Residues] /\ s \in [0..(q - 1) -> Residues]
  BY DEF IsSolved, SolvedUpTo
<1> PICK z : z = [i \in 0..(e - 1) |-> IF i < p THEN r[i] ELSE s[i - p]]
  BY Zenon
<1>4. /\ z \in [0..(e - 1) -> Residues]
      /\ \A i \in 0..(p - 1) : z[i] = r[i] /\ i \in 0..(e - 1)
      /\ \A i \in 0..(q - 1) : z[p + i] = s[i] /\ p + i \in 0..(e - 1)
      /\ \A i \in 0..(e - 1) : i \in 0..(p - 1) \/ \E j \in 0..(q - 1) : i = p + j
  <2>1. \A i \in 0..(e - 1) : i \in 0..(p - 1) \/ (i - p \in 0..(q - 1) /\ i = p + (i - p) /\ ~ (i < p))
    OBVIOUS
  <2>2. \A i \in 0..(q - 1) : p + i \in 0..(e - 1) /\ ~ (p + i < p) /\ (p + i) - p = i
    OBVIOUS
  <2>3. \A i \in 0..(p - 1) : i \in 0..(e - 1) /\ i < p
    OBVIOUS
  <2>4. z \in [0..(e - 1) -> Residues]
    <3> SUFFICES ASSUME NEW i \in 0..(e - 1) PROVE z[i] \in Residues
      OBVIOUS
    <3> QED
      BY <1>3, <2>1, <2>3
  <2>5. \A i \in 0..(q - 1) : z[p + i] = s[i]
    BY Zenon, <2>2
  <2>6. \A i \in 0..(p - 1) : z[i] = r[i]
    BY <2>3
  <2> QED
    BY <2>1, <2>2, <2>3, <2>4, <2>5, <2>6
<1>5. /\ \A i \in 0..(p - 1) : SolvedAt(i, 0, e) = SolvedAt(i, o1, p)
      /\ \A i \in 0..(q - 1) : SolvedAt(p + i, 0, e) = SolvedAt(i, o2, q)
  <2>1. CASE FromTop
    BY <2>1 DEF SolvedAt, HalvesAt
  <2>2. CASE ~ FromTop
    BY <2>2 DEF SolvedAt, HalvesAt
  <2> QED
    BY <2>1, <2>2
<1>6. IsLine(r, p) /\ \A i \in 0..q : IsLine(s, i)
  <2>1. \A i \in 0..q : \A j \in 0..(i - 1) : j \in 0..(q - 1)
    OBVIOUS
  <2> QED
    BY Zenon, <1>3, <2>1 DEF IsLine
<1>7. ASSUME NEW i \in 0..(p - 1)
      PROVE  z[i] = Value(a, v[SolvedAt(i, 0, e)], Known(z, SolvedAt(i, 0, e), i, 0, e), SolvedAt(i, 0, e))
  <2> PICK t : t = SolvedAt(i, o1, p)
    OBVIOUS
  <2>1. t \in Nat /\ t = SolvedAt(i, 0, e)
    BY <1>5, SolvedAtType
  <2>2. r[i] = Value(a, v[t], Known(r, t, i, o1, p), t)
    BY DEF IsSolved, SolvedUpTo
  <2>3. Known(r, t, i, o1, p) = Known(z, t, i, 0, e)
    <3>1. IsLine(r, i) /\ i \in 0..p
      BY <1>6 DEF IsLine
    <3>2. Agree(r, o1, p, z, 0, e, i)
      <4>1. \A k \in 0..(i - 1) : k \in 0..(p - 1)
        OBVIOUS
      <4> QED
        BY <1>4, <1>5, <4>1 DEF Agree
    <3> QED
      <4>1. t \in Nat
        BY <2>1
      <4> QED
        BY ONLY <1>20, <4>1, <3>1, <3>2, o1 \in Nat, p \in Nat, 0 \in Nat, KnownSame
  <2> QED
    BY <1>4, <2>1, <2>2, <2>3
<1>8. a = 0 => \A i \in 0..(p - 1) : r[i] = 0
  BY <1>0, SolvedZero
<1>9. ASSUME NEW i \in 0..(q - 1)
      PROVE  z[p + i] = Value(a, v[SolvedAt(p + i, 0, e)], Known(z, SolvedAt(p + i, 0, e), p + i, 0, e),
                              SolvedAt(p + i, 0, e))
  <2> PICK t : t = SolvedAt(i, o2, q)
    OBVIOUS
  <2>1. t \in o2..(o2 + q - 1) /\ t \in Nat /\ t \in 0..(e - 1) /\ t = SolvedAt(p + i, 0, e)
    BY <1>0, <1>5, SolvedAtType
  <2> PICK k, j : k = Known(r, t, p, o1, p) /\ j = Known(s, t, i, o2, q)
    OBVIOUS
  <2>2. s[i] = Value(a, x[t], j, t)
    BY DEF IsSolved, SolvedUpTo
  <2>3. x[t] = Plus(Times(g, Dot(t, w, o1, p)), w[t])
    BY <2>1 DEF Added
  <2>4. w[t] = v[t] /\ v[t] \in Residues
    BY <1>0, <2>1 DEF IsLine
  <2>5. Dot(t, w, o1, p) = k
    <3>1. SolvedIn(w, r, o1, p)
      BY <1>0 DEF SolvedIn
    <3> QED
      <4>1. Dot(t, w, o1, p) = Known(r, t, p, o1, p)
        <5>1. t \in Nat
          BY <2>1
        <5> QED
          BY ONLY <1>20, <1>1, <1>3, <5>1, <3>1, o1 \in Nat, p \in Nat, BlockKnown
      <4> QED
        BY <4>1
  <2>6. Known(z, t, p + i, 0, e) = Plus(k, j)
    <3>1. i \in 0..q /\ IsLine(s, i)
      BY <1>6
    <3>2. Joined(z, r, p, s, i)
      BY <1>4 DEF Joined
    <3>4. Known(z, t, p + i, 0, e) = Plus(Known(r, t, p, o1, p), Known(s, t, i, o2, q))
      <4>1. t \in Nat /\ IsLine(r, p)
        BY <1>6, <2>1
      <4> QED
        BY ONLY <4>1, <3>1, <3>2, p \in Nat, q \in Nat, e = p + q, o1 \in Nat, o2 \in Nat,
                HalvesAt(o1, o2, p, q), KnownSplit
    <3> QED
      BY <3>4
  <2>7. k \in Residues /\ j \in Residues
    <3>1. p \in 0..p /\ i \in 0..q /\ IsLine(s, i)
      BY <1>6
    <3> QED
      BY Zenon, <1>6, <2>1, <3>1, KnownType
  <2>8. a = 0 => k = 0
    <3> SUFFICES ASSUME a = 0 PROVE k = 0
      OBVIOUS
    <3> PICK f : f = Knowns(r, t, p, o1, p)
      OBVIOUS
    <3>1. ASSUME NEW l \in 0..(p - 1) PROVE f[l] = 0
      <4>1. SolvedAt(l, o1, p) \in Nat
        BY Zenon, SolvedAtType
      <4>2. Along(t, SolvedAt(l, o1, p)) \in Int
        BY <2>1, <4>1, AlongType
      <4>3. f[l] = Along(t, SolvedAt(l, o1, p)) * r[l] /\ r[l] = 0
        BY <1>8 DEF Knowns
      <4> QED
        BY <4>2, <4>3
    <3>2. Total(p, f) = 0
      BY ONLY <3>1, p \in Nat, TotalZero
    <3> QED
      BY <3>2 DEF Known
  <2>9. Value(a, x[t], j, t) = Value(a, v[t], Plus(k, j), t)
    BY <2>1, <2>3, <2>4, <2>5, <2>7, <2>8, ValueMoved
  <2> QED
    BY <1>4, <2>1, <2>2, <2>6, <2>9
<1>10. IsSolved(z, v, a, 0, e)
  <2>1. ASSUME NEW i \in 0..(e - 1)
        PROVE  z[i] = Value(a, v[SolvedAt(i, 0, e)], Known(z, SolvedAt(i, 0, e), i, 0, e), SolvedAt(i, 0, e))
    <3>1. CASE i \in 0..(p - 1)
      BY <1>7, <3>1
    <3>2. CASE \E j \in 0..(q - 1) : i = p + j
      BY Zenon, <1>9, <3>2
    <3> QED
      BY <1>4, <3>1, <3>2
  <2> QED
    BY Zenon, <1>4, <2>1 DEF IsSolved, SolvedUpTo
<1>11. ASSUME NEW t \in 0..(e - 1) PROVE y[t] = z[Placed(t, 0, e)]
  <2>1. CASE t \in o1..(o1 + p - 1)
    <3> PICK i : i = Placed(t, o1, p)
      OBVIOUS
    <3>1. i \in 0..(p - 1) /\ SolvedAt(i, o1, p) = t
      BY <2>1, PlacedWithin
    <3>2. Placed(t, 0, e) = i
      <4>1. i \in 0..(e - 1) /\ SolvedAt(i, 0, e) = t
        BY <1>4, <1>5, <3>1
      <4> QED
        BY <1>0, <4>1, PlacedWithin
    <3>3. y[t] = x[t] /\ x[t] = w[t] /\ w[t] = r[i]
      BY Zenon, <1>0, <2>1 DEF Added
    <3> QED
      BY <1>4, <3>1, <3>2, <3>3
  <2>2. CASE t \in o2..(o2 + q - 1)
    <3> PICK i : i = Placed(t, o2, q)
      OBVIOUS
    <3>1. i \in 0..(q - 1) /\ SolvedAt(i, o2, q) = t
      BY <2>2, PlacedWithin
    <3>2. Placed(t, 0, e) = p + i
      <4>1. p + i \in 0..(e - 1) /\ SolvedAt(p + i, 0, e) = t
        BY <1>4, <1>5, <3>1
      <4> QED
        BY <1>0, <4>1, PlacedWithin
    <3>3. y[t] = s[i]
      BY <1>0, <2>2
    <3> QED
      BY <1>4, <3>1, <3>2, <3>3
  <2> QED
    BY Zenon, <1>0, <2>1, <2>2
<1>12. \A t \in 0..(e - 1) : t \in 0..(0 + e - 1)
  BY <1>0
<1> QED
  BY Zenon, <1>10, <1>11, <1>12 DEF Solves

LEMMA TrsmLine ==
  ASSUME Shape, NEW a \in Residues, NEW g, Undoing(g, a), NEW h \in Nat, NEW k \in Nat, NEW e, e = h + k,
         NEW v, IsLine(v, e), NEW w, NEW x, NEW y,
         IF SecondGetsBlock
         THEN Solves(v, w, a, 0, h, e) /\ Added(w, x, g, h, k, 0, h, e) /\ Solves(x, y, a, h, k, e)
         ELSE Solves(v, w, a, h, k, e) /\ Added(w, x, g, 0, h, h, k, e) /\ Solves(x, y, a, 0, h, e)
  PROVE  Solves(v, y, a, 0, e, e)
<1>1. SecondGetsBlock <=> FromTop
  BY DEF SecondGetsBlock, FromTop
<1>2. CASE SecondGetsBlock
  <2>1. HalvesAt(0, h, h, k)
    BY <1>1, <1>2 DEF HalvesAt
  <2>2. Solves(v, w, a, 0, h, e) /\ Added(w, x, g, h, k, 0, h, e) /\ Solves(x, y, a, h, k, e)
    BY <1>2
  <2> QED
    BY ONLY Zenon, <2>1, <2>2, h \in Nat, k \in Nat, e = h + k, 0 \in Nat, IsLine(v, e), Undoing(g, a),
            a \in Residues, TrsmHalves
<1>3. CASE ~ SecondGetsBlock
  <2>1. HalvesAt(h, 0, k, h)
    BY <1>1, <1>3 DEF HalvesAt
  <2>2. Solves(v, w, a, h, k, e) /\ Added(w, x, g, 0, h, h, k, e) /\ Solves(x, y, a, 0, h, e)
    BY <1>3
  <2>3. e = k + h
    OBVIOUS
  <2> QED
    BY ONLY Zenon, <2>1, <2>2, <2>3, h \in Nat, k \in Nat, 0 \in Nat, IsLine(v, e), Undoing(g, a),
            a \in Residues, TrsmHalves
<1> QED
  BY <1>2, <1>3

(* TRMM and TRSM by lines: a cell is a place on a line.                    *)
Line(m, l) == [t \in 0..(problem.y - 1) |-> m[Cell(t, l)]]
Lines      == 0..(problem.x - 1)
OutType(m) == m \in [OutElements -> Residues]

LEMMA TrxmProblem ==
  ASSUME problem \in Problems, Trxm
  PROVE  /\ Shape /\ problem.y \in Nat /\ problem.x \in Nat /\ problem.K = problem.y
         /\ problem.alpha \in Residues /\ func # "GEMV"
         /\ func \in {"TRMM", "TRSM"} /\ func = problem.func
  BY CallAssumption, DivisionAssumption DEF Shape, Trxm, func, Residues

LEMMA TurnedTwice ==
  ASSUME NEW a, NEW b
  PROVE  /\ Turned(Turned([y |-> a, x |-> b])) = [y |-> a, x |-> b]
         /\ Turned([y |-> a, x |-> b]) = IF problem.right THEN [y |-> b, x |-> a] ELSE [y |-> a, x |-> b]
         /\ [y |-> a, x |-> b].y = a /\ [y |-> a, x |-> b].x = b
  BY DEF Turned, Swap

LEMMA OutCells ==
  ASSUME problem \in Problems, Trxm
  PROVE  /\ \A t, l : PlaceOf(Cell(t, l)) = t /\ LineOf(Cell(t, l)) = l
         /\ \A t \in 0..(problem.y - 1), l \in Lines : Cell(t, l) \in OutElements
         /\ \A c \in OutElements : /\ PlaceOf(c) \in 0..(problem.y - 1) /\ LineOf(c) \in Lines
                                   /\ c = Cell(PlaceOf(c), LineOf(c))
<1> PICK y \in Nat, x \in Nat : y = problem.y /\ x = problem.x
  BY TrxmProblem
<1>1. func # "GEMV" /\ 0 + y - 1 = y - 1 /\ 0 + x - 1 = x - 1
  BY TrxmProblem
<1>2. OutElements = IF problem.right THEN (0..(x - 1)) \X (0..(y - 1)) ELSE (0..(y - 1)) \X (0..(x - 1))
  BY <1>1 DEF OutElements, Span, Turned, Swap
<1>3. \A t, l : PlaceOf(Cell(t, l)) = t /\ LineOf(Cell(t, l)) = l
  BY DEF PlaceOf, LineOf, Cell
<1>4. \A t \in 0..(y - 1), l \in 0..(x - 1) : Cell(t, l) \in OutElements
  BY <1>2 DEF Cell
<1>5. \A c \in OutElements : /\ PlaceOf(c) \in 0..(y - 1) /\ LineOf(c) \in 0..(x - 1)
                             /\ c = Cell(PlaceOf(c), LineOf(c))
  BY <1>2 DEF Cell, PlaceOf, LineOf
<1> QED
  BY <1>3, <1>4, <1>5 DEF Lines

(* Two matrices with the same lines are the same.                          *)
LEMMA SameLines ==
  ASSUME problem \in Problems, Trxm, NEW m, NEW n, DOMAIN m = OutElements, m = [c \in DOMAIN m |-> m[c]],
         DOMAIN n = OutElements, n = [c \in DOMAIN n |-> n[c]],
         \A l \in Lines : \A t \in 0..(problem.y - 1) : m[Cell(t, l)] = n[Cell(t, l)]
  PROVE  m = n
<1>1. \A c \in OutElements : m[c] = n[c]
  <2> SUFFICES ASSUME NEW c \in OutElements PROVE m[c] = n[c]
    OBVIOUS
  <2> PICK t \in 0..(problem.y - 1), l \in Lines : c = Cell(t, l)
    BY OutCells
  <2> QED
    OBVIOUS
<1> QED
  BY <1>1

LEMMA LineIs ==
  ASSUME problem \in Problems, Trxm, NEW m, OutType(m), NEW l \in Lines
  PROVE  IsLine(Line(m, l), problem.y)
<1>1. \A t \in 0..(problem.y - 1) : m[Cell(t, l)] \in Residues
  BY OutCells DEF OutType
<1> QED
  BY <1>1 DEF IsLine, Line

(* A step of a half or of the whole, n places from o.                      *)
HalfStep(s, o, n) ==
  /\ s.func = func /\ s.alpha = problem.alpha
  /\ Turned(s.offset) = [y |-> o, x |-> 0] /\ Turned(s.size) = [y |-> n, x |-> problem.x]

LEMMA HalfCells ==
  ASSUME problem \in Problems, Trxm, NEW o \in Nat, NEW n \in Nat, o + n <= problem.y,
         NEW s, HalfStep(s, o, n)
  PROVE  \A t \in 0..(problem.y - 1), l \in Lines : Cell(t, l) \in TrxmCells(s) <=> t \in o..(o + n - 1)
<1> PICK y \in Nat, x \in Nat : y = problem.y /\ x = problem.x
  BY TrxmProblem
<1>1. TrxmCells(s) = {Cell(t, l) : t \in o..(o + n - 1), l \in 0..(x - 1)}
  <2>1. /\ Turned(s.offset).y = o /\ Turned(s.offset).x = 0
        /\ Turned(s.size).y = n /\ Turned(s.size).x = x
    BY DEF HalfStep
  <2>2. 0 + x - 1 = x - 1
    OBVIOUS
  <2> QED
    BY <2>1, <2>2 DEF TrxmCells, Span
<1> SUFFICES ASSUME NEW t \in 0..(y - 1), NEW l \in Lines
             PROVE  Cell(t, l) \in TrxmCells(s) <=> t \in o..(o + n - 1)
  OBVIOUS
<1>2. ASSUME Cell(t, l) \in TrxmCells(s) PROVE t \in o..(o + n - 1)
  <2> PICK u \in o..(o + n - 1), k \in 0..(x - 1) : Cell(t, l) = Cell(u, k)
    BY <1>1, <1>2
  <2>1. PlaceOf(Cell(t, l)) = t /\ PlaceOf(Cell(u, k)) = u
    BY OutCells
  <2> QED
    BY <2>1
<1>3. ASSUME t \in o..(o + n - 1) PROVE Cell(t, l) \in TrxmCells(s)
  BY <1>1, <1>3 DEF Lines
<1> QED
  BY <1>2, <1>3

LEMMA AfterIs ==
  ASSUME NEW s, NEW m
  PROVE  /\ DOMAIN After(s, m) = DOMAIN m /\ After(s, m) = [c \in DOMAIN After(s, m) |-> After(s, m)[c]]
         /\ \A c \in DOMAIN m :
              After(s, m)[c] = IF c \in DOMAIN Kernel(s, m) THEN Kernel(s, m)[c] ELSE m[c]
<1> PICK k : k = Kernel(s, m)
  OBVIOUS
<1>1. After(s, m) = [c \in DOMAIN m |-> IF c \in DOMAIN k THEN k[c] ELSE m[c]]
  BY DEF After
<1> QED
  BY <1>1

LEMMA TrmmAfter ==
  ASSUME problem \in Problems, func = "TRMM", NEW o \in Nat, NEW n \in Nat, o + n <= problem.y,
         NEW s, HalfStep(s, o, n), NEW m, OutType(m)
  PROVE  \A l \in Lines :
           Multiplied(Line(m, l), Line(After(s, m), l), problem.alpha, o, n, problem.y)
<1>0. Trxm
  BY DEF Trxm
<1> PICK e \in Nat : e = problem.y
  BY <1>0, TrxmProblem
<1> PICK k : k = Kernel(s, m)
  OBVIOUS
<1>1. k = TrmmKernel(s, m) /\ Turned(s.offset).y = o /\ Turned(s.size).y = n
      /\ s.alpha = problem.alpha
  BY DEF Kernel, HalfStep
<1>2. k = [c \in TrxmCells(s) |->
             Mod(problem.alpha * Total(n, [i \in 0..(n - 1) |->
                   Along(PlaceOf(c), o + i) * m[Cell(o + i, LineOf(c))]]))]
  BY <1>1 DEF TrmmKernel
<1> SUFFICES ASSUME NEW l \in Lines, NEW t \in 0..(e - 1)
             PROVE  Line(After(s, m), l)[t] =
                      IF t \in o..(o + n - 1) THEN Times(problem.alpha, Dot(t, Line(m, l), o, n))
                      ELSE Line(m, l)[t]
  BY DEF Multiplied
<1> PICK c : c = Cell(t, l)
  OBVIOUS
<1>3. c \in OutElements /\ PlaceOf(c) = t /\ LineOf(c) = l
  BY <1>0, OutCells
<1>4. Line(After(s, m), l)[t] = IF c \in DOMAIN k THEN k[c] ELSE m[c]
  <2>1. c \in DOMAIN m
    BY <1>3 DEF OutType
  <2> QED
    BY <2>1, AfterIs DEF Line
<1>5. Line(m, l)[t] = m[c] /\ DOMAIN k = TrxmCells(s)
  BY <1>2 DEF Line
<1>6. c \in TrxmCells(s) <=> t \in o..(o + n - 1)
  BY <1>0, HalfCells
<1>7. ASSUME t \in o..(o + n - 1) PROVE k[c] = Times(problem.alpha, Dot(t, Line(m, l), o, n))
  <2> PICK f : f = [i \in 0..(n - 1) |-> Along(t, o + i) * m[Cell(o + i, l)]]
    BY Zenon
  <2>1. k[c] = Mod(problem.alpha * Total(n, f))
    BY <1>2, <1>3, <1>6, <1>7
  <2>2. \A i \in 0..(n - 1) : o + i \in 0..(e - 1)
    OBVIOUS
  <2>3. f = Terms(t, Line(m, l), o, n)
    BY <2>2 DEF Terms, Line
  <2> QED
    BY Zenon, <2>1, <2>3 DEF Times, Dot
<1> QED
  BY <1>4, <1>5, <1>6, <1>7

LEMMA TrsmAfter ==
  ASSUME problem \in Problems, func = "TRSM", NEW o \in Nat, NEW n \in Nat, o + n <= problem.y,
         NEW s, HalfStep(s, o, n), NEW m, OutType(m)
  PROVE  \A l \in Lines :
           Solves(Line(m, l), Line(After(s, m), l), problem.alpha, o, n, problem.y)
<1>0. Trxm
  BY DEF Trxm
<1> PICK e \in Nat : e = problem.y
  BY <1>0, TrxmProblem
<1> PICK k : k = Kernel(s, m)
  OBVIOUS
<1>1. k = TrsmKernel(s, m) /\ Turned(s.offset).y = o /\ Turned(s.size).y = n
      /\ s.alpha = problem.alpha
  BY DEF Kernel, HalfStep
<1>2. k = [c \in TrxmCells(s) |->
             Solution(problem.alpha, m, LineOf(c), o, n)[IF FromTop THEN PlaceOf(c) - o ELSE o + n - 1 - PlaceOf(c)]]
  BY <1>1 DEF TrsmKernel
<1> SUFFICES ASSUME NEW l \in Lines
             PROVE  Solves(Line(m, l), Line(After(s, m), l), problem.alpha, o, n, problem.y)
  OBVIOUS
<1> PICK z : z = Solution(problem.alpha, m, l, o, n)
  OBVIOUS
<1>3. IsSolved(z, Line(m, l), problem.alpha, o, n)
  <2>1. IsLine(Line(m, l), e) /\ problem.alpha \in Residues
    BY <1>0, LineIs, TrxmProblem
  <2>2. \A t \in 0..(e - 1) : Line(m, l)[t] = m[Cell(t, l)]
    BY DEF Line
  <2> QED
    BY <2>1, <2>2, SolutionIs
<1>4. ASSUME NEW t \in 0..(e - 1)
      PROVE  Line(After(s, m), l)[t] = IF t \in o..(o + n - 1) THEN z[Placed(t, o, n)] ELSE Line(m, l)[t]
  <2> PICK c : c = Cell(t, l)
    OBVIOUS
  <2>1. c \in OutElements /\ PlaceOf(c) = t /\ LineOf(c) = l
    BY <1>0, OutCells
  <2>2. Line(After(s, m), l)[t] = IF c \in DOMAIN k THEN k[c] ELSE m[c]
    <3>1. c \in DOMAIN m
      BY <2>1 DEF OutType
    <3> QED
      BY <3>1, AfterIs DEF Line
  <2>3. Line(m, l)[t] = m[c] /\ DOMAIN k = TrxmCells(s)
    BY <1>2 DEF Line
  <2>4. c \in TrxmCells(s) <=> t \in o..(o + n - 1)
    BY <1>0, HalfCells
  <2>5. c \in TrxmCells(s) => k[c] = z[Placed(t, o, n)]
    BY <1>2, <2>1 DEF Placed
  <2> QED
    BY <2>2, <2>3, <2>4, <2>5
<1> QED
  BY <1>3, <1>4 DEF Solves

(* The step between the halves: n places from o get the product of the     *)
(* block beside the triangles with len places from another one.            *)
BlockStep(s, o, n, from, len, g) ==
  /\ s.func = "GEMM" /\ s.K = len /\ s.alpha = g /\ s.beta = 1
  /\ s.lhs = (IF problem.right THEN "out" ELSE "A") /\ s.rhs = (IF problem.right THEN "A" ELSE "out")
  /\ s.offset = Turned([y |-> o, x |-> 0]) /\ s.size = Turned([y |-> n, x |-> problem.x])
  /\ s.offA = [y |-> s.offset.y, x |-> from] /\ s.offB = [y |-> from, x |-> s.offset.x]

Beside(o, n, from, len) ==
  IF SecondGetsBlock THEN from + len <= o ELSE o + n <= from

LEMMA OperandIs ==
  ASSUME NEW m, NEW i, NEW k
  PROVE  /\ Operand("A", m, i, k) = OpA(i, k) /\ Operand("B", m, i, k) = OpB(i, k)
         /\ Operand("out", m, i, k) = m[<<i, k>>]
<1>1. "A" # "B" /\ "A" # "out" /\ "B" # "out"
  OBVIOUS
<1> QED
  BY <1>1 DEF Operand

BlockTerms(m, t, l, from, len) ==
  [k \in 0..(len - 1) |-> IF problem.right THEN m[Cell(from + k, l)] * OpA(from + k, t)
                          ELSE OpA(t, from + k) * m[Cell(from + k, l)]]

(* What the step between computes at a place of a line.                    *)
BlockAt(s, m, t, l, o, n, from, len, g) ==
  /\ Cell(t, l) \in DOMAIN Kernel(s, m) <=> t \in o..(o + n - 1)
  /\ Cell(t, l) \in DOMAIN Kernel(s, m) =>
       Kernel(s, m)[Cell(t, l)] =
         Mod(g * Total(len, BlockTerms(m, t, l, from, len)) + 1 * m[Cell(t, l)])

LEMMA BlockValue ==
  ASSUME problem \in Problems, Trxm, NEW o \in Nat, NEW n \in Nat, NEW from \in Nat, NEW len \in Nat,
         NEW g \in Int, NEW s, BlockStep(s, o, n, from, len, g), NEW m, NEW l \in Lines,
         NEW t \in 0..(problem.y - 1)
  PROVE  BlockAt(s, m, t, l, o, n, from, len, g)
<1> PICK y \in Nat, x \in Nat : y = problem.y /\ x = problem.x
  BY TrxmProblem
<1> PICK c : c = Cell(t, l)
  OBVIOUS
<1>1. Kernel(s, m) = GemmKernel(s, m)
  BY DEF Kernel, BlockStep
<1>2. t \in Nat /\ l \in 0..(x - 1) /\ l \in Nat /\ o + t - o = t /\ 0 + l - 0 = l /\ problem.right \in BOOLEAN
  BY TrxmProblem DEF Lines, Shape
<1>3. CASE ~ problem.right
  <2>1. /\ s.offset.y = o /\ s.offset.x = 0 /\ s.size.y = n /\ s.size.x = x
        /\ s.offA.y = o /\ s.offA.x = from /\ s.offB.y = from /\ s.offB.x = 0
        /\ s.lhs = "A" /\ s.rhs = "out" /\ s.K = len /\ s.alpha = g /\ s.beta = 1
    BY <1>3 DEF BlockStep, Turned
  <2>2. c = <<t, l>> /\ c[1] = t /\ c[2] = l /\ \A u : Cell(u, l) = <<u, l>>
    BY <1>3 DEF Cell
  <2>3. DOMAIN GemmKernel(s, m) = (o..(o + n - 1)) \X (0..(0 + x - 1))
    BY <2>1 DEF GemmKernel, Span
  <2>4. c \in DOMAIN GemmKernel(s, m) <=> t \in o..(o + n - 1)
    BY <1>2, <2>2, <2>3
  <2> PICK f : f = BlockTerms(m, t, l, from, len)
    OBVIOUS
  <2> PICK h : h = [k \in 0..(len - 1) |-> Operand("A", m, o + t - o, from + k) * Operand("out", m, from + k, 0 + l - 0)]
    BY Zenon
  <2>5. h = f
    <3>1. \A k \in 0..(len - 1) :
            /\ Operand("A", m, o + t - o, from + k) = OpA(t, from + k)
            /\ Operand("out", m, from + k, 0 + l - 0) = m[Cell(from + k, l)]
      <4> SUFFICES ASSUME NEW k \in 0..(len - 1)
                   PROVE  /\ Operand("A", m, o + t - o, from + k) = OpA(t, from + k)
                          /\ Operand("out", m, from + k, 0 + l - 0) = m[Cell(from + k, l)]
        BY Zenon
      <4> PICK j : j = from + k
        OBVIOUS
      <4>1. Operand("A", m, t, j) = OpA(t, j) /\ Operand("out", m, j, l) = m[<<j, l>>]
        BY ONLY Zenon, OperandIs
      <4>2. Cell(j, l) = <<j, l>>
        BY Zenon, <2>2
      <4> QED
        BY ONLY <1>2, <4>1, <4>2, j = from + k
    <3> QED
      BY Zenon, <1>3, <3>1 DEF BlockTerms
  <2>6. c \in DOMAIN GemmKernel(s, m) => GemmKernel(s, m)[c] = Mod(g * Total(len, h) + 1 * m[c])
    BY Zenon, <2>1, <2>2 DEF GemmKernel
  <2> QED
    BY Zenon, <1>1, <1>3, <2>4, <2>5, <2>6 DEF BlockAt
<1>4. CASE problem.right
  <2>1. /\ s.offset.y = 0 /\ s.offset.x = o /\ s.size.y = x /\ s.size.x = n
        /\ s.offA.y = 0 /\ s.offA.x = from /\ s.offB.y = from /\ s.offB.x = o
        /\ s.lhs = "out" /\ s.rhs = "A" /\ s.K = len /\ s.alpha = g /\ s.beta = 1
    BY <1>4 DEF BlockStep, Turned, Swap
  <2>2. c = <<l, t>> /\ c[1] = l /\ c[2] = t /\ \A u : Cell(u, l) = <<l, u>>
    BY <1>4 DEF Cell
  <2>3. DOMAIN GemmKernel(s, m) = (0..(0 + x - 1)) \X (o..(o + n - 1))
    BY <2>1 DEF GemmKernel, Span
  <2>4. c \in DOMAIN GemmKernel(s, m) <=> t \in o..(o + n - 1)
    BY <1>2, <2>2, <2>3
  <2> PICK f : f = BlockTerms(m, t, l, from, len)
    OBVIOUS
  <2> PICK h : h = [k \in 0..(len - 1) |-> Operand("out", m, 0 + l - 0, from + k) * Operand("A", m, from + k, o + t - o)]
    BY Zenon
  <2>5. h = f
    <3>1. \A k \in 0..(len - 1) :
            /\ Operand("A", m, from + k, o + t - o) = OpA(from + k, t)
            /\ Operand("out", m, 0 + l - 0, from + k) = m[Cell(from + k, l)]
      <4> SUFFICES ASSUME NEW k \in 0..(len - 1)
                   PROVE  /\ Operand("A", m, from + k, o + t - o) = OpA(from + k, t)
                          /\ Operand("out", m, 0 + l - 0, from + k) = m[Cell(from + k, l)]
        BY Zenon
      <4> PICK j : j = from + k
        OBVIOUS
      <4>1. Operand("A", m, j, t) = OpA(j, t) /\ Operand("out", m, l, j) = m[<<l, j>>]
        BY ONLY Zenon, OperandIs
      <4>2. Cell(j, l) = <<l, j>>
        BY Zenon, <2>2
      <4> QED
        BY ONLY <1>2, <4>1, <4>2, j = from + k
    <3> QED
      BY Zenon, <1>4, <3>1 DEF BlockTerms
  <2>6. c \in DOMAIN GemmKernel(s, m) => GemmKernel(s, m)[c] = Mod(g * Total(len, h) + 1 * m[c])
    BY Zenon, <2>1, <2>2 DEF GemmKernel
  <2> QED
    BY Zenon, <1>1, <1>4, <2>4, <2>5, <2>6 DEF BlockAt
<1> QED
  BY <1>2, <1>3, <1>4

LEMMA BlockAfter ==
  ASSUME problem \in Problems, Trxm, NEW o \in Nat, NEW n \in Nat, NEW from \in Nat, NEW len \in Nat,
         o + n <= problem.y, from + len <= problem.y, Beside(o, n, from, len),
         NEW g \in Residues, NEW s, BlockStep(s, o, n, from, len, g), NEW m, OutType(m)
  PROVE  \A l \in Lines : Added(Line(m, l), Line(After(s, m), l), g, o, n, from, len, problem.y)
<1> PICK e \in Nat : e = problem.y
  BY TrxmProblem
<1> SUFFICES ASSUME NEW l \in Lines, NEW t \in 0..(e - 1)
             PROVE  Line(After(s, m), l)[t] =
                      IF t \in o..(o + n - 1) THEN Plus(Times(g, Dot(t, Line(m, l), from, len)), Line(m, l)[t])
                      ELSE Line(m, l)[t]
  BY DEF Added
<1> PICK c : c = Cell(t, l)
  OBVIOUS
<1> PICK k : k = Kernel(s, m)
  OBVIOUS
<1>1. c \in OutElements /\ g \in Int /\ t \in Nat
  BY OutCells, ModFacts
<1>2. Line(After(s, m), l)[t] = IF c \in DOMAIN k THEN k[c] ELSE m[c]
  <2>1. c \in DOMAIN m
    BY <1>1 DEF OutType
  <2> QED
    BY <2>1, AfterIs DEF Line
<1>3. Line(m, l)[t] = m[c] /\ m[c] \in Residues /\ m[c] \in Int
  <2>1. m[c] \in Residues
    BY <1>1 DEF OutType
  <2>2. m[c] \in Int
    BY <2>1, ModFacts
  <2> QED
    BY <2>1, <2>2 DEF Line
<1> PICK f : f = BlockTerms(m, t, l, from, len)
  OBVIOUS
<1>4. /\ c \in DOMAIN k <=> t \in o..(o + n - 1)
      /\ c \in DOMAIN k => k[c] = Mod(g * Total(len, f) + 1 * m[c])
  <2>1. g \in Int /\ t \in 0..(problem.y - 1)
    BY <1>1
  <2>2. BlockAt(s, m, t, l, o, n, from, len, g)
    BY ONLY <2>1, problem \in Problems, Trxm, o \in Nat, n \in Nat, from \in Nat, len \in Nat,
            BlockStep(s, o, n, from, len, g), l \in Lines, BlockValue
  <2> QED
    BY <2>2 DEF BlockAt
<1> PICK h : h = Terms(t, Line(m, l), from, len)
  OBVIOUS
<1>5. ASSUME t \in o..(o + n - 1), NEW i \in 0..(len - 1) PROVE h[i] = f[i]
  <2>1. from + i \in 0..(e - 1) /\ from + i \in Nat
    OBVIOUS
  <2>2. Along(t, from + i) = IF problem.right THEN OpA(from + i, t) ELSE OpA(t, from + i)
    <3>1. IF SecondGetsBlock THEN t > from + i ELSE t < from + i
      BY <1>5 DEF Beside
    <3> QED
      BY <1>1, <2>1, <3>1, AlongZero, TrxmProblem DEF Shape
  <2>3. h[i] = Along(t, from + i) * m[Cell(from + i, l)]
    BY <2>1 DEF Terms, Line
  <2>6. f[i] = IF problem.right THEN m[Cell(from + i, l)] * OpA(from + i, t)
               ELSE OpA(t, from + i) * m[Cell(from + i, l)]
    BY DEF BlockTerms
  <2> PICK a \in Int, b \in Int : a = Along(t, from + i) /\ b = m[Cell(from + i, l)]
    <3>1. Along(t, from + i) \in Int
      BY <1>1, <2>1, AlongType
    <3>2. m[Cell(from + i, l)] \in Residues
      BY <2>1, OutCells DEF OutType
    <3>3. m[Cell(from + i, l)] \in Int
      BY <3>2, ModFacts
    <3> QED
      BY <3>1, <3>3
  <2>4. a * b = b * a
    OBVIOUS
  <2>5. problem.right \in BOOLEAN
    BY TrxmProblem DEF Shape
  <2> QED
    BY <2>2, <2>3, <2>4, <2>5, <2>6
<1>6. ASSUME t \in o..(o + n - 1) PROVE k[c] = Plus(Times(g, Dot(t, Line(m, l), from, len)), m[c])
  <2>1. Numbers(h, len) /\ Total(len, h) \in Int
    <3>1. IsLine(Line(m, l), e)
      BY LineIs
    <3>2. Numbers(h, len) /\ Dot(t, Line(m, l), from, len) \in Int
      BY <1>1, <3>1, DotTerms
    <3> QED
      BY <3>2 DEF Dot
  <2>2. \A i \in 0..(len - 1) : h[i] = f[i]
    BY <1>5, <1>6
  <2>3. Total(len, h) = Total(len, f)
    BY ONLY <2>1, <2>2, len \in Nat, SameTotal
  <2> PICK a \in Int, b \in Int, d \in Int : a = Total(len, h) /\ b = m[c] /\ d = g * a
    BY <1>1, <1>3, <2>1
  <2>4. k[c] = Mod(d + b)
    <3>1. 1 * b = b
      OBVIOUS
    <3> QED
      BY <1>4, <1>6, <2>3, <3>1
  <2>5. Plus(Mod(d), b) = Plus(d, b)
    BY Zenon, PlusMod
  <2> QED
    BY <2>4, <2>5 DEF Plus, Times, Dot
<1> QED
  BY <1>2, <1>3, <1>4, <1>6

(* The steps of TRMM and TRSM leave numbers in the matrix.                 *)
LEMMA LinesMake ==
  ASSUME problem \in Problems, Trxm, NEW m, OutType(m), NEW s,
         \A l \in Lines : IsLine(Line(After(s, m), l), problem.y)
  PROVE  OutType(After(s, m))
<1>1. DOMAIN After(s, m) = OutElements /\ After(s, m) = [c \in DOMAIN After(s, m) |-> After(s, m)[c]]
  BY AfterIs DEF OutType
<1>2. ASSUME NEW c \in OutElements PROVE After(s, m)[c] \in Residues
  <2> PICK t \in 0..(problem.y - 1), l \in Lines : c = Cell(t, l)
    BY OutCells
  <2> QED
    BY Zenon DEF IsLine, Line
<1> QED
  BY <1>1, <1>2 DEF OutType

LEMMA HalfKeeps ==
  ASSUME problem \in Problems, Trxm, NEW o \in Nat, NEW n \in Nat, o + n <= problem.y,
         NEW s, HalfStep(s, o, n), NEW m, OutType(m)
  PROVE  OutType(After(s, m))
<1> PICK e \in Nat : e = problem.y
  BY TrxmProblem
<1> SUFFICES ASSUME NEW l \in Lines PROVE IsLine(Line(After(s, m), l), e)
  BY LinesMake
<1>1. IsLine(Line(m, l), e) /\ problem.alpha \in Residues
  BY LineIs, TrxmProblem
<1> PICK v, w : v = Line(m, l) /\ w = Line(After(s, m), l)
  OBVIOUS
<1>2. CASE func = "TRMM"
  <2>1. Multiplied(v, w, problem.alpha, o, n, e)
    BY <1>2, TrmmAfter
  <2> QED
    BY <1>1, <2>1, LineKept
<1>3. CASE func = "TRSM"
  <2>1. Solves(v, w, problem.alpha, o, n, e)
    BY <1>3, TrsmAfter
  <2> QED
    BY <1>1, <2>1, SolvedLine
<1> QED
  BY <1>2, <1>3, TrxmProblem

LEMMA BlockKeeps ==
  ASSUME problem \in Problems, Trxm, NEW o \in Nat, NEW n \in Nat, NEW from \in Nat, NEW len \in Nat,
         o + n <= problem.y, from + len <= problem.y, Beside(o, n, from, len),
         NEW g \in Residues, NEW s, BlockStep(s, o, n, from, len, g), NEW m, OutType(m)
  PROVE  OutType(After(s, m))
<1> PICK e \in Nat : e = problem.y
  BY TrxmProblem
<1> SUFFICES ASSUME NEW l \in Lines PROVE IsLine(Line(After(s, m), l), e)
  BY LinesMake
<1>1. IsLine(Line(m, l), e)
  BY LineIs
<1> PICK v, w : v = Line(m, l) /\ w = Line(After(s, m), l)
  OBVIOUS
<1>2. Added(v, w, g, o, n, from, len, e)
  BY BlockAfter
<1> QED
  BY <1>1, <1>2, LineKept

(* The halves of a step of TRMM or TRSM and the block between them, in the *)
(* order in which they are enqueued.                                       *)
InHalves(first, gemm, last, h, k, g) ==
  /\ IF func = "TRMM"
     THEN /\ SecondGetsBlock => HalfStep(first, h, k) /\ HalfStep(last, 0, h)
          /\ ~ SecondGetsBlock => HalfStep(first, 0, h) /\ HalfStep(last, h, k)
          /\ g = problem.alpha
     ELSE /\ SecondGetsBlock => HalfStep(first, 0, h) /\ HalfStep(last, h, k)
          /\ ~ SecondGetsBlock => HalfStep(first, h, k) /\ HalfStep(last, 0, h)
          /\ Undoing(g, problem.alpha)
  /\ SecondGetsBlock => BlockStep(gemm, h, k, 0, h, g)
  /\ ~ SecondGetsBlock => BlockStep(gemm, 0, h, h, k, g)

LEMMA OneSolution ==
  ASSUME NEW e \in Nat, NEW a, NEW v, NEW w, NEW y, Solves(v, w, a, 0, e, e), Solves(v, y, a, 0, e, e)
  PROVE  \A t \in 0..(e - 1) : w[t] = y[t]
<1> PICK p : /\ IsSolved(p, v, a, 0, e)
             /\ \A t \in 0..(e - 1) : w[t] = IF t \in 0..(0 + e - 1) THEN p[Placed(t, 0, e)] ELSE v[t]
  BY DEF Solves
<1> PICK q : /\ IsSolved(q, v, a, 0, e)
             /\ \A t \in 0..(e - 1) : y[t] = IF t \in 0..(0 + e - 1) THEN q[Placed(t, 0, e)] ELSE v[t]
  BY DEF Solves
<1>1. \A i \in 0..(e - 1) : p[i] = q[i]
  <2>1. \A i \in 0..(e - 1) :
           q[i] = Value(a, v[SolvedAt(i, 0, e)], Known(q, SolvedAt(i, 0, e), i, 0, e), SolvedAt(i, 0, e))
    BY DEF IsSolved, SolvedUpTo
  <2> QED
    BY ONLY <2>1, IsSolved(p, v, a, 0, e), e \in Nat, 0 \in Nat, SolutionUnique
<1> SUFFICES ASSUME NEW t \in 0..(e - 1) PROVE w[t] = y[t]
  OBVIOUS
<1>2. t \in 0..(0 + e - 1)
  OBVIOUS
<1>3. Placed(t, 0, e) \in 0..(e - 1)
  BY ONLY <1>2, e \in Nat, 0 \in Nat, PlacedWithin
<1> QED
  BY <1>1, <1>2, <1>3

(* TRMM and TRSM in halves give the result of the whole: one half, then    *)
(* the product of the block beside the triangles and that half, then the   *)
(* other half, in the order that the side and the triangle ask for, for    *)
(* every prime, matrix and size of the halves.                             *)
THEOREM HalvesAfter ==
  ASSUME problem \in Problems, Trxm, NEW h \in Nat, NEW k \in Nat, h + k = problem.y, NEW g,
         NEW first, NEW gemm, NEW last, InHalves(first, gemm, last, h, k, g),
         NEW s, HalfStep(s, 0, problem.y), NEW m, OutType(m)
  PROVE  /\ After(last, After(gemm, After(first, m))) = After(s, m)
         /\ OutType(After(first, m)) /\ OutType(After(gemm, After(first, m))) /\ OutType(After(s, m))
<1> PICK e \in Nat, a \in Residues : e = problem.y /\ a = problem.alpha
  BY TrxmProblem
<1>0. Shape /\ 0 + h <= e /\ h + k <= e /\ 0 + e <= e /\ g \in Residues /\ func \in {"TRMM", "TRSM"}
      /\ SecondGetsBlock \in BOOLEAN
  <2>1. g \in Residues
    BY UndoingType DEF InHalves
  <2>2. SecondGetsBlock \in BOOLEAN
    BY DEF SecondGetsBlock
  <2> QED
    BY <2>1, <2>2, TrxmProblem
<1> PICK m1 : m1 = After(first, m)
  OBVIOUS
<1> PICK m2 : m2 = After(gemm, m1)
  OBVIOUS
<1> PICK m3 : m3 = After(last, m2)
  OBVIOUS
<1> PICK w : w = After(s, m)
  OBVIOUS
<1>1. Beside(h, k, 0, h) \/ ~ SecondGetsBlock
  BY DEF Beside
<1>2. Beside(0, h, h, k) \/ SecondGetsBlock
  BY DEF Beside
<1>3. OutType(m1)
  BY <1>0, HalfKeeps DEF InHalves
<1>4. OutType(m2)
  <2>1. CASE SecondGetsBlock
    BY <1>0, <1>1, <1>3, <2>1, BlockKeeps DEF InHalves
  <2>2. CASE ~ SecondGetsBlock
    BY <1>0, <1>2, <1>3, <2>2, BlockKeeps DEF InHalves
  <2> QED
    BY <2>1, <2>2
<1>5. OutType(m3) /\ OutType(w)
  BY <1>0, <1>4, HalfKeeps DEF InHalves
<1>6. ASSUME NEW l \in Lines PROVE \A t \in 0..(e - 1) : m3[Cell(t, l)] = w[Cell(t, l)]
  <2> PICK v, v1, v2, v3, y : /\ v = Line(m, l) /\ v1 = Line(m1, l) /\ v2 = Line(m2, l)
                              /\ v3 = Line(m3, l) /\ y = Line(w, l)
    OBVIOUS
  <2>1. IsLine(v, e) /\ 0 \in Nat
    BY LineIs
  <2>2. /\ SecondGetsBlock => Added(v1, v2, g, h, k, 0, h, e)
        /\ ~ SecondGetsBlock => Added(v1, v2, g, 0, h, h, k, e)
    <3>1. CASE SecondGetsBlock
      BY <1>0, <1>1, <1>3, <3>1, BlockAfter DEF InHalves
    <3>2. CASE ~ SecondGetsBlock
      BY <1>0, <1>2, <1>3, <3>2, BlockAfter DEF InHalves
    <3> QED
      BY <3>1, <3>2
  <2>3. CASE func = "TRMM"
    <3>1. Multiplied(v, y, a, 0, e, e)
      BY <1>0, <2>3, TrmmAfter
    <3>2. /\ SecondGetsBlock => Multiplied(v, v1, a, h, k, e) /\ Multiplied(v2, v3, a, 0, h, e)
          /\ ~ SecondGetsBlock => Multiplied(v, v1, a, 0, h, e) /\ Multiplied(v2, v3, a, h, k, e)
      BY <1>0, <1>4, <2>3, TrmmAfter DEF InHalves
    <3>3. g = a
      BY <2>3 DEF InHalves
    <3>4. Multiplied(v, v3, a, 0, e, e)
      BY ONLY <1>0, <2>1, <2>2, <3>2, <3>3, h \in Nat, k \in Nat, a \in Residues, e = problem.y, h + k = problem.y, TrmmLine
    <3>5. \A t \in 0..(e - 1) : v3[t] = y[t]
      BY <3>1, <3>4 DEF Multiplied
    <3> QED
      BY Zenon, <3>5 DEF Line
  <2>4. CASE func = "TRSM"
    <3>1. Solves(v, y, a, 0, e, e)
      BY <1>0, <2>4, TrsmAfter
    <3>2. /\ SecondGetsBlock => Solves(v, v1, a, 0, h, e) /\ Solves(v2, v3, a, h, k, e)
          /\ ~ SecondGetsBlock => Solves(v, v1, a, h, k, e) /\ Solves(v2, v3, a, 0, h, e)
      BY <1>0, <1>4, <2>4, TrsmAfter DEF InHalves
    <3>3. Undoing(g, a)
      BY <2>4 DEF InHalves
    <3>4. Solves(v, v3, a, 0, e, e)
      BY ONLY <1>0, <2>1, <2>2, <3>2, <3>3, h \in Nat, k \in Nat, a \in Residues, e = problem.y, h + k = problem.y, TrsmLine
    <3>5. \A t \in 0..(e - 1) : v3[t] = y[t]
      BY ONLY <3>1, <3>4, e \in Nat, OneSolution
    <3> QED
      BY Zenon, <3>5 DEF Line
  <2> QED
    BY <1>0, <2>3, <2>4
<1>7. m3 = w
  BY <1>5, <1>6, SameLines DEF OutType
<1> QED
  BY <1>3, <1>4, <1>5, <1>7

-----------------------------------------------------------------------------
(* The steps that decomposition makes of TRMM and TRSM are such halves,    *)
(* with the block between them.                                            *)

(* A step is a record of its fields, whatever is done to it.               *)
AllFields ==
  {"func", "queue", "offset", "size", "K", "lhs", "rhs", "offA", "offB", "alpha", "beta",
   "diagonal", "twoProducts", "waits", "event"}
IsStep(s) == DOMAIN s = AllFields /\ s = [f \in DOMAIN s |-> s[f]]

LEMMA StepIs ==
  ASSUME NEW q, NEW o, NEW n
  PROVE  IsStep(StepOf(q, o, n))
  BY DEF StepOf, IsStep, AllFields

LEMMA StepChanged ==
  ASSUME NEW s, IsStep(s), NEW f, NEW v
  PROVE  /\ IsStep([s EXCEPT ![f] = v])
         /\ \A g \in AllFields : [s EXCEPT ![f] = v][g] = IF g = f THEN v ELSE s[g]
  BY Zenon DEF IsStep

(* Fixing the offsets of a GEMM step leaves the rest alone.                *)
LEMMA Fixed ==
  ASSUME NEW s, IsStep(s), NEW k
  PROVE  /\ IsStep(FixupGemmOffsets(s, k))
         /\ FixupGemmOffsets(s, k).offA = [y |-> s.offset.y, x |-> k]
         /\ FixupGemmOffsets(s, k).offB = [y |-> k, x |-> s.offset.x]
         /\ \A f \in AllFields \ {"offA", "offB"} : FixupGemmOffsets(s, k)[f] = s[f]
  BY Zenon DEF FixupGemmOffsets, IsStep, AllFields

(* Half of a problem that is large enough is not more than the problem.    *)
LEMMA HalfWithin ==
  ASSUME NEW y \in Nat, y >= Threshold
  PROVE  Half(y) \in 0..y
<1> PICK a \in Nat, v \in Nat : a = Alignment /\ v = y \div 2 /\ a <= y
  BY DivisionAssumption, CallAssumption
<1>1. Align(v) \in Nat /\ Align(v) <= v + a \div 2
  BY AlignNat, AlignBounds
<1>2. v + a \div 2 <= y
  OBVIOUS
<1> PICK r \in Nat : r = Align(v)
  BY <1>1
<1>3. r <= y
  <2> PICK b \in Nat : b = a \div 2
    OBVIOUS
  <2> QED
    BY <1>1, <1>2
<1> QED
  BY <1>3 DEF Half

Full == [y |-> problem.y, x |-> problem.x]
WholeStep == StepOf(1, Origin, Full)

LEMMA WholeIs ==
  ASSUME problem \in Problems, Trxm, NEW q, NEW s, s = StepOf(q, Origin, Full)
  PROVE  /\ HalfStep(s, 0, problem.y) /\ IsStep(s) /\ s.K = problem.y
         /\ s.offset = Turned(Origin) /\ s.size = Turned(Full)
<1>1. IsStep(s)
  BY StepIs
<1>2. /\ s.func = func /\ s.alpha = problem.alpha /\ s.K = IF func = "GEMV" THEN Full.x ELSE problem.K
      /\ s.offset = Turned(Origin) /\ s.size = Turned(Full)
  BY DEF StepOf
<1>3. Turned(s.offset) = [y |-> 0, x |-> 0] /\ Turned(s.size) = [y |-> problem.y, x |-> problem.x]
  <2> PICK y, x : y = problem.y /\ x = problem.x
    OBVIOUS
  <2>1. Turned(Turned([y |-> 0, x |-> 0])) = [y |-> 0, x |-> 0] /\ Turned(Turned([y |-> y, x |-> x])) = [y |-> y, x |-> x]
    BY Zenon, TurnedTwice
  <2> QED
    BY <1>2, <2>1 DEF Origin, Full
<1>4. func # "GEMV" /\ problem.K = problem.y
  BY TrxmProblem
<1> QED
  BY <1>1, <1>2, <1>3, <1>4 DEF HalfStep

Threesome(u, a, b, c) == IsSeq(u) /\ Len(u) = 3 /\ u[1] = a /\ u[2] = b /\ u[3] = c

TiedFrom(u, a, b, c, x, y, z) ==
  /\ Threesome(u, x, y, z) /\ IsStep(x) /\ IsStep(y) /\ IsStep(z)
  /\ \A f \in AllFields \ {"waits", "event"} : x[f] = a[f] /\ y[f] = b[f] /\ z[f] = c[f]

LEMMA TiedIs ==
  ASSUME NEW a, NEW b, NEW c, NEW e, IsStep(a), IsStep(b), IsStep(c)
  PROVE  \E x, y, z : TiedFrom(Tied(a, b, c, e), a, b, c, x, y, z)
<1> DEFINE x == [a EXCEPT !.event = e[1]]
           y == [b EXCEPT !.waits = {e[1]}, !.event = e[2]]
           z == [c EXCEPT !.waits = {e[2]}]
<1>1. IsStep(x) /\ IsStep(y) /\ IsStep(z)
  BY Zenon DEF IsStep
<1>2. \A f \in AllFields \ {"waits", "event"} : x[f] = a[f] /\ y[f] = b[f] /\ z[f] = c[f]
  BY Zenon DEF IsStep
<1>3. Tied(a, b, c, e) = <<x, y, z>>
  BY DEF Tied
<1> HIDE DEF x, y, z
<1>4. Threesome(<<x, y, z>>, x, y, z)
  <2> PICK u : u = <<x, y, z>>
    BY Zenon
  <2>1. u[1] = x /\ u[2] = y /\ u[3] = z
    OBVIOUS
  <2>2. IsSeq(u) /\ Len(u) = 3
    BY TupleFacts, ZenonT(40)
  <2> QED
    BY <2>1, <2>2 DEF Threesome
<1>5. TiedFrom(Tied(a, b, c, e), a, b, c, x, y, z)
  BY <1>1, <1>2, <1>3, <1>4 DEF TiedFrom
<1> QED
  BY <1>5

(* What the decomposition of TRMM or TRSM gives is in halves.              *)
TrxmAs(u, x, y, z, h, k, g) ==
  /\ Threesome(u, x, y, z) /\ IsStep(x) /\ IsStep(y) /\ IsStep(z)
  /\ h \in Nat /\ k \in Nat /\ h + k = problem.y /\ InHalves(x, y, z, h, k, g)

LEMMA TrxmHalves ==
  ASSUME problem \in Problems, Trxm, problem.y >= Threshold, NEW q, NEW s, s = StepOf(q, Origin, Full),
         NEW e
  PROVE  \E x, y, z, h, k, g : TrxmAs(TrxmSequence(s, e), x, y, z, h, k, g)
<1>1. /\ HalfStep(s, 0, problem.y) /\ IsStep(s) /\ s.K = problem.y
      /\ s.offset = Turned(Origin) /\ s.size = Turned(Full)
  BY WholeIs
<1> PICK d \in Nat, w \in Nat : d = problem.y /\ w = problem.x
  BY TrxmProblem
<1> PICK h \in Nat, k \in Nat : h = Half(d) /\ k = d - h /\ h + k = d
  BY HalfWithin
<1> PICK g : g = GemmAlpha(s)
  OBVIOUS
<1> PICK o : o = Turned(s.offset)
  OBVIOUS
<1> PICK n : n = Turned(s.size)
  OBVIOUS
<1>2. /\ o.y = 0 /\ o.x = 0 /\ n.y = d /\ n.x = w /\ o.y + h = h
      /\ o = [y |-> 0, x |-> 0] /\ n = [y |-> d, x |-> w]
  BY <1>1 DEF HalfStep
<1> DEFINE FirstHalf  == [s EXCEPT !.size = Turned([y |-> h, x |-> w])]
           SecondHalf == [s EXCEPT !.offset = Turned([y |-> h, x |-> 0]),
                                   !.size = Turned([y |-> k, x |-> w])]
           Written == IF SecondGetsBlock THEN SecondHalf ELSE FirstHalf
           Multiply == [Written EXCEPT !.func = "GEMM", !.alpha = g, !.beta = 1,
                                     !.lhs = IF problem.right THEN "out" ELSE "A",
                                     !.rhs = IF problem.right THEN "A" ELSE "out",
                                     !.K = IF SecondGetsBlock THEN h ELSE k]
           Gemm == FixupGemmOffsets(Multiply, IF SecondGetsBlock THEN 0 ELSE h)
<1>3. TrxmSequence(s, e) = IF SwapHalves(s) THEN Tied(SecondHalf, Gemm, FirstHalf, e)
                           ELSE Tied(FirstHalf, Gemm, SecondHalf, e)
  BY ZenonT(60), <1>1, <1>2 DEF TrxmSequence
<1>4. IsStep(FirstHalf) /\ HalfStep(FirstHalf, 0, h)
  <2>1. IsStep(FirstHalf) /\ FirstHalf.func = s.func /\ FirstHalf.alpha = s.alpha
        /\ FirstHalf.offset = s.offset /\ FirstHalf.size = Turned([y |-> h, x |-> w])
    BY <1>1 DEF IsStep, AllFields
  <2>2. Turned(Turned([y |-> h, x |-> w])) = [y |-> h, x |-> w]
    BY Zenon, TurnedTwice
  <2> HIDE DEF FirstHalf
  <2> QED
    BY <1>1, <1>2, <2>1, <2>2 DEF HalfStep
<1>5. IsStep(SecondHalf) /\ HalfStep(SecondHalf, h, k)
  <2>1. IsStep(SecondHalf) /\ SecondHalf.func = s.func /\ SecondHalf.alpha = s.alpha
        /\ SecondHalf.offset = Turned([y |-> h, x |-> 0]) /\ SecondHalf.size = Turned([y |-> k, x |-> w])
    BY Zenon, <1>1 DEF IsStep, AllFields
  <2>2. Turned(Turned([y |-> k, x |-> w])) = [y |-> k, x |-> w] /\ Turned(Turned([y |-> h, x |-> 0])) = [y |-> h, x |-> 0]
    BY ZenonT(60), TurnedTwice
  <2> HIDE DEF SecondHalf
  <2> QED
    BY <1>1, <2>1, <2>2 DEF HalfStep
<1>6. /\ IsStep(Written)
      /\ Written.offset = IF SecondGetsBlock THEN Turned([y |-> h, x |-> 0]) ELSE Turned([y |-> 0, x |-> 0])
      /\ Written.size = IF SecondGetsBlock THEN Turned([y |-> k, x |-> w]) ELSE Turned([y |-> h, x |-> w])
  <2>1. SecondHalf.offset = Turned([y |-> h, x |-> 0]) /\ SecondHalf.size = Turned([y |-> k, x |-> w])
        /\ FirstHalf.offset = Turned([y |-> 0, x |-> 0]) /\ FirstHalf.size = Turned([y |-> h, x |-> w])
    BY <1>1 DEF IsStep, AllFields, Origin
  <2> HIDE DEF FirstHalf, SecondHalf
  <2> QED
    BY <1>4, <1>5, <2>1
<1> HIDE DEF FirstHalf, SecondHalf, Written
<1>7. /\ IsStep(Multiply) /\ Multiply.func = "GEMM" /\ Multiply.alpha = g /\ Multiply.beta = 1
      /\ Multiply.lhs = (IF problem.right THEN "out" ELSE "A")
      /\ Multiply.rhs = (IF problem.right THEN "A" ELSE "out")
      /\ Multiply.K = (IF SecondGetsBlock THEN h ELSE k)
      /\ Multiply.offset = Written.offset /\ Multiply.size = Written.size
  BY Zenon, <1>6 DEF IsStep, AllFields
<1> HIDE DEF Multiply
<1>8. /\ IsStep(Gemm) /\ Gemm.func = "GEMM" /\ Gemm.alpha = g /\ Gemm.beta = 1
      /\ Gemm.lhs = (IF problem.right THEN "out" ELSE "A")
      /\ Gemm.rhs = (IF problem.right THEN "A" ELSE "out")
      /\ Gemm.K = (IF SecondGetsBlock THEN h ELSE k)
      /\ Gemm.offset = Written.offset /\ Gemm.size = Written.size
      /\ Gemm.offA = [y |-> Gemm.offset.y, x |-> IF SecondGetsBlock THEN 0 ELSE h]
      /\ Gemm.offB = [y |-> IF SecondGetsBlock THEN 0 ELSE h, x |-> Gemm.offset.x]
  <2> PICK r : r = IF SecondGetsBlock THEN 0 ELSE h
    OBVIOUS
  <2> PICK m : m = Multiply
    OBVIOUS
  <2> PICK f : f = FixupGemmOffsets(m, r)
    OBVIOUS
  <2>1. f = Gemm
    OBVIOUS
  <2>2. IsStep(m)
    BY <1>7
  <2>3. /\ IsStep(f) /\ f.offA = [y |-> m.offset.y, x |-> r] /\ f.offB = [y |-> r, x |-> m.offset.x]
        /\ \A i \in AllFields \ {"offA", "offB"} : f[i] = m[i]
    BY ONLY <2>2, f = FixupGemmOffsets(m, r), Fixed
  <2>4. /\ f.func = m.func /\ f.alpha = m.alpha /\ f.offset = m.offset /\ f.size = m.size
        /\ f.K = m.K /\ f.beta = m.beta /\ f.lhs = m.lhs /\ f.rhs = m.rhs
    BY ONLY <2>3 DEF AllFields
  <2> HIDE DEF Gemm
  <2> QED
    BY <1>7, <2>1, <2>3, <2>4
<1> HIDE DEF Gemm
<1>9. /\ SecondGetsBlock => BlockStep(Gemm, h, k, 0, h, g)
      /\ ~ SecondGetsBlock => BlockStep(Gemm, 0, h, h, k, g)
  BY <1>6, <1>8 DEF BlockStep
<1>10. /\ func = "TRMM" => g = problem.alpha
       /\ func # "TRMM" => Undoing(g, problem.alpha)
  BY <1>1, TrxmProblem DEF HalfStep, GemmAlpha, Undoing
<1>11. SwapHalves(s) <=> IF func = "TRMM" THEN SecondGetsBlock ELSE ~ SecondGetsBlock
  BY <1>1 DEF HalfStep, SwapHalves
<1>12. /\ SwapHalves(s) => InHalves(SecondHalf, Gemm, FirstHalf, h, k, g)
       /\ ~ SwapHalves(s) => InHalves(FirstHalf, Gemm, SecondHalf, h, k, g)
  BY <1>4, <1>5, <1>9, <1>10, <1>11 DEF InHalves
<1>13. ASSUME NEW a, NEW c, IsStep(a), IsStep(c), InHalves(a, Gemm, c, h, k, g)
       PROVE  \E x, y, z : TrxmAs(Tied(a, Gemm, c, e), x, y, z, h, k, g)
  <2> PICK x, y, z : TiedFrom(Tied(a, Gemm, c, e), a, Gemm, c, x, y, z)
    BY <1>8, <1>13, TiedIs
  <2>1. /\ x.func = a.func /\ x.alpha = a.alpha /\ x.offset = a.offset /\ x.size = a.size
        /\ z.func = c.func /\ z.alpha = c.alpha /\ z.offset = c.offset /\ z.size = c.size
        /\ y.func = Gemm.func /\ y.alpha = Gemm.alpha /\ y.offset = Gemm.offset /\ y.size = Gemm.size
        /\ y.K = Gemm.K /\ y.beta = Gemm.beta /\ y.lhs = Gemm.lhs /\ y.rhs = Gemm.rhs
        /\ y.offA = Gemm.offA /\ y.offB = Gemm.offB
    BY DEF TiedFrom, AllFields
  <2>2. \A i, j : /\ HalfStep(a, i, j) => HalfStep(x, i, j)
                  /\ HalfStep(c, i, j) => HalfStep(z, i, j)
    BY <2>1 DEF HalfStep
  <2>3. \A i, j, l, m : BlockStep(Gemm, i, j, l, m, g) => BlockStep(y, i, j, l, m, g)
    BY <2>1 DEF BlockStep
  <2>4. InHalves(x, y, z, h, k, g)
    BY <1>13, <2>2, <2>3 DEF InHalves
  <2>5. TrxmAs(Tied(a, Gemm, c, e), x, y, z, h, k, g)
    BY <2>4 DEF TrxmAs, TiedFrom
  <2> QED
    BY <2>5
<1> QED
  BY <1>3, <1>4, <1>5, <1>12, <1>13

-----------------------------------------------------------------------------
(* The other functions: what a step writes, and that its kernel computes   *)
(* there what the function computes of the whole problem, or one of the    *)
(* two products of SYR2K.                                                  *)

(* The functions other than TRMM and TRSM: the elements of a part, and of  *)
(* a step in it.                                                           *)
InTriangle(c) == IF problem.upper THEN c[1] <= c[2] ELSE c[1] >= c[2]
PartCells(o, n) ==
  IF func = "GEMV" THEN Span(o.y, n.y) \X {0}
  ELSE IF func = "GEMM" THEN Span(o.y, n.y) \X Span(o.x, n.x)
  ELSE {c \in Span(o.y, n.y) \X Span(0, problem.x) : InTriangle(c)}
OnDiagonal(c) == c[1] \div Tile = c[2] \div Tile
StepCells(s) ==
  {c \in PartCells(s.offset, s.size) :
     /\ Syrk /\ s.diagonal = "off" => ~ OnDiagonal(c)
     /\ Syrk /\ s.diagonal = "on" => OnDiagonal(c)}

(* What a step computes of an element from what is there.                  *)
Named(l, i, k) == IF l = "A" THEN OpA(i, k) ELSE OpB(i, k)
Factors(l, r, c) == [k \in 0..(problem.K - 1) |-> Named(l, c[1], k) * Named(r, c[2], k)]
Product(l, r, c) == Total(problem.K, Factors(l, r, c))
Depth == IF func = "GEMV" THEN problem.x ELSE problem.K
Inner(c) ==
  Total(Depth, [k \in 0..(Depth - 1) |-> OpA(c[1], k) * OpB(k, IF func = "GEMV" THEN 0 ELSE c[2])])

Once(c, v)  == Mod(problem.alpha * (Product("A", "B", c) + 0) + problem.beta * v)
Again(c, v) == Mod(problem.alpha * (Product("B", "A", c) + 0) + 1 * v)
Wholly(c, v) ==
  IF func = "SYRK" THEN Mod(problem.alpha * (Product("A", "A", c) + 0) + problem.beta * v)
  ELSE IF func = "SYR2K"
  THEN Mod(problem.alpha * (Product("A", "B", c) + Product("B", "A", c)) + problem.beta * v)
  ELSE Mod(problem.alpha * Inner(c) + problem.beta * v)

Basic(s) ==
  /\ s.func = func /\ s.alpha = problem.alpha /\ s.K = Depth /\ s.offset \in Extents
  /\ s.diagonal \in {"all", "off", "on"}
  /\ func = "GEMM" => s.offA = [y |-> s.offset.y, x |-> 0] /\ s.offB = [y |-> 0, x |-> s.offset.x]
WholeOf(s) ==
  /\ Basic(s) /\ s.beta = problem.beta /\ s.twoProducts = (func = "SYR2K")
  /\ s.lhs = "A" /\ s.rhs = IF func = "SYRK" THEN "A" ELSE "B"
FirstOf(s) ==
  /\ Basic(s) /\ func = "SYR2K" /\ s.beta = problem.beta /\ s.twoProducts = FALSE
  /\ s.lhs = "A" /\ s.rhs = "B"
SecondOf(s) ==
  /\ Basic(s) /\ func = "SYR2K" /\ s.beta = 1 /\ s.twoProducts = FALSE
  /\ s.lhs = "B" /\ s.rhs = "A"
Final(s) == WholeOf(s) \/ SecondOf(s)

LEMMA OtherProblem ==
  ASSUME problem \in Problems, ~ Trxm
  PROVE  /\ func \in {"SYRK", "SYR2K", "GEMM", "GEMV"} /\ func = problem.func /\ ~ problem.right
         /\ Syrk <=> func \in {"SYRK", "SYR2K"}
         /\ problem.y \in Nat /\ problem.x \in Nat /\ problem.K \in Nat /\ Depth \in Nat
         /\ problem.y > 0 /\ problem.x > 0
         /\ problem.alpha \in Residues /\ problem.beta \in Residues
         /\ problem.alpha \in Int /\ problem.beta \in Int
         /\ func \in {"SYRK", "SYR2K", "GEMV"} => RowsOnly
<1>1. /\ func \in {"SYRK", "SYR2K", "GEMM", "GEMV"} /\ func = problem.func /\ ~ problem.right
      /\ problem.y \in Nat /\ problem.x \in Nat /\ problem.K \in Nat
      /\ problem.y > 0 /\ problem.x > 0
      /\ problem.alpha \in Residues /\ problem.beta \in Residues
  BY CallAssumption, DivisionAssumption DEF Trxm, func, Residues
<1>2. problem.alpha \in Int /\ problem.beta \in Int
  BY <1>1, ModFacts
<1>3. func \in {"SYRK", "SYR2K", "GEMV"} => RowsOnly
  BY CallAssumption DEF RowsOnly, func
<1> QED
  BY <1>1, <1>2, <1>3 DEF Depth, Syrk

LEMMA PartCell ==
  ASSUME problem \in Problems, ~ Trxm, NEW o \in Extents, NEW n \in Extents, NEW c \in PartCells(o, n)
  PROVE  /\ c = <<c[1], c[2]>> /\ c[1] \in Nat /\ c[2] \in Nat
         /\ c[1] \in Span(o.y, n.y) /\ (func = "GEMM" => c[2] \in Span(o.x, n.x))
<1>1. problem.x \in Nat
  BY OtherProblem
<1> PICK a \in Nat, b \in Nat, d \in Nat, e \in Nat, f \in Nat :
      a = o.y /\ b = o.x /\ d = n.y /\ e = n.x /\ f = problem.x
  BY <1>1 DEF Extents
<1>2. \A i \in Span(a, d) : i \in Nat
  BY DEF Span
<1>3. \A i \in Span(b, e) : i \in Nat
  BY DEF Span
<1>4. \A i \in Span(0, f) : i \in Nat
  BY DEF Span
<1> QED
  BY <1>2, <1>3, <1>4 DEF PartCells

(* What a kernel writes, and what.                                         *)
Computes(s, m) ==
  \A c \in StepCells(s) :
    /\ WholeOf(s) => Kernel(s, m)[c] = Wholly(c, m[c])
    /\ FirstOf(s) => Kernel(s, m)[c] = Once(c, m[c])
    /\ SecondOf(s) => Kernel(s, m)[c] = Again(c, m[c])

LEMMA KernelIs ==
  ASSUME problem \in Problems, ~ Trxm, NEW s, Basic(s), s.size \in Extents, NEW m
  PROVE  DOMAIN Kernel(s, m) = StepCells(s) /\ Computes(s, m)
<1>0. /\ s.func = func /\ s.alpha = problem.alpha /\ s.K = Depth
      /\ func \in {"SYRK", "SYR2K", "GEMM", "GEMV"}
      /\ Syrk <=> func \in {"SYRK", "SYR2K"}
  BY OtherProblem DEF Basic
<1>1. CASE func = "GEMM"
  <2>1. Kernel(s, m) = GemmKernel(s, m)
    BY <1>0, <1>1 DEF Kernel
  <2>2. StepCells(s) = Span(s.offset.y, s.size.y) \X Span(s.offset.x, s.size.x)
    BY <1>0, <1>1 DEF StepCells, PartCells
  <2>3. DOMAIN GemmKernel(s, m) = StepCells(s)
    BY <2>2 DEF GemmKernel
  <2>4. ASSUME NEW c \in StepCells(s), WholeOf(s) PROVE GemmKernel(s, m)[c] = Wholly(c, m[c])
    <3>1. c \in PartCells(s.offset, s.size) /\ s.offset \in Extents
      BY DEF StepCells, Basic
    <3>2. c = <<c[1], c[2]>> /\ c[1] \in Nat /\ c[2] \in Nat
      BY <3>1, PartCell
    <3> PICK i \in Nat, j \in Nat, a \in Nat, b \in Nat : i = c[1] /\ j = c[2] /\ a = s.offset.y /\ b = s.offset.x
      BY <3>1, <3>2 DEF Extents
    <3>3. s.offA.y = a /\ s.offA.x = 0 /\ s.offB.y = 0 /\ s.offB.x = b /\ s.lhs = "A" /\ s.rhs = "B"
          /\ s.beta = problem.beta
      BY <1>1, <2>4 DEF Basic, WholeOf
    <3> PICK f : f = [k \in 0..(Depth - 1) |-> Operand("A", m, a + i - a, 0 + k) * Operand("B", m, 0 + k, b + j - b)]
      BY Zenon
    <3>4. GemmKernel(s, m)[c] = Mod(problem.alpha * Total(Depth, f) + problem.beta * m[c])
      BY <1>0, <2>2, <3>3 DEF GemmKernel
    <3>5. f = [k \in 0..(Depth - 1) |-> OpA(i, k) * OpB(k, j)]
      <4>1. a + i - a = i /\ b + j - b = j
        OBVIOUS
      <4>2. \A k \in 0..(Depth - 1) : 0 + k = k
        OBVIOUS
      <4>3. \A k : Operand("A", m, i, k) = OpA(i, k) /\ Operand("B", m, k, j) = OpB(k, j)
        BY Zenon, OperandIs
      <4>4. f = [k \in 0..(Depth - 1) |-> Operand("A", m, i, 0 + k) * Operand("B", m, 0 + k, j)]
        BY <4>1
      <4>5. f = [k \in 0..(Depth - 1) |-> Operand("A", m, i, k) * Operand("B", m, k, j)]
        BY <4>2, <4>4
      <4> QED
        BY <4>3, <4>5
    <3> QED
      BY Zenon, <1>1, <3>4, <3>5 DEF Wholly, Inner
  <2>5. ~ FirstOf(s) /\ ~ SecondOf(s)
    BY <1>1 DEF FirstOf, SecondOf
  <2> QED
    BY <2>1, <2>3, <2>4, <2>5 DEF Computes
<1>2. CASE func = "GEMV"
  <2>1. Kernel(s, m) = GemvKernel(s, m)
    BY <1>0, <1>2 DEF Kernel
  <2>2. StepCells(s) = Span(s.offset.y, s.size.y) \X {0}
    BY <1>0, <1>2 DEF StepCells, PartCells
  <2>3. DOMAIN GemvKernel(s, m) = StepCells(s)
    BY <2>2 DEF GemvKernel
  <2>4. ASSUME NEW c \in StepCells(s), WholeOf(s) PROVE GemvKernel(s, m)[c] = Wholly(c, m[c])
    <3>1. s.beta = problem.beta
      BY <2>4 DEF WholeOf
    <3> QED
      BY <1>0, <1>2, <2>2, <3>1 DEF GemvKernel, Wholly, Inner
  <2>5. ~ FirstOf(s) /\ ~ SecondOf(s)
    BY <1>2 DEF FirstOf, SecondOf
  <2> QED
    BY <2>1, <2>3, <2>4, <2>5 DEF Computes
<1>3. CASE func \in {"SYRK", "SYR2K"}
  <2>1. Kernel(s, m) = SyrkKernel(s, m)
    BY <1>0, <1>3 DEF Kernel
  <2>2. StepCells(s) = SyrkCells(s)
    BY <1>0, <1>3 DEF StepCells, PartCells, SyrkCells, InTriangle, OnDiagonal
  <2>3. DOMAIN SyrkKernel(s, m) = StepCells(s) /\ Depth = problem.K
    BY <1>3, <2>2 DEF SyrkKernel, Depth
  <2> DEFINE P(l, r, c) == Total(s.K, [k \in 0..(s.K - 1) |-> Operand(l, m, c[1], k) * Operand(r, m, c[2], k)])
  <2>4. ASSUME NEW c, NEW l \in {"A", "B"}, NEW r \in {"A", "B"} PROVE P(l, r, c) = Product(l, r, c)
    <3>1. \A n \in {"A", "B"} : \A i, k : Operand(n, m, i, k) = Named(n, i, k)
      BY Zenon, OperandIs DEF Named
    <3> QED
      BY Zenon, <1>0, <2>3, <3>1 DEF Product, Factors
  <2>5. \A c \in StepCells(s) :
          SyrkKernel(s, m)[c] =
            Mod(s.alpha * (P(s.lhs, s.rhs, c) + IF s.twoProducts THEN P(s.rhs, s.lhs, c) ELSE 0) + s.beta * m[c])
    BY <2>2 DEF SyrkKernel
  <2> HIDE DEF P
  <2>6. ASSUME NEW c \in StepCells(s), WholeOf(s) PROVE SyrkKernel(s, m)[c] = Wholly(c, m[c])
    <3>1. /\ s.lhs = "A" /\ s.rhs = IF func = "SYRK" THEN "A" ELSE "B"
          /\ s.twoProducts = (func = "SYR2K") /\ s.beta = problem.beta
      BY <2>6 DEF WholeOf
    <3>2. /\ P("A", "A", c) = Product("A", "A", c) /\ P("A", "B", c) = Product("A", "B", c)
          /\ P("B", "A", c) = Product("B", "A", c)
      BY <2>4
    <3>3. CASE func = "SYRK"
      <4>1. s.rhs = "A" /\ s.twoProducts = FALSE
        BY Zenon, <3>1, <3>3
      <4> QED
        BY <1>0, <2>5, <3>1, <3>2, <3>3, <4>1 DEF Wholly
    <3>4. CASE func = "SYR2K"
      <4>1. s.rhs = "B" /\ s.twoProducts = TRUE
        BY Zenon, <3>1, <3>4
      <4> QED
        BY <1>0, <2>5, <3>1, <3>2, <3>4, <4>1 DEF Wholly
    <3> QED
      BY <1>3, <3>3, <3>4
  <2>7. ASSUME NEW c \in StepCells(s), FirstOf(s) PROVE SyrkKernel(s, m)[c] = Once(c, m[c])
    BY <1>0, <1>3, <2>4, <2>5, <2>7 DEF FirstOf, Once
  <2>8. ASSUME NEW c \in StepCells(s), SecondOf(s) PROVE SyrkKernel(s, m)[c] = Again(c, m[c])
    BY <1>0, <1>3, <2>4, <2>5, <2>8 DEF SecondOf, Again
  <2> QED
    BY <2>1, <2>3, <2>6, <2>7, <2>8 DEF Computes
<1> QED
  BY <1>0, <1>1, <1>2, <1>3

LEMMA ProductType ==
  ASSUME problem \in Problems, ~ Trxm, NEW l \in {"A", "B"}, NEW r \in {"A", "B"},
         NEW c, c[1] \in Nat, c[2] \in Nat
  PROVE  Product(l, r, c) \in Int
<1> PICK n \in Nat, i \in Nat, j \in Nat : n = problem.K /\ i = c[1] /\ j = c[2]
  BY OtherProblem
<1> PICK f : f = Factors(l, r, c)
  OBVIOUS
<1>1. \A a, k \in Nat : OpA(a, k) \in Int /\ OpB(a, k) \in Int
  <2> SUFFICES ASSUME NEW a \in Nat, NEW k \in Nat PROVE OpA(a, k) \in Int /\ OpB(a, k) \in Int
    OBVIOUS
  <2>1. OpA(a, k) \in Residues /\ OpB(a, k) \in Residues
    BY OpAType, StoredType
  <2> QED
    BY <2>1, ModFacts
<1>2. ASSUME NEW k \in 0..(n - 1) PROVE f[k] \in Int
  <2> PICK p \in Int, q \in Int : p = Named(l, i, k) /\ q = Named(r, j, k)
    BY <1>1 DEF Named
  <2>1. p * q \in Int
    OBVIOUS
  <2> QED
    BY <2>1 DEF Factors
<1>3. Total(n, f) \in Residues
  BY <1>2, TotalType DEF Numbers
<1> QED
  BY <1>3, ModFacts DEF Product

(* The halves of SYR2K give the two products: C is multiplied by beta once. *)
LEMMA Twice ==
  ASSUME problem \in Problems, func = "SYR2K", NEW c, c[1] \in Nat, c[2] \in Nat, NEW v \in Int
  PROVE  Again(c, Once(c, v)) = Wholly(c, v)
<1>0. ~ Trxm
  BY DEF Trxm
<1> PICK a \in Int, b \in Int, p \in Int, q \in Int :
      a = problem.alpha /\ b = problem.beta /\ p = Product("A", "B", c) /\ q = Product("B", "A", c)
  BY <1>0, OtherProblem, ProductType
<1> PICK d \in Int, e \in Int, f \in Int : d = a * p /\ e = a * q /\ f = b * v
  OBVIOUS
<1>1. a * (p + 0) = d /\ a * (q + 0) = e /\ a * (p + q) = d + e
  OBVIOUS
<1>2. Once(c, v) = Mod(d + f) /\ Wholly(c, v) = Mod((d + e) + f)
  BY <1>1 DEF Once, Wholly
<1> PICK m \in Int : m = Mod(d + f)
  <2>1. Mod(d + f) \in Residues
    BY ModFacts
  <2> QED
    BY <2>1, ModFacts
<1>3. 1 * m = m
  OBVIOUS
<1>4. Again(c, m) = Mod(e + m)
  BY <1>1, <1>3 DEF Again
<1>5. Plus(e, Mod(d + f)) = Plus(e, d + f)
  <2> PICK z \in Int : z = d + f
    OBVIOUS
  <2>1. Plus(e, Mod(z)) = Plus(e, z)
    BY ONLY e \in Int, z \in Int, PlusMod
  <2> QED
    BY <2>1
<1>6. e + (d + f) = (d + e) + f
  OBVIOUS
<1> QED
  BY <1>2, <1>4, <1>5, <1>6 DEF Plus

-----------------------------------------------------------------------------
(* The steps of queues that are decomposed: two steps of a queue write the *)
(* same element only as the first and the second product of SYR2K; and a   *)
(* part is written by the final steps of its queue.                        *)
Kind(s) == WholeOf(s) \/ FirstOf(s) \/ SecondOf(s)
Ordered(u) ==
  \A i, j \in DOMAIN u : i < j /\ u[i].queue = u[j].queue =>
    \A c : c \in StepCells(u[i]) /\ c \in StepCells(u[j]) => FirstOf(u[i]) /\ SecondOf(u[j])
Started(u) ==
  \A j \in DOMAIN u : SecondOf(u[j]) =>
    \A c \in StepCells(u[j]) : \E i \in DOMAIN u :
      i < j /\ u[i].queue = u[j].queue /\ FirstOf(u[i]) /\ c \in StepCells(u[i])
CellsOf(q) == PartCells(part[q].offset, part[q].size)
Finished(u) ==
  \A i \in DOMAIN u : \A c \in CellsOf(u[i].queue) : \E j \in DOMAIN u :
    u[j].queue = u[i].queue /\ Final(u[j]) /\ c \in StepCells(u[j])
InParts(u) ==
  \A i \in DOMAIN u : /\ u[i].offset = part[u[i].queue].offset /\ u[i].size = part[u[i].queue].size
                      /\ IsStep(u[i]) /\ Kind(u[i])
Packed(u) == IsSeq(u) /\ InParts(u) /\ Ordered(u) /\ Started(u) /\ Finished(u)

LEMMA PackedAppended ==
  ASSUME NEW u, NEW w, Packed(u), Packed(w),
         \A i \in DOMAIN u, j \in DOMAIN w : u[i].queue # w[j].queue
  PROVE  Packed(u \o w)
<1> PICK n \in Nat, m \in Nat : n = Len(u) /\ m = Len(w) /\ DOMAIN u = 1..n /\ DOMAIN w = 1..m
  BY SeqFacts DEF Packed
<1> PICK v : v = u \o w
  BY Zenon
<1>1. /\ IsSeq(v) /\ DOMAIN v = 1..(n + m)
      /\ \A i \in 1..n : v[i] = u[i]
      /\ \A k \in 1..m : v[n + k] = w[k]
  <2>1. IsSeq(v) /\ Len(v) = n + m /\ (\A i \in 1..n : v[i] = u[i]) /\ (\A k \in 1..m : v[n + k] = w[k])
    BY ConcatFacts DEF Packed
  <2> QED
    BY <2>1, SeqFacts
<1>2. \A i \in 1..(n + m) : i \in 1..n \/ \E k \in 1..m : i = n + k
  <2> SUFFICES ASSUME NEW i \in 1..(n + m), i \notin 1..n PROVE \E k \in 1..m : i = n + k
    OBVIOUS
  <2>1. i - n \in 1..m /\ i = n + (i - n)
    OBVIOUS
  <2> QED
    BY <2>1
<1>3. \A i \in 1..n : i \in 1..(n + m)
  OBVIOUS
<1>4. \A k \in 1..m : n + k \in 1..(n + m)
  OBVIOUS
<1>5. InParts(v)
  <2> SUFFICES ASSUME NEW i \in 1..(n + m)
               PROVE  /\ v[i].offset = part[v[i].queue].offset /\ v[i].size = part[v[i].queue].size
                      /\ IsStep(v[i]) /\ Kind(v[i])
    BY <1>1 DEF InParts
  <2>1. CASE i \in 1..n
    <3>1. v[i] = u[i]
      BY <1>1, <2>1
    <3> QED
      BY <2>1, <3>1 DEF Packed, InParts
  <2>2. CASE i \notin 1..n
    <3> PICK k \in 1..m : i = n + k
      BY <1>2, <2>2
    <3>1. v[i] = w[k]
      BY <1>1
    <3> QED
      BY <3>1 DEF Packed, InParts
  <2> QED
    BY <2>1, <2>2
<1>6. Ordered(v)
  <2> SUFFICES ASSUME NEW i \in 1..(n + m), NEW j \in 1..(n + m), i < j, v[i].queue = v[j].queue,
                      NEW c, c \in StepCells(v[i]), c \in StepCells(v[j])
               PROVE  FirstOf(v[i]) /\ SecondOf(v[j])
    BY Zenon, <1>1 DEF Ordered
  <2>1. CASE i \in 1..n /\ j \in 1..n
    BY Zenon, <1>1, <2>1 DEF Packed, Ordered
  <2>2. CASE i \in 1..n /\ j \notin 1..n
    <3> PICK k \in 1..m : j = n + k
      BY <1>2, <2>2
    <3>1. v[i] = u[i] /\ v[j] = w[k] /\ i \in DOMAIN u /\ k \in DOMAIN w
      BY Zenon, <1>1, <2>2
    <3> QED
      BY Zenon, <3>1
  <2>3. CASE i \notin 1..n
    <3> PICK k \in 1..m : i = n + k
      BY <1>2, <2>3
    <3>1. j \notin 1..n
      OBVIOUS
    <3> PICK l \in 1..m : j = n + l
      BY <1>2, <3>1
    <3>2. k < l /\ v[i] = w[k] /\ v[j] = w[l]
      BY <1>1
    <3> QED
      BY Zenon, <3>2 DEF Packed, Ordered
  <2> QED
    BY <2>1, <2>2, <2>3
<1>7. Started(v)
  <2> SUFFICES ASSUME NEW j \in 1..(n + m), SecondOf(v[j]), NEW c \in StepCells(v[j])
               PROVE  \E i \in 1..(n + m) :
                        i < j /\ v[i].queue = v[j].queue /\ FirstOf(v[i]) /\ c \in StepCells(v[i])
    BY Zenon, <1>1 DEF Started
  <2>1. CASE j \in 1..n
    <3> PICK i \in 1..n : i < j /\ u[i].queue = u[j].queue /\ FirstOf(u[i]) /\ c \in StepCells(u[i])
      BY Zenon, <1>1, <2>1 DEF Packed, Started
    <3> QED
      BY <1>1, <1>3, <2>1
  <2>2. CASE j \notin 1..n
    <3> PICK k \in 1..m : j = n + k
      BY <1>2, <2>2
    <3> PICK i \in 1..m : i < k /\ w[i].queue = w[k].queue /\ FirstOf(w[i]) /\ c \in StepCells(w[i])
      BY Zenon, <1>1 DEF Packed, Started
    <3>0. n + i \in 1..(n + m) /\ n + i < j
      BY ONLY n \in Nat, m \in Nat, i \in 1..m, i < k, j = n + k, k \in 1..m
    <3> PICK h \in 1..(n + m) : h = n + i /\ h < j
      BY <3>0
    <3>1. v[h] = w[i] /\ v[j] = w[k]
      BY <1>1
    <3>2. v[h].queue = v[j].queue /\ FirstOf(v[h]) /\ c \in StepCells(v[h])
      BY <3>1
    <3> QED
      BY ONLY <3>2, h \in 1..(n + m), h < j
  <2> QED
    BY Zenon, <2>1, <2>2
<1>8. Finished(v)
  <2> SUFFICES ASSUME NEW i \in DOMAIN v, NEW c \in CellsOf(v[i].queue)
               PROVE  \E j \in DOMAIN v :
                        v[j].queue = v[i].queue /\ Final(v[j]) /\ c \in StepCells(v[j])
    BY Zenon DEF Finished
  <2>1. CASE i \in 1..n
    <3> PICK j \in 1..n : u[j].queue = u[i].queue /\ Final(u[j]) /\ c \in StepCells(u[j])
      BY Zenon, <1>1, <2>1 DEF Packed, Finished
    <3> QED
      BY <1>1, <1>3, <2>1
  <2>2. CASE i \notin 1..n
    <3> PICK k \in 1..m : i = n + k
      BY <1>2, <2>2
    <3>1. v[i] = w[k]
      BY <1>1
    <3> PICK j \in 1..m : w[j].queue = w[k].queue /\ Final(w[j]) /\ c \in StepCells(w[j])
      BY Zenon, <1>1, <3>1 DEF Packed, Finished
    <3> PICK h \in 1..(n + m) : h = n + j
      BY <1>4
    <3>2. v[h] = w[j] /\ h \in DOMAIN v
      BY <1>1
    <3> QED
      BY Zenon, <3>1, <3>2
  <2> QED
    BY Zenon, <2>1, <2>2
<1> QED
  BY <1>1, <1>5, <1>6, <1>7, <1>8 DEF Packed

-----------------------------------------------------------------------------
(* The steps of one queue.                                                 *)
OfQueue(s, q, d) ==
  /\ s.queue = q /\ s.offset = part[q].offset /\ s.size = part[q].size
  /\ IsStep(s) /\ s.diagonal = d

LEMMA CellsBy ==
  ASSUME NEW q, NEW s, NEW d, OfQueue(s, q, d)
  PROVE  /\ d = "all" => StepCells(s) = CellsOf(q)
         /\ d = "off" => \A c : c \in StepCells(s) <=> c \in CellsOf(q) /\ (Syrk => ~ OnDiagonal(c))
         /\ d = "on" => \A c : c \in StepCells(s) <=> c \in CellsOf(q) /\ (Syrk => OnDiagonal(c))
  BY DEF OfQueue, StepCells, CellsOf

LEMMA KindsDiffer ==
  ASSUME NEW s
  PROVE  /\ WholeOf(s) => ~ FirstOf(s) /\ ~ SecondOf(s)
         /\ FirstOf(s) => ~ SecondOf(s) /\ ~ Final(s)
  BY Zenon DEF WholeOf, FirstOf, SecondOf, Final

LEMMA OnePacked ==
  ASSUME NEW q, NEW s, OfQueue(s, q, "all"), WholeOf(s)
  PROVE  Packed(<<s>>)
<1> PICK u : u = <<s>>
  BY Zenon
<1>1. u[1] = s /\ IsSeq(u) /\ DOMAIN u = {1}
  <2>1. u[1] = s
    OBVIOUS
  <2>2. IsSeq(u) /\ DOMAIN u = {1}
    BY TupleFacts, Zenon
  <2> QED
    BY <2>1, <2>2
<1>2. StepCells(s) = CellsOf(q) /\ s.queue = q /\ ~ SecondOf(s)
  BY CellsBy, KindsDiffer DEF OfQueue
<1>3. InParts(u)
  BY <1>1 DEF InParts, OfQueue, Kind
<1>4. Ordered(u)
  BY <1>1 DEF Ordered
<1>5. Started(u)
  BY <1>1, <1>2 DEF Started
<1>6. Finished(u)
  BY <1>1, <1>2 DEF Finished, Final
<1> QED
  BY <1>1, <1>3, <1>4, <1>5, <1>6 DEF Packed

LEMMA TwoIs ==
  ASSUME NEW x, NEW y
  PROVE  IsSeq(<<x, y>>) /\ DOMAIN <<x, y>> = {1, 2} /\ Len(<<x, y>>) = 2 /\ <<x, y>>[1] = x /\ <<x, y>>[2] = y
<1> PICK u : u = <<x, y>>
  BY Zenon
<1>1. u[1] = x /\ u[2] = y
  OBVIOUS
<1>2. IsSeq(u) /\ DOMAIN u = {1, 2} /\ Len(u) = 2
  BY TupleFacts, Zenon
<1> QED
  BY <1>1, <1>2

LEMMA HalvesPacked ==
  ASSUME NEW q, NEW x, NEW y, OfQueue(x, q, "all"), OfQueue(y, q, "all"), FirstOf(x), SecondOf(y)
  PROVE  Packed(<<x, y>>)
<1> PICK u : u = <<x, y>>
  BY Zenon
<1>1. u[1] = x /\ u[2] = y /\ IsSeq(u) /\ DOMAIN u = {1, 2}
  BY TwoIs
<1>2. /\ StepCells(x) = CellsOf(q) /\ StepCells(y) = CellsOf(q)
      /\ x.queue = q /\ y.queue = q /\ ~ SecondOf(x) /\ Final(y)
  BY CellsBy, KindsDiffer DEF OfQueue, Final
<1>3. InParts(u)
  BY <1>1 DEF InParts, OfQueue, Kind
<1>4. Ordered(u)
  BY <1>1 DEF Ordered
<1>5. Started(u)
  BY <1>1, <1>2 DEF Started
<1>6. Finished(u)
  BY <1>1, <1>2 DEF Finished
<1> QED
  BY <1>1, <1>3, <1>4, <1>5, <1>6 DEF Packed

LEMMA PairPacked ==
  ASSUME Syrk, NEW q, NEW x, NEW y, OfQueue(x, q, "off"), OfQueue(y, q, "on"), WholeOf(x), WholeOf(y)
  PROVE  Packed(<<x, y>>)
<1> PICK u : u = <<x, y>>
  BY Zenon
<1>1. u[1] = x /\ u[2] = y /\ IsSeq(u) /\ DOMAIN u = {1, 2}
  BY TwoIs
<1>2. /\ \A c : c \in StepCells(x) <=> c \in CellsOf(q) /\ ~ OnDiagonal(c)
      /\ \A c : c \in StepCells(y) <=> c \in CellsOf(q) /\ OnDiagonal(c)
  BY CellsBy
<1>3. x.queue = q /\ y.queue = q /\ ~ SecondOf(x) /\ ~ SecondOf(y) /\ Final(x) /\ Final(y)
  BY KindsDiffer DEF OfQueue, Final
<1>4. InParts(u)
  BY <1>1 DEF InParts, OfQueue, Kind
<1>5. Ordered(u)
  BY <1>1, <1>2 DEF Ordered
<1>6. Started(u)
  BY <1>1, <1>3 DEF Started
<1>7. Finished(u)
  BY <1>1, <1>2, <1>3 DEF Finished
<1> QED
  BY <1>1, <1>4, <1>5, <1>6, <1>7 DEF Packed

LEMMA FourPacked ==
  ASSUME Syrk, NEW q, NEW x, NEW y, NEW z, NEW w,
         OfQueue(x, q, "off"), OfQueue(y, q, "on"), OfQueue(z, q, "off"), OfQueue(w, q, "on"),
         FirstOf(x), FirstOf(y), SecondOf(z), SecondOf(w)
  PROVE  Packed(<<x, y>> \o <<z, w>>)
<1> PICK a : a = <<x, y>>
  BY Zenon
<1> PICK b : b = <<z, w>>
  BY Zenon
<1> PICK u : u = a \o b
  BY Zenon
<1>1. u[1] = x /\ u[2] = y /\ u[3] = z /\ u[4] = w /\ IsSeq(u) /\ DOMAIN u = {1, 2, 3, 4}
  <2>1. /\ IsSeq(a) /\ Len(a) = 2 /\ a[1] = x /\ a[2] = y
        /\ IsSeq(b) /\ Len(b) = 2 /\ b[1] = z /\ b[2] = w
    BY TwoIs
  <2>2. /\ IsSeq(u) /\ Len(u) = Len(a) + Len(b)
        /\ \A i \in 1..Len(a) : u[i] = a[i]
        /\ \A k \in 1..Len(b) : u[Len(a) + k] = b[k]
    BY <2>1, ConcatFacts
  <2>3. 1 \in 1..2 /\ 2 \in 1..2 /\ 2 + 1 = 3 /\ 2 + 2 = 4
    OBVIOUS
  <2>4. Len(u) = 4 /\ u[1] = a[1] /\ u[2] = a[2] /\ u[2 + 1] = b[1] /\ u[2 + 2] = b[2]
    BY <2>1, <2>2, <2>3
  <2>5. DOMAIN u = 1..4
    BY <2>2, <2>4, SeqFacts
  <2> QED
    BY <2>1, <2>2, <2>3, <2>4, <2>5
<1>2. /\ \A c : c \in StepCells(x) <=> c \in CellsOf(q) /\ ~ OnDiagonal(c)
      /\ \A c : c \in StepCells(y) <=> c \in CellsOf(q) /\ OnDiagonal(c)
      /\ \A c : c \in StepCells(z) <=> c \in CellsOf(q) /\ ~ OnDiagonal(c)
      /\ \A c : c \in StepCells(w) <=> c \in CellsOf(q) /\ OnDiagonal(c)
  BY CellsBy
<1>3. /\ x.queue = q /\ y.queue = q /\ z.queue = q /\ w.queue = q
      /\ ~ SecondOf(x) /\ ~ SecondOf(y) /\ Final(z) /\ Final(w)
  BY KindsDiffer DEF OfQueue, Final
<1>4. InParts(u)
  <2> SUFFICES ASSUME NEW i \in DOMAIN u
               PROVE  /\ u[i].offset = part[u[i].queue].offset /\ u[i].size = part[u[i].queue].size
                      /\ IsStep(u[i]) /\ Kind(u[i])
    BY DEF InParts
  <2>1. CASE i = 1
    BY <1>1, <2>1 DEF OfQueue, Kind
  <2>2. CASE i = 2
    BY <1>1, <2>2 DEF OfQueue, Kind
  <2>3. CASE i = 3
    BY <1>1, <2>3 DEF OfQueue, Kind
  <2>4. CASE i = 4
    BY <1>1, <2>4 DEF OfQueue, Kind
  <2> QED
    BY <1>1, <2>1, <2>2, <2>3, <2>4
<1>5. Ordered(u)
  <2> SUFFICES ASSUME NEW i \in {1, 2, 3, 4}, NEW j \in {1, 2, 3, 4}, i < j,
                      NEW c, c \in StepCells(u[i]), c \in StepCells(u[j])
               PROVE  FirstOf(u[i]) /\ SecondOf(u[j])
    BY <1>1 DEF Ordered
  <2>1. CASE i = 1
    BY <1>1, <1>2, <2>1
  <2>2. CASE i = 2
    BY <1>1, <1>2, <2>2
  <2>3. CASE i = 3
    BY <1>1, <1>2, <2>3
  <2> QED
    BY <2>1, <2>2, <2>3
<1>6. Started(u)
  <2> SUFFICES ASSUME NEW j \in {1, 2, 3, 4}, SecondOf(u[j]), NEW c \in StepCells(u[j])
               PROVE  \E i \in {1, 2, 3, 4} :
                        i < j /\ u[i].queue = u[j].queue /\ FirstOf(u[i]) /\ c \in StepCells(u[i])
    BY <1>1 DEF Started
  <2>1. j = 3 \/ j = 4
    BY <1>1, <1>3
  <2>2. CASE j = 3
    BY <1>1, <1>2, <1>3, <2>2
  <2>3. CASE j = 4
    BY <1>1, <1>2, <1>3, <2>3
  <2> QED
    BY <2>1, <2>2, <2>3
<1>7. Finished(u)
  <2> SUFFICES ASSUME NEW i \in DOMAIN u, NEW c \in CellsOf(u[i].queue)
               PROVE  \E j \in DOMAIN u : u[j].queue = u[i].queue /\ Final(u[j]) /\ c \in StepCells(u[j])
    BY Zenon DEF Finished
  <2>1. u[i].queue = q
    BY <1>1, <1>3
  <2>2. c \in StepCells(z) \/ c \in StepCells(w)
    BY <1>2, <2>1
  <2> QED
    BY <1>1, <1>3, <2>1, <2>2
<1> QED
  BY <1>1, <1>4, <1>5, <1>6, <1>7 DEF Packed

-----------------------------------------------------------------------------
(* What decomposition makes of the steps of the other functions.           *)

(* What the decompositions of SYRK and SYR2K make of a step.               *)
PairOf(u, t, q, x, y) ==
  /\ u = <<x, y>> /\ OfQueue(x, q, "off") /\ OfQueue(y, q, "on")
  /\ WholeOf(t) => WholeOf(x) /\ WholeOf(y)
  /\ FirstOf(t) => FirstOf(x) /\ FirstOf(y)
  /\ SecondOf(t) => SecondOf(x) /\ SecondOf(y)

LEMMA PairIs ==
  ASSUME NEW q, NEW t, OfQueue(t, q, "all"), NEW d
  PROVE  \E x, y : PairOf(SyrkPair(t, d), t, q, x, y)
<1> DEFINE x == [t EXCEPT !.diagonal = "off", !.event = d]
           y == [t EXCEPT !.diagonal = "on", !.waits = {d}]
<1>0. IsStep(t)
  BY DEF OfQueue
<1>1. /\ IsStep(x) /\ x.diagonal = "off"
      /\ \A f \in AllFields \ {"diagonal", "waits", "event"} : x[f] = t[f]
  BY Zenon, <1>0 DEF IsStep, AllFields
<1>2. /\ IsStep(y) /\ y.diagonal = "on"
      /\ \A f \in AllFields \ {"diagonal", "waits", "event"} : y[f] = t[f]
  BY Zenon, <1>0 DEF IsStep, AllFields
<1>3. SyrkPair(t, d) = <<x, y>>
  BY DEF SyrkPair
<1> HIDE DEF x, y
<1>4. ASSUME NEW z, \A f \in AllFields \ {"diagonal", "waits", "event"} : z[f] = t[f],
             z.diagonal \in {"off", "on"}, IsStep(z)
      PROVE  /\ OfQueue(z, q, z.diagonal)
             /\ WholeOf(t) => WholeOf(z)
             /\ FirstOf(t) => FirstOf(z)
             /\ SecondOf(t) => SecondOf(z)
  <2>1. /\ z.func = t.func /\ z.queue = t.queue /\ z.offset = t.offset /\ z.size = t.size /\ z.K = t.K
        /\ z.lhs = t.lhs /\ z.rhs = t.rhs /\ z.offA = t.offA /\ z.offB = t.offB /\ z.alpha = t.alpha
        /\ z.beta = t.beta /\ z.twoProducts = t.twoProducts
    BY <1>4 DEF AllFields
  <2>2. OfQueue(z, q, z.diagonal)
    BY <1>4, <2>1 DEF OfQueue
  <2>3. Basic(t) => Basic(z)
    BY <1>4, <2>1 DEF Basic
  <2>4. WholeOf(t) => WholeOf(z)
    BY <2>1, <2>3 DEF WholeOf
  <2>5. FirstOf(t) => FirstOf(z)
    BY <2>1, <2>3 DEF FirstOf
  <2>6. SecondOf(t) => SecondOf(z)
    BY <2>1, <2>3 DEF SecondOf
  <2> QED
    BY <2>2, <2>4, <2>5, <2>6
<1>5. PairOf(SyrkPair(t, d), t, q, x, y)
  BY <1>1, <1>2, <1>3, <1>4 DEF PairOf
<1> QED
  BY <1>5

LEMMA HalvesAre ==
  ASSUME NEW q, NEW s, OfQueue(s, q, "all"), WholeOf(s), func = "SYR2K", NEW d
  PROVE  \E x, y : /\ Syr2kHalves(s, d) = <<x, y>> /\ OfQueue(x, q, "all") /\ OfQueue(y, q, "all")
                   /\ FirstOf(x) /\ SecondOf(y)
<1> DEFINE x == [s EXCEPT !.twoProducts = FALSE, !.event = d]
           y == [s EXCEPT !.twoProducts = FALSE, !.lhs = s.rhs, !.rhs = s.lhs,
                          !.beta = BetaOnce(s), !.waits = {d}]
<1>0. IsStep(s) /\ s.lhs = "A" /\ s.rhs = "B" /\ s.beta = problem.beta /\ BetaOnce(s) = 1
  BY DEF OfQueue, WholeOf, BetaOnce
<1>1. /\ IsStep(x) /\ x.twoProducts = FALSE /\ x.lhs = "A" /\ x.rhs = "B" /\ x.beta = problem.beta
      /\ x.func = s.func /\ x.queue = s.queue /\ x.offset = s.offset /\ x.size = s.size /\ x.K = s.K
      /\ x.alpha = s.alpha /\ x.diagonal = s.diagonal
  BY Zenon, <1>0 DEF IsStep, AllFields
<1>2. /\ IsStep(y) /\ y.twoProducts = FALSE /\ y.lhs = "B" /\ y.rhs = "A" /\ y.beta = 1
      /\ y.func = s.func /\ y.queue = s.queue /\ y.offset = s.offset /\ y.size = s.size /\ y.K = s.K
      /\ y.alpha = s.alpha /\ y.diagonal = s.diagonal
  BY Zenon, <1>0 DEF IsStep, AllFields
<1>3. Syr2kHalves(s, d) = <<x, y>>
  BY DEF Syr2kHalves
<1> HIDE DEF x, y
<1>4. Basic(x) /\ Basic(y)
  BY <1>1, <1>2 DEF Basic, WholeOf
<1>5. FirstOf(x) /\ SecondOf(y)
  BY <1>1, <1>2, <1>4 DEF FirstOf, SecondOf
<1>6. OfQueue(x, q, "all") /\ OfQueue(y, q, "all")
  BY <1>1, <1>2 DEF OfQueue
<1> QED
  BY <1>3, <1>5, <1>6

(* The step of a queue, as it is made.                                     *)
LEMMA MadeWhole ==
  ASSUME problem \in Problems, ~ Trxm, NEW q, part[q] \in Parts,
         func = "GEMV" => part[q].size.x = problem.x,
         NEW s, s = StepOf(q, part[q].offset, part[q].size)
  PROVE  /\ func = "GEMM" => /\ OfQueue(FixupGemmOffsets(s, 0), q, "all")
                             /\ WholeOf(FixupGemmOffsets(s, 0))
         /\ func # "GEMM" => OfQueue(s, q, "all") /\ WholeOf(s)
<1> PICK o, n : o = part[q].offset /\ n = part[q].size
  OBVIOUS
<1>0. o \in Extents /\ n \in Extents
  BY DEF Parts
<1>1. /\ s.func = func /\ s.queue = q /\ s.offset = o /\ s.size = n
      /\ s.K = IF func = "GEMV" THEN n.x ELSE problem.K
      /\ s.lhs = "A" /\ s.rhs = (IF func = "SYRK" THEN "A" ELSE "B")
      /\ s.alpha = problem.alpha /\ s.beta = problem.beta /\ s.diagonal = "all"
      /\ s.twoProducts = (func = "SYR2K")
  BY OtherProblem DEF StepOf, Turned
<1>2. IsStep(s) /\ s.K = Depth
  BY <1>1, StepIs DEF Depth
<1>3. CASE func # "GEMM"
  BY <1>0, <1>1, <1>2, <1>3 DEF OfQueue, WholeOf, Basic
<1>4. CASE func = "GEMM"
  <2> PICK f : f = FixupGemmOffsets(s, 0)
    OBVIOUS
  <2>1. /\ IsStep(f) /\ f.offA = [y |-> s.offset.y, x |-> 0] /\ f.offB = [y |-> 0, x |-> s.offset.x]
        /\ \A i \in AllFields \ {"offA", "offB"} : f[i] = s[i]
    BY ONLY <1>2, f = FixupGemmOffsets(s, 0), Fixed
  <2>2. /\ f.func = s.func /\ f.queue = s.queue /\ f.offset = s.offset /\ f.size = s.size /\ f.K = s.K
        /\ f.lhs = s.lhs /\ f.rhs = s.rhs /\ f.alpha = s.alpha /\ f.beta = s.beta
        /\ f.diagonal = s.diagonal /\ f.twoProducts = s.twoProducts
    BY ONLY <2>1 DEF AllFields
  <2>3. Basic(f) /\ OfQueue(f, q, "all")
    BY <1>0, <1>1, <1>2, <1>4, <2>1, <2>2 DEF OfQueue, Basic
  <2>4. WholeOf(f)
    BY <1>1, <1>4, <2>2, <2>3 DEF WholeOf
  <2> QED
    BY <1>4, <2>3, <2>4
<1> QED
  BY <1>3, <1>4

(* What is promised, element by element.                                   *)
Start == [c \in OutElements |-> InitialOut(c[1], c[2])]

LEMMA PromisedIs ==
  ASSUME problem \in Problems, ~ Trxm
  PROVE  /\ DOMAIN After(WholeStep, Start) = OutElements
         /\ \A c \in OutElements :
              After(WholeStep, Start)[c] =
                IF c \in PartCells(Origin, Full) THEN Wholly(c, Start[c]) ELSE Start[c]
<1> PICK s : s = WholeStep
  OBVIOUS
<1>0. problem.y \in Nat /\ problem.x \in Nat
  BY OtherProblem
<1>1. /\ s.func = func /\ s.offset = Origin /\ s.size = Full
      /\ s.K = IF func = "GEMV" THEN problem.x ELSE problem.K
      /\ s.lhs = "A" /\ s.rhs = (IF func = "SYRK" THEN "A" ELSE "B")
      /\ s.offA = Origin /\ s.offB = Origin
      /\ s.alpha = problem.alpha /\ s.beta = problem.beta /\ s.diagonal = "all"
      /\ s.twoProducts = (func = "SYR2K")
  BY OtherProblem DEF WholeStep, StepOf, Turned, Full
<1>2. Origin \in Extents /\ Full \in Extents /\ Origin = [y |-> s.offset.y, x |-> 0]
      /\ Origin = [y |-> 0, x |-> s.offset.x]
  BY <1>0, <1>1 DEF Extents, Origin, Full
<1>3. WholeOf(s) /\ s.size \in Extents
  BY <1>1, <1>2 DEF WholeOf, Basic, Depth
<1>4. DOMAIN Kernel(s, Start) = StepCells(s) /\ Computes(s, Start)
  BY <1>3, KernelIs DEF WholeOf
<1>5. StepCells(s) = PartCells(Origin, Full)
  BY <1>1 DEF StepCells
<1>6. DOMAIN Start = OutElements
  BY DEF Start
<1>7. DOMAIN After(s, Start) = DOMAIN Start
      /\ \A c \in DOMAIN Start :
           After(s, Start)[c] = IF c \in DOMAIN Kernel(s, Start) THEN Kernel(s, Start)[c] ELSE Start[c]
  BY AfterIs
<1> QED
  BY <1>3, <1>4, <1>5, <1>6, <1>7 DEF Computes

-----------------------------------------------------------------------------
(* What changes with the problem only.                                     *)

(* What is said of steps and elements only depends on the problem and on   *)
(* the parts of the queues.                                                *)
LEMMA SameProblem ==
  ASSUME problem' = problem
  PROVE  /\ func' = func /\ (Trxm' <=> Trxm) /\ (Syrk' <=> Syrk)
         /\ OutElements' = OutElements /\ Start' = Start /\ WholeStep' = WholeStep /\ Full' = Full
         /\ Queues' = Queues
<1>1. func' = func /\ Full' = Full /\ Queues' = Queues
  BY DEF func, Full, Queues
<1>2. (Trxm' <=> Trxm) /\ (Syrk' <=> Syrk)
  BY <1>1 DEF Trxm, Syrk
<1>3. \A v : Turned(v)' = Turned(v)
  BY DEF Turned
<1>4. OutElements' = OutElements
  BY <1>1, <1>3 DEF OutElements
<1>5. Start' = Start
  BY <1>4 DEF Start
<1>6. WholeStep' = WholeStep
  BY <1>1, <1>3 DEF WholeStep, StepOf
<1> QED
  BY <1>1, <1>2, <1>4, <1>5, <1>6

LEMMA SameKinds ==
  ASSUME problem' = problem
  PROVE  /\ \A s : /\ StepCells(s)' = StepCells(s)
                   /\ WholeOf(s)' <=> WholeOf(s)
                   /\ FirstOf(s)' <=> FirstOf(s)
                   /\ SecondOf(s)' <=> SecondOf(s)
                   /\ Final(s)' <=> Final(s)
                   /\ Kind(s)' <=> Kind(s)
         /\ \A o, n : PartCells(o, n)' = PartCells(o, n)
         /\ \A c, v : Once(c, v)' = Once(c, v)
<1>1. func' = func /\ (Syrk' <=> Syrk) /\ Depth' = Depth
  BY SameProblem DEF Depth
<1>2. \A o, n : PartCells(o, n)' = PartCells(o, n)
  BY <1>1 DEF PartCells, InTriangle
<1>3. \A s : StepCells(s)' = StepCells(s)
  BY <1>1, <1>2 DEF StepCells
<1>4. \A s : Basic(s)' <=> Basic(s)
  BY <1>1 DEF Basic
<1>5. \A s : /\ WholeOf(s)' <=> WholeOf(s)
             /\ FirstOf(s)' <=> FirstOf(s)
             /\ SecondOf(s)' <=> SecondOf(s)
  BY <1>1, <1>4 DEF WholeOf, FirstOf, SecondOf
<1>6. \A s : /\ Final(s)' <=> Final(s)
             /\ Kind(s)' <=> Kind(s)
  BY <1>5 DEF Final, Kind
<1>7. \A l, i, k : Named(l, i, k)' = Named(l, i, k)
  BY DEF Named, OpA
<1>8. \A l, r, c : Factors(l, r, c)' = Factors(l, r, c)
  BY <1>7 DEF Factors
<1>9. \A l, r, c : Product(l, r, c)' = Product(l, r, c)
  BY <1>8 DEF Product
<1>10. \A c, v : Once(c, v)' = Once(c, v)
  BY <1>9 DEF Once
<1> QED
  BY <1>2, <1>3, <1>5, <1>6, <1>10

LEMMA SamePacks ==
  ASSUME problem' = problem, part' = part
  PROVE  \A u : Packed(u)' <=> Packed(u)
<1>1. \A q : CellsOf(q)' = CellsOf(q)
  BY SameKinds DEF CellsOf
<1>2. \A u : InParts(u)' <=> InParts(u)
  BY SameKinds DEF InParts
<1>3. \A u : Ordered(u)' <=> Ordered(u)
  BY SameKinds DEF Ordered
<1>4. \A u : Started(u)' <=> Started(u)
  BY SameKinds DEF Started
<1>5. \A u : Finished(u)' <=> Finished(u)
  BY <1>1, SameKinds DEF Finished
<1> QED
  BY <1>2, <1>3, <1>4, <1>5 DEF Packed

LEMMA SameHalves ==
  ASSUME problem' = problem
  PROVE  /\ \A s, o, n : HalfStep(s, o, n)' <=> HalfStep(s, o, n)
         /\ \A u, x, y, z, h, k, g : TrxmAs(u, x, y, z, h, k, g)' <=> TrxmAs(u, x, y, z, h, k, g)
<1>1. func' = func /\ (SecondGetsBlock' <=> SecondGetsBlock) /\ (\A v : Turned(v)' = Turned(v))
  BY SameProblem DEF SecondGetsBlock, PositionUpper, Turned
<1>2. \A s, o, n : HalfStep(s, o, n)' <=> HalfStep(s, o, n)
  BY <1>1 DEF HalfStep
<1>3. \A s, o, n, from, len, g : BlockStep(s, o, n, from, len, g)' <=> BlockStep(s, o, n, from, len, g)
  BY <1>1 DEF BlockStep
<1>4. \A x, y, z, h, k, g : InHalves(x, y, z, h, k, g)' <=> InHalves(x, y, z, h, k, g)
  BY <1>1, <1>2, <1>3 DEF InHalves
<1>5. \A u, x, y, z, h, k, g : TrxmAs(u, x, y, z, h, k, g)' <=> TrxmAs(u, x, y, z, h, k, g)
  BY <1>4 DEF TrxmAs
<1> QED
  BY <1>2, <1>5

GemmTerms(s, m, c) ==
  [k \in 0..(s.K - 1) |-> Operand(s.lhs, m, s.offA.y + c[1] - s.offset.y, s.offA.x + k)
                            * Operand(s.rhs, m, s.offB.y + k, s.offB.x + c[2] - s.offset.x)]
SyrkTerms(s, m, l, r, c) ==
  [k \in 0..(s.K - 1) |-> Operand(l, m, c[1], k) * Operand(r, m, c[2], k)]

LEMMA SameAfter ==
  ASSUME problem' = problem
  PROVE  \A s, m : After(s, m)' = After(s, m)
<1>1. /\ \A v : Turned(v)' = Turned(v)
      /\ \A t, l : Cell(t, l)' = Cell(t, l)
      /\ \A c : PlaceOf(c)' = PlaceOf(c) /\ LineOf(c)' = LineOf(c)
      /\ \A i, k : OpA(i, k)' = OpA(i, k)
      /\ (PositionUpper' <=> PositionUpper) /\ (FromTop' <=> FromTop)
  BY DEF Turned, Cell, PlaceOf, LineOf, OpA, PositionUpper, FromTop
<1>2. \A i, k : TriangleA(i, k)' = TriangleA(i, k)
  BY <1>1 DEF TriangleA
<1>3. \A t, s : Along(t, s)' = Along(t, s)
  BY <1>2 DEF Along
<1>4. \A s : TrxmCells(s)' = TrxmCells(s)
  BY <1>1 DEF TrxmCells
<1>5. \A s, m : TrmmKernel(s, m)' = TrmmKernel(s, m)
  BY Zenon, <1>1, <1>3, <1>4 DEF TrmmKernel
<1>6. \A i, o, n : SolvedAt(i, o, n)' = SolvedAt(i, o, n)
  BY <1>1 DEF SolvedAt
<1>7. \A a, m, l, o, n : Solution(a, m, l, o, n)' = Solution(a, m, l, o, n)
  BY <1>1, <1>3, <1>6 DEF Solution
<1>8. \A s, m : TrsmKernel(s, m)' = TrsmKernel(s, m)
  BY <1>1, <1>4, <1>7 DEF TrsmKernel
<1>9. \A a, m, i, k : Operand(a, m, i, k)' = Operand(a, m, i, k)
  BY Zenon, <1>1 DEF Operand
<1>10. \A s, m : GemmKernel(s, m)' = GemmKernel(s, m)
  <2>1. \A s, m, c : GemmTerms(s, m, c)' = GemmTerms(s, m, c)
    BY <1>9 DEF GemmTerms
  <2> QED
    <3>1. \A s, m : GemmKernel(s, m) =
            [c \in Span(s.offset.y, s.size.y) \X Span(s.offset.x, s.size.x) |->
               Mod(s.alpha * Total(s.K, GemmTerms(s, m, c)) + s.beta * m[c])]
      BY Zenon DEF GemmKernel, GemmTerms
    <3>2. \A s, m : GemmKernel(s, m)' =
            [c \in Span(s.offset.y, s.size.y) \X Span(s.offset.x, s.size.x) |->
               Mod(s.alpha * Total(s.K, GemmTerms(s, m, c)') + s.beta * m[c])]
      BY Zenon DEF GemmKernel, GemmTerms
    <3> QED
      BY Zenon, <2>1, <3>1, <3>2
<1>11. \A s, m : GemvKernel(s, m)' = GemvKernel(s, m)
  BY Zenon, <1>1 DEF GemvKernel
<1>12. \A s : SyrkCells(s)' = SyrkCells(s)
  BY DEF SyrkCells
<1>13. \A s, m : SyrkKernel(s, m)' = SyrkKernel(s, m)
  <2>1. \A s, m, l, r, c : SyrkTerms(s, m, l, r, c)' = SyrkTerms(s, m, l, r, c)
    BY <1>9 DEF SyrkTerms
  <2> QED
    <3>1. \A s, m : SyrkKernel(s, m) =
            [c \in SyrkCells(s) |->
               Mod(s.alpha * (Total(s.K, SyrkTerms(s, m, s.lhs, s.rhs, c))
                                + IF s.twoProducts THEN Total(s.K, SyrkTerms(s, m, s.rhs, s.lhs, c)) ELSE 0)
                   + s.beta * m[c])]
      BY Zenon DEF SyrkKernel, SyrkTerms
    <3>2. \A s, m : SyrkKernel(s, m)' =
            [c \in SyrkCells(s)' |->
               Mod(s.alpha * (Total(s.K, SyrkTerms(s, m, s.lhs, s.rhs, c)')
                                + IF s.twoProducts THEN Total(s.K, SyrkTerms(s, m, s.rhs, s.lhs, c)') ELSE 0)
                   + s.beta * m[c])]
      BY Zenon DEF SyrkKernel, SyrkTerms
    <3> QED
      BY <1>12, <2>1, <3>1, <3>2
<1>14. \A s, m : Kernel(s, m)' = Kernel(s, m)
  BY Zenon, <1>5, <1>8, <1>10, <1>11, <1>13 DEF Kernel
<1> QED
  BY <1>14 DEF After

-----------------------------------------------------------------------------
(* The parts that the queues get, inside the problem.                      *)

(* GEMV is cut into rows, which are whole; TRMM and TRSM are not cut.      *)
ColumnsWhole ==
  func = "GEMV" =>
    size.x = problem.x /\ \A q \in Served : part[q].live => part[q].size.x = problem.x
TrxmWhole ==
  Trxm => IF next = 1 THEN offset = Origin /\ size = Full /\ totalCUs = problem.cus[1]
          ELSE part[1] = Step(Origin, Full, TRUE)
(* No part leaves the problem.                                             *)
Inside(o, n) == o.y + n.y <= problem.y /\ o.x + n.x <= problem.x
PartsInside ==
  /\ IF FromBottom THEN offset.y <= problem.y ELSE offset.y + size.y <= problem.y
  /\ offset.x + size.x <= problem.x
  /\ \A q \in Served : Inside(part[q].offset, part[q].size)
PartsAsMade == ColumnsWhole /\ TrxmWhole /\ PartsInside

LEMMA AppendedIs ==
  ASSUME NEW S, NEW s \in Seq(S), NEW p
  PROVE  /\ Append(s, p)[Len(s) + 1] = p
         /\ \A i \in 1..Len(s) : Append(s, p)[i] = s[i]
<1> PICK T : T = S \cup {p}
  BY Zenon
<1>1. s \in Seq(T) /\ p \in T
  OBVIOUS
<1> QED
  BY <1>1

LEMMA PartsInit ==
  ASSUME DivisionInit
  PROVE  PartsAsMade
<1>1. problem \in Problems /\ next = 1 /\ totalCUs = problem.cus[1]
      /\ size = Full /\ offset = [y |-> IF FromBottom THEN problem.y ELSE 0, x |-> 0]
  BY DEF DivisionInit, Full
<1>2. Served = {}
  BY <1>1 DEF Served
<1>3. Trxm => ~ FromBottom
  BY <1>1, CallAssumption DEF Trxm, func, FromBottom
<1>4. PartsInside
  <2>1. problem.y \in Nat /\ problem.x \in Nat
    BY <1>1, DivisionAssumption
  <2> QED
    BY <1>1, <1>2, <2>1 DEF PartsInside, Full
<1> QED
  BY <1>1, <1>2, <1>3, <1>4 DEF PartsAsMade, ColumnsWhole, TrxmWhole, Full, Origin

LEMMA StayInside ==
  ASSUME DivInv, PartsInside, Divide
  PROVE  PartsInside'
<1>1. DivInv'
  BY DivideKeeps
<1>2. /\ problem \in Problems /\ next \in 1..Len(problem.cus) /\ Len(problem.cus) \in Nat
      /\ offset \in Extents /\ size \in Extents /\ part \in Seq(Parts) /\ Len(part) = next - 1
      /\ FromBottom => offset.y = size.y
  BY DivisionAssumption DEF DivInv, DivTypeOK
<1>3. offset' \in Extents /\ size' \in Extents /\ part' \in Seq(Parts)
  BY <1>1 DEF DivInv, DivTypeOK
<1> PICK n \in Nat : n = next /\ n > 0
  BY <1>2
<1>4. problem' = problem /\ next' = n + 1 /\ \E p : part' = Append(part, p)
  BY Zenon DEF Divide, DropQueue, StripeDivision, RectDivision, TriMatrixStripeDivision, CutY, CutX, Serve
<1> PICK py \in Nat, px \in Nat : py = problem.y /\ px = problem.x
  BY Zenon, <1>2, DivisionAssumption
<1> PICK oy \in Nat, ox \in Nat : oy = offset.y /\ ox = offset.x /\ offset = [y |-> oy, x |-> ox]
  BY <1>2 DEF Extents
<1> PICK ny \in Nat, nx \in Nat : ny = size.y /\ nx = size.x /\ size = [y |-> ny, x |-> nx]
  BY <1>2 DEF Extents
<1>5. FromBottom' <=> FromBottom
  BY <1>4 DEF FromBottom
<1>6. ASSUME NEW p, part' = Append(part, p), Inside(p.offset, p.size),
             FromBottom => offset'.y <= problem.y,
             ~ FromBottom => offset'.y + size'.y <= problem.y,
             offset'.x + size'.x <= problem.x
      PROVE  PartsInside'
  <2>1. Len(part) + 1 = n /\ \A q \in Served : q \in 1..Len(part)
    BY <1>2 DEF Served
  <2>2. part'[Len(part) + 1] = p /\ \A i \in 1..Len(part) : part'[i] = part[i]
    BY <1>2, <1>6, AppendedIs
  <2>3. Served' = Served \cup {n}
    BY <1>4 DEF Served
  <2>4. \A q \in Served' : Inside(part'[q].offset, part'[q].size)
    BY <1>6, <2>1, <2>2, <2>3 DEF PartsInside
  <2> QED
    BY Zenon, <1>4, <1>5, <1>6, <2>4 DEF PartsInside, Inside
<1>14. /\ \A k : [size EXCEPT !.y = k] = [y |-> k, x |-> nx]
       /\ \A k : [size EXCEPT !.x = k] = [y |-> ny, x |-> k]
       /\ \A k : [size EXCEPT !.y = @ - k] = [y |-> ny - k, x |-> nx]
       /\ \A k : [size EXCEPT !.x = @ - k] = [y |-> ny, x |-> nx - k]
       /\ \A k : [offset EXCEPT !.y = @ + k] = [y |-> oy + k, x |-> ox]
       /\ \A k : [offset EXCEPT !.y = @ - k] = [y |-> oy - k, x |-> ox]
       /\ \A k : [offset EXCEPT !.x = @ + k] = [y |-> oy, x |-> ox + k]
  <2>1. size = [y |-> ny, x |-> nx] /\ offset = [y |-> oy, x |-> ox]
    OBVIOUS
  <2>2. \A k : [size EXCEPT !.y = k] = [y |-> k, x |-> nx]
    BY ONLY <2>1
  <2>3. \A k : [size EXCEPT !.x = k] = [y |-> ny, x |-> k]
    BY ONLY <2>1
  <2>4. \A k : [size EXCEPT !.y = @ - k] = [y |-> ny - k, x |-> nx]
    BY ONLY <2>1
  <2>5. \A k : [size EXCEPT !.x = @ - k] = [y |-> ny, x |-> nx - k]
    BY ONLY <2>1
  <2>6. \A k : [offset EXCEPT !.y = @ + k] = [y |-> oy + k, x |-> ox]
    BY ONLY <2>1
  <2>7. \A k : [offset EXCEPT !.y = @ - k] = [y |-> oy - k, x |-> ox]
    BY ONLY <2>1
  <2>8. \A k : [offset EXCEPT !.x = @ + k] = [y |-> oy, x |-> ox + k]
    BY ONLY <2>1
  <2> QED
    BY <2>2, <2>3, <2>4, <2>5, <2>6, <2>7, <2>8
<1>7. \A p : part' = Append(part, p) => p \in Parts
  <2> SUFFICES ASSUME NEW p, part' = Append(part, p) PROVE p \in Parts
    OBVIOUS
  <2>1. part'[Len(part) + 1] = p
    BY <1>2, AppendedIs
  <2>2. Len(part') = Len(part) + 1
    BY <1>1, <1>2, <1>4 DEF DivInv, DivTypeOK
  <2>3. Len(part') \in 1..Len(part')
    BY <1>2, <2>2
  <2> QED
    BY <1>3, <2>1, <2>2, <2>3
<1>8. /\ IF FromBottom THEN oy <= py /\ oy = ny ELSE oy + ny <= py
      /\ ox + nx <= px
  BY Zenon, <1>2 DEF PartsInside
<1>9. CASE DropQueue
  <2> PICK p : p = Step(offset, [y |-> 0, x |-> 0], FALSE)
    BY Zenon
  <2>1. part' = Append(part, p) /\ offset' = offset /\ size' = size /\ p.offset = offset /\ p.size = [y |-> 0, x |-> 0]
    BY <1>9 DEF DropQueue, Step
  <2>2. oy + 0 <= py /\ ox + 0 <= px
    BY <1>8
  <2>3. Inside(p.offset, p.size)
    <3>1. p.offset.y = oy /\ p.offset.x = ox /\ p.size.y = 0 /\ p.size.x = 0
      BY ONLY <2>1, offset = [y |-> oy, x |-> ox]
    <3> QED
      BY Zenon, <2>2, <3>1 DEF Inside
  <2>4. /\ FromBottom => offset'.y <= problem.y
        /\ ~ FromBottom => offset'.y + size'.y <= problem.y
        /\ offset'.x + size'.x <= problem.x
    BY <1>8, <2>1
  <2> QED
    BY Zenon, <1>6, <2>1, <2>3, <2>4
<1>10. ASSUME NEW c, ~ FromBottom, CutY(c) PROVE PartsInside'
  <2> PICK live : live = (c.last \/ c.len # 0)
    OBVIOUS
  <2> PICK k : k = c.len
    OBVIOUS
  <2> PICK p : p = Step(offset, [y |-> k, x |-> nx], live)
    OBVIOUS
  <2>1. part' = Append(part, p) /\ offset' = [y |-> oy + k, x |-> ox] /\ size' = [y |-> ny - k, x |-> nx]
    <3>1. /\ part' = Append(part, Step(offset, [size EXCEPT !.y = k], live))
          /\ size' = [size EXCEPT !.y = @ - k] /\ offset' = [offset EXCEPT !.y = @ + k]
      BY <1>10, Zenon DEF CutY, Serve
    <3> QED
      BY Zenon, <1>14, <3>1
  <2>2. p.offset = offset /\ p.size = [y |-> k, x |-> nx]
    BY DEF Step
  <2>3. p \in Parts
    BY Zenon, <1>7, <2>1
  <2>4. k \in Nat
    BY <2>2, <2>3 DEF Parts, Extents
  <2>5. ny - k \in Nat
    BY <1>3, <2>1 DEF Extents
  <2>6. oy + k <= py /\ (oy + k) + (ny - k) <= py
    BY ONLY <1>8, <1>10, <2>4, <2>5, oy \in Nat, ny \in Nat, py \in Nat
  <2> QED
    BY <1>6, <1>8, <1>10, <2>1, <2>2, <2>6 DEF Inside
<1>11. ASSUME NEW c, ~ FromBottom, CutX(c) PROVE PartsInside'
  <2> PICK live : live = (c.last \/ c.len # 0)
    OBVIOUS
  <2> PICK k : k = c.len
    OBVIOUS
  <2> PICK p : p = Step(offset, [y |-> ny, x |-> k], live)
    OBVIOUS
  <2>1. part' = Append(part, p) /\ offset' = [y |-> oy, x |-> ox + k] /\ size' = [y |-> ny, x |-> nx - k]
    <3>1. /\ part' = Append(part, Step(offset, [size EXCEPT !.x = k], live))
          /\ size' = [size EXCEPT !.x = @ - k] /\ offset' = [offset EXCEPT !.x = @ + k]
      BY <1>11, Zenon DEF CutX, Serve
    <3> QED
      BY Zenon, <1>14, <3>1
  <2>2. p.offset = offset /\ p.size = [y |-> ny, x |-> k]
    BY DEF Step
  <2>3. p \in Parts
    BY <1>7, <2>1
  <2>4. k \in Nat
    BY <2>2, <2>3 DEF Parts, Extents
  <2>5. nx - k \in Nat
    BY <1>3, <2>1 DEF Extents
  <2>6. ox + k <= px /\ (ox + k) + (nx - k) <= px
    BY ONLY <1>8, <2>4, <2>5, ox \in Nat, nx \in Nat, px \in Nat
  <2> QED
    BY <1>6, <1>8, <1>11, <2>1, <2>2, <2>6 DEF Inside
<1>12. CASE StripeDivision \/ RectDivision
  <2>1. ~ FromBottom
    BY <1>12 DEF StripeDivision, RectDivision, Serving, FromBottom
  <2>2. \E c : CutY(c) \/ CutX(c)
    BY <1>12 DEF StripeDivision, RectDivision
  <2> QED
    BY <1>10, <1>11, <2>1, <2>2
<1>13. CASE TriMatrixStripeDivision
  <2> PICK c : /\ Serve(Step(IF FromBottom THEN offset' ELSE offset, [size EXCEPT !.y = c.len], TRUE), c.last)
               /\ offset' = [offset EXCEPT !.y = IF FromBottom THEN @ - c.len ELSE @ + c.len]
               /\ size' = [size EXCEPT !.y = @ - c.len]
    BY Zenon, <1>13 DEF TriMatrixStripeDivision
  <2> PICK k : k = c.len
    OBVIOUS
  <2> PICK o : o = IF FromBottom THEN offset' ELSE offset
    OBVIOUS
  <2> PICK p : p = Step(o, [y |-> k, x |-> nx], TRUE)
    BY Zenon
  <2>1. /\ part' = Append(part, p) /\ size' = [y |-> ny - k, x |-> nx]
        /\ FromBottom => offset' = [y |-> oy - k, x |-> ox]
        /\ ~ FromBottom => offset' = [y |-> oy + k, x |-> ox]
    <3>1. /\ part' = Append(part, Step(o, [size EXCEPT !.y = k], TRUE))
          /\ size' = [size EXCEPT !.y = @ - k]
          /\ FromBottom => offset' = [offset EXCEPT !.y = @ - k]
          /\ ~ FromBottom => offset' = [offset EXCEPT !.y = @ + k]
      BY DEF Serve
    <3> QED
      BY Zenon, <1>14, <3>1
  <2>2. p.offset = o /\ p.size = [y |-> k, x |-> nx]
    BY DEF Step
  <2>3. p \in Parts
    BY Zenon, <1>7, <2>1
  <2>4. k \in Nat
    <3>1. p.size \in Extents
      BY Zenon, <2>3 DEF Parts
    <3>2. p.size.y = k
      BY ONLY <2>2
    <3> QED
      BY Zenon, <3>1, <3>2 DEF Extents
  <2>5. ny - k \in Nat
    BY <1>3, <2>1 DEF Extents
  <2>6. CASE FromBottom
    <3>1. (oy - k) + k <= py /\ oy - k <= py
      BY <1>8, <2>4, <2>5, <2>6
    <3>2. /\ p.offset.y = oy - k /\ p.offset.x = ox /\ p.size.y = k /\ p.size.x = nx
          /\ offset'.y = oy - k /\ offset'.x = ox /\ size'.x = nx
      BY ONLY <2>1, <2>2, <2>6, o = (IF FromBottom THEN offset' ELSE offset)
    <3>3. Inside(p.offset, p.size) /\ offset'.y <= problem.y /\ offset'.x + size'.x <= problem.x
      BY Zenon, <1>8, <3>1, <3>2 DEF Inside
    <3> QED
      BY Zenon, <1>6, <2>1, <2>6, <3>3
  <2>7. CASE ~ FromBottom
    <3>1. oy + k <= py /\ (oy + k) + (ny - k) <= py
      BY <1>8, <2>4, <2>5, <2>7
    <3>2. /\ p.offset.y = oy /\ p.offset.x = ox /\ p.size.y = k /\ p.size.x = nx
          /\ offset'.y = oy + k /\ offset'.x = ox /\ size'.y = ny - k /\ size'.x = nx
      BY ONLY <2>1, <2>2, <2>7, o = (IF FromBottom THEN offset' ELSE offset), offset = [y |-> oy, x |-> ox]
    <3>3. /\ Inside(p.offset, p.size) /\ offset'.y + size'.y <= problem.y
          /\ offset'.x + size'.x <= problem.x
      BY Zenon, <1>8, <3>1, <3>2 DEF Inside
    <3> QED
      BY Zenon, <1>6, <2>1, <2>7, <3>3
  <2> QED
    BY <2>6, <2>7
<1> QED
  BY <1>9, <1>12, <1>13 DEF Divide

LEMMA PartsMade ==
  ASSUME DivInv, PartsAsMade, Divide
  PROVE  PartsAsMade'
<1>1. /\ problem \in Problems /\ next \in 1..Len(problem.cus) /\ totalCUs \in Nat
      /\ offset \in Extents /\ size \in Extents /\ part \in Seq(Parts) /\ Len(part) = next - 1
      /\ totalCUs # 0 => totalCUs = problem.cus[next]
  BY DEF DivInv, DivTypeOK, CUsLeft
<1> PICK n \in Nat : n = next /\ n > 0
  BY <1>1, DivisionAssumption
<1>2. problem' = problem /\ next' = n + 1 /\ \E p : part' = Append(part, p)
  BY Zenon DEF Divide, DropQueue, StripeDivision, RectDivision, TriMatrixStripeDivision, CutY, CutX, Serve
<1> PICK p : part' = Append(part, p)
  BY <1>2
<1>3. /\ \A q \in Served : part'[q] = part[q]
      /\ part'[n] = p
      /\ Served' = Served \cup {n}
  <2>1. Len(part) + 1 = n /\ \A q \in Served : q \in 1..Len(part)
    BY <1>1 DEF Served
  <2>2. part'[Len(part) + 1] = p /\ \A i \in 1..Len(part) : part'[i] = part[i]
    BY <1>1, AppendedIs
  <2>3. Served' = Served \cup {n}
    BY <1>2 DEF Served
  <2> QED
    BY <2>1, <2>2, <2>3
<1>11. \A s : part' = Append(part, s) => p = s
  <2> SUFFICES ASSUME NEW s, part' = Append(part, s) PROVE p = s
    OBVIOUS
  <2>1. Append(part, s)[Len(part) + 1] = s /\ Append(part, p)[Len(part) + 1] = p
    BY Zenon, <1>1, AppendedIs
  <2> QED
    BY <2>1
<1>4. func' = func /\ (Trxm' <=> Trxm) /\ Full' = Full
  BY <1>2, SameProblem
<1>5. func = "GEMV" => problem.kind = "stripe" /\ problem.across
  BY <1>1, CallAssumption DEF func
<1>6. Trxm => problem.kind = "stripe" /\ Len(problem.cus) = 2
  BY <1>1, CallAssumption DEF Trxm, func
<1>7. ASSUME func = "GEMV" PROVE size'.x = size.x /\ (p.live => p.size.x = size.x)
  <2>1. size = [y |-> size.y, x |-> size.x]
    BY <1>1 DEF Extents
  <2>2. CASE DropQueue
    <3>1. p = Step(offset, [y |-> 0, x |-> 0], FALSE) /\ size' = size
      BY Zenon, <1>11, <2>2 DEF DropQueue
    <3> QED
      BY <3>1 DEF Step
  <2>3. CASE StripeDivision
    <3> PICK c : CutY(c)
      BY <1>5, <1>7, <2>3 DEF StripeDivision
    <3>1. /\ part' = Append(part, Step(offset, [size EXCEPT !.y = c.len], c.last \/ c.len # 0))
          /\ size' = [size EXCEPT !.y = @ - c.len]
      BY DEF CutY, Serve
    <3>2. p = Step(offset, [size EXCEPT !.y = c.len], c.last \/ c.len # 0)
      BY <1>11, <3>1
    <3> QED
      BY <2>1, <3>1, <3>2 DEF Step
  <2> QED
    BY Zenon, <1>5, <1>7, <2>2, <2>3 DEF Divide, RectDivision, TriMatrixStripeDivision, Serving
<1>8. ColumnsWhole'
  <2> SUFFICES ASSUME func = "GEMV" PROVE ColumnsWhole'
    BY Zenon, <1>4 DEF ColumnsWhole
  <2>1. size'.x = problem.x /\ (p.live => p.size.x = problem.x)
    BY <1>7 DEF PartsAsMade, ColumnsWhole
  <2>2. \A q \in Served : part'[q].live => part'[q].size.x = problem.x
    BY Zenon, <1>3 DEF PartsAsMade, ColumnsWhole
  <2> QED
    BY Zenon, <1>2, <1>3, <2>1, <2>2 DEF ColumnsWhole
<1>9. ASSUME Trxm PROVE part'[1] = Step(Origin, Full, TRUE)
  <2>0. problem.kind = "stripe" /\ Len(problem.cus) = 2 /\ Queues = 1..1
    <3>1. problem.kind = "stripe" /\ Len(problem.cus) = 2
      BY <1>6, <1>9
    <3>2. Len(problem.cus) - 1 = 1
      BY <3>1
    <3> QED
      BY <3>1, <3>2, Zenon DEF Queues
  <2>1. next = 1 \/ next = 2
    <3>1. next \in 1..2
      BY <1>1, <2>0, Zenon
    <3> QED
      BY <3>1
  <2>2. next # 2
    <3>1. ~ Divided
      BY Zenon DEF Divide, DropQueue, StripeDivision, RectDivision, TriMatrixStripeDivision, Serving
    <3> QED
      BY <2>0, <3>1 DEF Divided
  <2>3. next = 1 /\ offset = Origin /\ size = Full /\ totalCUs = problem.cus[1]
    BY Zenon, <1>9, <2>1, <2>2 DEF PartsAsMade, TrxmWhole
  <2>4. /\ problem.cus[1] > 0 /\ NrCU(1) = problem.cus[1]
    <3>1. problem.cus \in Seq(Nat) /\ problem.cus[2] = 0 /\ problem.cus[1] > problem.cus[2]
      <4>1. /\ problem.cus \in Seq(Nat) /\ problem.cus[Len(problem.cus)] = 0
            /\ \A q \in 1..(Len(problem.cus) - 1) : problem.cus[q] > problem.cus[q + 1]
        BY <1>1, DivisionAssumption
      <4>2. 1 \in 1..(2 - 1) /\ 1 + 1 = 2
        OBVIOUS
      <4>3. 1 \in 1..(Len(problem.cus) - 1)
        BY <2>0, <4>2
      <4> QED
        BY <2>0, <4>1, <4>2, <4>3
    <3>2. problem.cus[1] \in Nat
      BY <2>0, <3>1
    <3> QED
      BY <3>1, <3>2 DEF NrCU
  <2>5. StripeDivision
    <3>1. totalCUs # 0
      BY <2>3, <2>4
    <3>2. ~ DropQueue
      BY Zenon, <3>1 DEF DropQueue
    <3>3. ~ RectDivision /\ ~ TriMatrixStripeDivision
      BY <2>0 DEF RectDivision, TriMatrixStripeDivision, Serving
    <3> QED
      BY <3>2, <3>3 DEF Divide
  <2>6. \A len, share : Chunk(len, share) = [len |-> len, last |-> TRUE]
    BY <2>3, <2>4 DEF Chunk
  <2> PICK y, x : y = problem.y /\ x = problem.x
    OBVIOUS
  <2>7. size = [y |-> y, x |-> x]
    BY <2>3 DEF Full
  <2>8. p = Step(offset, size, TRUE)
    <3>1. CASE problem.across
      <4> PICK c : c = [len |-> y, last |-> TRUE]
        BY Zenon
      <4>1. CutY(c) /\ c.len = y /\ c.last = TRUE
        BY Zenon, <2>5, <2>6, <2>7, <3>1 DEF StripeDivision
      <4>3. [size EXCEPT !.y = c.len] = size
        BY <2>7, <4>1
      <4>2. part' = Append(part, Step(offset, size, TRUE))
        BY <4>1, <4>3, Zenon DEF CutY, Serve
      <4> QED
        BY Zenon, <1>11, <4>2
    <3>2. CASE ~ problem.across
      <4> PICK c : c = [len |-> x, last |-> TRUE]
        BY Zenon
      <4>1. CutX(c) /\ c.len = x /\ c.last = TRUE
        BY Zenon, <2>5, <2>6, <2>7, <3>2 DEF StripeDivision
      <4>3. [size EXCEPT !.x = c.len] = size
        BY <2>7, <4>1
      <4>2. part' = Append(part, Step(offset, size, TRUE))
        BY <4>1, <4>3, Zenon DEF CutX, Serve
      <4> QED
        BY Zenon, <1>11, <4>2
    <3> QED
      BY Zenon, <3>1, <3>2
  <2> QED
    BY Zenon, <1>3, <2>3, <2>8
<1>10. TrxmWhole'
  <2>1. next' # 1
    BY <1>2
  <2> QED
    BY <1>4, <1>9, <2>1 DEF TrxmWhole, Step, Origin
<1>12. PartsInside'
  BY StayInside DEF PartsAsMade
<1> QED
  BY <1>8, <1>10, <1>12 DEF PartsAsMade

-----------------------------------------------------------------------------
(* The matrix while kernels run (DataInv).  Of TRMM and TRSM it is what the *)
(* kernels done so far, which are the first ones of the sequence, make of  *)
(* what was there.  Of another function an element is as it was as long as *)
(* no kernel that is done covers it, what is promised once a final one is  *)
(* done, and between the products of SYR2K what the first one computes.    *)

(* What has been computed, given the kernels that are done.                *)
Progress ==
  /\ current > 0
  /\ phase = "enqueue" => \A i \in DOMAIN seq : i < current => status[i] # "made"
  /\ result = "success" => phase = "returned" /\ \A i \in DOMAIN seq : status[i] # "made"
OutShape == DOMAIN out = OutElements /\ out = [c \in DOMAIN out |-> out[c]]
Promise  == promised = After(WholeStep, Start)

Done(i) == i \in DOMAIN status /\ status[i] = "done"
Covers(i, c) == Done(i) /\ c \in StepCells(seq[i])
Decomposed(q) == phase \in {"enqueue", "returned"} \/ (phase = "decompose" /\ q < current)

OtherSteps ==
  ~ Trxm => /\ Packed(seq)
            /\ \A q \in Queues : Decomposed(q) /\ part[q].live => \E i \in DOMAIN seq : seq[i].queue = q
OtherOut ==
  ~ Trxm => \A c \in OutElements :
    /\ (\E i : Covers(i, c) /\ Final(seq[i])) => out[c] = promised[c]
    /\ (\E i : Covers(i, c) /\ FirstOf(seq[i])) /\ ~ (\E i : Covers(i, c) /\ Final(seq[i]))
         => out[c] = Once(c, Start[c])
    /\ ~ (\E i : Covers(i, c)) => out[c] = Start[c]

Single(u) == IsSeq(u) /\ Len(u) = 1 /\ IsStep(u[1]) /\ HalfStep(u[1], 0, problem.y)
Triple(u) == \E x, y, z, h, k, g : TrxmAs(u, x, y, z, h, k, g)
TrxmSteps ==
  Trxm => /\ phase = "decompose" => \/ current = 1 /\ seq = <<>>
                                    \/ current = 2 /\ (Single(seq) \/ Triple(seq))
          /\ phase \in {"enqueue", "returned"} => Single(seq) \/ Triple(seq)
Made(k) ==
  IF k = 0 THEN Start
  ELSE IF k = 1 THEN After(seq[1], Start)
  ELSE IF k = 2 THEN After(seq[2], After(seq[1], Start))
  ELSE After(seq[3], After(seq[2], After(seq[1], Start)))
TrxmOut ==
  Trxm => \E k \in 0..Len(seq) : (\A i \in DOMAIN seq : Done(i) <=> i <= k) /\ out = Made(k)

Computed == OtherSteps /\ OtherOut /\ TrxmSteps /\ TrxmOut
DataInv  == PartsAsMade /\ Progress /\ OutShape /\ Promise /\ (lost = {} => Computed)

LEMMA CallFacts ==
  ASSUME CallInv
  PROVE  /\ problem \in Problems /\ Len(seq) \in Nat /\ DOMAIN seq = 1..Len(seq) /\ IsSeq(seq)
         /\ phase \in {"divide", "decompose"} => DOMAIN status = {}
         /\ phase \in {"enqueue", "returned"} =>
              status \in [1..Len(seq) -> {"made", "queued", "running", "done"}]
         /\ DOMAIN status # {} => phase \in {"enqueue", "returned"} /\ Divided
         /\ phase = "divide" => seq = <<>> /\ current = 1
         /\ phase \in {"divide", "decompose", "enqueue", "returned"} /\ current \in Nat
<1>1. IsSeq(seq) /\ problem \in Problems
  BY DEF CallInv, PhaseOK, DivInv, DivTypeOK
<1>2. Len(seq) \in Nat /\ DOMAIN seq = 1..Len(seq)
  BY <1>1, SeqFacts
<1>3. status = <<>> => DOMAIN status = {}
  BY TupleFacts
<1> QED
  BY <1>1, <1>2, <1>3 DEF CallInv, PhaseOK

(* Every queue is served when the problem is divided, and steps have parts. *)
LEMMA StepParts ==
  ASSUME CallInv, Divided
  PROVE  Served = Queues /\ \A q \in Queues : q \in Nat /\ part[q] \in Parts
<1>1. /\ next \in 1..Len(problem.cus) /\ problem.cus \in Seq(Nat)
      /\ part \in Seq(Parts) /\ Len(part) = next - 1
  BY DivisionAssumption DEF CallInv, DivInv, DivTypeOK
<1>2. Served = Queues
  BY <1>1 DEF Divided, Served, Queues
<1>3. \A q \in Served : q \in Nat /\ part[q] \in Parts
  BY <1>1 DEF Served
<1> QED
  BY <1>2, <1>3

(* An element belongs to one queue.                                        *)
LEMMA SameQueue ==
  ASSUME CallInv, Divided, ~ Trxm, NEW q \in Queues, NEW r \in Queues,
         NEW c, c \in CellsOf(q), c \in CellsOf(r)
  PROVE  q = r
<1>1. /\ Served = Queues /\ q \in Nat /\ r \in Nat
      /\ part[q] \in Parts /\ part[r] \in Parts /\ problem \in Problems
  BY StepParts DEF CallInv, DivInv, DivTypeOK
<1>2. part[q].offset \in Extents /\ part[q].size \in Extents /\ part[r].offset \in Extents /\ part[r].size \in Extents
  BY <1>1 DEF Parts
<1>3. /\ c[1] \in Span(part[q].offset.y, part[q].size.y)
      /\ func = "GEMM" => c[2] \in Span(part[q].offset.x, part[q].size.x)
  BY <1>1, <1>2, PartCell DEF CellsOf
<1>4. /\ c[1] \in Span(part[r].offset.y, part[r].size.y)
      /\ func = "GEMM" => c[2] \in Span(part[r].offset.x, part[r].size.x)
  BY <1>1, <1>2, PartCell DEF CellsOf
<1>5. ~ RowsOnly => func = "GEMM"
  BY <1>1, OtherProblem
<1> SUFFICES ASSUME q # r PROVE FALSE
  OBVIOUS
<1>6. Ahead(part[q], part[r].offset, part[r].size) \/ Ahead(part[r], part[q].offset, part[q].size)
  BY <1>1 DEF CallInv, PartsInOrder
<1> QED
  BY Zenon, <1>1, <1>3, <1>4, <1>5, <1>6, PartsApart

LEMMA StepOfPart ==
  ASSUME CallInv, Divided, ~ Trxm, Chained, InParts(seq), NEW i \in DOMAIN seq
  PROVE  /\ seq[i].queue \in Queues /\ seq[i].size \in Extents /\ Basic(seq[i])
         /\ \A c \in StepCells(seq[i]) : c \in CellsOf(seq[i].queue)
<1>1. seq[i].queue \in Queues
  BY Zenon DEF Chained, Linked
<1>2. part[seq[i].queue] \in Parts
  BY <1>1, StepParts
<1>3. /\ seq[i].offset = part[seq[i].queue].offset /\ seq[i].size = part[seq[i].queue].size
      /\ Kind(seq[i])
  BY DEF InParts
<1>4. Basic(seq[i])
  BY <1>3 DEF Kind, WholeOf, FirstOf, SecondOf
<1> QED
  BY <1>1, <1>2, <1>3, <1>4 DEF Parts, StepCells, CellsOf

(* Two kernels that write an element are those of the products of SYR2K.   *)
LEMMA TwoWriters ==
  ASSUME CallInv, Divided, ~ Trxm, Chained, Packed(seq), NEW i \in DOMAIN seq, NEW j \in DOMAIN seq, i < j,
         NEW c, c \in StepCells(seq[i]), c \in StepCells(seq[j])
  PROVE  seq[i].queue = seq[j].queue /\ FirstOf(seq[i]) /\ SecondOf(seq[j])
<1>1. InParts(seq) /\ Ordered(seq)
  BY DEF Packed
<1>2. /\ seq[i].queue \in Queues /\ c \in CellsOf(seq[i].queue)
      /\ seq[j].queue \in Queues /\ c \in CellsOf(seq[j].queue)
  BY <1>1, StepOfPart
<1>3. seq[i].queue = seq[j].queue
  BY <1>2, SameQueue
<1> QED
  BY <1>1, <1>3 DEF Ordered

(* As long as no kernel is done, the matrix is as it was.                  *)
LEMMA OutIsStart ==
  ASSUME CallInv, OutShape, Computed, DOMAIN status = {}, Trxm => seq = <<>>
  PROVE  out = Start
<1>0. \A i : ~ Done(i)
  BY DEF Done
<1>1. CASE Trxm
  <2> PICK k \in 0..Len(seq) : out = Made(k)
    BY <1>1 DEF Computed, TrxmOut
  <2>1. Len(seq) = 0
    BY <1>1
  <2>2. k = 0
    BY <2>1
  <2> QED
    BY <2>2 DEF Made
<1>2. CASE ~ Trxm
  <2>1. \A c \in OutElements : out[c] = Start[c]
    BY <1>0, <1>2 DEF Computed, OtherOut, Covers
  <2> QED
    BY <2>1 DEF OutShape, Start
<1> QED
  BY <1>1, <1>2

LEMMA NothingDone ==
  ASSUME \A i : ~ Done(i)', out' = Start', IsSeq(seq')
  PROVE  OtherOut' /\ TrxmOut'
<1>1. OtherOut'
  BY DEF OtherOut, Covers
<1>2. Len(seq') \in Nat /\ DOMAIN seq' = 1..Len(seq')
  BY SeqFacts
<1>3. Made(0)' = Start'
  BY DEF Made
<1>4. 0 \in 0..Len(seq') /\ \A i \in DOMAIN seq' : ~ (i <= 0)
  BY <1>2
<1>5. TrxmOut'
  BY <1>3, <1>4 DEF TrxmOut
<1> QED
  BY <1>1, <1>5

(* What does not change when the parts do not.                             *)
LEMMA SameData ==
  ASSUME DataInv, UNCHANGED <<dvars, promised>>
  PROVE  PartsAsMade' /\ Promise'
<1>1. /\ problem' = problem /\ part' = part /\ size' = size /\ next' = next /\ totalCUs' = totalCUs
      /\ offset' = offset /\ promised' = promised
  BY DEF dvars
<1>2. /\ func' = func /\ (Trxm' <=> Trxm) /\ Start' = Start /\ WholeStep' = WholeStep /\ Full' = Full
  BY <1>1, SameProblem
<1>3. Promise'
  <2> PICK s, m : s = WholeStep /\ m = Start
    OBVIOUS
  <2>1. After(s, m)' = After(s, m)
    BY <1>1, SameAfter
  <2> QED
    BY <1>1, <1>2, <2>1 DEF DataInv, Promise
<1>4. PartsAsMade'
  BY <1>1, <1>2 DEF DataInv, PartsAsMade, ColumnsWhole, TrxmWhole, PartsInside, Inside, FromBottom,
                    Served, Step, Origin
<1> QED
  BY <1>3, <1>4

LEMMA MadeSame ==
  ASSUME problem' = problem, seq' = seq
  PROVE  \A k : Made(k)' = Made(k)
<1>1. \A s, m : After(s, m)' = After(s, m)
  BY SameAfter
<1>0. Start' = Start
  BY SameProblem
<1> PICK a, b, c, m : a = seq[1] /\ b = seq[2] /\ c = seq[3] /\ m = Start
  OBVIOUS
<1>2. seq'[1] = a /\ seq'[2] = b /\ seq'[3] = c /\ Start' = m
  BY <1>0
<1> PICK m1 : m1 = After(a, m)
  OBVIOUS
<1> PICK m2 : m2 = After(b, m1)
  OBVIOUS
<1> PICK m3 : m3 = After(c, m2)
  OBVIOUS
<1>3. m1 = After(a, m)' /\ m2 = After(b, m1)' /\ m3 = After(c, m2)'
  BY <1>1
<1>4. After(seq[1], Start)' = m1
  BY <1>2, <1>3
<1>5. After(seq[2], After(seq[1], Start))' = m2
  BY <1>2, <1>3, <1>4
<1>6. After(seq[3], After(seq[2], After(seq[1], Start)))' = m3
  BY <1>2, <1>3, <1>5
<1> QED
  BY <1>0, <1>4, <1>5, <1>6 DEF Made

LEMMA SameCovers ==
  ASSUME UNCHANGED <<dvars, seq, out, promised>>, \A i : Done(i)' <=> Done(i)
  PROVE  (OtherOut => OtherOut') /\ (TrxmOut => TrxmOut')
<1>1. problem' = problem /\ part' = part /\ seq' = seq /\ out' = out /\ promised' = promised
  BY DEF dvars
<1>2. /\ func' = func /\ (Trxm' <=> Trxm) /\ Start' = Start /\ OutElements' = OutElements
  BY <1>1, SameProblem
<1>3. \A i : /\ StepCells(seq[i])' = StepCells(seq[i])
             /\ FirstOf(seq[i])' <=> FirstOf(seq[i])
             /\ Final(seq[i])' <=> Final(seq[i])
  <2> SUFFICES ASSUME NEW i
               PROVE  /\ StepCells(seq[i])' = StepCells(seq[i])
                      /\ FirstOf(seq[i])' <=> FirstOf(seq[i])
                      /\ Final(seq[i])' <=> Final(seq[i])
    OBVIOUS
  <2> PICK s : s = seq[i]
    OBVIOUS
  <2>1. s = seq'[i]
    BY <1>1
  <2>2. StepCells(s)' = StepCells(s) /\ (FirstOf(s)' <=> FirstOf(s)) /\ (Final(s)' <=> Final(s))
    BY <1>1, SameKinds
  <2> QED
    BY <2>1, <2>2
<1>4. \A i, c : Covers(i, c)' <=> Covers(i, c)
  BY <1>3 DEF Covers
<1>5. \A c, v : Once(c, v)' = Once(c, v)
  BY <1>1, SameKinds
<1>6. \A c : Once(c, Start[c])' = Once(c, Start[c])
  <2> SUFFICES ASSUME NEW c PROVE Once(c, Start[c])' = Once(c, Start[c])
    OBVIOUS
  <2> PICK v : v = Start[c]
    OBVIOUS
  <2> QED
    BY <1>2, <1>5
<1>7. OtherOut => OtherOut'
  BY <1>1, <1>2, <1>3, <1>4, <1>6 DEF OtherOut
<1>8. \A k : Made(k)' = Made(k)
  BY <1>1, MadeSame
<1>9. TrxmOut => TrxmOut'
  BY <1>1, <1>2, <1>8 DEF TrxmOut
<1> QED
  BY <1>7, <1>9

LEMMA SameMade ==
  ASSUME UNCHANGED <<dvars, seq>>,
         \/ UNCHANGED <<phase, current>>
         \/ phase \in {"enqueue", "returned"} /\ phase' \in {"enqueue", "returned"}
  PROVE  (OtherSteps => OtherSteps') /\ (TrxmSteps => TrxmSteps')
<1>1. problem' = problem /\ part' = part /\ seq' = seq
  BY DEF dvars
<1>2. func' = func /\ (Trxm' <=> Trxm) /\ Queues' = Queues
  BY <1>1, SameProblem
<1> PICK u : u = seq
  OBVIOUS
<1>3. Packed(u)' <=> Packed(u)
  BY <1>1, SamePacks
<1>4. Packed(seq)' <=> Packed(seq)
  BY <1>1, <1>3
<1>5. \A q : Decomposed(q)' <=> Decomposed(q)
  BY DEF Decomposed
<1>6. OtherSteps => OtherSteps'
  BY <1>1, <1>2, <1>4, <1>5 DEF OtherSteps
<1>7. (Single(u)' <=> Single(u)) /\ (Triple(u)' <=> Triple(u))
  BY <1>1, SameHalves DEF Single, Triple
<1>8. (Single(seq)' <=> Single(seq)) /\ (Triple(seq)' <=> Triple(seq))
  BY <1>1, <1>7
<1>9. TrxmSteps => TrxmSteps'
  BY <1>1, <1>2, <1>8 DEF TrxmSteps
<1> QED
  BY <1>6, <1>9

(* The steps that come for a queue.                                        *)
MoreSteps(steps) ==
  /\ Packed(steps) /\ \A k \in DOMAIN steps : steps[k].queue = current
  /\ part[current].live => 1 \in DOMAIN steps

LEMMA EmptyPacked == Packed(<<>>)
<1> PICK u : u = <<>>
  OBVIOUS
<1>1. IsSeq(u) /\ DOMAIN u = {}
  BY TupleFacts, Zenon
<1>2. Packed(u)
  BY <1>1 DEF Packed, InParts, Ordered, Started, Finished
<1> QED
  BY <1>2

LEMMA PackedNonempty ==
  ASSUME NEW u, Packed(u), NEW x, NEW y, u = <<x>> \/ u = <<x, y>>
  PROVE  1 \in DOMAIN u
<1>1. DOMAIN <<x>> = {1} /\ DOMAIN <<x, y>> = {1, 2}
  BY TupleFacts, Zenon
<1> QED
  BY <1>1

LEMMA OtherAppended ==
  ASSUME CallInv, OtherSteps, Decomposing, ~ Trxm, NEW steps, DecomposeInto(steps), MoreSteps(steps)
  PROVE  OtherSteps'
<1>1. /\ problem' = problem /\ part' = part /\ phase = "decompose" /\ phase' = "decompose"
      /\ current' = current + 1 /\ seq' = seq \o steps /\ current \in Nat
  BY DEF DecomposeInto, dvars, Decomposing, CallInv, PhaseOK
<1>2. func' = func /\ (Trxm' <=> Trxm) /\ Queues' = Queues
  BY <1>1, SameProblem
<1> PICK v : v = seq \o steps
  BY Zenon
<1>3. Packed(seq) /\ Packed(steps)
  BY DEF OtherSteps, MoreSteps
<1>4. \A i \in DOMAIN seq, j \in DOMAIN steps : seq[i].queue # steps[j].queue
  <2>1. \A i \in DOMAIN seq : seq[i].queue \in 1..(current - 1)
    BY <1>1 DEF CallInv, PhaseOK
  <2>2. current \notin 1..(current - 1)
    BY <1>1
  <2> QED
    BY <2>1, <2>2 DEF MoreSteps
<1>5. Packed(v)
  BY <1>3, <1>4, PackedAppended
<1>6. Packed(v)'
  BY <1>1, <1>5, SamePacks
<1>7. Packed(seq)'
  BY <1>1, <1>6
<1> PICK n \in Nat, m \in Nat : n = Len(seq) /\ DOMAIN seq = 1..n /\ m = Len(steps) /\ DOMAIN steps = 1..m
  BY <1>3, SeqFacts DEF Packed
<1>8. /\ DOMAIN v = 1..(n + m)
      /\ \A i \in 1..n : v[i] = seq[i]
      /\ \A k \in 1..m : v[n + k] = steps[k]
  <2>1. IsSeq(v) /\ Len(v) = n + m /\ (\A i \in 1..n : v[i] = seq[i]) /\ (\A k \in 1..m : v[n + k] = steps[k])
    BY <1>3, ConcatFacts DEF Packed
  <2> QED
    BY <2>1, SeqFacts
<1>9. ASSUME NEW q \in Queues, Decomposed(q)', part[q].live PROVE \E i \in DOMAIN v : v[i].queue = q
  <2>0. q \in Nat
    BY <1>1, StepParts DEF Decomposing, CallInv, PhaseOK
  <2>1. CASE q = current
    <3>1. 1 \in 1..m /\ n + 1 \in 1..(n + m)
      BY <1>9, <2>1 DEF MoreSteps
    <3>2. v[n + 1] = steps[1] /\ steps[1].queue = current
      BY <1>8, <3>1 DEF MoreSteps
    <3> QED
      BY <1>8, <2>1, <3>1, <3>2
  <2>2. CASE q # current
    <3>1. q < current
      BY <1>1, <1>9, <2>0, <2>2 DEF Decomposed
    <3>2. PICK i \in 1..n : seq[i].queue = q
      BY <1>1, <1>9, <3>1 DEF OtherSteps, Decomposed
    <3>3. i \in 1..(n + m) /\ v[i] = seq[i]
      BY <1>8
    <3> QED
      BY <1>8, <3>2, <3>3
  <2> QED
    BY <2>1, <2>2
<1> QED
  BY <1>1, <1>2, <1>7, <1>9 DEF OtherSteps

LEMMA OtherMore ==
  ASSUME CallInv, PartsAsMade, OtherSteps, ~ Trxm,
         PassOver \/ KeepStep \/ DecomposeTRXM \/ DecomposeSYRK \/ DecomposeSYR2K
  PROVE  OtherSteps'
<1>1. Decomposing /\ current \in Queues /\ phase = "decompose"
  BY DEF PassOver, KeepStep, DecomposeTRXM, DecomposeSYRK, DecomposeSYR2K, Decomposing
<1>2. Divided /\ problem \in Problems
  BY <1>1 DEF CallInv, PhaseOK, DivInv, DivTypeOK
<1>3. Served = Queues /\ part[current] \in Parts
  BY <1>1, <1>2, StepParts
<1> SUFFICES \E steps : DecomposeInto(steps) /\ MoreSteps(steps)
  BY <1>1, OtherAppended
<1> PICK q, s : q = current /\ s = StepOf(q, part[q].offset, part[q].size)
  OBVIOUS
<1>4. s = CurrentStep
  BY DEF CurrentStep
<1>5. CASE PassOver
  <2>1. DecomposeInto(<<>>) /\ ~ part[current].live
    BY <1>5 DEF PassOver
  <2>2. MoreSteps(<<>>)
    <3> PICK u : u = <<>>
      OBVIOUS
    <3>1. DOMAIN u = {} /\ Packed(u)
      BY EmptyPacked, TupleFacts, Zenon
    <3>2. MoreSteps(u)
      BY <2>1, <3>1 DEF MoreSteps
    <3> QED
      BY <3>2
  <2> QED
    BY <2>1, <2>2
<1> SUFFICES ASSUME part[current].live PROVE \E steps : DecomposeInto(steps) /\ MoreSteps(steps)
  BY <1>5 DEF KeepStep, DecomposeTRXM, DecomposeSYRK, DecomposeSYR2K
<1>6. /\ func = "GEMM" => /\ OfQueue(FixupGemmOffsets(s, 0), q, "all")
                          /\ WholeOf(FixupGemmOffsets(s, 0))
      /\ func # "GEMM" => OfQueue(s, q, "all") /\ WholeOf(s)
  <2>1. func = "GEMV" => part[q].size.x = problem.x
    BY <1>1, <1>3 DEF PartsAsMade, ColumnsWhole
  <2> QED
    BY <1>2, <1>3, <2>1, MadeWhole
<1>7. CASE KeepStep
  <2> PICK t : t = IF func = "GEMM" THEN FixupGemmOffsets(s, 0) ELSE s
    OBVIOUS
  <2>1. DecomposeInto(<<t>>)
    BY <1>4, <1>7 DEF KeepStep
  <2>2. OfQueue(t, q, "all") /\ WholeOf(t)
    BY <1>6
  <2>3. Packed(<<t>>)
    BY <2>2, OnePacked
  <2>4. DOMAIN <<t>> = {1} /\ <<t>>[1] = t
    <3>1. DOMAIN <<t>> = {1}
      BY TupleFacts, Zenon
    <3> QED
      BY <3>1
  <2>5. MoreSteps(<<t>>)
    BY <2>2, <2>3, <2>4 DEF MoreSteps, OfQueue
  <2> QED
    BY <2>1, <2>5
<1>8. CASE DecomposeSYRK
  <2>1. Syrk /\ func # "GEMM"
    BY <1>8 DEF DecomposeSYRK, Syrk
  <2> PICK d : DecomposeInto(SyrkPair(s, d))
    BY <1>4, <1>8 DEF DecomposeSYRK
  <2> PICK x, y : PairOf(SyrkPair(s, d), s, q, x, y)
    BY <1>6, <2>1, PairIs
  <2>2. SyrkPair(s, d) = <<x, y>> /\ OfQueue(x, q, "off") /\ OfQueue(y, q, "on") /\ WholeOf(x) /\ WholeOf(y)
    BY <1>6, <2>1 DEF PairOf
  <2>3. Packed(<<x, y>>)
    BY <2>1, <2>2, PairPacked
  <2>4. DOMAIN <<x, y>> = {1, 2} /\ <<x, y>>[1] = x /\ <<x, y>>[2] = y
    BY TwoIs
  <2>5. MoreSteps(<<x, y>>)
    BY <2>2, <2>3, <2>4 DEF MoreSteps, OfQueue
  <2> QED
    BY <2>2, <2>5
<1>9. CASE DecomposeSYR2K
  <2>1. Syrk /\ func = "SYR2K"
    BY <1>9 DEF DecomposeSYR2K, Syrk
  <2>0. OfQueue(s, q, "all") /\ WholeOf(s)
    BY <1>6, <2>1
  <2>2. CASE Separate(CurrentStep)
    <3> PICK e : LET halves == Syr2kHalves(s, e[1])
                 IN  DecomposeInto(SyrkPair(halves[1], e[2]) \o SyrkPair(halves[2], e[3]))
      BY <1>4, <1>9, <2>2 DEF DecomposeSYR2K
    <3> PICK d1, d2, d3 : d1 = e[1] /\ d2 = e[2] /\ d3 = e[3]
      OBVIOUS
    <3> PICK h1, h2 : /\ Syr2kHalves(s, d1) = <<h1, h2>> /\ OfQueue(h1, q, "all") /\ OfQueue(h2, q, "all")
                      /\ FirstOf(h1) /\ SecondOf(h2)
      BY <2>0, <2>1, HalvesAre
    <3>1. Syr2kHalves(s, d1)[1] = h1 /\ Syr2kHalves(s, d1)[2] = h2
      BY TwoIs
    <3>2. DecomposeInto(SyrkPair(h1, d2) \o SyrkPair(h2, d3))
      BY <3>1
    <3> PICK x, y : PairOf(SyrkPair(h1, d2), h1, q, x, y)
      BY PairIs
    <3> PICK z, w : PairOf(SyrkPair(h2, d3), h2, q, z, w)
      BY PairIs
    <3>3. /\ SyrkPair(h1, d2) = <<x, y>> /\ OfQueue(x, q, "off") /\ OfQueue(y, q, "on")
          /\ SyrkPair(h2, d3) = <<z, w>> /\ OfQueue(z, q, "off") /\ OfQueue(w, q, "on")
          /\ FirstOf(x) /\ FirstOf(y) /\ SecondOf(z) /\ SecondOf(w)
      BY DEF PairOf
    <3> PICK u : u = <<x, y>> \o <<z, w>>
      BY Zenon
    <3>4. Packed(u)
      BY <2>1, <3>3, FourPacked
    <3>5. \A k \in DOMAIN u : u[k].queue = q
      <4> PICK a, b : a = <<x, y>> /\ b = <<z, w>>
        OBVIOUS
      <4>1. /\ IsSeq(a) /\ Len(a) = 2 /\ a[1] = x /\ a[2] = y
            /\ IsSeq(b) /\ Len(b) = 2 /\ b[1] = z /\ b[2] = w
        BY TwoIs
      <4>2. /\ IsSeq(u) /\ Len(u) = Len(a) + Len(b)
            /\ \A i \in 1..Len(a) : u[i] = a[i]
            /\ \A k \in 1..Len(b) : u[Len(a) + k] = b[k]
        BY <4>1, ConcatFacts
      <4>3. DOMAIN u = 1..Len(u)
        BY <4>2, SeqFacts
      <4>4. Len(u) = 4
        BY <4>1, <4>2
      <4>5. \A k \in 1..4 : k \in 1..2 \/ \E l \in 1..2 : k = 2 + l
        <5>1. 3 = 2 + 1 /\ 4 = 2 + 2
          OBVIOUS
        <5>2. \A k \in 1..4 : k = 1 \/ k = 2 \/ k = 3 \/ k = 4
          OBVIOUS
        <5> QED
          BY <5>1, <5>2
      <4>6. \A k \in 1..2 : a[k].queue = q /\ b[k].queue = q
        <5>1. \A k \in 1..2 : k = 1 \/ k = 2
          OBVIOUS
        <5> QED
          BY <3>3, <4>1, <5>1 DEF OfQueue
      <4> SUFFICES ASSUME NEW k \in DOMAIN u PROVE u[k].queue = q
        OBVIOUS
      <4>7. CASE k \in 1..2
        BY <4>1, <4>2, <4>6, <4>7
      <4>8. CASE k \notin 1..2
        <5> PICK l \in 1..2 : k = 2 + l
          BY <4>3, <4>4, <4>5, <4>8
        <5>1. u[2 + l] = b[l]
          BY <4>1, <4>2
        <5> QED
          BY Zenon, <4>6, <5>1
      <4> QED
        BY <4>7, <4>8
    <3>6. 1 \in DOMAIN u
      <4> PICK a, b : a = <<x, y>> /\ b = <<z, w>>
        OBVIOUS
      <4>1. IsSeq(a) /\ IsSeq(b) /\ Len(a) = 2 /\ Len(b) = 2
        BY TwoIs
      <4>2. IsSeq(u) /\ Len(u) = 4
        BY <4>1, ConcatFacts
      <4>3. DOMAIN u = 1..4
        BY <4>2, SeqFacts
      <4> QED
        BY <4>3
    <3>7. MoreSteps(u)
      BY <3>4, <3>5, <3>6 DEF MoreSteps
    <3> QED
      BY <3>2, <3>3, <3>7
  <2>3. CASE ~ Separate(CurrentStep)
    <3> PICK d : DecomposeInto(Syr2kHalves(s, d))
      BY <1>4, <1>9, <2>3 DEF DecomposeSYR2K
    <3> PICK x, y : /\ Syr2kHalves(s, d) = <<x, y>> /\ OfQueue(x, q, "all") /\ OfQueue(y, q, "all")
                    /\ FirstOf(x) /\ SecondOf(y)
      BY <2>0, <2>1, HalvesAre
    <3>1. Packed(<<x, y>>)
      BY HalvesPacked
    <3>2. DOMAIN <<x, y>> = {1, 2} /\ <<x, y>>[1] = x /\ <<x, y>>[2] = y
      BY TwoIs
    <3>3. MoreSteps(<<x, y>>)
      BY <3>1, <3>2 DEF MoreSteps, OfQueue
    <3> QED
      BY <3>3
  <2> QED
    BY <2>2, <2>3
<1>10. ~ DecomposeTRXM
  BY DEF DecomposeTRXM
<1> QED
  BY <1>5, <1>7, <1>8, <1>9, <1>10

LEMMA TrxmMore ==
  ASSUME CallInv, PartsAsMade, Progress, TrxmSteps, Trxm,
         PassOver \/ KeepStep \/ DecomposeTRXM \/ DecomposeSYRK \/ DecomposeSYR2K
  PROVE  TrxmSteps' /\ seq = <<>>
<1>1. current \in Queues /\ phase = "decompose"
  BY DEF PassOver, KeepStep, DecomposeTRXM, DecomposeSYRK, DecomposeSYR2K, Decomposing
<1>2. Divided /\ problem \in Problems
  BY <1>1 DEF CallInv, PhaseOK, DivInv, DivTypeOK
<1>3. Queues = 1..1
  <2>1. Len(problem.cus) = 2
    BY <1>2, CallAssumption DEF Trxm, func
  <2>2. Len(problem.cus) - 1 = 1
    BY <2>1
  <2> QED
    BY <2>2, Zenon DEF Queues
<1>4. current = 1 /\ seq = <<>>
  <2>1. current = 1
    BY <1>1, <1>3
  <2> QED
    BY <1>1, <2>1 DEF TrxmSteps
<1>5. part[1] = Step(Origin, Full, TRUE)
  <2>1. next # 1
    BY <1>2, <1>3 DEF Divided
  <2> QED
    BY Zenon, <2>1 DEF PartsAsMade, TrxmWhole
<1> PICK s : s = StepOf(1, Origin, Full)
  OBVIOUS
<1>6. s = CurrentStep /\ part[current].live /\ part[current].size = Full
  BY <1>4, <1>5 DEF CurrentStep, Step
<1>7. ASSUME NEW w, DecomposeInto(w), IsSeq(w), Single(w) \/ Triple(w)
      PROVE  TrxmSteps'
  <2>1. /\ problem' = problem /\ part' = part /\ phase' = "decompose" /\ current' = 2 /\ seq' = seq \o w
    BY <1>1, <1>4, <1>7 DEF DecomposeInto, dvars
  <2> PICK u : u = seq \o w
    BY Zenon
  <2>2. IsSeq(u) /\ Len(u) = Len(w) /\ (\A k \in 1..Len(w) : u[k] = w[k]) /\ Len(w) \in Nat
    <3> PICK v : v = seq
      OBVIOUS
    <3>1. IsSeq(v) /\ Len(v) = 0
      <4>1. IsSeq(<<>>) /\ Len(<<>>) = 0
        <5>1. IsSeq(<<>>)
          BY TupleFacts, Zenon
        <5> QED
          BY <5>1
      <4> QED
        BY <1>4, <4>1
    <3>2. IsSeq(u) /\ Len(u) = Len(v) + Len(w) /\ \A k \in 1..Len(w) : u[Len(v) + k] = w[k]
      BY <1>7, <3>1, ConcatFacts
    <3> PICK n \in Nat : n = Len(w)
      BY <1>7, SeqFacts
    <3>3. 0 + n = n /\ \A k \in 1..n : 0 + k = k
      OBVIOUS
    <3> QED
      BY <3>1, <3>2, <3>3
  <2>3. Single(w) => Single(u)
    <3> SUFFICES ASSUME Single(w) PROVE Single(u)
      OBVIOUS
    <3>1. 1 \in 1..1
      OBVIOUS
    <3>2. Len(w) = 1 /\ u[1] = w[1]
      BY <2>2, <3>1 DEF Single
    <3> QED
      BY <2>2, <3>2 DEF Single
  <2>4. Triple(w) => Triple(u)
    <3> SUFFICES ASSUME Triple(w) PROVE Triple(u)
      OBVIOUS
    <3> PICK x, y, z, h, k, g : TrxmAs(w, x, y, z, h, k, g)
      BY DEF Triple
    <3>1. 1 \in 1..3 /\ 2 \in 1..3 /\ 3 \in 1..3
      OBVIOUS
    <3>2. Len(w) = 3 /\ u[1] = w[1] /\ u[2] = w[2] /\ u[3] = w[3]
      BY <2>2, <3>1 DEF TrxmAs, Threesome
    <3>3. TrxmAs(u, x, y, z, h, k, g)
      BY <2>2, <3>2 DEF TrxmAs, Threesome
    <3> QED
      BY <3>3 DEF Triple
  <2>5. (Single(u)' <=> Single(u)) /\ (Triple(u)' <=> Triple(u))
    BY <2>1, SameHalves DEF Single, Triple
  <2>6. Single(seq)' \/ Triple(seq)'
    BY <1>7, <2>1, <2>3, <2>4, <2>5
  <2> QED
    BY <2>1, <2>6 DEF TrxmSteps
<1>8. /\ HalfStep(s, 0, problem.y) /\ IsStep(s)
  BY <1>2, WholeIs
<1>9. func \in {"TRMM", "TRSM"}
  BY DEF Trxm
<1>10. CASE KeepStep
  <2>1. DecomposeInto(<<s>>)
    BY <1>6, <1>9, <1>10 DEF KeepStep
  <2>2. IsSeq(<<s>>) /\ Len(<<s>>) = 1 /\ <<s>>[1] = s
    <3>1. IsSeq(<<s>>) /\ Len(<<s>>) = 1
      BY TupleFacts, Zenon
    <3> QED
      BY <3>1
  <2>3. Single(<<s>>)
    BY <1>8, <2>2 DEF Single
  <2> QED
    BY <1>4, <1>7, <2>1, <2>2, <2>3
<1>11. CASE DecomposeTRXM
  <2> PICK e : DecomposeInto(TrxmSequence(s, e))
    BY <1>6, <1>11 DEF DecomposeTRXM
  <2>1. problem.y >= Threshold
    BY <1>6, <1>11 DEF DecomposeTRXM, Full
  <2> PICK w : w = TrxmSequence(s, e)
    OBVIOUS
  <2> PICK x, y, z, h, k, g : TrxmAs(w, x, y, z, h, k, g)
    BY <1>2, <2>1, TrxmHalves
  <2>2. Triple(w) /\ IsSeq(w)
    BY DEF Triple, TrxmAs, Threesome
  <2> QED
    BY <1>4, <1>7, <2>2
<1>12. ~ PassOver /\ ~ DecomposeSYRK /\ ~ DecomposeSYR2K
  BY <1>6, <1>9 DEF PassOver, DecomposeSYRK, DecomposeSYR2K
<1> QED
  BY <1>10, <1>11, <1>12

LEMMA StartType ==
  ASSUME problem \in Problems, NEW c \in OutElements
  PROVE  Start[c] \in Residues /\ Start[c] \in Int
<1> PICK y \in Nat, x \in Nat : y = Turned(problem).y /\ x = Turned(problem).x
  BY DivisionAssumption DEF Turned, Swap
<1> PICK h \in Nat : h = problem.y
  BY DivisionAssumption
<1>1. c[1] \in Nat /\ c[2] \in Nat
  <2>1. CASE func = "GEMV"
    <3>1. c \in Span(0, h) \X {0}
      BY <2>1 DEF OutElements
    <3>2. Span(0, h) \subseteq Nat
      BY DEF Span
    <3> QED
      BY <3>1, <3>2
  <2>2. CASE func # "GEMV"
    <3>1. c \in Span(0, y) \X Span(0, x)
      BY <2>2 DEF OutElements
    <3>2. Span(0, y) \subseteq Nat /\ Span(0, x) \subseteq Nat
      BY DEF Span
    <3> QED
      BY <3>1, <3>2
  <2> QED
    BY <2>1, <2>2
<1> PICK i \in Nat, j \in Nat : i = c[1] /\ j = c[2]
  BY <1>1
<1>2. Start[c] = InitialOut(i, j)
  BY DEF Start
<1>3. InitialOut(i, j) \in Residues
  BY StoredType
<1> QED
  BY <1>2, <1>3, ModFacts

LEMMA PromisedOf ==
  ASSUME problem \in Problems, ~ Trxm, Promise, NEW o \in Extents, NEW n \in Extents,
         NEW c \in OutElements, c \in PartCells(o, n)
  PROVE  promised[c] = Wholly(c, Start[c]) /\ c[1] \in Nat /\ c[2] \in Nat
<1>1. c[1] \in Nat /\ c[2] \in Nat
  BY PartCell
<1>2. Turned(problem) = problem
  BY OtherProblem DEF Turned
<1>3. c \in PartCells(Origin, Full)
  BY <1>2 DEF PartCells, OutElements, Origin, Full
<1> QED
  BY <1>1, <1>3, PromisedIs DEF Promise

(* What a kernel that ends leaves behind, and when it is its turn.         *)
LEMMA Ending ==
  ASSUME CallInv, lost = {}, NEW j \in DOMAIN status, EndKernel(j)
  PROVE  /\ phase \in {"enqueue", "returned"} /\ Divided /\ problem \in Problems
         /\ IsSeq(seq) /\ DOMAIN status = DOMAIN seq /\ j \in DOMAIN seq /\ DOMAIN seq = 1..Len(seq) /\ Len(seq) \in Nat
         /\ Chained /\ ~ Done(j)
         /\ \A i : Done(i)' <=> Done(i) \/ i = j
         /\ \A i \in DOMAIN seq : i < j /\ seq[i].queue = seq[j].queue => Done(i)
         /\ \A i \in DOMAIN seq : j < i /\ seq[i].queue = seq[j].queue => ~ Done(i)
<1>1. /\ phase \in {"enqueue", "returned"} /\ Divided /\ problem \in Problems /\ Len(seq) \in Nat
      /\ IsSeq(seq) /\ DOMAIN seq = 1..Len(seq)
      /\ status \in [1..Len(seq) -> {"made", "queued", "running", "done"}]
  <2>1. DOMAIN status # {}
    OBVIOUS
  <2> QED
    BY <2>1, CallFacts
<1>2. status[j] = "running" /\ status' = [status EXCEPT ![j] = "done"] /\ Chained /\ InTurn
  BY DEF EndKernel, CallInv
<1>3. \A i : Done(i)' <=> Done(i) \/ i = j
  BY <1>1, <1>2 DEF Done
<1>4. \A i \in DOMAIN seq : i < j /\ seq[i].queue = seq[j].queue => Done(i)
  <2> SUFFICES ASSUME NEW i \in DOMAIN seq, i < j, seq[i].queue = seq[j].queue PROVE Done(i)
    OBVIOUS
  <2>1. i \in 1..(j - 1)
    BY <1>1
  <2> QED
    BY <1>1, <1>2, <2>1 DEF InTurn, Done
<1>5. \A i \in DOMAIN seq : j < i /\ seq[i].queue = seq[j].queue => ~ Done(i)
  <2> SUFFICES ASSUME NEW i \in DOMAIN seq, j < i, seq[i].queue = seq[j].queue, Done(i) PROVE FALSE
    OBVIOUS
  <2>1. j \in 1..(i - 1)
    BY <1>1
  <2>2. status[j] = "done"
    BY <1>1, <1>2, <2>1 DEF InTurn, Done
  <2> QED
    BY <1>2, <2>2
<1> QED
  BY <1>1, <1>2, <1>3, <1>4, <1>5 DEF Done

LEMMA OtherEnds ==
  ASSUME CallInv, OutShape, Promise, OtherSteps, OtherOut, lost = {}, ~ Trxm,
         NEW j \in DOMAIN status, EndKernel(j)
  PROVE  OtherOut'
<1>1. /\ problem' = problem /\ part' = part /\ seq' = seq /\ promised' = promised /\ out' = After(seq[j], out)
  BY DEF EndKernel, dvars
<1>2. /\ func' = func /\ (Trxm' <=> Trxm) /\ Start' = Start /\ OutElements' = OutElements
  BY <1>1, SameProblem
<1>3. /\ Divided /\ problem \in Problems /\ Chained
      /\ DOMAIN status = DOMAIN seq /\ j \in DOMAIN seq /\ DOMAIN seq = 1..Len(seq) /\ Len(seq) \in Nat
      /\ ~ Done(j) /\ \A i : Done(i)' <=> Done(i) \/ i = j
  BY Ending
<1>4. /\ \A i \in DOMAIN seq : i < j /\ seq[i].queue = seq[j].queue => Done(i)
      /\ \A i \in DOMAIN seq : j < i /\ seq[i].queue = seq[j].queue => ~ Done(i)
  BY Ending
<1>5. Packed(seq) /\ InParts(seq) /\ Ordered(seq) /\ Started(seq)
  BY DEF OtherSteps, Packed
<1> PICK k : k = seq[j]
  OBVIOUS
<1>6. k.queue \in Queues /\ k.size \in Extents /\ k.offset \in Extents /\ Basic(k) /\ Kind(k)
  BY <1>3, <1>5, StepOfPart DEF InParts, Basic
<1>7. DOMAIN Kernel(k, out) = StepCells(k) /\ Computes(k, out)
  BY <1>3, <1>6, KernelIs
<1>8. \A c \in OutElements : out'[c] = IF c \in StepCells(k) THEN Kernel(k, out)[c] ELSE out[c]
  <2>1. \A c \in DOMAIN out :
           After(k, out)[c] = IF c \in DOMAIN Kernel(k, out) THEN Kernel(k, out)[c] ELSE out[c]
    BY AfterIs
  <2> QED
    BY <1>1, <1>7, <2>1 DEF OutShape
<1>9. \A i : /\ StepCells(seq[i])' = StepCells(seq[i])
             /\ FirstOf(seq[i])' <=> FirstOf(seq[i])
             /\ Final(seq[i])' <=> Final(seq[i])
  <2> SUFFICES ASSUME NEW i
               PROVE  /\ StepCells(seq[i])' = StepCells(seq[i])
                      /\ FirstOf(seq[i])' <=> FirstOf(seq[i])
                      /\ Final(seq[i])' <=> Final(seq[i])
    OBVIOUS
  <2> PICK s : s = seq[i]
    OBVIOUS
  <2>1. s = seq'[i]
    BY <1>1
  <2>2. StepCells(s)' = StepCells(s) /\ (FirstOf(s)' <=> FirstOf(s)) /\ (Final(s)' <=> Final(s))
    BY <1>1, SameKinds
  <2> QED
    BY <2>1, <2>2
<1>10. \A i, c : Covers(i, c)' <=> Covers(i, c) \/ (i = j /\ c \in StepCells(k))
  BY <1>3, <1>9 DEF Covers
<1>11. \A c : Once(c, Start[c])' = Once(c, Start[c])
  <2> SUFFICES ASSUME NEW c PROVE Once(c, Start[c])' = Once(c, Start[c])
    OBVIOUS
  <2> PICK v : v = Start[c]
    OBVIOUS
  <2>1. Once(c, v)' = Once(c, v)
    BY <1>1, SameKinds
  <2> QED
    BY <1>2, <2>1
<1> SUFFICES ASSUME NEW c \in OutElements
             PROVE  /\ (\E i : Covers(i, c)' /\ Final(seq[i])) => out'[c] = promised[c]
                    /\ (\E i : Covers(i, c)' /\ FirstOf(seq[i])) /\ ~ (\E i : Covers(i, c)' /\ Final(seq[i]))
                         => out'[c] = Once(c, Start[c])
                    /\ ~ (\E i : Covers(i, c)') => out'[c] = Start[c]
  BY <1>1, <1>2, <1>9, <1>11 DEF OtherOut
<1>12. /\ (\E i : Covers(i, c) /\ Final(seq[i])) => out[c] = promised[c]
       /\ (\E i : Covers(i, c) /\ FirstOf(seq[i])) /\ ~ (\E i : Covers(i, c) /\ Final(seq[i]))
            => out[c] = Once(c, Start[c])
       /\ ~ (\E i : Covers(i, c)) => out[c] = Start[c]
  BY DEF OtherOut
<1>13. CASE c \notin StepCells(k)
  BY <1>8, <1>10, <1>12, <1>13
<1>14. CASE c \in StepCells(k)
  <2>1. out'[c] = Kernel(k, out)[c]
    BY <1>8, <1>14
  <2>2. c \in PartCells(k.offset, k.size)
    BY <1>14 DEF StepCells
  <2>3. promised[c] = Wholly(c, Start[c]) /\ c[1] \in Nat /\ c[2] \in Nat
    BY <1>3, <1>6, <2>2, PromisedOf
  <2>4. ASSUME NEW i, Covers(i, c) PROVE FirstOf(seq[i]) /\ SecondOf(k) /\ ~ Final(seq[i])
    <3>1. Done(i) /\ i \in DOMAIN seq /\ c \in StepCells(seq[i]) /\ i # j
      BY <1>3, <2>4 DEF Covers, Done
    <3>2. CASE i < j
      <4>1. FirstOf(seq[i]) /\ SecondOf(k)
        BY <1>3, <1>5, <1>14, <3>1, <3>2, TwoWriters
      <4> QED
        BY <4>1, KindsDiffer
    <3>3. CASE j < i
      <4>1. seq[j].queue = seq[i].queue
        BY <1>3, <1>5, <1>14, <3>1, <3>3, TwoWriters
      <4> QED
        BY <1>4, <3>1, <3>3, <4>1
    <3> QED
      BY <1>3, <3>1, <3>2, <3>3
  <2>5. Covers(j, c)'
    BY <1>10, <1>14
  <2>6. CASE WholeOf(k)
    <3>1. ~ \E i : Covers(i, c)
      BY <2>4, <2>6, KindsDiffer
    <3>2. out'[c] = promised[c]
      BY <1>7, <1>12, <1>14, <2>1, <2>3, <2>6, <3>1 DEF Computes
    <3>3. Final(seq[j])
      BY <2>6 DEF Final
    <3> QED
      BY <2>5, <3>2, <3>3
  <2>7. CASE SecondOf(k)
    <3>1. ~ \E i : Covers(i, c) /\ Final(seq[i])
      BY <2>4
    <3>2. PICK i \in DOMAIN seq : i < j /\ seq[i].queue = k.queue /\ FirstOf(seq[i]) /\ c \in StepCells(seq[i])
      BY <1>3, <1>5, <1>14, <2>7 DEF Started
    <3>3. Covers(i, c)
      BY <1>4, <3>2 DEF Covers
    <3>4. out[c] = Once(c, Start[c])
      BY <1>12, <3>1, <3>2, <3>3
    <3> PICK v \in Int : v = Start[c]
      BY <1>3, StartType
    <3>5. Again(c, Once(c, v)) = Wholly(c, v)
      BY <1>3, <2>3, <2>7, Twice DEF SecondOf
    <3>6. out'[c] = promised[c]
      BY <1>7, <1>14, <2>1, <2>3, <2>7, <3>4, <3>5 DEF Computes
    <3>7. Final(seq[j])
      BY <2>7 DEF Final
    <3> QED
      BY <2>5, <3>6, <3>7
  <2>8. CASE FirstOf(k)
    <3>1. ~ \E i : Covers(i, c)
      BY <2>4, <2>8, KindsDiffer
    <3>2. out'[c] = Once(c, Start[c])
      BY <1>7, <1>12, <1>14, <2>1, <2>8, <3>1 DEF Computes
    <3>3. ~ Final(seq[j])
      BY <2>8, KindsDiffer
    <3>4. \A i : Covers(i, c)' => i = j
      BY <1>10, <3>1
    <3> QED
      BY <2>5, <3>2, <3>3, <3>4
  <2> QED
    BY <1>6, <2>6, <2>7, <2>8 DEF Kind
<1> QED
  BY <1>13, <1>14

LEMMA TrxmEnds ==
  ASSUME CallInv, TrxmSteps, TrxmOut, lost = {}, Trxm, NEW j \in DOMAIN status, EndKernel(j)
  PROVE  TrxmOut'
<1>1. /\ problem' = problem /\ seq' = seq /\ out' = After(seq[j], out)
  BY DEF EndKernel, dvars
<1>2. /\ problem \in Problems /\ Chained /\ phase \in {"enqueue", "returned"}
      /\ j \in DOMAIN seq /\ DOMAIN seq = 1..Len(seq) /\ Len(seq) \in Nat
      /\ ~ Done(j) /\ \A i : Done(i)' <=> Done(i) \/ i = j
      /\ \A i \in DOMAIN seq : i < j /\ seq[i].queue = seq[j].queue => Done(i)
  BY Ending
<1>3. \A i \in DOMAIN seq : i < j => Done(i)
  <2>1. \A i \in DOMAIN seq : seq[i].queue \in Queues
    BY Zenon, <1>2 DEF Chained, Linked
  <2> QED
    BY <1>2, <2>1, OneQueue
<1> PICK n \in Nat : n = Len(seq) /\ DOMAIN seq = 1..n
  BY Zenon, <1>2
<1> PICK k \in 0..n : (\A i \in 1..n : Done(i) <=> i <= k) /\ out = Made(k)
  BY DEF TrxmOut
<1>4. j = k + 1 /\ j \in 1..n
  <2>1. ~ (j <= k) /\ j \in 1..n
    BY <1>2
  <2>2. j = 1 \/ j - 1 \in 1..n
    BY <2>1
  <2>3. j - 1 <= k
    BY <1>3, <2>1, <2>2
  <2> QED
    BY <2>1, <2>3
<1>5. n = 1 \/ n = 3
  BY <1>2 DEF TrxmSteps, Single, Triple, TrxmAs, Threesome
<1>6. After(seq[j], Made(k)) = Made(j)
  <2>1. (k = 0 /\ j = 1) \/ (k = 1 /\ j = 2) \/ (k = 2 /\ j = 3)
    BY <1>4, <1>5
  <2>2. CASE k = 0 /\ j = 1
    BY <2>2 DEF Made
  <2>3. CASE k = 1 /\ j = 2
    BY <2>3 DEF Made
  <2>4. CASE k = 2 /\ j = 3
    BY <2>4 DEF Made
  <2> QED
    BY <2>1, <2>2, <2>3, <2>4
<1>7. out' = Made(j)'
  <2>1. Made(j)' = Made(j)
    BY <1>1, MadeSame
  <2> QED
    BY <1>1, <1>6, <2>1
<1>8. j \in 0..n /\ \A i \in 1..n : Done(i)' <=> i <= j
  BY <1>2, <1>4
<1> QED
  BY <1>1, <1>7, <1>8 DEF TrxmOut

-----------------------------------------------------------------------------
(* Every action preserves that.                                            *)

LEMMA DataInit == ASSUME SInit PROVE DataInv
<1>1. /\ phase = "divide" /\ result = "none" /\ seq = <<>> /\ current = 1 /\ status = <<>>
      /\ DivisionInit /\ problem \in Problems
  BY DEF SInit, DivisionInit
<1>2. out = Start /\ DOMAIN out = OutElements
  BY DEF SInit, Start
<1>3. OutShape
  BY <1>2 DEF OutShape, Start
<1>4. Promise
  BY <1>2 DEF Promise, SInit, WholeStep, Full
<1>5. DOMAIN seq = {} /\ DOMAIN status = {} /\ IsSeq(seq) /\ Packed(seq)
  BY Zenon, <1>1, TupleFacts, EmptyPacked
<1>6. Progress
  BY <1>1 DEF Progress
<1>7. OtherSteps /\ TrxmSteps
  BY <1>1, <1>5 DEF OtherSteps, Decomposed, TrxmSteps
<1>8. OtherOut
  BY <1>2, <1>5 DEF OtherOut, Covers, Done
<1>9. TrxmOut
  <2>1. 0 \in 0..Len(seq)
    BY <1>5, SeqFacts
  <2> QED
    BY <1>2, <1>5, <2>1 DEF TrxmOut, Made
<1> QED
  BY <1>1, <1>3, <1>4, <1>6, <1>7, <1>8, <1>9, PartsInit DEF DataInv, Computed

LEMMA DivideData ==
  ASSUME CallInv, DataInv, DividePart
  PROVE  DataInv'
<1>1. /\ phase = "divide" /\ Divide /\ UNCHANGED <<phase, result, seq, current, events, lost, status, out, promised>>
      /\ seq = <<>> /\ current = 1 /\ DOMAIN status = {} /\ problem' = problem /\ problem \in Problems
  <2>1. problem' = problem
    BY Zenon DEF DividePart, Divide, DropQueue, StripeDivision, RectDivision, TriMatrixStripeDivision, CutY, CutX, Serve
  <2> QED
    BY <2>1, CallFacts DEF DividePart, callVars
<1>2. PartsAsMade'
  BY <1>1, PartsMade DEF DataInv, CallInv
<1>3. Progress' /\ OutShape' /\ Promise'
  <2>1. OutElements' = OutElements /\ WholeStep' = WholeStep /\ Start' = Start
    BY <1>1, SameProblem
  <2>2. OutShape'
    BY <1>1, <2>1 DEF DataInv, OutShape
  <2> PICK s, m : s = WholeStep /\ m = Start
    OBVIOUS
  <2>3. After(s, m)' = After(s, m)
    BY <1>1, SameAfter
  <2>4. Promise'
    BY <1>1, <2>1, <2>3 DEF DataInv, Promise
  <2>5. Progress'
    BY <1>1 DEF DataInv, Progress
  <2> QED
    BY <2>2, <2>4, <2>5
<1> SUFFICES ASSUME lost' = {} PROVE Computed'
  BY <1>2, <1>3 DEF DataInv
<1>4. Computed
  BY <1>1 DEF DataInv
<1>5. out' = Start' /\ IsSeq(seq') /\ \A i : ~ Done(i)'
  <2>1. out = Start
    BY <1>1, <1>4, OutIsStart DEF DataInv
  <2>2. Start' = Start
    BY <1>1, SameProblem
  <2> QED
    BY <1>1, <2>1, <2>2, CallFacts DEF Done
<1>6. OtherOut' /\ TrxmOut'
  BY <1>5, NothingDone
<1>7. DOMAIN seq' = {}
  BY <1>1, TupleFacts
<1>8. OtherSteps' /\ TrxmSteps'
  <2>1. Packed(seq)'
    BY <1>5, <1>7 DEF Packed, InParts, Ordered, Started, Finished
  <2> QED
    BY <1>1, <2>1 DEF OtherSteps, Decomposed, TrxmSteps
<1> QED
  BY <1>6, <1>8 DEF Computed

LEMMA EndDivisionData ==
  ASSUME CallInv, DataInv, EndDivision
  PROVE  DataInv'
<1>1. /\ phase = "divide" /\ phase' = "decompose" /\ Divided
      /\ UNCHANGED <<dvars, result, seq, current, events, lost, status, out, promised>>
      /\ seq = <<>> /\ current = 1 /\ DOMAIN status = {} /\ problem' = problem /\ part' = part /\ problem \in Problems
  BY CallFacts DEF EndDivision, dvars
<1>2. PartsAsMade' /\ Promise'
  BY <1>1, SameData
<1>3. OutElements' = OutElements /\ (Trxm' <=> Trxm) /\ Queues' = Queues
  BY <1>1, SameProblem
<1>4. Progress' /\ OutShape'
  BY <1>1, <1>3 DEF DataInv, Progress, OutShape
<1> SUFFICES ASSUME lost' = {} PROVE Computed'
  BY <1>2, <1>4 DEF DataInv
<1>5. Computed
  BY <1>1 DEF DataInv
<1>6. \A i : Done(i)' <=> Done(i)
  BY <1>1 DEF Done
<1>7. OtherOut' /\ TrxmOut'
  BY <1>1, <1>5, <1>6, SameCovers DEF Computed
<1>8. TrxmSteps'
  BY <1>1 DEF TrxmSteps
<1>9. OtherSteps'
  <2> SUFFICES ASSUME ~ Trxm PROVE OtherSteps'
    BY <1>3 DEF OtherSteps
  <2> PICK u : u = seq
    OBVIOUS
  <2>1. Packed(u)
    BY <1>5 DEF Computed, OtherSteps
  <2>2. Packed(u)'
    BY <1>1, <2>1, SamePacks
  <2>3. Packed(seq)'
    BY <1>1, <2>2
  <2>4. \A q \in Queues : q \in Nat /\ q > 0
    BY <1>1, StepParts DEF Queues
  <2>5. \A q \in Queues : ~ Decomposed(q)'
    BY <1>1, <2>4 DEF Decomposed
  <2> QED
    BY <1>3, <2>3, <2>5 DEF OtherSteps
<1> QED
  BY <1>7, <1>8, <1>9 DEF Computed

LEMMA DecomposeData ==
  ASSUME CallInv, CallInv', DataInv,
         PassOver \/ KeepStep \/ DecomposeTRXM \/ DecomposeSYRK \/ DecomposeSYR2K
  PROVE  DataInv'
<1>1. Decomposing /\ phase = "decompose" /\ current \in Queues
  BY DEF PassOver, KeepStep, DecomposeTRXM, DecomposeSYRK, DecomposeSYR2K, Decomposing
<1>2. \E w : DecomposeInto(w)
  BY DEF PassOver, KeepStep, DecomposeTRXM, DecomposeSYRK, DecomposeSYR2K
<1>3. /\ UNCHANGED <<dvars, phase, result, status, userEvent, out, promised>> /\ current' = current + 1
      /\ current \in Nat
      /\ problem' = problem /\ DOMAIN status = {} /\ phase' = "decompose"
  BY <1>1, <1>2, CallFacts DEF DecomposeInto, dvars
<1>4. lost' = {} => lost = {}
  <2>1. EventsOK
    BY DEF CallInv, PhaseOK
  <2>2. \A n \in 1..3 : \A e : DecomposeEventsAlloc(n, e) => (lost' = {} => lost = {})
    BY <2>1, EventsAllocated
  <2>3. 1 \in 1..3 /\ 2 \in 1..3 /\ 3 \in 1..3
    OBVIOUS
  <2>4. CASE PassOver \/ KeepStep
    BY <2>4 DEF PassOver, KeepStep
  <2>5. CASE DecomposeTRXM
    BY <2>2, <2>3, <2>5 DEF DecomposeTRXM
  <2>6. CASE DecomposeSYRK
    BY <2>2, <2>3, <2>6 DEF DecomposeSYRK
  <2>7. CASE DecomposeSYR2K
    <3>1. \E n \in 1..3 : \E e : DecomposeEventsAlloc(n, e)
      BY <2>3, <2>7 DEF DecomposeSYR2K
    <3> QED
      BY <2>2, <3>1
  <2> QED
    BY <2>4, <2>5, <2>6, <2>7
<1>5. PartsAsMade' /\ Promise'
  BY <1>3, SameData
<1>6. OutElements' = OutElements /\ (Trxm' <=> Trxm) /\ Start' = Start
  BY <1>3, SameProblem
<1>7. Progress' /\ OutShape'
  BY <1>1, <1>3, <1>6 DEF DataInv, Progress, OutShape
<1> SUFFICES ASSUME lost' = {} PROVE Computed'
  BY <1>5, <1>7 DEF DataInv
<1>8. Computed
  BY <1>4 DEF DataInv
<1>9. Trxm => TrxmSteps' /\ seq = <<>>
  BY <1>8, TrxmMore DEF DataInv, Computed
<1>10. OtherSteps' /\ TrxmSteps'
  <2>1. ~ Trxm => OtherSteps'
    BY <1>8, OtherMore DEF DataInv, Computed
  <2> QED
    BY <1>6, <1>9, <2>1 DEF OtherSteps, TrxmSteps
<1>11. out' = Start' /\ IsSeq(seq') /\ \A i : ~ Done(i)'
  <2>1. out = Start
    BY <1>3, <1>8, <1>9, OutIsStart DEF DataInv
  <2>2. IsSeq(seq')
    BY DEF CallInv, PhaseOK
  <2> QED
    BY <1>3, <1>6, <2>1, <2>2 DEF Done
<1>12. OtherOut' /\ TrxmOut'
  BY <1>11, NothingDone
<1> QED
  BY <1>10, <1>12 DEF Computed

LEMMA EndDecompositionData ==
  ASSUME CallInv, DataInv, EndDecomposition
  PROVE  DataInv'
<1>1. /\ phase = "decompose" /\ phase' = "enqueue" /\ current \notin Queues /\ current' = 1 /\ current \in Nat
      /\ status' = [i \in DOMAIN seq |-> "made"] /\ Divided
      /\ UNCHANGED <<dvars, result, seq, events, lost, out, promised>>
      /\ DOMAIN status = {} /\ problem' = problem /\ part' = part /\ problem \in Problems
      /\ Len(seq) \in Nat /\ DOMAIN seq = 1..Len(seq)
  <2>1. Divided
    BY DEF EndDecomposition, CallInv, PhaseOK
  <2> QED
    BY <2>1, CallFacts DEF EndDecomposition, dvars
<1>2. PartsAsMade' /\ Promise'
  BY <1>1, SameData
<1>3. OutElements' = OutElements /\ (Trxm' <=> Trxm) /\ Queues' = Queues
  BY <1>1, SameProblem
<1>4. Progress' /\ OutShape'
  <2>1. result # "success"
    BY <1>1 DEF DataInv, Progress
  <2>2. \A i \in DOMAIN seq : ~ (i < 1)
    BY <1>1
  <2> QED
    BY <1>1, <1>3, <2>1, <2>2 DEF DataInv, Progress, OutShape
<1> SUFFICES ASSUME lost' = {} PROVE Computed'
  BY <1>2, <1>4 DEF DataInv
<1>5. Computed
  BY <1>1 DEF DataInv
<1>6. \A i : Done(i)' <=> Done(i)
  BY <1>1 DEF Done
<1>7. OtherOut' /\ TrxmOut'
  BY <1>1, <1>5, <1>6, SameCovers DEF Computed
<1>0. problem.cus \in Seq(Nat) /\ Len(problem.cus) \in Nat
  BY <1>1, DivisionAssumption
<1>8. \A q \in Queues : q < current
  <2> PICK m \in Nat : m = current /\ m > 0
    BY <1>1 DEF DataInv, Progress
  <2> PICK n \in Nat : n = Len(problem.cus)
    BY <1>0
  <2> PICK k \in Int : k = n - 1
    OBVIOUS
  <2>1. m \notin 1..k
    BY <1>1 DEF Queues
  <2>2. \A q \in 1..k : q < m
    BY <2>1
  <2> QED
    BY <2>2 DEF Queues
<1>9. OtherSteps'
  <2> SUFFICES ASSUME ~ Trxm PROVE OtherSteps'
    BY <1>3 DEF OtherSteps
  <2> PICK u : u = seq
    OBVIOUS
  <2>1. Packed(u)
    BY <1>5 DEF Computed, OtherSteps
  <2>2. Packed(u)'
    BY <1>1, <2>1, SamePacks
  <2>3. Packed(seq)'
    BY <1>1, <2>2
  <2>4. \A q \in Queues : Decomposed(q)
    BY <1>1, <1>8 DEF Decomposed
  <2> QED
    BY <1>1, <1>3, <1>5, <2>3, <2>4 DEF OtherSteps, Computed
<1>10. TrxmSteps'
  <2> SUFFICES ASSUME Trxm PROVE TrxmSteps'
    BY <1>3 DEF TrxmSteps
  <2>1. current # 1
    <3>1. Len(problem.cus) = 2
      BY <1>1, CallAssumption DEF Trxm, func
    <3>2. Len(problem.cus) - 1 = 1
      BY <3>1
    <3>3. Queues = 1..1
      BY <3>2, Zenon DEF Queues
    <3> QED
      BY <1>1, <3>3
  <2>2. Single(seq) \/ Triple(seq)
    BY <1>1, <1>5, <2>1 DEF Computed, TrxmSteps
  <2> PICK u : u = seq
    OBVIOUS
  <2>3. (Single(u)' <=> Single(u)) /\ (Triple(u)' <=> Triple(u))
    BY <1>1, SameHalves DEF Single, Triple
  <2>4. Single(seq)' \/ Triple(seq)'
    BY <1>1, <2>2, <2>3
  <2> QED
    BY <1>1, <2>4 DEF TrxmSteps
<1> QED
  BY <1>7, <1>9, <1>10 DEF Computed

(* Every step is a record, and the sequence a function.                    *)
LEMMA EveryStep ==
  ASSUME CallInv, Computed, phase \in {"enqueue", "returned"}
  PROVE  IsSeq(seq) /\ \A i \in DOMAIN seq : IsStep(seq[i])
<1>1. IsSeq(seq) /\ DOMAIN seq = 1..Len(seq) /\ Len(seq) \in Nat
  BY CallFacts
<1>2. CASE ~ Trxm
  BY <1>1, <1>2 DEF Computed, OtherSteps, Packed, InParts
<1>3. CASE Trxm
  <2>1. Single(seq) \/ Triple(seq)
    BY <1>3 DEF Computed, TrxmSteps
  <2>2. CASE Single(seq)
    <3>1. DOMAIN seq = {1}
      BY <1>1, <2>2 DEF Single
    <3> QED
      BY <1>1, <2>2, <3>1 DEF Single
  <2>3. CASE Triple(seq)
    <3> PICK x, y, z, h, k, g : TrxmAs(seq, x, y, z, h, k, g)
      BY <2>3 DEF Triple
    <3>1. Len(seq) = 3 /\ IsStep(seq[1]) /\ IsStep(seq[2]) /\ IsStep(seq[3])
      BY DEF TrxmAs, Threesome
    <3>2. DOMAIN seq = {1, 2, 3}
      BY <1>1, <3>1
    <3> QED
      BY <1>1, <3>1, <3>2
  <2> QED
    BY <2>1, <2>2, <2>3
<1> QED
  BY <1>2, <1>3

LEMMA Rewritten ==
  ASSUME NEW u, IsSeq(u), NEW i \in DOMAIN u, IsStep(u[i])
  PROVE  [u EXCEPT ![i].waits = u[i].waits] = u
<1> PICK S : u \in Seq(S)
  BY DEF IsSeq
<1> PICK s : s = u[i]
  OBVIOUS
<1>1. u = [k \in DOMAIN u |-> u[k]]
  OBVIOUS
<1>2. [s EXCEPT !.waits = s.waits] = s
  BY DEF IsStep, AllFields
<1>3. [u EXCEPT ![i].waits = u[i].waits] = [u EXCEPT ![i] = [s EXCEPT !.waits = s.waits]]
  OBVIOUS
<1>4. [u EXCEPT ![i] = s] = u
  BY <1>1
<1> QED
  BY <1>2, <1>3, <1>4

LEMMA EnqueueData ==
  ASSUME CallInv, DataInv, EnqueueKernel
  PROVE  DataInv'
<1>1. /\ phase = "enqueue" /\ phase' = "enqueue" /\ current \in DOMAIN seq /\ current' = current + 1
      /\ status' = [status EXCEPT ![current] = "queued"]
      /\ UNCHANGED <<dvars, result, lost, out, promised>>
      /\ current \in Nat /\ DOMAIN seq = 1..Len(seq) /\ Len(seq) \in Nat /\ problem' = problem
      /\ status \in [DOMAIN seq -> {"made", "queued", "running", "done"}]
  BY CallFacts DEF EnqueueKernel, Enqueuing, dvars
<1>2. PICK w \in {seq[current].waits, seq[current].waits \ lost} : seq' = [seq EXCEPT ![current].waits = w]
  BY Zenon DEF EnqueueKernel
<1>3. DOMAIN seq' = DOMAIN seq
  BY <1>2
<1>4. PartsAsMade' /\ Promise'
  BY <1>1, SameData
<1>5. OutShape'
  BY <1>1, SameProblem DEF DataInv, OutShape
<1>6. Progress'
  <2>1. result # "success"
    BY <1>1 DEF DataInv, Progress
  <2>2. ASSUME NEW i \in DOMAIN seq, i < current + 1 PROVE status'[i] # "made"
    <3>1. i < current \/ i = current
      BY <1>1, <2>2
    <3> QED
      BY <1>1, <3>1 DEF DataInv, Progress
  <2> QED
    BY <1>1, <1>3, <2>1, <2>2 DEF DataInv, Progress
<1> SUFFICES ASSUME lost = {} PROVE Computed'
  BY <1>1, <1>4, <1>5, <1>6 DEF DataInv
<1>7. Computed
  BY DEF DataInv
<1>8. seq' = seq
  <2>1. IsSeq(seq) /\ IsStep(seq[current])
    BY <1>1, <1>7, EveryStep
  <2>2. w = seq[current].waits
    BY <1>2
  <2> QED
    BY <1>1, <1>2, <2>1, <2>2, Rewritten
<1>9. \A i : Done(i)' <=> Done(i)
  <2>1. status[current] = "made"
    BY <1>1 DEF CallInv, PhaseOK
  <2> QED
    BY <1>1, <2>1 DEF Done
<1> QED
  BY <1>1, <1>7, <1>8, <1>9, SameCovers, SameMade DEF Computed

(* What neither makes steps nor ends kernels.                              *)
LEMMA OthersData ==
  ASSUME CallInv, DataInv, UNCHANGED <<dvars, seq, lost, out, promised>>, Progress',
         \A i : Done(i)' <=> Done(i),
         \/ UNCHANGED <<phase, current>>
         \/ phase \in {"enqueue", "returned"} /\ phase' \in {"enqueue", "returned"}
  PROVE  DataInv'
<1>1. PartsAsMade' /\ Promise'
  BY SameData
<1>2. OutShape'
  BY SameProblem DEF DataInv, OutShape, dvars
<1>3. Computed => Computed'
  BY SameCovers, SameMade DEF Computed
<1> QED
  BY <1>1, <1>2, <1>3 DEF DataInv

LEMMA EndData ==
  ASSUME CallInv, DataInv, EnqueueFails \/ ReturnSuccess
  PROVE  DataInv'
<1>1. /\ UNCHANGED <<dvars, seq, current, lost, status, out, promised>>
      /\ phase = "enqueue" /\ phase' = "returned" /\ current \in Nat
      /\ DOMAIN seq = 1..Len(seq) /\ Len(seq) \in Nat
  BY CallFacts DEF EnqueueFails, ReturnSuccess, Enqueuing
<1>2. Progress'
  <2>1. CASE EnqueueFails
    BY <1>1, <2>1 DEF EnqueueFails, DataInv, Progress
  <2>2. CASE ReturnSuccess
    <3> PICK n \in Nat, k \in Nat : n = Len(seq) /\ DOMAIN seq = 1..n /\ k = current /\ k > 0
      BY Zenon, <1>1 DEF DataInv, Progress
    <3>1. k \notin 1..n
      BY <2>2 DEF ReturnSuccess
    <3>2. \A i \in 1..n : i < k
      BY <3>1
    <3> QED
      BY <1>1, <2>2, <3>2 DEF ReturnSuccess, DataInv, Progress
  <2> QED
    BY <2>1, <2>2
<1>3. \A i : Done(i)' <=> Done(i)
  BY <1>1 DEF Done
<1> QED
  BY <1>1, <1>2, <1>3, OthersData

LEMMA KernelStatus ==
  ASSUME CallInv, DataInv, NEW j \in DOMAIN status, NEW v, v # "made",
         status' = [status EXCEPT ![j] = v], UNCHANGED <<phase, current, result, seq>>
  PROVE  Progress' /\ DOMAIN status' = DOMAIN status
<1>1. DOMAIN status' = DOMAIN status /\ \A i : status[i] # "made" /\ i \in DOMAIN status => status'[i] # "made"
  OBVIOUS
<1>2. phase \in {"enqueue", "returned"} => DOMAIN status = DOMAIN seq
  BY DEF CallInv, PhaseOK
<1> QED
  BY <1>1, <1>2 DEF DataInv, Progress

LEMMA StartData ==
  ASSUME CallInv, DataInv, NEW j \in DOMAIN status, StartKernel(j)
  PROVE  DataInv'
<1>1. /\ status[j] = "queued" /\ status' = [status EXCEPT ![j] = "running"]
      /\ UNCHANGED <<dvars, phase, result, seq, current, lost, out, promised>>
  BY DEF StartKernel
<1>2. Progress'
  BY Zenon, <1>1, KernelStatus
<1>3. \A i : Done(i)' <=> Done(i)
  BY <1>1 DEF Done
<1> QED
  BY <1>1, <1>2, <1>3, OthersData

LEMMA EndKernelData ==
  ASSUME CallInv, DataInv, NEW j \in DOMAIN status, EndKernel(j)
  PROVE  DataInv'
<1>1. /\ status' = [status EXCEPT ![j] = "done"] /\ out' = After(seq[j], out)
      /\ UNCHANGED <<dvars, phase, result, seq, current, lost, promised>>
      /\ problem' = problem
  BY DEF EndKernel, dvars
<1>2. Progress'
  BY Zenon, <1>1, KernelStatus
<1>3. PartsAsMade' /\ Promise'
  BY <1>1, SameData
<1>4. OutShape'
  <2>1. OutElements' = OutElements
    BY <1>1, SameProblem
  <2> PICK m, s : m = out /\ s = seq[j]
    OBVIOUS
  <2>2. DOMAIN After(s, m) = DOMAIN m /\ After(s, m) = [c \in DOMAIN After(s, m) |-> After(s, m)[c]]
    BY AfterIs
  <2> QED
    BY <1>1, <2>1, <2>2 DEF DataInv, OutShape
<1> SUFFICES ASSUME lost = {} PROVE Computed'
  BY <1>1, <1>2, <1>3, <1>4 DEF DataInv
<1>5. Computed /\ OutShape /\ Promise
  BY DEF DataInv
<1>6. OtherSteps' /\ TrxmSteps'
  BY <1>1, <1>5, SameMade DEF Computed
<1>7. Trxm' <=> Trxm
  BY <1>1, SameProblem
<1>8. OtherOut'
  BY <1>5, <1>7, OtherEnds DEF Computed, OtherOut
<1>9. TrxmOut'
  BY <1>5, <1>7, TrxmEnds DEF Computed, TrxmOut
<1> QED
  BY <1>6, <1>8, <1>9 DEF Computed

LEMMA DataNext == CallInv /\ CallInv' /\ DataInv /\ [SNext]_svars => DataInv'
<1> SUFFICES ASSUME CallInv, CallInv', DataInv, [SNext]_svars PROVE DataInv'
  OBVIOUS
<1>1. CASE DividePart
  BY <1>1, DivideData
<1>2. CASE EndDivision
  BY <1>2, EndDivisionData
<1>3. CASE PassOver \/ KeepStep \/ DecomposeTRXM \/ DecomposeSYRK \/ DecomposeSYR2K
  BY <1>3, DecomposeData
<1>4. CASE EndDecomposition
  BY <1>4, EndDecompositionData
<1>5. CASE EnqueueKernel
  BY <1>5, EnqueueData
<1>6. CASE EnqueueFails \/ ReturnSuccess
  BY <1>6, EndData
<1>7. CASE RunKernels
  BY <1>7, StartData, EndKernelData DEF RunKernels
<1>8. CASE UserEventCompletes \/ UNCHANGED svars
  <2>1. UNCHANGED <<dvars, phase, result, seq, current, lost, status, out, promised>>
    BY <1>8 DEF UserEventCompletes, svars, callVars, dvars
  <2>2. Progress'
    BY <2>1 DEF DataInv, Progress
  <2>3. \A i : Done(i)' <=> Done(i)
    BY <2>1 DEF Done
  <2> QED
    BY <2>1, <2>2, <2>3, OthersData
<1> QED
  BY <1>1, <1>2, <1>3, <1>4, <1>5, <1>6, <1>7, <1>8 DEF SNext, Call

LEMMA DataInvAlways == SSpec => []DataInv
<1>1. CallInv /\ DataInv /\ [SNext]_svars => CallInv' /\ DataInv'
  BY CallNext, DataNext
<1> QED
  BY CallInit, DataInit, <1>1, PTL DEF SSpec

-----------------------------------------------------------------------------
(* What follows of the result and of the events for the caller.            *)

(* Two steps of the whole compute the same.                                *)
LEMMA SameStep ==
  ASSUME problem \in Problems, Trxm, NEW m, OutType(m),
         NEW s, HalfStep(s, 0, problem.y), NEW r, HalfStep(r, 0, problem.y)
  PROVE  After(s, m) = After(r, m)
<1> PICK e \in Nat, a \in Residues : e = problem.y /\ a = problem.alpha
  BY TrxmProblem
<1> PICK w : w = After(s, m)
  OBVIOUS
<1> PICK z : z = After(r, m)
  OBVIOUS
<1>0. 0 + e <= e /\ 0 \in Nat
  OBVIOUS
<1>1. OutType(w) /\ OutType(z)
  BY <1>0, HalfKeeps
<1>2. ASSUME NEW l \in Lines PROVE \A t \in 0..(e - 1) : w[Cell(t, l)] = z[Cell(t, l)]
  <2> PICK v, x, y : v = Line(m, l) /\ x = Line(w, l) /\ y = Line(z, l)
    OBVIOUS
  <2>1. CASE func = "TRMM"
    <3>1. Multiplied(v, x, a, 0, e, e) /\ Multiplied(v, y, a, 0, e, e)
      BY <1>0, <2>1, TrmmAfter
    <3>2. \A t \in 0..(e - 1) : x[t] = y[t]
      BY <3>1 DEF Multiplied
    <3> QED
      BY Zenon, <3>2 DEF Line
  <2>2. CASE func = "TRSM"
    <3>1. Solves(v, x, a, 0, e, e) /\ Solves(v, y, a, 0, e, e)
      BY <1>0, <2>2, TrsmAfter
    <3>2. \A t \in 0..(e - 1) : x[t] = y[t]
      BY ONLY <3>1, e \in Nat, OneSolution
    <3> QED
      BY Zenon, <3>2 DEF Line
  <2> QED
    BY <2>1, <2>2, TrxmProblem
<1>3. w = z
  BY <1>1, <1>2, SameLines DEF OutType
<1> QED
  BY <1>3

(* The kernels of TRMM and TRSM that are all done have computed the        *)
(* function of the whole.                                                  *)
LEMMA TrxmResult ==
  ASSUME CallInv, DataInv, lost = {}, Trxm, phase \in {"enqueue", "returned"}, \A i \in DOMAIN seq : Done(i)
  PROVE  out = promised
<1>1. problem \in Problems /\ DOMAIN seq = 1..Len(seq) /\ Len(seq) \in Nat
  BY CallFacts
<1> PICK n \in Nat : n = Len(seq) /\ DOMAIN seq = 1..n
  BY Zenon, <1>1
<1>2. TrxmOut /\ (Single(seq) \/ Triple(seq)) /\ promised = After(WholeStep, Start)
  BY DEF DataInv, Computed, TrxmSteps, Promise
<1> PICK k \in 0..n : (\A i \in 1..n : Done(i) <=> i <= k) /\ out = Made(k)
  BY <1>2 DEF TrxmOut
<1>3. n = 1 \/ n = 3
  BY <1>2 DEF Single, Triple, TrxmAs, Threesome
<1>4. k = n
  <2>1. n \in 1..n
    BY <1>3
  <2>2. n <= k
    BY <2>1
  <2> QED
    BY <2>2
<1> PICK m, s : m = Start /\ s = WholeStep
  OBVIOUS
<1>5. OutType(m)
  <2>1. \A c \in OutElements : m[c] \in Residues
    BY <1>1, StartType
  <2> QED
    BY <2>1 DEF OutType, Start
<1>6. HalfStep(s, 0, problem.y)
  BY <1>1, WholeIs DEF WholeStep
<1>7. CASE Single(seq)
  <2>1. n = 1 /\ HalfStep(seq[1], 0, problem.y)
    BY <1>7 DEF Single
  <2>2. After(seq[1], m) = After(s, m)
    BY <1>1, <1>5, <1>6, <2>1, SameStep
  <2>3. Made(1) = After(seq[1], Start)
    BY DEF Made
  <2> QED
    BY <1>2, <1>4, <2>1, <2>2, <2>3
<1>8. CASE Triple(seq)
  <2> PICK x, y, z, h, j, g : TrxmAs(seq, x, y, z, h, j, g)
    BY <1>8 DEF Triple
  <2>1. /\ n = 3 /\ seq[1] = x /\ seq[2] = y /\ seq[3] = z
        /\ h \in Nat /\ j \in Nat /\ h + j = problem.y /\ InHalves(x, y, z, h, j, g)
    BY DEF TrxmAs, Threesome
  <2>2. After(z, After(y, After(x, m))) = After(s, m)
    BY <1>1, <1>5, <1>6, <2>1, HalvesAfter
  <2>3. Made(3) = After(seq[3], After(seq[2], After(seq[1], Start)))
    BY DEF Made
  <2> QED
    BY <1>2, <1>4, <2>1, <2>2, <2>3
<1> QED
  BY <1>2, <1>7, <1>8

(* When the kernels of a queue are done, so is its part.                   *)
LEMMA PartResult ==
  ASSUME CallInv, DataInv, lost = {}, ~ Trxm, NEW j \in DOMAIN seq,
         \A i \in DOMAIN seq : seq[i].queue = seq[j].queue => Done(i),
         NEW c \in OutElements, c \in CellsOf(seq[j].queue)
  PROVE  out[c] = promised[c]
<1>1. OtherOut /\ Finished(seq)
  BY DEF DataInv, Computed, OtherSteps, Packed
<1>2. PICK i \in DOMAIN seq : seq[i].queue = seq[j].queue /\ Final(seq[i]) /\ c \in StepCells(seq[i])
  BY <1>1 DEF Finished
<1>3. Covers(i, c)
  BY <1>2 DEF Covers
<1> QED
  BY <1>1, <1>2, <1>3 DEF OtherOut

(* An element that is computed belongs to the part of a queue.             *)
LEMMA PartOf ==
  ASSUME CallInv, Divided, ~ Trxm, NEW c \in OutElements, c \in PartCells(Origin, Full)
  PROVE  \E q \in Queues : part[q].live /\ c \in CellsOf(q)
<1>1. problem \in Problems /\ PartsTile
  BY DivInvTiles DEF CallInv, DivInv, DivTypeOK
<1> PICK y \in Nat, x \in Nat : y = problem.y /\ x = problem.x /\ x > 0
  BY <1>1, OtherProblem
<1>2. Turned(problem) = problem /\ func \in {"SYRK", "SYR2K", "GEMM", "GEMV"}
  BY <1>1, OtherProblem DEF Turned
<1>3. Span(0, y) = 0..(y - 1) /\ Span(0, x) = 0..(x - 1)
  BY DEF Span
<1>4. CASE func = "GEMV"
  <2>1. c \in Span(0, y) \X {0}
    BY <1>4 DEF OutElements
  <2>2. c \in Cells
    BY <1>3, <2>1 DEF Cells
  <2> PICK q \in Queues : part[q].live /\ InPart(q, c[1], c[2])
    BY <1>1, <2>2 DEF PartsTile
  <2>3. c[1] \in Span(part[q].offset.y, part[q].size.y)
    BY DEF InPart, Within, Span
  <2> QED
    BY <1>4, <2>1, <2>3 DEF CellsOf, PartCells
<1>5. CASE func # "GEMV"
  <2>1. c \in Span(0, y) \X Span(0, x)
    BY <1>2, <1>5 DEF OutElements
  <2>2. c \in Cells
    BY Zenon, <1>3, <2>1 DEF Cells
  <2> PICK q \in Queues : part[q].live /\ InPart(q, c[1], c[2])
    BY <1>1, <2>2 DEF PartsTile
  <2>3. c[1] \in Span(part[q].offset.y, part[q].size.y) /\ c[2] \in Span(part[q].offset.x, part[q].size.x)
    BY DEF InPart, Within, Span
  <2>4. func # "GEMM" => InTriangle(c)
    BY <1>5 DEF PartCells
  <2> QED
    BY <1>5, <2>1, <2>3, <2>4 DEF CellsOf, PartCells
<1> QED
  BY <1>4, <1>5

LEMMA OtherResult ==
  ASSUME CallInv, DataInv, lost = {}, ~ Trxm, phase = "returned", \A i \in DOMAIN seq : Done(i)
  PROVE  out = promised
<1>1. problem \in Problems /\ Divided
  BY CallFacts DEF CallInv, PhaseOK
<1>2. OtherOut /\ OtherSteps /\ OutShape /\ Promise /\ Packed(seq) /\ Chained
  BY DEF DataInv, Computed, OtherSteps, CallInv
<1> PICK s, m : s = WholeStep /\ m = Start
  OBVIOUS
<1>3. /\ DOMAIN promised = OutElements
      /\ \A c \in OutElements :
           promised[c] = IF c \in PartCells(Origin, Full) THEN Wholly(c, Start[c]) ELSE Start[c]
  BY <1>1, <1>2, PromisedIs DEF Promise
<1>4. promised = [c \in DOMAIN promised |-> promised[c]]
  <2>1. After(s, m) = [c \in DOMAIN After(s, m) |-> After(s, m)[c]]
    BY AfterIs
  <2> QED
    BY <1>2, <2>1 DEF Promise
<1> SUFFICES ASSUME NEW c \in OutElements PROVE out[c] = promised[c]
  BY <1>2, <1>3, <1>4 DEF OutShape
<1>5. CASE c \in PartCells(Origin, Full)
  <2> PICK q \in Queues : part[q].live /\ c \in CellsOf(q)
    BY <1>1, <1>5, PartOf
  <2> PICK j \in DOMAIN seq : seq[j].queue = q
    BY <1>2 DEF OtherSteps, Decomposed
  <2> QED
    BY PartResult
<1>6. CASE c \notin PartCells(Origin, Full)
  <2>1. ASSUME NEW i, Covers(i, c) PROVE FALSE
    <3>1. i \in DOMAIN seq /\ c \in StepCells(seq[i])
      <4>1. DOMAIN status = DOMAIN seq
        BY DEF CallInv, PhaseOK
      <4> QED
        BY <2>1, <4>1 DEF Covers, Done
    <3>2. seq[i].offset \in Extents /\ seq[i].size \in Extents
      BY Zenon, <1>1, <1>2, <3>1, StepOfPart DEF Packed, Basic
    <3>3. c \in PartCells(seq[i].offset, seq[i].size)
      BY <3>1 DEF StepCells
    <3>4. Turned(problem) = problem
      BY <1>1, OtherProblem DEF Turned
    <3>5. c \in PartCells(Origin, Full)
      BY <3>3, <3>4 DEF PartCells, OutElements, Origin, Full
    <3> QED
      BY <1>6, <3>5
  <2>2. out[c] = Start[c]
    BY <1>2, <2>1 DEF OtherOut
  <2> QED
    BY <1>3, <1>6, <2>2
<1> QED
  BY <1>5, <1>6

(* For every division, decomposition and order in which the queues run the *)
(* kernels: once they are done, what a call that succeeded leaves in the   *)
(* matrix is what the function computes of the whole problem.              *)
THEOREM EveryResultIsRight == SSpec => []ResultRight
<1>1. ASSUME CallInv, DataInv, phase = "returned", result = "success", Quiescent, lost = {}
      PROVE  out = promised
  <2>1. DOMAIN status = DOMAIN seq
    BY <1>1 DEF CallInv, PhaseOK
  <2>2. \A i \in DOMAIN seq : Done(i)
    BY <1>1, <2>1 DEF DataInv, Progress, Quiescent, Done
  <2> QED
    BY <1>1, <2>2, TrxmResult, OtherResult
<1>2. CallInv /\ DataInv => ResultRight
  BY <1>1 DEF ResultRight
<1> QED
  BY CallInvAlways, DataInvAlways, <1>2, PTL

(* The elements of a part are elements of the matrix.                      *)
LEMMA WrittenInside ==
  ASSUME CallInv, DataInv, Divided, ~ Trxm, NEW q \in Queues, NEW c \in CellsOf(q)
  PROVE  c \in OutElements
<1>1. problem \in Problems /\ q \in Served /\ part[q] \in Parts
  BY StepParts DEF CallInv, DivInv, DivTypeOK
<1> PICK o \in Extents, n \in Extents : o = part[q].offset /\ n = part[q].size
  BY <1>1 DEF Parts
<1> PICK y \in Nat, x \in Nat : y = problem.y /\ x = problem.x
  BY <1>1, OtherProblem
<1>2. o.y + n.y <= y /\ o.x + n.x <= x
  BY <1>1 DEF DataInv, PartsAsMade, PartsInside, Inside
<1>3. Turned(problem) = problem
  BY <1>1, OtherProblem DEF Turned
<1> PICK i \in Nat, j \in Nat, k \in Nat, l \in Nat : i = o.y /\ j = n.y /\ k = o.x /\ l = n.x
  BY Zenon DEF Extents
<1>4. \A e \in Span(i, j) : e \in Span(0, y)
  BY <1>2 DEF Span
<1>5. \A e \in Span(k, l) : e \in Span(0, x)
  BY <1>2 DEF Span
<1> QED
  BY <1>3, <1>4, <1>5 DEF CellsOf, PartCells, OutElements

(* When the event that the caller gets for a queue is complete, what the   *)
(* queue computes is what was promised, even if the call failed.           *)
THEOREM EventsMeanDone == SSpec => []EventMeansDone
<1>1. ASSUME CallInv, DataInv, lost = {}, NEW i \in DOMAIN status,
             seq[i].event = Output(seq[i].queue), status[i] = "done",
             NEW j \in DOMAIN seq, seq[j].queue = seq[i].queue, NEW c \in Writes(seq[j])
      PROVE  out[c] = promised[c]
  <2>1. DOMAIN status # {}
    OBVIOUS
  <2>2. phase \in {"enqueue", "returned"} /\ Divided /\ DOMAIN status = DOMAIN seq /\ problem \in Problems
    BY <1>1, <2>1, CallFacts
  <2>3. \A k \in DOMAIN seq : seq[k].queue = seq[i].queue => Done(k)
    BY <1>1, QueueDone DEF Done
  <2>4. \A k \in DOMAIN seq : seq[k].queue \in Queues
    BY Zenon, <1>1 DEF CallInv, Chained, Linked
  <2>5. CASE Trxm
    <3>1. \A k \in DOMAIN seq : Done(k)
      BY <2>2, <2>3, <2>4, <2>5, OneQueue
    <3> QED
      BY <1>1, <2>2, <2>5, <3>1, TrxmResult
  <2>6. CASE ~ Trxm
    <3>1. Chained /\ InParts(seq)
      BY <1>1, <2>6 DEF CallInv, DataInv, Computed, OtherSteps, Packed
    <3>2. Basic(seq[j]) /\ seq[j].size \in Extents /\ \A d \in StepCells(seq[j]) : d \in CellsOf(seq[j].queue)
      BY <1>1, <2>2, <2>6, <3>1, StepOfPart
    <3>3. c \in StepCells(seq[j])
      BY <1>1, <2>2, <2>6, <3>2, KernelIs DEF Writes
    <3>4. c \in CellsOf(seq[j].queue) /\ c \in OutElements
      BY <1>1, <2>2, <2>4, <2>6, <3>2, <3>3, WrittenInside
    <3> QED
      BY <1>1, <2>3, <2>6, <3>4, PartResult
  <2> QED
    BY <2>5, <2>6
<1>2. CallInv /\ DataInv => EventMeansDone
  BY <1>1 DEF EventMeansDone
<1> QED
  BY CallInvAlways, DataInvAlways, <1>2, PTL
=============================================================================
