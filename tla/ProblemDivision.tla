-------------------------- MODULE ProblemDivision --------------------------
(***************************************************************************)
(* How clBLAS divides one problem among the command queues of a call       *)
(* (blas/generic/solution_seq_make.c): stripeDivision, rectDivision and    *)
(* triMatrixStripeDivision, one action per queue.  The queues are served   *)
(* in order and get a part in proportion to the compute units of their     *)
(* devices, rounded to DIVISION_ALIGNMENT; the last one that is served     *)
(* gets the rest, and a queue may get nothing.                             *)
(***************************************************************************)
EXTENDS Integers, Sequences, FiniteSets

CONSTANTS
  Problems,   (* Problems to divide, records with at least the fields      *)
              (*   kind: "stripe", "rect" or "triangle",                   *)
              (*   across: stripes are cut from the rows, not the columns, *)
              (*   upper: uplo is clblasUpper,                             *)
              (*   y, x: kargsToProbDims,                                  *)
              (*   cus: in place q the compute units of the devices of the *)
              (*     queues from q on; so 0 behind the last queue.         *)
  Alignment   (* DIVISION_ALIGNMENT, 128.                                  *)

ASSUME DivisionAssumption ==
  /\ Alignment \in Nat /\ Alignment > 0
  /\ \A p \in Problems :
       /\ p.kind \in {"stripe", "rect", "triangle"}
       /\ p.across \in BOOLEAN /\ p.upper \in BOOLEAN
       /\ p.y \in Nat /\ p.x \in Nat
       /\ p.cus \in Seq(Nat) /\ Len(p.cus) > 1 /\ p.cus[Len(p.cus)] = 0
       /\ \A q \in 1..(Len(p.cus) - 1) : p.cus[q] > p.cus[q + 1]

VARIABLES
  problem,    (* The problem.                                              *)
  next,       (* The queue whose step is next.                             *)
  totalCUs,   (* Compute units of the queues left, 0: all is given away.   *)
  offset,     (* Of what is left of the problem; for an upper triangle,    *)
              (* which is cut from the bottom, offset.y is its end.        *)
  size,       (* Of what is left of the problem.                           *)
  part        (* Per queue served: what its step computes.                 *)

dvars == <<problem, next, totalCUs, offset, size, part>>

Queues  == 1..(Len(problem.cus) - 1)
NrCU(q) == problem.cus[q] - problem.cus[q + 1]
Divided == next \notin Queues
FromBottom == problem.kind = "triangle" /\ problem.upper

DivisionInit ==
  /\ problem \in Problems /\ next = 1 /\ totalCUs = problem.cus[1]
  /\ offset = [y |-> IF FromBottom THEN problem.y ELSE 0, x |-> 0]
  /\ size = [y |-> problem.y, x |-> problem.x]
  /\ part = <<>>

-----------------------------------------------------------------------------
(* align: the closest multiple, and of two the larger one.                 *)
Align(v) == ((v + Alignment \div 2) \div Alignment) * Alignment

(* The share of len for nr of total compute units, rounded.                *)
Share(len, nr, total) == (2 * len * nr + total) \div (2 * total)

(* The rows n that give the trapezoid below row top the same share of the  *)
(* area of the len rows left: the largest n that satisfies the inequality, *)
(* which is at most len.                                                   *)
TriangleShare(len, nr, total, top) ==
  Cardinality({n \in 1..len :
    ((n + top) * (n + top) - top * top) * total <= nr * len * (top + problem.x)})

(* Fault: the last queue gets its rounded share, not the rest.             *)
ChunkRounded(len, share) ==
  IF share > len THEN [len |-> len, last |-> TRUE] ELSE [len |-> share, last |-> totalCUs = NrCU(next)]
(* What a queue gets of len rows or columns, and whether that is the rest. *)
Chunk(len, share) ==
  IF totalCUs = NrCU(next) \/ share > len THEN [len |-> len, last |-> TRUE]
  ELSE [len |-> share, last |-> FALSE]

(* Of a triangle a queue never gets nothing, unless nothing is left; and a *)
(* part that would leave a number of rows off alignment leaves the nearest *)
(* aligned one.                                                            *)
TriangleChunk(share) ==
  IF totalCUs = NrCU(next) \/ share = 0 \/ share > size.y
  THEN [len |-> size.y, last |-> TRUE]
  ELSE IF offset.y = Align(offset.y) THEN [len |-> share, last |-> FALSE]
  ELSE LET o == Align(offset.y - share)
       IN  [len |-> offset.y - (IF o > offset.y THEN o - 2 * Alignment ELSE o), last |-> FALSE]

-----------------------------------------------------------------------------
(* The step of the queue: cmdQueue is NULL if it is not live.              *)
Step(o, s, live) == [offset |-> o, size |-> s, live |-> live]

Serve(p, last) ==
  /\ part' = Append(part, p)
  /\ totalCUs' = IF last THEN 0 ELSE totalCUs - NrCU(next)
  /\ next' = next + 1 /\ UNCHANGED problem

DropQueue ==
  /\ ~ Divided /\ totalCUs = 0
  /\ part' = Append(part, Step(offset, [y |-> 0, x |-> 0], FALSE))
  /\ next' = next + 1 /\ UNCHANGED <<problem, totalCUs, offset, size>>

CutY(c) ==
  /\ Serve(Step(offset, [size EXCEPT !.y = c.len], c.last \/ c.len # 0), c.last)
  /\ size' = [size EXCEPT !.y = @ - c.len] /\ offset' = [offset EXCEPT !.y = @ + c.len]
CutX(c) ==
  /\ Serve(Step(offset, [size EXCEPT !.x = c.len], c.last \/ c.len # 0), c.last)
  /\ size' = [size EXCEPT !.x = @ - c.len] /\ offset' = [offset EXCEPT !.x = @ + c.len]

AlignedShare(len) == Align(Share(len, NrCU(next), totalCUs))

Serving(kind) == ~ Divided /\ totalCUs > 0 /\ problem.kind = kind

StripeDivision ==
  /\ Serving("stripe")
  /\ IF problem.across THEN CutY(Chunk(size.y, AlignedShare(size.y)))
                       ELSE CutX(Chunk(size.x, AlignedShare(size.x)))

(* The longer side is cut.  The steps are not sorted by compute units: the *)
(* loop that looks for the largest one only looks at the step it is at.    *)
RectDivision ==
  /\ Serving("rect")
  /\ IF size.y > size.x THEN CutY(Chunk(size.y, AlignedShare(size.y)))
                        ELSE CutX(Chunk(size.x, AlignedShare(size.x)))

TriMatrixStripeDivision ==
  /\ Serving("triangle")
  /\ LET top == problem.y - size.y
         c   == TriangleChunk(Align(TriangleShare(size.y, NrCU(next), totalCUs, top)))
         o   == [offset EXCEPT !.y = IF FromBottom THEN @ - c.len ELSE @ + c.len]
     IN  /\ Serve(Step(IF FromBottom THEN o ELSE offset, [size EXCEPT !.y = c.len], TRUE), c.last)
         /\ offset' = o /\ size' = [size EXCEPT !.y = @ - c.len]

Divide == DropQueue \/ StripeDivision \/ RectDivision \/ TriMatrixStripeDivision

DivisionSpec == DivisionInit /\ [][Divide]_dvars

-----------------------------------------------------------------------------
Within(i, j, o, s) == i \in o.y..(o.y + s.y - 1) /\ j \in o.x..(o.x + s.x - 1)
InPart(q, i, j)    == Within(i, j, part[q].offset, part[q].size)
InRest(i, j) ==
  Within(i, j, IF FromBottom THEN [offset EXCEPT !.y = @ - size.y] ELSE offset, size)

Cells == (0..(problem.y - 1)) \X (0..(problem.x - 1))

(* Every element of the result belongs to the part of exactly one queue,   *)
(* and that queue is not dropped: whatever the devices and the sizes, the  *)
(* rounding neither loses elements nor gives one to two queues, which      *)
(* would update it at the same time.                                       *)
PartsTile ==
  Divided =>
    \A c \in Cells : \E q \in Queues :
      /\ part[q].live /\ InPart(q, c[1], c[2])
      /\ \A r \in Queues : InPart(r, c[1], c[2]) => r = q
=============================================================================
