---------------------------- MODULE SolutionSeq ----------------------------
(***************************************************************************)
(* A level 3 call of clBLAS, or GEMV, from its division to the end of its  *)
(* kernels: the problem is divided among the queues (ProblemDivision), the *)
(* step of a queue is decomposed into a sequence of steps tied together by *)
(* events (solution_seq_make.c, events.c), the steps are enqueued in order *)
(* (solution_seq.c), and their kernels run when the queues let them.       *)
(*                                                                         *)
(* Elements are numbers modulo a prime, so that a result that misses, or   *)
(* counts twice, or reads too early what it needs, is another one.  Rows   *)
(* and columns are those of op(A), op(B) and C: that transposition and     *)
(* order only turn the way a matrix is read is assumed.                    *)
(***************************************************************************)
EXTENDS ProblemDivision

CONSTANTS
  Prime,           (* Numbers are 0..Prime - 1.                            *)
  Tile,            (* 8, the size of tiles that decomposeSYRKStep expects. *)
  Threshold,       (* DECOMPOSITION_THRESHOLD.                             *)
  AllocationStep,  (* Of the array of events, 100.                         *)
  EventsBefore     (* numDecomposeEvents when the call begins.             *)

Mod(v) == v % Prime

(* Prime is a prime number: every number but 0 has a reciprocal.           *)
Invertible == \A a \in 1..(Prime - 1) : \E b \in 1..(Prime - 1) : Mod(a * b) = 1

(* A level 3 or 2 function and the way it is divided: TRMM and TRSM have   *)
(* one queue, a triangle is cut into rows, and so is a matrix for GEMV.    *)
(* At most three events are allocated for one step, so that one growth of  *)
(* their array is enough.                                                  *)
ASSUME CallAssumption ==
  /\ Prime \in Nat /\ Prime > 1 /\ Invertible
  /\ Threshold \in Nat /\ Threshold >= Alignment
  /\ AllocationStep \in Nat /\ AllocationStep >= 3
  /\ EventsBefore \subseteq Nat
  /\ \A p \in Problems :
       /\ p.y > 0 /\ p.x > 0 /\ p.K \in Nat
       /\ p.alpha \in 0..(Prime - 1) /\ p.beta \in 0..(Prime - 1)
       /\ p.right \in BOOLEAN /\ p.trans \in BOOLEAN /\ p.inOrder \in BOOLEAN
       /\ p.func \in {"TRMM", "TRSM", "SYRK", "SYR2K", "GEMM", "GEMV"}
       /\ p.func \in {"TRMM", "TRSM"} => Len(p.cus) = 2 /\ p.kind = "stripe" /\ p.K = p.y
       /\ p.func \in {"SYRK", "SYR2K"} => p.kind = "triangle"
       /\ p.func = "GEMV" => p.kind = "stripe" /\ p.across
       /\ p.right => p.func \in {"TRMM", "TRSM"}

VARIABLES
  phase,      (* "divide", "decompose", "enqueue" or "returned".           *)
  result,     (* "none", then what the function returns: "success", "error" *)
  seq,        (* The steps of the call, in order.                          *)
  current,    (* The queue whose step is decomposed, or the step that is   *)
              (* enqueued.                                                 *)
  events,     (* The array decomposeEvents: num and max.                   *)
  lost,       (* Events of this call that the array left behind.           *)
  status,     (* Per step: "made", "queued", "running" or "done".          *)
  userEvent,  (* The event of the caller's wait list is complete.          *)
  out,        (* The matrix that is computed: B of TRMM and TRSM, C, or y. *)
  promised    (* What is to be in out in the end.                          *)

svars == <<dvars, phase, result, seq, current, events, lost, status, userEvent, out, promised>>

(* A problem is also a call: func, trans, right and K are arguments, as    *)
(* are alpha and beta; inOrder tells how its queues execute.               *)
func == problem.func
Trxm == func \in {"TRMM", "TRSM"}
Syrk == func \in {"SYRK", "SYR2K"}

-----------------------------------------------------------------------------
(* The matrices.                                                           *)

Stored(i, k) == 1 + ((3 * i + 5 * k + i * k) % (Prime - 1))
OpA(i, k) == IF problem.trans THEN Stored(k, i) ELSE Stored(i, k)
OpB(i, k) == 1 + ((7 * i + 2 * k + i * k) % (Prime - 1))
InitialOut(i, j) == 1 + ((i + 4 * j + i * j) % (Prime - 1))

Reciprocal(a) == CHOOSE b \in 1..(Prime - 1) : Mod(a * b) = 1
(* The sum of f[0], ..., f[n - 1].                                         *)
Total(n, f) ==
  LET sum[i \in 0..n] == IF i = 0 THEN 0 ELSE Mod(sum[i - 1] + f[i - 1])
  IN  sum[n]
Span(from, len) == from..(from + len - 1)

(* Where the triangle of op(A) is that is used.                            *)
PositionUpper == problem.upper # problem.trans
TriangleA(i, k) ==
  IF i = k \/ (PositionUpper /\ i < k) \/ (~ PositionUpper /\ i > k) THEN OpA(i, k) ELSE 0

(* Rows and columns of TRMM and TRSM change places on the right side.      *)
Swap(v)     == [y |-> v.x, x |-> v.y]
Turned(v)   == IF problem.right THEN Swap(v) ELSE v
Cell(t, l)  == IF problem.right THEN <<l, t>> ELSE <<t, l>>
PlaceOf(c)  == IF problem.right THEN c[2] ELSE c[1]
LineOf(c)   == IF problem.right THEN c[1] ELSE c[2]
Along(t, s) == IF problem.right THEN TriangleA(s, t) ELSE TriangleA(t, s)

-----------------------------------------------------------------------------
(* What the kernel of a step computes: offset and size are those of its    *)
(* part of out, in rows and columns.                                       *)

(* The elements of the part of a step of TRMM or TRSM.                     *)
TrxmCells(s) ==
  {Cell(t, l) : t \in Span(Turned(s.offset).y, Turned(s.size).y),
                l \in Span(Turned(s.offset).x, Turned(s.size).x)}

(* The kernel multiplies the triangle at its offset with its part.         *)
TrmmKernel(s, m) ==
  LET o == Turned(s.offset).y
      n == Turned(s.size).y
  IN  [c \in TrxmCells(s) |->
         Mod(s.alpha * Total(n, [i \in 0..(n - 1) |->
                                   Along(PlaceOf(c), o + i) * m[Cell(o + i, LineOf(c))]]))]

(* It solves the system for its part, line by line, from the side where    *)
(* the triangle has one element only; n places from o are solved.          *)
FromTop == PositionUpper = problem.right
SolvedAt(i, o, n) == IF FromTop THEN o + i ELSE o + n - 1 - i
Solution(alpha, m, l, o, n) ==
  LET x[i \in 0..(n - 1)] ==
        LET t == SolvedAt(i, o, n)
            known == Total(i, [k \in 0..(i - 1) |-> Along(t, SolvedAt(k, o, n)) * x[k]])
        IN  Mod((alpha * m[Cell(t, l)] + Prime - known) * Reciprocal(Along(t, t)))
  IN  x
TrsmKernel(s, m) ==
  LET o == Turned(s.offset).y
      n == Turned(s.size).y
  IN  [c \in TrxmCells(s) |->
         Solution(s.alpha, m, LineOf(c), o, n)
           [IF FromTop THEN PlaceOf(c) - o ELSE o + n - 1 - PlaceOf(c)]]

Operand(name, m, i, k) ==
  CASE name = "A" -> OpA(i, k) [] name = "B" -> OpB(i, k) [] name = "out" -> m[<<i, k>>]

GemmKernel(s, m) ==
  [c \in Span(s.offset.y, s.size.y) \X Span(s.offset.x, s.size.x) |->
     Mod(s.alpha * Total(s.K, [k \in 0..(s.K - 1) |->
                                 Operand(s.lhs, m, s.offA.y + c[1] - s.offset.y, s.offA.x + k)
                                   * Operand(s.rhs, m, s.offB.y + k, s.offB.x + c[2] - s.offset.x)])
          + s.beta * m[c])]

GemvKernel(s, m) ==
  [c \in Span(s.offset.y, s.size.y) \X {0} |->
     Mod(s.alpha * Total(s.K, [k \in 0..(s.K - 1) |-> OpA(c[1], k) * OpB(k, 0)]) + s.beta * m[c])]

(* The triangle of C, all of it, or only its tiles off or on the diagonal, *)
(* which are separate kernels.                                             *)
SyrkCells(s) ==
  {c \in Span(s.offset.y, s.size.y) \X Span(0, problem.x) :
     /\ IF problem.upper THEN c[1] <= c[2] ELSE c[1] >= c[2]
     /\ s.diagonal = "off" => c[1] \div Tile # c[2] \div Tile
     /\ s.diagonal = "on"  => c[1] \div Tile = c[2] \div Tile}

SyrkKernel(s, m) ==
  [c \in SyrkCells(s) |->
     LET Product(l, r) == Total(s.K, [k \in 0..(s.K - 1) |->
                                        Operand(l, m, c[1], k) * Operand(r, m, c[2], k)])
     IN  Mod(s.alpha * (Product(s.lhs, s.rhs) + IF s.twoProducts THEN Product(s.rhs, s.lhs) ELSE 0)
             + s.beta * m[c])]

Kernel(s, m) ==
  CASE s.func = "TRMM" -> TrmmKernel(s, m) [] s.func = "TRSM" -> TrsmKernel(s, m)
    [] s.func = "GEMM" -> GemmKernel(s, m) [] s.func = "GEMV" -> GemvKernel(s, m)
    [] s.func \in {"SYRK", "SYR2K"} -> SyrkKernel(s, m)

After(s, m) == LET k == Kernel(s, m) IN [c \in DOMAIN m |-> IF c \in DOMAIN k THEN k[c] ELSE m[c]]
Writes(s) == DOMAIN Kernel(s, out)

(* The elements of out that a step reads; of GEMM, an operand as well.     *)
Reads(s) ==
  Writes(s)
  \cup IF s.func = "GEMM" /\ s.lhs = "out"
       THEN Span(s.offA.y, s.size.y) \X Span(s.offA.x, s.K) ELSE {}
  \cup IF s.func = "GEMM" /\ s.rhs = "out"
       THEN Span(s.offB.y, s.K) \X Span(s.offB.x, s.size.x) ELSE {}

-----------------------------------------------------------------------------
(* Events: of the caller's wait list, of a queue for the caller, and those *)
(* of the array, by index.                                                 *)
User      == <<"user", 0>>
Output(q) == <<"output", q>>
Pool(n)   == <<"pool", n>>
NoEvent   == <<"null", 0>>

Origin == [y |-> 0, x |-> 0]

(* The step that makeSolutionSeq makes for a queue, with its part.         *)
StepOf(q, o, n) ==
  [func |-> func, queue |-> q, offset |-> Turned(o), size |-> Turned(n),
   K |-> IF func = "GEMV" THEN n.x ELSE problem.K,
   lhs |-> "A", rhs |-> IF func = "SYRK" THEN "A" ELSE "B", offA |-> Origin, offB |-> Origin,
   alpha |-> problem.alpha, beta |-> problem.beta,
   diagonal |-> "all", twoProducts |-> func = "SYR2K",
   waits |-> {User}, event |-> Output(q)]

FixupGemmOffsets(s, offsetK) ==
  [s EXCEPT !.offA = [y |-> s.offset.y, x |-> offsetK], !.offB = [y |-> offsetK, x |-> s.offset.x]]

OutElements ==
  IF func = "GEMV" THEN Span(0, problem.y) \X {0}
  ELSE Span(0, Turned(problem).y) \X Span(0, Turned(problem).x)

(* The array has grown step by step, and it never shrinks.                 *)
Allocated(n) == ((n + AllocationStep - 1) \div AllocationStep) * AllocationStep

SInit ==
  /\ DivisionInit
  /\ phase = "divide" /\ result = "none" /\ seq = <<>> /\ current = 1
  /\ events \in {[first |-> n, num |-> n, max |-> Allocated(n)] : n \in EventsBefore}
  /\ lost = {} /\ status = <<>> /\ userEvent = FALSE
  /\ out = [c \in OutElements |-> InitialOut(c[1], c[2])]
  /\ promised = After(StepOf(1, Origin, [y |-> problem.y, x |-> problem.x]), out)

callVars == <<phase, result, seq, current, events, lost, status>>

DividePart == phase = "divide" /\ Divide /\ UNCHANGED <<callVars, userEvent, out, promised>>

EndDivision ==
  /\ phase = "divide" /\ Divided /\ phase' = "decompose"
  /\ UNCHANGED <<dvars, result, seq, current, events, lost, status, userEvent, out, promised>>

-----------------------------------------------------------------------------
(* Decomposition.                                                          *)

(* decomposeEventsAlloc, n times, gives the events e.  The array grows by  *)
(* realloc when it is full: it may have to move, and the pointers to its   *)
(* events are left behind; or there is no memory.                          *)
Fits(n) == events.num + n <= events.max
DecomposeEventsAlloc(n, e) ==
  \/ /\ Fits(n) /\ e = [i \in 1..n |-> Pool(events.num + i - 1)]
     /\ events' = [events EXCEPT !.num = @ + n] /\ UNCHANGED lost
  \/ /\ ~ Fits(n) /\ e = [i \in 1..n |-> Pool(events.num + i - 1)]
     /\ events' = [events EXCEPT !.num = @ + n, !.max = @ + AllocationStep]
     /\ lost' \in {lost, lost \cup {Pool(i) : i \in events.first..(events.max - 1)}}
  \/ /\ ~ Fits(n)
     /\ e = [i \in 1..n |-> IF events.num + i <= events.max THEN Pool(events.num + i - 1) ELSE NoEvent]
     /\ events' = [events EXCEPT !.num = events.max] /\ UNCHANGED lost

Half(n) == Align(n \div 2)

(* Minus one by alpha; zero stays.                                         *)
GemmAlpha(s) ==
  IF s.func = "TRSM" /\ s.alpha # 0 THEN Prime - Reciprocal(s.alpha) ELSE s.alpha

(* The block of A beside the triangles: A2, or A3, belongs to the second   *)
(* half of out and is as long as the first one.                            *)
SecondGetsBlock == PositionUpper = problem.right

(* Fault: the triangles stay in the order of their rows.                   *)
InOrderOfRows(s) == FALSE
(* The half that the other one needs unchanged comes last for TRMM, and    *)
(* the one that the other one needs solved comes first for TRSM.           *)
SwapHalves(s) == IF s.func = "TRMM" THEN SecondGetsBlock ELSE ~ SecondGetsBlock

(* Fault: the second step does not wait for the first one.                 *)
TiedLoosely(first, gemm, last, e) ==
  <<[first EXCEPT !.event = e[1]],
    [gemm EXCEPT !.event = e[2]], [last EXCEPT !.waits = {e[2]}]>>
(* Fault: the first step waits for the second one.                         *)
TiedBackwards(first, gemm, last, e) ==
  <<[first EXCEPT !.waits = {e[1]}],
    [gemm EXCEPT !.waits = {e[2]}, !.event = e[1]], [last EXCEPT !.event = e[2]]>>
(* Fault: only the last step waits for the caller's events.                *)
TiedToUserLate(first, gemm, last, e) ==
  <<[first EXCEPT !.waits = {}, !.event = e[1]],
    [gemm EXCEPT !.waits = {e[1]}, !.event = e[2]], [last EXCEPT !.waits = {e[2], User}]>>
(* Fault: the event for the caller is that of the first step.              *)
TiedToOutput(first, gemm, last, e) ==
  <<first, [gemm EXCEPT !.waits = {first.event}, !.event = e[1]], [last EXCEPT !.waits = {e[1]}, !.event = e[2]]>>
(* The sequence is tied together: the first step keeps the caller's wait   *)
(* list, the last one the event for the caller.                            *)
Tied(first, gemm, last, e) ==
  <<[first EXCEPT !.event = e[1]],
    [gemm EXCEPT !.waits = {e[1]}, !.event = e[2]], [last EXCEPT !.waits = {e[2]}]>>

TrxmSequence(s, e) ==
  LET o == Turned(s.offset)
      n == Turned(s.size)
      h == Half(n.y)
      FirstHalf  == [s EXCEPT !.size = Turned([y |-> h, x |-> n.x])]
      SecondHalf == [s EXCEPT !.offset = Turned([y |-> o.y + h, x |-> o.x]),
                              !.size = Turned([y |-> n.y - h, x |-> n.x])]
      Written == IF SecondGetsBlock THEN SecondHalf ELSE FirstHalf
      Gemm == FixupGemmOffsets(
                [Written EXCEPT !.func = "GEMM", !.alpha = GemmAlpha(s), !.beta = 1,
                                !.lhs = IF problem.right THEN "out" ELSE "A",
                                !.rhs = IF problem.right THEN "A" ELSE "out",
                                !.K = IF SecondGetsBlock THEN Half(s.K) ELSE s.K - Half(s.K)],
                IF SecondGetsBlock THEN 0 ELSE Half(s.K))
  IN  IF SwapHalves(s) THEN Tied(SecondHalf, Gemm, FirstHalf, e)
      ELSE Tied(FirstHalf, Gemm, SecondHalf, e)

(* Fault: both steps of a pair have the caller's event and wait list.      *)
PairUntied(s, e) == <<[s EXCEPT !.diagonal = "off"], [s EXCEPT !.diagonal = "on"]>>
(* decomposeSYRKStep: the tiles of the diagonal after the others.          *)
SyrkPair(s, e) ==
  <<[s EXCEPT !.diagonal = "off", !.event = e], [s EXCEPT !.diagonal = "on", !.waits = {e}]>>

Large(s) == s.size.y >= Threshold \div 2
Separate(s) == Large(s) /\ ~ (s.size.y % Tile = 0 /\ s.size.x % Tile = 0)

(* Fault: C is multiplied by beta by both halves of SYR2K.                 *)
BetaOf(s) == s.beta
BetaOnce(s) == 1

(* decomposeSYR2KStep: one product, then the other one.                    *)
Syr2kHalves(s, e) ==
  <<[s EXCEPT !.twoProducts = FALSE, !.event = e],
    [s EXCEPT !.twoProducts = FALSE, !.lhs = s.rhs, !.rhs = s.lhs, !.beta = BetaOnce(s), !.waits = {e}]>>

DecomposeInto(steps) ==
  /\ seq' = seq \o steps /\ current' = current + 1
  /\ UNCHANGED <<dvars, phase, result, status, userEvent, out, promised>>

Decomposing == phase = "decompose" /\ current \in Queues
CurrentStep == StepOf(current, part[current].offset, part[current].size)

(* A step that has no queue is passed over from here on.                   *)
PassOver ==
  /\ Decomposing /\ ~ part[current].live
  /\ DecomposeInto(<<>>) /\ UNCHANGED <<events, lost>>

(* A step is left as it is if it is too small, if the type, the            *)
(* implementation that is chosen or the layout make it not worth while, or *)
(* if there is no memory.                                                  *)
KeepStep ==
  /\ Decomposing /\ part[current].live
  /\ DecomposeInto(<<IF func = "GEMM" THEN FixupGemmOffsets(CurrentStep, 0) ELSE CurrentStep>>)
  /\ UNCHANGED <<events, lost>>

DecomposeTRXM ==
  /\ Decomposing /\ part[current].live /\ Trxm
  /\ part[current].size.y >= Threshold
  /\ \E e \in [1..2 -> {NoEvent} \cup {Pool(n) : n \in Span(events.num, 2)}] :
       DecomposeEventsAlloc(2, e) /\ DecomposeInto(TrxmSequence(CurrentStep, e))

DecomposeSYRK ==
  /\ Decomposing /\ part[current].live /\ func = "SYRK" /\ Separate(CurrentStep)
  /\ \E e \in [1..1 -> {NoEvent, Pool(events.num)}] :
       DecomposeEventsAlloc(1, e) /\ DecomposeInto(SyrkPair(CurrentStep, e[1]))

DecomposeSYR2K ==
  /\ Decomposing /\ part[current].live /\ func = "SYR2K" /\ Large(CurrentStep)
  /\ IF Separate(CurrentStep)
     THEN \E e \in [1..3 -> {NoEvent} \cup {Pool(n) : n \in Span(events.num, 3)}] :
            /\ DecomposeEventsAlloc(3, e)
            /\ LET halves == Syr2kHalves(CurrentStep, e[1])
               IN  DecomposeInto(SyrkPair(halves[1], e[2]) \o SyrkPair(halves[2], e[3]))
     ELSE \E e \in [1..1 -> {NoEvent, Pool(events.num)}] :
            DecomposeEventsAlloc(1, e) /\ DecomposeInto(Syr2kHalves(CurrentStep, e[1]))

EndDecomposition ==
  /\ phase = "decompose" /\ current \notin Queues
  /\ phase' = "enqueue" /\ current' = 1 /\ status' = [i \in DOMAIN seq |-> "made"]
  /\ UNCHANGED <<dvars, result, seq, events, lost, userEvent, out, promised>>

-----------------------------------------------------------------------------
(* executeSolutionSeq: the steps are enqueued in order until one fails.    *)

Enqueuing == phase = "enqueue" /\ current \in DOMAIN seq

(* A wait list that was left behind is memory that is free: what is found  *)
(* there may be the event, or another one.                                 *)
EnqueueKernel ==
  /\ Enqueuing /\ NoEvent \notin seq[current].waits
  /\ \E w \in {seq[current].waits, seq[current].waits \ lost} : seq' = [seq EXCEPT ![current].waits = w]
  /\ status' = [status EXCEPT ![current] = "queued"] /\ current' = current + 1
  /\ UNCHANGED <<dvars, phase, result, events, lost, userEvent, out, promised>>

(* A part without elements, no event to wait for, or any other error.      *)
EnqueueFails ==
  /\ Enqueuing /\ phase' = "returned" /\ result' = "error"
  /\ UNCHANGED <<dvars, seq, current, events, lost, status, userEvent, out, promised>>

ReturnSuccess ==
  /\ phase = "enqueue" /\ current \notin DOMAIN seq
  /\ phase' = "returned" /\ result' = "success"
  /\ UNCHANGED <<dvars, seq, current, events, lost, status, userEvent, out, promised>>

-----------------------------------------------------------------------------
(* The queues.                                                             *)

Complete(e) ==
  \/ e = User /\ userEvent
  \/ \E i \in DOMAIN status : seq[i].event = e /\ status[i] = "done"

(* In a queue that executes in order, whatever came before is done.        *)
Turn(i) ==
  problem.inOrder => \A j \in 1..(i - 1) : seq[j].queue = seq[i].queue => status[j] = "done"

StartKernel(i) ==
  /\ status[i] = "queued" /\ Turn(i) /\ \A e \in seq[i].waits : Complete(e)
  /\ status' = [status EXCEPT ![i] = "running"]
  /\ UNCHANGED <<dvars, phase, result, seq, current, events, lost, userEvent, out, promised>>

EndKernel(i) ==
  /\ status[i] = "running" /\ status' = [status EXCEPT ![i] = "done"]
  /\ out' = After(seq[i], out)
  /\ UNCHANGED <<dvars, phase, result, seq, current, events, lost, userEvent, promised>>

(* What the caller waits for completes.                                    *)
UserEventCompletes ==
  /\ ~ userEvent /\ userEvent' = TRUE
  /\ UNCHANGED <<dvars, callVars, out, promised>>

Call ==
  \/ DividePart \/ EndDivision
  \/ PassOver \/ KeepStep \/ DecomposeTRXM \/ DecomposeSYRK \/ DecomposeSYR2K \/ EndDecomposition
  \/ EnqueueKernel \/ EnqueueFails \/ ReturnSuccess

RunKernels == \E i \in DOMAIN status : StartKernel(i) \/ EndKernel(i)

SNext == Call \/ RunKernels \/ UserEventCompletes

(* The call goes on, events of the caller complete, and so do kernels that *)
(* may run.                                                                *)
SSpec ==
  SInit /\ [][SNext]_svars /\ WF_svars(Call) /\ WF_svars(RunKernels) /\ WF_svars(UserEventCompletes)

-----------------------------------------------------------------------------
Running == {i \in DOMAIN status : status[i] = "running"}
Quiescent == \A i \in DOMAIN status : status[i] \in {"made", "done"}

(* When a call that succeeded and its kernels are done, the result is that *)
(* of the function on the whole problem: no division, decomposition or     *)
(* order of the queues changes it (solution_seq_make.c:1944-2364).  This   *)
(* and what follows is true as long as the array of events did not move    *)
(* under the call, events.c:62.                                            *)
ResultRight ==
  phase = "returned" /\ result = "success" /\ Quiescent /\ lost = {} => out = promised

(* When the event that the caller gets for a queue is complete, what that  *)
(* queue computes is final, even if the call failed at a later step.       *)
EventMeansDone ==
  lost = {} =>
    \A i \in DOMAIN status :
      seq[i].event = Output(seq[i].queue) /\ status[i] = "done" =>
        \A j \in DOMAIN seq : seq[j].queue = seq[i].queue =>
          \A c \in Writes(seq[j]) : out[c] = promised[c]

(* No kernel writes what another one that runs at the same time reads or   *)
(* writes, on one queue that executes out of order or on several.          *)
NoConflict ==
  lost = {} => \A i, j \in Running : i # j => Writes(seq[i]) \cap Reads(seq[j]) = {}

(* No kernel of the call starts before the events that the caller gave are *)
(* complete, although only the first step of a sequence waits for them.    *)
NothingEarly ==
  lost = {} /\ ~ userEvent => \A i \in DOMAIN status : status[i] \in {"made", "queued"}

(* Every kernel that was enqueued runs in the end: no step waits for an    *)
(* event that no one completes, even if the call failed half way.          *)
KernelsEnd == phase = "returned" ~> Quiescent
=============================================================================
