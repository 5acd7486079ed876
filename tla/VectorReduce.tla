---------------------------- MODULE VectorReduce ----------------------------
(***************************************************************************)
(* The reductions of a vector on the GPU: sum, dot, norm 1 and norm 2 of   *)
(* Vector<scalar,GPU> (vector/ocl_vector.cpp) and their kernels            *)
(* (vector_kernels/vector_kernels.cl).  They differ only in what a work-   *)
(* item adds for an index (a[i], a[i]*b[i], |a[i]|, a[i]*a[i]) and in a    *)
(* square root at the end, so index i stands for the number it adds.       *)
(*                                                                         *)
(* MaxBlocks groups add up the vector, strided.  In a group, every work-   *)
(* item adds its share into its slot of local memory; a tree then halves   *)
(* the slots, with a barrier after each step until SyncWidth slots are     *)
(* left, and without any from there on: the last steps rely on the lock-   *)
(* step of a warp.  The partial sums of the groups are added by the host,  *)
(* after a blocking read, or by a second kernel, into the caller's cl_mem. *)
(***************************************************************************)
EXTENDS FormalSums, Sequences

CONSTANTS
  BlockSize,  (* blockSize of the kernels, maxThreads of the host: 256.    *)
  SyncWidth,  (* Slots left when the kernel stops using barriers: 32.      *)
  Lockstep,   (* Work-items the device runs in lock-step: 32 or more.      *)
  MaxBlocks,  (* maxBlocks: 64.                                            *)
  Sizes       (* Lengths of the vectors it is called for.                  *)

(* No divisor of it is odd, except 1.                                      *)
IsPowerOf2(n) == \A d \in 1..n : n % d = 0 => d = 1 \/ d % 2 = 0

ASSUME ReduceAssumption ==
  /\ BlockSize \in Nat /\ IsPowerOf2(BlockSize)
  /\ SyncWidth \in 1..(BlockSize \div 2) /\ IsPowerOf2(SyncWidth)
  /\ Lockstep \in Nat \ {0}
  /\ MaxBlocks \in Nat \ {0}
  /\ Sizes \subseteq Nat \ {0}

VARIABLES
  size,     (* Elements of the vector.  Never changes.                     *)
  form,     (* "host" or "mem": which of the two overloads was called.     *)
  host,     (* What the call is waiting for.                               *)
  queue,    (* The commands in the command queue, which is in-order.       *)
  pc,       (* Per group and warp.                                         *)
  i,        (* Per group and warp: the loop variable of work-item 0.       *)
  stride,   (* Per group and warp: the distance of the next tree step.     *)
  sdata,    (* Per group: local memory, a slot for each work-item.         *)
  out,      (* device_out_data: the partial sum of each group.             *)
  j,        (* The loop variable of the final summation.                   *)
  result    (* The result, the caller's cl_mem in form "mem".              *)

Stale == size                    (* What memory held before.               *)
Terms == 0..size
Sum   == Sums(Terms)
None  == Zero(Terms)
Junk  == Only(Terms, Stale)

(* There is one power of two from x up to 2 * x, without that.             *)
NextPow2(x) == CHOOSE p \in x..2*x-1 : IsPowerOf2(p)

Threads == IF size < 2 * BlockSize THEN NextPow2((size + 1) \div 2) ELSE BlockSize

Groups == 0..MaxBlocks-1
Items  == 0..Threads-1
Warps  == 0..((Threads - 1) \div Lockstep)
Lanes(w) == {t \in Items : t \div Lockstep = w}

kernelVars == <<pc, i, stride, sdata>>
vars == <<size, form, host, queue, kernelVars, out, j, result>>

Each2(x) == [g \in Groups |-> [w \in Warps |-> x]]

Init ==
  /\ size \in Sizes
  /\ form \in {"host", "mem"}
  /\ host = "called"
  /\ queue = <<>>
  /\ pc = Each2("start")
  /\ i = Each2(0)
  /\ stride = Each2(BlockSize \div 2)
  /\ sdata = [g \in Groups |-> [t \in Items |-> Junk]]
  /\ out = [g \in Groups |-> Junk]
  /\ j = 0
  /\ result = IF form = "host" THEN None ELSE Junk

-----------------------------------------------------------------------------
(* The kernels s_vector_sum, _dot, _norm, _norm2.                          *)

Step(g, w, from) ==
  /\ queue # <<>> /\ Head(queue) = "reduce"
  /\ pc[g][w] = from

Goto(g, w, label) == pc' = [pc EXCEPT ![g][w] = label]

Start(g, w) ==
  /\ Step(g, w, "start")
  /\ i' = [i EXCEPT ![g][w] = g * (2 * Threads)]
  /\ sdata' = [sdata EXCEPT ![g] = [t \in Items |-> IF t \in Lanes(w) THEN None ELSE @[t]]]
  /\ Goto(g, w, "load")
  /\ UNCHANGED <<size, form, host, queue, stride, out, j, result>>

(* The elements a work-item adds in one round.                             *)
ReadBy(k) == {e \in {k, k + BlockSize} : e < size}

Load(g, w) ==
  /\ Step(g, w, "load")
  /\ \E t \in Lanes(w) : i[g][w] + t < size
  /\ sdata' = [sdata EXCEPT ![g] =
                 [t \in Items |-> IF t \in Lanes(w)
                                  THEN @[t] ++ Each(Terms, ReadBy(i[g][w] + t)) ELSE @[t]]]
  /\ i' = [i EXCEPT ![g][w] = @ + BlockSize * 2 * MaxBlocks]
  /\ UNCHANGED <<size, form, host, queue, pc, stride, out, j, result>>

Loaded(g, w) ==
  /\ Step(g, w, "load")
  /\ \A t \in Lanes(w) : i[g][w] + t >= size
  /\ Goto(g, w, "barrier")
  /\ UNCHANGED <<size, form, host, queue, i, stride, sdata, out, j, result>>

(* Beyond the slots the host asked for, local memory holds anything.       *)
Slot(g, t) == IF t \in Items THEN sdata[g][t] ELSE Junk

(* sdata[tid] += sdata[tid + stride] by the given work-items, which are in *)
(* lock-step: all of them read before any writes.                          *)
Add(g, w, items) ==
  sdata' = [sdata EXCEPT ![g] =
              [t \in Items |-> IF t \in items THEN @[t] ++ Slot(g, t + stride[g][w]) ELSE @[t]]]

Adders(g, w) == {t \in Lanes(w) : t < stride[g][w]}

Tree(g, w) ==
  /\ Step(g, w, "tree")
  /\ stride[g][w] > SyncWidth
  /\ Add(g, w, Adders(g, w))
  /\ stride' = [stride EXCEPT ![g][w] = @ \div 2]
  /\ Goto(g, w, "barrier")
  /\ UNCHANGED <<size, form, host, queue, i, out, j, result>>

(* Fault: no barrier.                                                      *)
BarrierMissing(g) ==
  \E w \in Warps :
    /\ Step(g, w, "barrier")
    /\ Goto(g, w, "tree")
    /\ UNCHANGED <<size, form, host, queue, i, stride, sdata, out, j, result>>

Barrier(g) ==
  /\ \A w \in Warps : Step(g, w, "barrier")
  /\ pc' = [pc EXCEPT ![g] = [w \in Warps |-> "tree"]]
  /\ UNCHANGED <<size, form, host, queue, i, stride, sdata, out, j, result>>

Syncing(w) == {t \in Lanes(w) : t < SyncWidth}

(* The steps without a barrier.                                            *)
Sync(g, w) ==
  /\ Step(g, w, "tree")
  /\ stride[g][w] \in 1..SyncWidth
  /\ Syncing(w) # {}
  /\ Add(g, w, Syncing(w))
  /\ stride' = [stride EXCEPT ![g][w] = @ \div 2]
  /\ UNCHANGED <<size, form, host, queue, pc, i, out, j, result>>

Write(g, w) ==
  /\ Step(g, w, "tree")
  /\ stride[g][w] <= SyncWidth
  /\ stride[g][w] = 0 \/ Syncing(w) = {}
  /\ out' = IF 0 \in Lanes(w) THEN [out EXCEPT ![g] = sdata[g][0]] ELSE out
  /\ Goto(g, w, "exit")
  /\ UNCHANGED <<size, form, host, queue, i, stride, sdata, j, result>>

Warp(g, w) == Start(g, w) \/ Load(g, w) \/ Loaded(g, w) \/ Tree(g, w)
              \/ Sync(g, w) \/ Write(g, w)

-----------------------------------------------------------------------------
(* The other commands, and the host.                                       *)

ReduceDone ==
  /\ queue # <<>> /\ Head(queue) = "reduce"
  /\ \A g \in Groups, w \in Warps : pc[g][w] = "exit"
  /\ queue' = Tail(queue)
  /\ UNCHANGED <<size, form, host, kernelVars, out, j, result>>

(* The non-blocking write reads zero, a variable on the host's stack that  *)
(* is gone when the call has returned.                                     *)
ZeroWritten ==
  /\ queue # <<>> /\ Head(queue) = "zero"
  /\ result' = IF host = "returned" THEN Junk ELSE None
  /\ queue' = Tail(queue)
  /\ UNCHANGED <<size, form, host, kernelVars, out, j>>

(* One round of the final summation: of s_vector_sum_scalar and _sum_sqrt, *)
(* or of the host's loop after its blocking read.                          *)
FinalAdd ==
  /\ \/ queue # <<>> /\ Head(queue) = "final"
     \/ host = "adding"
  /\ j < MaxBlocks
  /\ result' = result ++ out[j]
  /\ j' = j + 1
  /\ UNCHANGED <<size, form, host, queue, kernelVars, out>>

FinalDone ==
  /\ queue # <<>> /\ Head(queue) = "final"
  /\ j = MaxBlocks
  /\ queue' = Tail(queue)
  /\ UNCHANGED <<size, form, host, kernelVars, out, j, result>>

(* Fault: the result is not zeroed.                                        *)
LaunchUnzeroed ==
  /\ host = "called"
  /\ queue' = <<"reduce">>
  /\ host' = "step1"
  /\ UNCHANGED <<size, form, kernelVars, out, j, result>>

(* The first kernel is enqueued, and in form "mem" the write behind it.    *)
Launch ==
  /\ host = "called"
  /\ queue' = IF form = "mem" THEN <<"reduce", "zero">> ELSE <<"reduce">>
  /\ host' = "step1"
  /\ UNCHANGED <<size, form, kernelVars, out, j, result>>

(* clWaitForEvents on the first kernel, which may return before the write  *)
(* is done; then the second kernel.                                        *)
Finish ==
  /\ host = "step1" /\ form = "mem"
  /\ \A k \in 1..Len(queue) : queue[k] # "reduce"
  /\ queue' = Append(queue, "final")
  /\ host' = "step2"
  /\ UNCHANGED <<size, form, kernelVars, out, j, result>>

(* The blocking read returns when the queue is empty.                      *)
ReadBack ==
  /\ host = "step1" /\ form = "host"
  /\ queue = <<>>
  /\ host' = "adding"
  /\ UNCHANGED <<size, form, queue, kernelVars, out, j, result>>

Return ==
  /\ (host = "step2" /\ queue = <<>>) \/ (host = "adding" /\ j = MaxBlocks)
  /\ host' = "returned"
  /\ UNCHANGED <<size, form, queue, kernelVars, out, j, result>>

Host   == Launch \/ Finish \/ ReadBack \/ Return
Queue  == ReduceDone \/ ZeroWritten \/ FinalAdd \/ FinalDone
AtRest == host = "returned" /\ UNCHANGED vars

Next ==
  \/ Host \/ Queue \/ AtRest
  \/ \E g \in Groups : Barrier(g) \/ \E w \in Warps : Warp(g, w)

Spec == Init /\ [][Next]_vars

-----------------------------------------------------------------------------
(* Properties.                                                             *)

(* Every variable holds a value of its type.                               *)
TypeOK ==
  /\ size \in Sizes
  /\ form \in {"host", "mem"}
  /\ host \in {"called", "step1", "step2", "adding", "returned"}
  /\ queue \in Seq({"reduce", "zero", "final"}) /\ Len(queue) <= 2
  /\ pc \in [Groups -> [Warps -> {"start", "load", "barrier", "tree", "exit"}]]
  /\ i \in [Groups -> [Warps -> Nat]]
  /\ stride \in [Groups -> [Warps -> 0..BlockSize]]
  /\ sdata \in [Groups -> [Items -> Sum]]
  /\ out \in [Groups -> Sum]
  /\ j \in 0..MaxBlocks
  /\ result \in Sum

(* The slots a warp reads of others, and those it writes, in its next step *)
(* of the tree.                                                            *)
InTree(g, w) == IF pc[g][w] # "tree" THEN {}
                ELSE IF stride[g][w] > SyncWidth THEN Adders(g, w)
                ELSE IF stride[g][w] > 0 THEN Syncing(w) ELSE {}
Reads(g, w)  == {t + stride[g][w] : t \in InTree(g, w)}
Writes(g, w) == IF pc[g][w] \in {"start", "load"} THEN Lanes(w) ELSE InTree(g, w)

(* Between two barriers no warp reads a slot that another one writes.      *)
NoLocalRace ==
  \A g \in Groups : \A v, w \in Warps :
    v # w => Reads(g, v) \cap Writes(g, w) = {}

(* When the call returns, the result is the sum of all elements, each of   *)
(* them once, and nothing of what the result or device_out_data held, if   *)
(* the vector is longer than a block; and if it is not, never: the call    *)
(* says no more than that such a vector is not supported, launches half a  *)
(* block or less (ocl_vector.cpp:1156-1162), and the first step of the     *)
(* tree adds what lies beyond the local memory it asked for.               *)
SumOnReturn ==
  host = "returned" => (result = Each(Terms, 0..size-1) <=> size > BlockSize)

=============================================================================
