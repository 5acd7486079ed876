---------------------------- MODULE KernelCache ----------------------------
(***************************************************************************)
(* The cache of compiled kernels of clBLAS (common/kern_cache.c) and the   *)
(* calls that use it: makeSolutionSeq finds or makes a kernel for every    *)
(* step of a call, executeSolutionSeq launches them, freeSolutionStep puts *)
(* them back (blas/generic/solution_seq_make.c, solution_seq.c).           *)
(*                                                                         *)
(* Several threads call at the same time.  Everything they share is read   *)
(* and written with the mutex of the cache held, so that a locked section  *)
(* is one action; a kernel whose last reference went is destroyed outside. *)
(* What a kernel computes is left out: a program stands for the solver,    *)
(* the device, the dimensions and the build options a kernel is made for.  *)
(***************************************************************************)
EXTENDS Integers, Sequences, FiniteSets

CONSTANTS
  Threads,      (* That call functions of the library.                     *)
  Kernels,      (* Addresses of kernel nodes; bounds how many there are.   *)
  Contexts,     (* Handles of OpenCL contexts.                             *)
  Programs,     (* What a kernel can be made for, besides its context.     *)
  SizeOf,       (* Per program: fullKernelSize.                            *)
  NSlots,       (* Bound: kernels of the steps of one call.                *)
  Limits,       (* Values of sizeLimit that are tried; 0: unlimited.       *)
  NULL

ASSUME CacheAssumption ==
  /\ IsFiniteSet(Threads) /\ IsFiniteSet(Kernels)
  /\ SizeOf \in [Programs -> Nat \ {0}] /\ Limits \subseteq Nat /\ NSlots \in Nat
  /\ NULL \notin Threads \cup Kernels \cup Contexts \cup Programs

Slots == 1..NSlots
TruncAheadFactor == 4

VARIABLES
  library,    (* "down" or "up": clblasInitialized.                        *)
  kcache,     (* clblasKernelCache is not NULL.                            *)
  limit,      (* Its sizeLimit.                                            *)
  lru,        (* lruKern, the most recently used kernel first.             *)
  totalSize,  (* Its totalSize.                                            *)
  node,       (* The kernel nodes by address.                              *)
  refs,       (* Reference counts of the contexts.                         *)
  owned,      (* Contexts the application holds a reference to.            *)
  pc,         (* Per thread: where it is.                                  *)
  ctx,        (* Per thread: the context of its queue, NULL between calls. *)
  slot,       (* Per thread: the slot that makeSolutionSeq is to fill.     *)
  want,       (* Per thread and slot: the program that is needed.          *)
  kernels,    (* Per thread and slot: step->kernels[ktype].                *)
  adding,     (* Per thread: the reference taken for the cache.            *)
  removed,    (* Per thread: truncList, the references it is to put.       *)
  dying       (* Per thread: a kernel without references, to be destroyed. *)

cacheVars  == <<library, kcache, limit, lru, totalSize>>
threadVars == <<pc, ctx, slot, want, kernels, adding, removed, dying>>
kvars      == <<cacheVars, node, refs, owned, threadVars>>

FreeNode == [live |-> FALSE, refcnt |-> 0, prog |-> NULL, built |-> NULL, context |-> NULL]
NoKernels == [i \in Slots |-> NULL]

InCache == {lru[i] : i \in DOMAIN lru}

(* Fault: the context is left out of the comparison.                       *)
MatchesAnyContext(c, p) == {k \in InCache : node[k].prog = p}
(* knodeCmp.  Two threads that missed the same kernel both add one; which  *)
(* of the two is found later makes no difference here.                     *)
Matches(c, p) == {k \in InCache : node[k].prog = p /\ node[k].context = c}

Init ==
  /\ library = "down" /\ kcache = FALSE /\ limit = 0 /\ lru = <<>> /\ totalSize = 0
  /\ node = [k \in Kernels |-> FreeNode]
  /\ refs = [c \in Contexts |-> 0] /\ owned = {}
  /\ pc = [t \in Threads |-> "out"] /\ ctx = [t \in Threads |-> NULL]
  /\ slot = [t \in Threads |-> 1]
  /\ want = [t \in Threads |-> NoKernels] /\ kernels = [t \in Threads |-> NoKernels]
  /\ adding = [t \in Threads |-> NULL] /\ removed = [t \in Threads |-> {}]
  /\ dying = [t \in Threads |-> NULL]

-----------------------------------------------------------------------------
(* The application.  Neither clblasSetup nor clblasTeardown is thread-safe *)
(* (clBLAS.h): no thread is in a call meanwhile.                           *)

CreateContext(c) ==
  /\ refs[c] = 0 /\ \A k \in Kernels : node[k].live => node[k].built # c
  /\ refs' = [refs EXCEPT ![c] = 1] /\ owned' = owned \cup {c}
  /\ UNCHANGED <<cacheVars, node, threadVars>>

(* A call in progress has a queue, which keeps its context.                *)
ReleaseContext(c) ==
  /\ c \in owned /\ \A t \in Threads : ctx[t] # c
  /\ refs' = [refs EXCEPT ![c] = @ - 1] /\ owned' = owned \ {c}
  /\ UNCHANGED <<cacheVars, node, threadVars>>

(* AMD_CLBLAS_KCACHE_LIMIT_MB may limit the cache, or, if 0, disable it.   *)
Setup ==
  /\ library = "down" /\ library' = "up"
  /\ \/ kcache' = TRUE /\ limit' \in Limits
     \/ kcache' = FALSE /\ limit' = 0
  /\ lru' = <<>> /\ totalSize' = 0
  /\ UNCHANGED <<node, refs, owned, threadVars>>

-----------------------------------------------------------------------------
(* The locked sections.                                                    *)

(* The last n kernels of lruKern, and what is left without them.           *)
LastOf(n)   == {lru[i] : i \in (Len(lru) - n + 1)..Len(lru)}
Without(n)  == SubSeq(lru, 1, Len(lru) - n)

(* The units of memory of a kernel, and how many there are in kernels S.   *)
Units(k)    == {k} \X (1..SizeOf[node[k].prog])
SizeSum(S)  == Cardinality(UNION {Units(k) : k \in S})

(* removeKernels takes kernels from the end of lruKern until their sizes   *)
(* reach truncSize or the list is empty: the n it takes.                   *)
Enough(n, truncSize) == n = Len(lru) \/ SizeSum(LastOf(n)) >= truncSize
RemoveKernels(truncSize) ==
  {n \in 0..Len(lru) : /\ Enough(n, truncSize)
                       /\ \A m \in 0..(n - 1) : ~ Enough(m, truncSize)}

Quiet(t) == dying[t] = NULL /\ removed[t] = {}

(* The kernel in place i of lruKern moves to its head.                     *)
ToHead(i) == [j \in DOMAIN lru |-> IF j = 1 THEN lru[i] ELSE IF j <= i THEN lru[j - 1] ELSE lru[j]]

(* Fault: whoever finds a kernel takes no reference.                       *)
FindUncounted(t, i) ==
  /\ kcache /\ node' = node
  /\ lru' = ToHead(i)
  /\ kernels' = [kernels EXCEPT ![t][slot[t]] = lru[i]]
  /\ slot' = [slot EXCEPT ![t] = @ + 1]
  /\ UNCHANGED <<library, kcache, limit, totalSize, pc>>
(* findKernel finds it: one more reference, and it was used most recently. *)
FindKernel(t, i) ==
  /\ kcache
  /\ node' = [node EXCEPT ![lru[i]].refcnt = @ + 1]
  /\ lru' = ToHead(i)
  /\ kernels' = [kernels EXCEPT ![t][slot[t]] = lru[i]]
  /\ slot' = [slot EXCEPT ![t] = @ + 1]
  /\ UNCHANGED <<library, kcache, limit, totalSize, pc>>

Find(t) ==
  /\ pc[t] = "find" /\ Quiet(t) /\ slot[t] \in Slots
  /\ \E p \in Programs :
       /\ want' = [want EXCEPT ![t][slot[t]] = p]
       /\ \/ \E i \in DOMAIN lru : lru[i] \in Matches(ctx[t], p) /\ FindKernel(t, i)
          \/ /\ kcache => Matches(ctx[t], p) = {}
             /\ pc' = [pc EXCEPT ![t] = "make"]
             /\ UNCHANGED <<cacheVars, node, slot, kernels>>
  /\ UNCHANGED <<refs, owned, ctx, adding, removed, dying>>

(* makeKernel or loadKernel: allocKernel gives the first reference, and    *)
(* getKernel, if there is a cache, the second one, which is for the cache. *)
(* No other thread knows the kernel yet.                                   *)
Make(t) ==
  /\ pc[t] = "make"
  /\ \E k \in Kernels :
       /\ ~ node[k].live
       /\ node' = [node EXCEPT ![k] =
            [live |-> TRUE, refcnt |-> IF kcache THEN 2 ELSE 1,
             prog |-> want[t][slot[t]], built |-> ctx[t], context |-> NULL]]
       /\ kernels' = [kernels EXCEPT ![t][slot[t]] = k]
       /\ adding' = [adding EXCEPT ![t] = IF kcache THEN k ELSE NULL]
  /\ slot' = [slot EXCEPT ![t] = @ + 1]
  /\ pc' = [pc EXCEPT ![t] = IF kcache THEN "add" ELSE "find"]
  /\ UNCHANGED <<cacheVars, refs, owned, ctx, want, removed, dying>>

(* There is no memory, or the program does not build: freeSolutionSeq.     *)
MakeFails(t) ==
  /\ pc[t] = "make" /\ pc' = [pc EXCEPT ![t] = "free"]
  /\ UNCHANGED <<cacheVars, node, refs, owned, ctx, slot, want, kernels, adding,
                 removed, dying>>

(* addKernelToCache, its locked section: too large a kernel is refused;    *)
(* otherwise the least recently used ones go if it does not fit.           *)
Refused(k) == limit # 0 /\ SizeOf[node[k].prog] > limit
(* Fault: what the cache holds already is not counted.                     *)
TruncSizeAlone(k) ==
  IF limit # 0 /\ SizeOf[node[k].prog] > limit
  THEN SizeOf[node[k].prog] * TruncAheadFactor ELSE 0
TruncSize(k) ==
  IF limit # 0 /\ SizeOf[node[k].prog] > limit - totalSize
  THEN SizeOf[node[k].prog] * TruncAheadFactor ELSE 0

(* Fault: the cache's reference of a refused kernel is forgotten.          *)
RefusedForgotten(k) == {}
(* makeSolutionSeq puts it.                                                *)
RefusedReferences(k) == {k}

Add(t) ==
  /\ pc[t] = "add" /\ pc' = [pc EXCEPT ![t] = "find"]
  /\ LET k == adding[t]
         c == ctx[t]
     IN  \/ /\ Refused(k)
            /\ removed' = [removed EXCEPT ![t] = RefusedReferences(k)]
            /\ UNCHANGED <<lru, totalSize, node, refs>>
         \/ /\ ~ Refused(k)
            /\ \E n \in RemoveKernels(TruncSize(k)) :
                 /\ removed' = [removed EXCEPT ![t] = LastOf(n)]
                 /\ lru' = <<k>> \o Without(n)
                 /\ totalSize' = totalSize - SizeSum(LastOf(n)) + SizeOf[node[k].prog]
            /\ node' = [node EXCEPT ![k].context = c]
            /\ refs' = [refs EXCEPT ![c] = @ + 1]
  /\ adding' = [adding EXCEPT ![t] = NULL]
  /\ UNCHANGED <<library, kcache, limit, owned, ctx, slot, want, kernels, dying>>

-----------------------------------------------------------------------------
(* putKernel: the count is lowered with the mutex held; who lowers it to   *)
(* zero destroys the kernel, and no one else knows it then.                *)
PutKernel(t, k) ==
  /\ node' = [node EXCEPT ![k].refcnt = @ - 1]
  /\ dying' = IF node[k].refcnt = 1 THEN [dying EXCEPT ![t] = k] ELSE dying

(* Fault: the context of a destroyed kernel is not released.               *)
NotReleased(k) == refs
(* putKernel releases the context that the cache retained with the key.    *)
ReleasedContext(k) ==
  [c \in Contexts |-> IF c = node[k].context THEN refs[c] - 1 ELSE refs[c]]

Destroy(t) ==
  /\ dying[t] # NULL /\ dying' = [dying EXCEPT ![t] = NULL]
  /\ node' = [node EXCEPT ![dying[t]] = FreeNode]
  /\ refs' = ReleasedContext(dying[t])
  /\ UNCHANGED <<cacheVars, owned, pc, ctx, slot, want, kernels, adding, removed>>

(* putRemovedKernels, or putKernel for the reference of a refused kernel.  *)
PutRemoved(t) ==
  /\ dying[t] = NULL
  /\ \E k \in removed[t] :
       PutKernel(t, k) /\ removed' = [removed EXCEPT ![t] = @ \ {k}]
  /\ UNCHANGED <<cacheVars, refs, owned, pc, ctx, slot, want, kernels, adding>>

-----------------------------------------------------------------------------
(* A call: doGemm, doTrsm and the others.                                  *)

Begin(t, c) ==
  /\ library = "up" /\ pc[t] = "out" /\ c \in owned
  /\ \A u \in Threads : pc[u] # "teardown"
  /\ pc' = [pc EXCEPT ![t] = "find"] /\ ctx' = [ctx EXCEPT ![t] = c]
  /\ UNCHANGED <<cacheVars, node, refs, owned, slot, want, kernels, adding, removed, dying>>

(* A step does not get what it needs: freeSolutionSeq.                     *)
OutOfResources(t) ==
  /\ pc[t] = "find" /\ Quiet(t)
  /\ pc' = [pc EXCEPT ![t] = "free"]
  /\ UNCHANGED <<cacheVars, node, refs, owned, ctx, slot, want, kernels, adding,
                 removed, dying>>

(* executeSolutionSeq, when every step has its kernels.                    *)
Launch(t) ==
  /\ pc[t] = "find" /\ Quiet(t) /\ slot[t] > 1
  /\ pc' = [pc EXCEPT ![t] = "free"]
  /\ UNCHANGED <<cacheVars, node, refs, owned, ctx, slot, want, kernels, adding,
                 removed, dying>>

(* freeSolutionStep puts the kernels of the steps in order.                *)
FreeStep(t) ==
  /\ pc[t] = "free" /\ Quiet(t)
  /\ \E i \in Slots :
       /\ kernels[t][i] # NULL /\ \A j \in 1..(i - 1) : kernels[t][j] = NULL
       /\ PutKernel(t, kernels[t][i])
       /\ kernels' = [kernels EXCEPT ![t][i] = NULL]
  /\ UNCHANGED <<cacheVars, refs, owned, pc, ctx, slot, want, adding, removed>>

End(t) ==
  /\ pc[t] = "free" /\ Quiet(t) /\ kernels[t] = NoKernels
  /\ pc' = [pc EXCEPT ![t] = "out"] /\ ctx' = [ctx EXCEPT ![t] = NULL]
  /\ slot' = [slot EXCEPT ![t] = 1] /\ want' = [want EXCEPT ![t] = NoKernels]
  /\ UNCHANGED <<cacheVars, node, refs, owned, kernels, adding, removed, dying>>

(* clblasTeardown: cleanKernelCache removes all kernels, then puts them.   *)
Teardown(t) ==
  /\ library = "up" /\ \A u \in Threads : pc[u] = "out"
  /\ pc' = [pc EXCEPT ![t] = "teardown"]
  /\ \E n \in RemoveKernels(totalSize) :
       /\ removed' = [removed EXCEPT ![t] = LastOf(n)]
       /\ lru' = Without(n)
       /\ totalSize' = totalSize - SizeSum(LastOf(n))
  /\ UNCHANGED <<library, kcache, limit, node, refs, owned, ctx, slot, want, kernels,
                 adding, dying>>

TornDown(t) ==
  /\ pc[t] = "teardown" /\ Quiet(t) /\ pc' = [pc EXCEPT ![t] = "out"]
  /\ library' = "down" /\ kcache' = FALSE /\ limit' = 0
  /\ UNCHANGED <<lru, totalSize, node, refs, owned, ctx, slot, want, kernels, adding,
                 removed, dying>>

Proceed(t) ==
  \/ Find(t) \/ Make(t) \/ MakeFails(t) \/ Add(t) \/ Destroy(t) \/ PutRemoved(t)
  \/ OutOfResources(t) \/ Launch(t) \/ FreeStep(t) \/ End(t) \/ TornDown(t)

Next ==
  \/ \E c \in Contexts : CreateContext(c) \/ ReleaseContext(c)
  \/ Setup
  \/ \E t \in Threads : Proceed(t) \/ Teardown(t) \/ \E c \in Contexts : Begin(t, c)

Spec == Init /\ [][Next]_kvars

-----------------------------------------------------------------------------
NodeType ==
  [live : BOOLEAN, refcnt : Nat, prog : Programs \cup {NULL},
   built : Contexts \cup {NULL}, context : Contexts \cup {NULL}]

KTypeOK ==
  /\ library \in {"down", "up"} /\ kcache \in BOOLEAN /\ limit \in Nat
  /\ lru \in Seq(Kernels) /\ totalSize \in Int
  /\ node \in [Kernels -> NodeType]
  /\ refs \in [Contexts -> Nat] /\ owned \subseteq Contexts
  /\ pc \in [Threads -> {"out", "find", "make", "add", "free", "teardown"}]
  /\ ctx \in [Threads -> Contexts \cup {NULL}]
  /\ slot \in [Threads -> 1..(NSlots + 1)]
  /\ want \in [Threads -> [Slots -> Programs \cup {NULL}]]
  /\ kernels \in [Threads -> [Slots -> Kernels \cup {NULL}]]
  /\ adding \in [Threads -> Kernels \cup {NULL}]
  /\ removed \in [Threads -> SUBSET Kernels]
  /\ dying \in [Threads -> Kernels \cup {NULL}]

(* Who may refer to a kernel: a slot of a step of a thread; a thread about *)
(* to add it to the cache, in place 0; a thread with it on its truncList,  *)
(* in place -1; and the cache.                                             *)
Places == (Threads \X (-1..NSlots)) \cup {<<NULL, 0>>}
Refers(t, i, k) ==
  IF t = NULL THEN k \in InCache
  ELSE IF i = 0 THEN adding[t] = k
  ELSE IF i = -1 THEN k \in removed[t]
  ELSE kernels[t][i] = k
Holders(k) == {h \in Places : Refers(h[1], h[2], k)}

(* The count of a kernel is the number of those who refer to it, in every  *)
(* state of any number of calls; at zero there is exactly one thread to    *)
(* destroy it, and once it is gone no one knows its address: putKernel     *)
(* neither frees a kernel in use nor leaks one (kern_cache.c:207).         *)
CountsExact ==
  \A k \in Kernels :
    /\ node[k].live => node[k].refcnt = Cardinality(Holders(k))
    /\ Holders(k) # {} => node[k].live
    /\ (\E t \in Threads : dying[t] = k) <=> (node[k].live /\ node[k].refcnt = 0)
    /\ \A t, u \in Threads : dying[t] = k /\ dying[u] = k => t = u

(* A step has a kernel that exists, was built for the context of the       *)
(* step's own queue and is the program it asked for, however the address   *)
(* and the cache were used by other calls since (makeSolutionSeq).         *)
KernelsFit ==
  \A t \in Threads, i \in Slots :
    LET k == kernels[t][i]
    IN  k # NULL => node[k].live /\ node[k].built = ctx[t] /\ node[k].prog = want[t][i]

(* Every kernel that was added holds one reference to its context, and no  *)
(* other reference of the library is left behind: a context cannot go      *)
(* while its handle is in a key of the cache.                              *)
ContextsHeld ==
  \A c \in Contexts :
    refs[c] = Cardinality({k \in Kernels : node[k].live /\ node[k].context = c})
                + IF c \in owned THEN 1 ELSE 0

(* totalSize is what the cached kernels sum up to, and stays within the    *)
(* limit: removeKernels always makes enough room (kern_cache.c:315-323).   *)
SizeWithinLimit ==
  /\ totalSize = SizeSum(InCache)
  /\ limit # 0 => totalSize <= limit

(* clblasTeardown gives everything back: no kernel is left, and no context *)
(* is held but by the application.                                         *)
NothingCached ==
  library = "down" => /\ lru = <<>> /\ \A k \in Kernels : ~ node[k].live
                      /\ \A c \in Contexts : refs[c] = IF c \in owned THEN 1 ELSE 0
=============================================================================
