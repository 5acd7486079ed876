------------------------- MODULE VectorReduceProofs -------------------------
(***************************************************************************)
(* Proofs about VectorReduce, for every block size, number of groups and   *)
(* length of a vector, and every width of a warp that is not below the     *)
(* part of the kernel without barriers.                                    *)
(***************************************************************************)
EXTENDS VectorReduce, SequenceTheorems, WellFoundedInduction, TLAPS

(***************************************************************************)
(* The invariant.  A group loads; then it folds its slots to S, a step and *)
(* a barrier at a time; then its first warp goes on alone.  Of a vector    *)
(* longer than a block, what the slots stand for is known all the way; of  *)
(* another one, that what lies beyond local memory is in the first slot    *)
(* after the first step, and no later step takes it out.                   *)
(***************************************************************************)

(* A warp is as wide as the part without barriers: on another device the   *)
(* kernels are not meant to run.                                           *)
Wide == Lockstep >= SyncWidth

Powers == {s \in 1..BlockSize : IsPowerOf2(s)}

(* The group that reads an element.                                        *)
ReaderOf(e) == (e \div (2 * BlockSize)) % MaxBlocks

(* What slot t of group g stands for when S slots are left.                *)
Fold(g, t, S) == {e \in 0..size-1 : ReaderOf(e) = g /\ e % S = t}

(* The elements before n among them, when none is folded yet.              *)
Read(g, t, n) == {e \in Fold(g, t, BlockSize) : e < n}

(* Where round n of a group begins.                                        *)
Base(g, n) == (2 * BlockSize) * (g + MaxBlocks * n)

(* Warp w of g adds up what it reads; it waits with all of that added.     *)
LoadingIn(g, w) ==
  /\ stride[g][w] = BlockSize \div 2
  /\ pc[g][w] \in {"start", "load", "barrier"}
  /\ pc[g][w] = "load" =>
       \E n \in Nat : /\ i[g][w] = Base(g, n)
                      /\ \A t \in Lanes(w) : sdata[g][t] = Each(Terms, Read(g, t, Base(g, n)))
  /\ pc[g][w] = "barrier" =>
       \A t \in Lanes(w) : sdata[g][t] = Each(Terms, Fold(g, t, BlockSize))

Loading(g) == \A w \in Warps : LoadingIn(g, w)

(* Warp w of g folds 2 * S slots to S, or waits with its own ones folded.  *)
FoldingIn(g, w, S) ==
  \/ /\ pc[g][w] = "tree" /\ stride[g][w] = S
     /\ \A t \in Lanes(w) : t < 2 * S => sdata[g][t] = Each(Terms, Fold(g, t, 2 * S))
  \/ /\ pc[g][w] = "barrier" /\ stride[g][w] = S \div 2
     /\ \A t \in Lanes(w) :
          /\ t < S => sdata[g][t] = Each(Terms, Fold(g, t, S))
          /\ S <= t /\ t < 2 * S => sdata[g][t] = Each(Terms, Fold(g, t, 2 * S))

Folding(g, S) ==
  /\ SyncWidth < S /\ 2 * S <= BlockSize
  /\ \A w \in Warps : FoldingIn(g, w, S)

(* The slots that count before a step over s.                              *)
Span(s) == IF s = 0 THEN 1 ELSE 2 * s

(* The first warp folds alone, over s next; the others are done.           *)
Synced(g, s) ==
  /\ s <= SyncWidth /\ stride[g][0] = s
  /\ \A w \in Warps : /\ pc[g][w] \in {"tree", "exit"}
                      /\ w # 0 => stride[g][w] = SyncWidth
  /\ \A t \in Items : t < Span(s) => sdata[g][t] = Each(Terms, Fold(g, t, Span(s)))
  /\ pc[g][0] = "exit" => s = 0 /\ out[g] = Each(Terms, Fold(g, 0, 1))

(* Every group is in one of the three.                                     *)
PhaseOf(g) ==
  \/ Loading(g)
  \/ \E S \in Powers : Folding(g, S)
  \/ \E s \in Powers \cup {0} : Synced(g, s)

LongPhases == \A g \in Groups : PhaseOf(g)

(* The same three, without what the slots hold.                            *)
LoadingAll(g) ==
  \A w \in Warps : stride[g][w] = BlockSize \div 2 /\ pc[g][w] \in {"start", "load", "barrier"}
FoldingAll(g, S) ==
  /\ SyncWidth < S /\ 2 * S <= BlockSize
  /\ \A w \in Warps : \/ pc[g][w] = "tree" /\ stride[g][w] = S
                      \/ pc[g][w] = "barrier" /\ stride[g][w] = S \div 2
SyncedAll(g) ==
  /\ stride[g][0] <= SyncWidth
  /\ \A w \in Warps : pc[g][w] \in {"tree", "exit"} /\ (w # 0 => stride[g][w] = SyncWidth)
InStep(g) == LoadingAll(g) \/ (\E S \in Powers : FoldingAll(g, S)) \/ SyncedAll(g)

(* After the first step of the tree.                                       *)
Marred(g) ==
  /\ stride[g][0] < BlockSize \div 2 => sdata[g][0][Stale] > 0
  /\ pc[g][0] = "exit" => out[g][Stale] > 0

ShortPhases == \A g \in Groups : InStep(g) /\ Marred(g)

Phases == IF size > BlockSize THEN LongPhases ELSE ShortPhases

(* The commands that can be in the queue.                                  *)
Commands ==
  \/ host = "called" /\ queue = <<>>
  \/ host = "step1" /\ form = "host" /\ queue \in {<<"reduce">>, <<>>}
  \/ host = "step1" /\ form = "mem" /\ queue \in {<<"reduce", "zero">>, <<"zero">>, <<>>}
  \/ host = "step2" /\ form = "mem" /\ queue \in {<<"zero", "final">>, <<"final">>, <<>>}
  \/ host = "adding" /\ form = "host" /\ queue = <<>>
  \/ host = "returned" /\ queue = <<>>

(* The first kernel has ended.                                             *)
Ran == host # "called" /\ queue \notin {<<"reduce">>, <<"reduce", "zero">>}

(* Nothing has been written to the result yet.                             *)
Unwritten ==
  form = "mem" /\ (host = "called" \/ queue \in {<<"reduce", "zero">>, <<"zero">>, <<"zero", "final">>})

(* The elements of the groups before n.                                    *)
Before(n) == {e \in 0..size-1 : ReaderOf(e) < n}

(* The result is the sum of the groups that have been added, or is marred  *)
(* by the first of them.                                                   *)
Summed ==
  IF size > BlockSize THEN result = Each(Terms, Before(j)) ELSE j > 0 => result[Stale] > 0

Results ==
  /\ Ran => \A g \in Groups, w \in Warps : pc[g][w] = "exit"
  /\ Unwritten => j = 0
  /\ ~ Unwritten => Summed
  /\ host = "returned" \/ (host = "step2" /\ queue = <<>>) => j = MaxBlocks

(* The inductive invariant.                                                *)
IInv == TypeOK /\ Phases /\ Commands /\ Results
-----------------------------------------------------------------------------
(* Arithmetic.                                                             *)

LEMMA DivMod ==
  ASSUME NEW a \in Nat, NEW b \in Nat \ {0}
  PROVE  /\ a \div b \in Nat /\ a % b \in 0..b-1
         /\ a = b * (a \div b) + (a % b)
BY SMTT(30)

LEMMA Gap ==
  ASSUME NEW a \in Nat, NEW b \in Nat, a <= b
  PROVE  \E d \in Nat : b = a + d
<1>1. b - a \in Nat /\ b = a + (b - a)
  OBVIOUS
<1>. QED
  BY <1>1

LEMMA Quotients ==
  ASSUME NEW b \in Nat \ {0}, NEW p \in Nat, NEW q \in Nat,
         NEW r \in 0..b-1, NEW s \in 0..b-1, b * p + r = b * q + s
  PROVE  p = q /\ r = s
<1>1. ASSUME NEW m \in Nat, NEW n \in Nat, m < n PROVE b * m + b <= b * n
  <2>1. PICK k \in Nat : n = m + 1 + k
    BY <1>1
  <2>2. b * n = b * m + b + b * k /\ b * k \in Nat /\ b * m \in Nat
    BY <2>1
  <2>. QED
    BY <2>2
<1>2. b * p \in Nat /\ b * q \in Nat
  OBVIOUS
<1>3. ~ p < q
  BY <1>1, <1>2
<1>4. ~ q < p
  BY <1>1, <1>2
<1>5. p = q
  BY <1>3, <1>4
<1>. QED
  BY <1>2, <1>5

(* Remainders by s are those by 2 * s, folded over.                        *)
LEMMA ModFolds ==
  ASSUME NEW x \in Nat, NEW s \in Nat \ {0}, NEW l \in 0..s-1
  PROVE  x % s = l <=> x % (2 * s) \in {l, l + s}
<1>0. 2 * s \in Nat \ {0}
  OBVIOUS
<1>1. PICK q \in Nat, r \in 0..2*s-1 : x = (2 * s) * q + r /\ r = x % (2 * s)
  BY <1>0, DivMod
<1>2. PICK p \in Nat, t \in 0..s-1 : x = s * p + t /\ t = x % s
  BY DivMod
<1>3. CASE r < s
  <2>1. PICK u \in Nat : u = 2 * q
    OBVIOUS
  <2>2. s * u + r = s * p + t /\ r \in 0..s-1
    BY <1>1, <1>2, <1>3, <2>1
  <2>3. r = t
    BY <2>2, Quotients
  <2>4. t = l <=> r \in {l, l + s}
    BY <1>3, <2>3
  <2>. QED
    BY <1>1, <1>2, <2>4
<1>4. CASE r >= s
  <2>1. PICK u \in Nat, v \in 0..s-1 : u = 2 * q + 1 /\ v = r - s
    BY <1>4
  <2>2. s * u + v = s * p + t
    BY <1>1, <1>2, <2>1
  <2>3. v = t
    BY <2>2, Quotients
  <2>4. t = l <=> r \in {l, l + s}
    BY <1>4, <2>1, <2>3
  <2>. QED
    BY <1>1, <1>2, <2>4
<1>. QED
  BY <1>3, <1>4

(* There is a least number in a set.                                       *)
LEMMA LeastOf ==
  ASSUME NEW T, T \subseteq Nat, T # {}
  PROVE  \E m \in T : \A n \in T : m <= n
<1>1. PICK m \in T : \A n \in T : ~ (<<n, m>> \in OpToRel(<, Nat))
  BY WFMin, NatLessThanWellFounded
<1>2. \A n \in T : ~ (n < m)
  BY <1>1 DEF OpToRel
<1>. QED
  BY <1>2

(* The half of a power of two is one.                                      *)
LEMMA HalfOf ==
  ASSUME NEW n \in Nat, n > 1, IsPowerOf2(n)
  PROVE  /\ n \div 2 \in Nat \ {0} /\ n = 2 * (n \div 2)
         /\ IsPowerOf2(n \div 2)
<1>1. n % n = 0
  <2>1. n * 1 + 0 = n * (n \div n) + (n % n) /\ n % n \in 0..n-1 /\ n \div n \in Nat
    BY DivMod
  <2>2. 0 \in 0..n-1
    OBVIOUS
  <2>. QED
    BY <2>1, <2>2, Quotients
<1>2. n % 2 = 0
  BY <1>1 DEF IsPowerOf2
<1>3. PICK h \in Nat \ {0} : h = n \div 2 /\ n = 2 * h
  BY <1>2
<1>4. ASSUME NEW d \in 1..h, h % d = 0 PROVE d = 1 \/ d % 2 = 0
  <2>0. d \in Nat \ {0}
    OBVIOUS
  <2>1. PICK q \in Nat : h = d * q
    <3>1. h = d * (h \div d) + (h % d) /\ h \div d \in Nat
      BY <1>3, <2>0, DivMod
    <3>. QED
      BY <1>4, <3>1
  <2>2. PICK p \in Nat : p = 2 * q
    OBVIOUS
  <2>3. n = d * p
    BY <1>3, <2>1, <2>2
  <2>4. d * p + 0 = d * (n \div d) + (n % d) /\ n \div d \in Nat /\ n % d \in 0..d-1
    <3>1. n = d * (n \div d) + (n % d) /\ n \div d \in Nat /\ n % d \in 0..d-1
      BY <2>0, DivMod
    <3>. QED
      BY <2>3, <3>1
  <2>5. n % d = 0
    <3>1. 0 \in 0..d-1 /\ d \in Nat \ {0}
      OBVIOUS
    <3>. QED
      BY <2>4, <3>1, Quotients
  <2>6. d \in 1..n
    BY <1>3
  <2>. QED
    BY <2>5, <2>6 DEF IsPowerOf2
<1>. QED
  BY <1>3, <1>4 DEF IsPowerOf2

(* There is one power of two at most from a number up to twice of it.      *)
LEMMA OnePower ==
  ASSUME NEW a \in Nat \ {0}, NEW b \in Nat, IsPowerOf2(a), IsPowerOf2(b),
         a <= b, b < 2 * a
  PROVE  a = b
<1> DEFINE Bad == {x \in Nat \ {0} : \E y \in Nat :
                     /\ IsPowerOf2(x) /\ IsPowerOf2(y)
                     /\ x < y /\ y < 2 * x}
<1>. SUFFICES ASSUME a # b PROVE FALSE
  OBVIOUS
<1>1. a \in Bad
  OBVIOUS
<1>2. PICK m \in Bad : \A n \in Bad : m <= n
  <2>1. Bad \subseteq Nat /\ Bad # {}
    BY <1>1
  <2>. HIDE DEF Bad
  <2>. QED
    BY <2>1, LeastOf
<1>3. PICK y \in Nat : IsPowerOf2(m) /\ IsPowerOf2(y) /\ m < y /\ y < 2 * m
  OBVIOUS
<1>4. m \in Nat /\ m > 1
  BY <1>3
<1>5. PICK h \in Nat \ {0} : m = 2 * h /\ IsPowerOf2(h)
  BY <1>3, <1>4, HalfOf
<1>6. PICK k \in Nat \ {0} : y = 2 * k /\ IsPowerOf2(k)
  BY <1>3, <1>4, HalfOf
<1>7. h < k /\ k < 2 * h /\ h < m
  BY <1>3, <1>5, <1>6
<1>8. h \in Bad
  BY <1>5, <1>6, <1>7
<1>. HIDE DEF Bad
<1>. QED
  BY <1>2, <1>4, <1>7, <1>8

(* Halving from a power above another one does not get past it.            *)
LEMMA HalfAbove ==
  ASSUME NEW a \in Nat \ {0}, NEW b \in Nat, IsPowerOf2(a), IsPowerOf2(b), a < b
  PROVE  a <= b \div 2
<1>1. b \div 2 \in Nat \ {0} /\ b = 2 * (b \div 2) /\ IsPowerOf2(b \div 2)
  BY HalfOf
<1>. SUFFICES ASSUME b \div 2 < a PROVE FALSE
  BY <1>1
<1>2. ~ b < 2 * a
  BY OnePower
<1>. QED
  BY <1>1, <1>2

LEMMA DivMonotone ==
  ASSUME NEW a \in Nat, NEW b \in Nat, NEW c \in Nat \ {0}, a <= b
  PROVE  a \div c <= b \div c
<1>1. PICK p \in Nat, r \in 0..c-1 : p = a \div c /\ a = c * p + r
  BY DivMod
<1>2. PICK q \in Nat, s \in 0..c-1 : q = b \div c /\ b = c * q + s
  BY DivMod
<1>. SUFFICES ASSUME q < p PROVE FALSE
  BY <1>1, <1>2
<1>3. PICK k \in Nat : p = q + 1 + k
  OBVIOUS
<1>4. c * p = c * q + c + c * k /\ c * k \in Nat /\ c * q \in Nat
  BY <1>3
<1>. QED
  BY <1>1, <1>2, <1>4

LEMMA Parameters ==
  /\ BlockSize \in Nat \ {0} /\ MaxBlocks \in Nat \ {0} /\ Lockstep \in Nat \ {0}
  /\ BlockSize \div 2 \in Nat \ {0} /\ BlockSize = 2 * (BlockSize \div 2)
  /\ IsPowerOf2(BlockSize) /\ IsPowerOf2(BlockSize \div 2)
  /\ SyncWidth \in Nat \ {0} /\ SyncWidth <= BlockSize \div 2 /\ IsPowerOf2(SyncWidth)
<1>1. BlockSize \in Nat /\ SyncWidth \in 1..(BlockSize \div 2)
  BY ReduceAssumption
<1>2. BlockSize > 1
  BY <1>1
<1>3. /\ BlockSize \div 2 \in Nat \ {0} /\ BlockSize = 2 * (BlockSize \div 2)
      /\ IsPowerOf2(BlockSize \div 2)
  BY <1>1, <1>2, HalfOf, ReduceAssumption
<1>. QED
  BY <1>1, <1>2, <1>3, ReduceAssumption

(* For a longer vector the host starts as many work-items as the kernels   *)
(* assume.                                                                 *)
LEMMA ThreadsAre ==
  ASSUME size > BlockSize, size \in Sizes
  PROVE  /\ Threads = BlockSize /\ Items = 0..BlockSize-1
         /\ size \in Nat \ {0}
<1>1. size \in Nat /\ size > BlockSize
  BY ReduceAssumption
<1>2. CASE size < 2 * BlockSize
  <2>1. PICK x \in Nat : x = (size + 1) \div 2 /\ x <= BlockSize /\ BlockSize < 2 * x
    BY <1>1, <1>2, Parameters
  <2>2. BlockSize \in x..2*x-1
    BY <2>1, Parameters
  <2>3. NextPow2(x) \in x..2*x-1 /\ IsPowerOf2(NextPow2(x))
    BY <2>2, Parameters DEF NextPow2
  <2>4. x \in Nat \ {0}
    BY <2>1, Parameters
  <2>5. PICK p \in Nat \ {0} : p = NextPow2(x) /\ IsPowerOf2(p) /\ x <= p /\ p < 2 * x
    BY <2>3, <2>4
  <2>6. ASSUME p <= BlockSize PROVE p = BlockSize
    <3>1. BlockSize < 2 * p
      BY <2>1, <2>5, Parameters
    <3>. QED
      BY <2>5, <2>6, <3>1, OnePower, Parameters
  <2>7. ASSUME BlockSize <= p PROVE p = BlockSize
    <3>1. p < 2 * BlockSize
      BY <2>1, <2>5, Parameters
    <3>. QED
      BY <2>5, <2>7, <3>1, OnePower, Parameters
  <2>8. p = BlockSize
    BY <2>5, <2>6, <2>7, Parameters
  <2>. QED
    BY <1>1, <1>2, <2>1, <2>5, <2>8 DEF Threads, Items
<1>3. CASE ~ size < 2 * BlockSize
  BY <1>1, <1>3, Parameters DEF Threads, Items
<1>. QED
  BY <1>2, <1>3

(* There is a power of two from a number to below twice of it, if there is *)
(* one above: the least one above it.                                      *)
LEMMA PowerAbove ==
  ASSUME NEW x \in Nat \ {0}, NEW b \in Nat, IsPowerOf2(b), x <= b
  PROVE  NextPow2(x) \in x..2*x-1 /\ IsPowerOf2(NextPow2(x))
<1> DEFINE Above == {n \in Nat : IsPowerOf2(n) /\ x <= n}
<1>1. PICK m \in Above : \A n \in Above : m <= n
  <2>1. Above \subseteq Nat /\ Above # {}
    OBVIOUS
  <2>. HIDE DEF Above
  <2>. QED
    BY <2>1, LeastOf
<1>2. m \in Nat /\ IsPowerOf2(m) /\ x <= m
  OBVIOUS
<1>3. m < 2 * x
  <2>. SUFFICES ASSUME 2 * x <= m PROVE FALSE
    BY <1>2
  <2>1. m > 1
    BY <1>2
  <2>2. PICK h \in Nat \ {0} : m = 2 * h /\ IsPowerOf2(h)
    BY <1>2, <2>1, HalfOf
  <2>3. x <= h /\ h < m
    BY <2>2
  <2>4. h \in Above
    BY <2>2, <2>3
  <2>. HIDE DEF Above
  <2>. QED
    BY <1>1, <1>2, <2>2, <2>3, <2>4
<1>4. m \in x..2*x-1
  BY <1>2, <1>3
<1>. QED
  BY <1>2, <1>4 DEF NextPow2

(* For another one it starts half as many or less.                         *)
LEMMA FewThreads ==
  ASSUME size \in Sizes, ~ size > BlockSize
  PROVE  Threads \in Nat \ {0} /\ Threads <= BlockSize \div 2
<1>1. size \in Nat \ {0} /\ size <= BlockSize /\ size < 2 * BlockSize
  BY ReduceAssumption, Parameters
<1>2. PICK x \in Nat \ {0} : x = (size + 1) \div 2 /\ x <= BlockSize \div 2
  BY <1>1, Parameters
<1>3. PICK p \in Nat \ {0} : p = NextPow2(x) /\ IsPowerOf2(p) /\ p < 2 * x
  <2>1. NextPow2(x) \in x..2*x-1 /\ IsPowerOf2(NextPow2(x))
    BY <1>2, PowerAbove, Parameters
  <2>. QED
    BY <2>1
<1>4. p < BlockSize
  BY <1>2, <1>3, Parameters
<1>5. p <= BlockSize \div 2
  BY <1>3, <1>4, HalfAbove, Parameters
<1>. QED
  BY <1>1, <1>2, <1>3, <1>5 DEF Threads

LEMMA SomeThreads ==
  ASSUME size \in Sizes
  PROVE  Threads \in Nat \ {0} /\ size \in Nat \ {0}
BY ThreadsAre, FewThreads, ReduceAssumption, Parameters

(* Each work-item is a lane of one warp.                                   *)
LEMMA LanesAre ==
  ASSUME size \in Sizes
  PROVE  /\ Warps \subseteq Nat /\ 0 \in Warps
         /\ \A w \in Warps : Lanes(w) \subseteq Items
         /\ \A t \in Items : t \div Lockstep \in Warps /\ t \in Lanes(t \div Lockstep)
         /\ \A v, w \in Warps : v # w => Lanes(v) \cap Lanes(w) = {}
         /\ 0 \in Lanes(0)
<1>1. PICK m \in Nat : m = (Threads - 1) \div Lockstep
  <2>1. Threads - 1 \in Nat /\ Lockstep \in Nat \ {0}
    BY Parameters, SomeThreads
  <2>. QED
    BY <2>1, DivMod
<1>2. Warps = 0..m /\ Items = 0..Threads-1
  BY <1>1 DEF Warps, Items
<1>3. ASSUME NEW t \in Items PROVE t \div Lockstep \in Warps
  <2>1. t \in Nat /\ t <= Threads - 1 /\ Threads - 1 \in Nat /\ Lockstep \in Nat \ {0}
    BY <1>2, Parameters, SomeThreads
  <2>2. t \div Lockstep <= m /\ t \div Lockstep \in Nat
    BY <1>1, <2>1, DivMod, DivMonotone
  <2>. QED
    BY <1>2, <2>2
<1>4. 0 \in Items /\ 0 \div Lockstep = 0
  <2>1. Lockstep \in Nat \ {0} /\ 0 \in Nat
    BY Parameters
  <2>2. 0 = Lockstep * (0 \div Lockstep) + (0 % Lockstep)
        /\ 0 \div Lockstep \in Nat /\ 0 % Lockstep \in 0..Lockstep-1
    BY <2>1, DivMod
  <2>3. Lockstep * 0 + 0 = Lockstep * (0 \div Lockstep) + (0 % Lockstep) /\ 0 \in 0..Lockstep-1
    BY <2>1, <2>2
  <2>4. 0 \div Lockstep = 0
    BY <2>1, <2>2, <2>3, Quotients
  <2>. QED
    BY <1>2, <2>4, SomeThreads
<1>. QED
  BY <1>1, <1>2, <1>3, <1>4 DEF Lanes

(* Only the first warp has work-items among the last SyncWidth slots.      *)
LEMMA OneWarpSyncs ==
  ASSUME Wide, size \in Sizes, NEW w \in Warps
  PROVE  /\ w # 0 => Syncing(w) = {}
         /\ \A t \in Items : t < SyncWidth <=> t \in Syncing(0)
<1>1. ASSUME NEW t \in Items, t < SyncWidth PROVE t \div Lockstep = 0
  <2>1. t \in Nat /\ t < Lockstep /\ Lockstep \in Nat \ {0} /\ SyncWidth \in Nat
    BY <1>1, Parameters DEF Wide, Items
  <2>2. t = Lockstep * (t \div Lockstep) + (t % Lockstep)
        /\ t \div Lockstep \in Nat /\ t % Lockstep \in 0..Lockstep-1
    BY <2>1, DivMod
  <2>3. Lockstep * 0 + t = Lockstep * (t \div Lockstep) + (t % Lockstep) /\ t \in 0..Lockstep-1
    BY <2>1, <2>2
  <2>. QED
    BY <2>1, <2>2, <2>3, Quotients
<1>. QED
  BY <1>1 DEF Syncing, Lanes

-----------------------------------------------------------------------------
(* What a work-item reads, and what a slot stands for.                     *)

LEMMA BaseType ==
  ASSUME NEW g \in Groups, NEW n \in Nat
  PROVE  /\ g \in Nat /\ Base(g, n) \in Nat
         /\ Base(g, n + 1) = Base(g, n) + BlockSize * 2 * MaxBlocks
         /\ Base(g, 0) = g * (2 * BlockSize)
<1>1. g \in Nat /\ BlockSize \in Nat /\ MaxBlocks \in Nat /\ MaxBlocks - 1 \in Int
  BY Parameters DEF Groups
<1>2. PICK a \in Nat : a = 2 * BlockSize
  BY <1>1
<1>3. PICK p \in Nat : p = MaxBlocks * n
  BY <1>1
<1>4. MaxBlocks * (n + 1) = p + MaxBlocks /\ MaxBlocks * 0 = 0
  BY <1>1, <1>3
<1>5. Base(g, n) = a * (g + p) /\ Base(g, n + 1) = a * (g + (p + MaxBlocks))
      /\ Base(g, 0) = a * (g + 0)
  BY <1>2, <1>3, <1>4 DEF Base
<1>6. a * (g + p) \in Nat /\ a * (g + (p + MaxBlocks)) = a * (g + p) + a * MaxBlocks
      /\ a * (g + 0) = g * a /\ a * MaxBlocks = BlockSize * 2 * MaxBlocks
  BY <1>1, <1>2
<1>. QED
  BY <1>1, <1>2, <1>5, <1>6

(* An element is read by slot t of group g in round k, and in no other.    *)
LEMMA RoundOf ==
  ASSUME NEW g \in Groups, NEW t \in 0..BlockSize-1, NEW e \in Nat, NEW n \in Nat
  PROVE  /\ e \in {Base(g, n) + t, Base(g, n) + t + BlockSize}
              => ReaderOf(e) = g /\ e % BlockSize = t
         /\ ReaderOf(e) = g /\ e % BlockSize = t =>
              \/ e < Base(g, n)
              \/ e \in {Base(g, n) + t, Base(g, n) + t + BlockSize}
              \/ e >= Base(g, n + 1) + t
<1>1. PICK a \in Nat \ {0} : a = 2 * BlockSize
  BY Parameters
<1>2. /\ g \in Nat /\ g < MaxBlocks /\ MaxBlocks \in Nat \ {0} /\ BlockSize \in Nat \ {0}
      /\ t \in Nat /\ t < BlockSize
  BY Parameters DEF Groups
<1>3. PICK q \in Nat, r \in 0..a-1 : e = a * q + r /\ q = e \div a /\ r = e % a
  BY <1>1, DivMod
<1>4. PICK k \in Nat, h \in 0..MaxBlocks-1 : q = MaxBlocks * k + h /\ h = ReaderOf(e)
  <2>1. ReaderOf(e) = q % MaxBlocks
    BY <1>1, <1>3 DEF ReaderOf
  <2>2. q = MaxBlocks * (q \div MaxBlocks) + (q % MaxBlocks)
        /\ q \div MaxBlocks \in Nat /\ q % MaxBlocks \in 0..MaxBlocks-1
    BY <1>2, DivMod
  <2>. QED
    BY <2>1, <2>2
<1>5. e % BlockSize = t <=> r \in {t, t + BlockSize}
  <2>1. r = e % (2 * BlockSize)
    BY <1>1, <1>3
  <2>2. e % BlockSize = t <=> e % (2 * BlockSize) \in {t, t + BlockSize}
    BY <1>2, ModFolds
  <2>. QED
    BY <2>1, <2>2
<1>6. PICK m \in Nat : m = g + MaxBlocks * n
  BY <1>2
<1>7. Base(g, n) = a * m /\ a * m \in Nat /\ a * q \in Nat
  BY <1>1, <1>6 DEF Base
<1>8. Base(g, n + 1) = a * (m + MaxBlocks) /\ m + MaxBlocks \in Nat
  <2>1. MaxBlocks * (n + 1) = MaxBlocks * n + MaxBlocks /\ MaxBlocks * n \in Nat
    BY <1>2
  <2>. QED
    BY <1>1, <1>2, <1>6, <2>1 DEF Base
<1>9. ASSUME e \in {Base(g, n) + t, Base(g, n) + t + BlockSize}
      PROVE  ReaderOf(e) = g /\ e % BlockSize = t
  <2>1. PICK s \in {t, t + BlockSize} : e = a * m + s
    BY <1>2, <1>7, <1>9
  <2>2. s \in 0..a-1
    BY <1>1, <1>2, <2>1
  <2>3. m = q /\ s = r
    BY <1>3, <2>1, <2>2, Quotients
  <2>4. PICK b \in Nat \ {0} :
          b * n + g = b * k + h /\ g \in 0..b-1 /\ h \in 0..b-1
    <3>1. MaxBlocks * n \in Nat
      BY <1>2
    <3>2. MaxBlocks * n + g = MaxBlocks * k + h
      BY <1>2, <1>4, <1>6, <2>3, <3>1
    <3>. QED
      BY <1>2, <3>2
  <2>5. g = h
    BY <2>4, Quotients
  <2>. QED
    BY <1>4, <1>5, <2>1, <2>3, <2>5
<1>10. ASSUME ReaderOf(e) = g, e % BlockSize = t
       PROVE  \/ e < Base(g, n)
              \/ e \in {Base(g, n) + t, Base(g, n) + t + BlockSize}
              \/ e >= Base(g, n + 1) + t
  <2>1. r \in {t, t + BlockSize} /\ r < a /\ h = g
    <3>1. r \in {t, t + BlockSize} /\ h = g
      BY <1>4, <1>5, <1>10
    <3>. QED
      BY <1>1, <1>3, <3>1
  <2>2. CASE k < n
    <3>1. PICK d \in Nat : n = (k + 1) + d
      BY <2>2, Gap
    <3>2. MaxBlocks * n = MaxBlocks * k + MaxBlocks + MaxBlocks * d /\ MaxBlocks * d \in Nat
          /\ MaxBlocks * k \in Nat
      BY <1>2, <3>1
    <3>3. q + 1 <= m
      BY <1>2, <1>4, <1>6, <2>1, <3>2
    <3>4. PICK c \in Nat : m = (q + 1) + c
      BY <3>3, Gap
    <3>5. a * m = a * q + a + a * c /\ a * c \in Nat
      BY <3>4
    <3>. QED
      BY <1>3, <1>7, <2>1, <3>5
  <2>3. CASE k = n
    <3>1. q = m
      BY <1>2, <1>4, <1>6, <2>1, <2>3
    <3>2. Base(g, n) = a * q
      BY <1>7, <3>1
    <3>3. e = Base(g, n) + r /\ Base(g, n) \in Nat
      BY <1>3, <1>7, <3>2
    <3>. QED
      BY <1>2, <2>1, <3>3
  <2>4. CASE k > n
    <3>1. PICK d \in Nat : k = (n + 1) + d
      BY <2>4, Gap
    <3>2. MaxBlocks * k = MaxBlocks * n + MaxBlocks + MaxBlocks * d /\ MaxBlocks * d \in Nat
          /\ MaxBlocks * n \in Nat
      BY <1>2, <3>1
    <3>3. m + MaxBlocks <= q
      BY <1>2, <1>4, <1>6, <2>1, <3>2
    <3>4. PICK c \in Nat : q = (m + MaxBlocks) + c
      BY <1>8, <3>3, Gap
    <3>5. a * q = a * (m + MaxBlocks) + a * c /\ a * c \in Nat /\ a * (m + MaxBlocks) \in Nat
      BY <1>8, <3>4
    <3>. QED
      BY <1>2, <1>3, <1>8, <2>1, <3>5
  <2>. QED
    BY <2>2, <2>3, <2>4
<1>. QED
  BY <1>9, <1>10

(* Before its first round a slot stands for nothing; a round adds what the *)
(* work-item reads; and past the end of the vector it has all of its own.  *)
LEMMA RoundReads ==
  ASSUME size \in Nat, NEW g \in Groups, NEW t \in 0..BlockSize-1, NEW n \in Nat
  PROVE  /\ Read(g, t, Base(g, 0)) = {}
         /\ Read(g, t, Base(g, n)) \cap ReadBy(Base(g, n) + t) = {}
         /\ Read(g, t, Base(g, n + 1)) = Read(g, t, Base(g, n)) \cup ReadBy(Base(g, n) + t)
         /\ Base(g, n) + t >= size => Read(g, t, Base(g, n)) = Fold(g, t, BlockSize)
<1>1. /\ g \in Nat /\ t \in Nat /\ t < BlockSize /\ BlockSize \in Nat \ {0} /\ MaxBlocks \in Nat \ {0}
      /\ g < MaxBlocks
  BY Parameters DEF Groups
<1>2. /\ Base(g, n) \in Nat /\ Base(g, n + 1) \in Nat /\ n + 1 \in Nat
      /\ Base(g, n + 1) = Base(g, n) + BlockSize * 2 * MaxBlocks
      /\ Base(g, 0) = g * (2 * BlockSize)
  BY BaseType
<1>3. BlockSize * 2 * MaxBlocks >= 2 * BlockSize
  <2>1. PICK b \in Nat : b = 2 * BlockSize
    BY <1>1
  <2>2. PICK c \in Nat : MaxBlocks = 1 + c
    BY <1>1, Gap
  <2>3. b * MaxBlocks = b + b * c /\ b * c \in Nat
    BY <2>2
  <2>4. BlockSize * 2 * MaxBlocks = b * MaxBlocks
    BY <1>1, <2>1
  <2>. QED
    BY <2>1, <2>3, <2>4
<1>4. ASSUME NEW e \in Fold(g, t, BlockSize), e < Base(g, 0) PROVE FALSE
  <2>1. e \in Nat /\ ReaderOf(e) = g
    BY <1>4 DEF Fold
  <2>2. PICK a \in Nat \ {0} : a = 2 * BlockSize
    BY <1>1
  <2>3. PICK q \in Nat, r \in 0..a-1 : e = a * q + r /\ q = e \div a
    BY <2>1, <2>2, DivMod
  <2>4. q < g
    <3>. SUFFICES ASSUME g <= q PROVE FALSE
      BY <1>1, <2>3
    <3>1. PICK d \in Nat : q = g + d
      BY <1>1, Gap
    <3>2. a * q = a * g + a * d /\ a * d \in Nat /\ a * g = g * a /\ a * g \in Nat
      BY <1>1, <3>1
    <3>. QED
      BY <1>2, <1>4, <2>1, <2>2, <2>3, <3>2
  <2>5. PICK k \in Nat, h \in 0..MaxBlocks-1 : q = MaxBlocks * k + h /\ h = ReaderOf(e)
    <3>1. ReaderOf(e) = q % MaxBlocks
      BY <2>2, <2>3 DEF ReaderOf
    <3>2. q = MaxBlocks * (q \div MaxBlocks) + (q % MaxBlocks)
          /\ q \div MaxBlocks \in Nat /\ q % MaxBlocks \in 0..MaxBlocks-1
      BY <1>1, DivMod
    <3>. QED
      BY <3>1, <3>2
  <2>6. MaxBlocks * k \in Nat
    BY <1>1
  <2>. QED
    BY <1>1, <2>1, <2>4, <2>5, <2>6
<1>5. ReadBy(Base(g, n) + t) =
        {e \in {Base(g, n) + t, Base(g, n) + t + BlockSize} : e < size}
  BY DEF ReadBy
<1>6. ASSUME NEW e
      PROVE  e \in Read(g, t, Base(g, n + 1)) <=>
               e \in Read(g, t, Base(g, n)) \/ e \in ReadBy(Base(g, n) + t)
  <2>1. ASSUME e \in Read(g, t, Base(g, n + 1)), ~ e \in Read(g, t, Base(g, n))
        PROVE  e \in ReadBy(Base(g, n) + t)
    <3>1. /\ e \in Nat /\ e < size /\ e < Base(g, n + 1) /\ ~ e < Base(g, n)
          /\ ReaderOf(e) = g /\ e % BlockSize = t
      BY <2>1 DEF Read, Fold
    <3>2. e \in {Base(g, n) + t, Base(g, n) + t + BlockSize}
      BY <1>1, <1>2, <3>1, RoundOf
    <3>. QED
      BY <1>5, <3>1, <3>2
  <2>2. ASSUME e \in Read(g, t, Base(g, n)) PROVE e \in Read(g, t, Base(g, n + 1))
    <3>1. e \in Fold(g, t, BlockSize) /\ e < Base(g, n) /\ e \in Nat
      BY <2>2 DEF Read, Fold
    <3>. QED
      BY <1>1, <1>2, <1>3, <3>1 DEF Read
  <2>3. ASSUME e \in ReadBy(Base(g, n) + t) PROVE e \in Read(g, t, Base(g, n + 1))
    <3>1. /\ e \in {Base(g, n) + t, Base(g, n) + t + BlockSize} /\ e < size /\ e \in Nat
      BY <1>1, <1>2, <1>5, <2>3
    <3>2. ReaderOf(e) = g /\ e % BlockSize = t
      BY <3>1, RoundOf
    <3>3. e < Base(g, n + 1)
      BY <1>1, <1>2, <1>3, <3>1
    <3>. QED
      BY <3>1, <3>2, <3>3 DEF Read, Fold
  <2>. QED
    BY <2>1, <2>2, <2>3
<1>7. Read(g, t, Base(g, n)) \cap ReadBy(Base(g, n) + t) = {}
  <2>1. \A e \in Read(g, t, Base(g, n)) : e \in Nat /\ e < Base(g, n)
    BY DEF Read, Fold
  <2>2. \A e \in ReadBy(Base(g, n) + t) : e >= Base(g, n)
    BY <1>1, <1>2, <1>5
  <2>. QED
    BY <1>2, <2>1, <2>2
<1>8. ASSUME Base(g, n) + t >= size, NEW e \in Fold(g, t, BlockSize)
      PROVE  e < Base(g, n)
  <2>1. e \in Nat /\ e < size /\ ReaderOf(e) = g /\ e % BlockSize = t
    BY <1>8 DEF Fold
  <2>2. \/ e < Base(g, n)
        \/ e \in {Base(g, n) + t, Base(g, n) + t + BlockSize}
        \/ e >= Base(g, n + 1) + t
    BY <2>1, RoundOf
  <2>. QED
    BY <1>1, <1>2, <1>3, <1>8, <2>1, <2>2
<1>. QED
  BY <1>4, <1>6, <1>7, <1>8 DEF Read

(* A slot of S that takes in the one S further stands for what S slots do. *)
LEMMA FoldSplits ==
  ASSUME size \in Nat, NEW g, NEW S \in Nat \ {0}, NEW t \in 0..S-1
  PROVE  /\ Fold(g, t, 2 * S) \cap Fold(g, t + S, 2 * S) = {}
         /\ Fold(g, t, S) = Fold(g, t, 2 * S) \cup Fold(g, t + S, 2 * S)
<1>1. ASSUME NEW x \in 0..size-1
      PROVE  x % S = t <=> x % (2 * S) = t \/ x % (2 * S) = t + S
  <2>1. x \in Nat
    OBVIOUS
  <2>2. x % S = t <=> x % (2 * S) \in {t, t + S}
    BY <2>1, ModFolds
  <2>. QED
    BY <2>2
<1>2. t # t + S
  OBVIOUS
<1>3. \A x : x \in Fold(g, t, S) <=> x \in Fold(g, t, 2 * S) \/ x \in Fold(g, t + S, 2 * S)
  BY <1>1 DEF Fold
<1>4. \A x : ~ (x \in Fold(g, t, 2 * S) /\ x \in Fold(g, t + S, 2 * S))
  BY <1>2 DEF Fold
<1>. QED
  BY <1>3, <1>4

(* The elements of the groups before one, and its own.                     *)
LEMMA BeforeGrows ==
  ASSUME size \in Nat
  PROVE  /\ Before(0) = {} /\ Before(MaxBlocks) = 0..size-1
         /\ \A n \in Groups : /\ Before(n) \cap Fold(n, 0, 1) = {}
                              /\ Before(n + 1) = Before(n) \cup Fold(n, 0, 1)
<1>1. ASSUME NEW e \in 0..size-1 PROVE ReaderOf(e) \in 0..MaxBlocks-1 /\ e % 1 = 0
  <2>1. e \div (2 * BlockSize) \in Nat
    <3>1. 2 * BlockSize \in Nat \ {0} /\ e \in Nat
      BY Parameters
    <3>. QED
      BY <3>1, DivMod
  <2>2. ReaderOf(e) \in 0..MaxBlocks-1
    BY <2>1, Parameters, DivMod DEF ReaderOf
  <2>3. e % 1 \in 0..1-1
    BY DivMod
  <2>. QED
    BY <2>2, <2>3
<1>. QED
  BY <1>1, Parameters DEF Before, Fold, Groups

-----------------------------------------------------------------------------
(* Formal sums.                                                            *)

LEMMA EachType == \A S : Each(Terms, S) \in Sum
BY DEF Each, Sum, Sums

LEMMA PlusType == ASSUME NEW a \in Sum, NEW b \in Sum PROVE a ++ b \in Sum
BY DEF Sum, Sums, ++

LEMMA JunkType == Junk \in Sum /\ None \in Sum
BY DEF Junk, Only, None, Zero, Sum, Sums

LEMMA EachSplits ==
  ASSUME NEW A, NEW B, A \cap B = {}
  PROVE  Each(Terms, A) ++ Each(Terms, B) = Each(Terms, A \cup B)
BY DEF Each, ++

-----------------------------------------------------------------------------
(* What a step leaves alone.                                               *)

LEMMA SizeStays ==
  ASSUME size' = size
  PROVE  /\ Items' = Items /\ Warps' = Warps /\ Terms' = Terms /\ Sum' = Sum
         /\ Junk' = Junk /\ None' = None /\ Threads' = Threads
         /\ \A w : Lanes(w)' = Lanes(w)
         /\ \A g, t, S : Fold(g, t, S)' = Fold(g, t, S)
         /\ \A g, t, n : Read(g, t, n)' = Read(g, t, n)
         /\ \A n : Before(n)' = Before(n)
<1>1. Threads' = Threads /\ Terms' = Terms
  BY DEF Threads, Terms
<1>2. Items' = Items
  BY <1>1 DEF Items
<1>3. Warps' = Warps /\ Sum' = Sum /\ Junk' = Junk /\ None' = None
  BY <1>1 DEF Warps, Sum, Junk, None, Stale
<1>4. \A w : Lanes(w)' = Lanes(w)
  BY <1>2 DEF Lanes
<1>5. \A g, t, S : Fold(g, t, S)' = Fold(g, t, S)
  BY DEF Fold
<1>6. \A g, t, n : Read(g, t, n)' = Read(g, t, n)
  BY <1>5 DEF Read
<1>7. \A n : Before(n)' = Before(n)
  BY DEF Before
<1>. QED
  BY <1>1, <1>2, <1>3, <1>4, <1>5, <1>6, <1>7

LEMMA OtherGroup ==
  ASSUME size' = size, NEW g \in Groups, PhaseOf(g), pc'[g] = pc[g], i'[g] = i[g],
         stride'[g] = stride[g], sdata'[g] = sdata[g], out'[g] = out[g]
  PROVE  PhaseOf(g)'
<1>1. Loading(g) => Loading(g)'
  BY SizeStays DEF Loading, LoadingIn
<1>2. ASSUME NEW S, Folding(g, S) PROVE Folding(g, S)'
  BY <1>2, SizeStays DEF Folding, FoldingIn
<1>3. ASSUME NEW s, Synced(g, s) PROVE Synced(g, s)'
  BY <1>3, SizeStays DEF Synced
<1>. QED
  BY <1>1, <1>2, <1>3 DEF PhaseOf

(* What is known of the result stays with it.                              *)
LEMMA SummedStays ==
  ASSUME UNCHANGED <<size, j, result>>
  PROVE  Summed' = Summed
<1>1. Before(j)' = Before(j) /\ Terms' = Terms /\ Stale' = Stale
  BY SizeStays DEF Before, Stale
<1>. QED
  BY <1>1 DEF Summed

(* While the first kernel runs, nothing else moves.                        *)
LEMMA Running ==
  ASSUME Commands, Results, queue # <<>>, Head(queue) = "reduce",
         UNCHANGED <<size, form, host, queue, j, result>>
  PROVE  ~ Ran /\ Commands' /\ Results'
<1>1. queue \in {<<"reduce">>, <<"reduce", "zero">>}
  BY DEF Commands
<1>2. ~ Ran /\ ~ Ran'
  BY <1>1 DEF Ran
<1>3. Commands'
  BY DEF Commands
<1>4. Unwritten' = Unwritten
  BY DEF Unwritten
<1>5. Summed' = Summed
  BY SummedStays
<1>. QED
  BY <1>2, <1>3, <1>4, <1>5 DEF Results

(* In which phase a group is when one of its warps is there.               *)
LEMMA WhichPhase ==
  ASSUME NEW g \in Groups, PhaseOf(g), size \in Sizes, Wide, size > BlockSize, NEW w \in Warps
  PROVE  /\ pc[g][w] \in {"start", "load"} => Loading(g)
         /\ pc[g][w] = "barrier" => Loading(g) \/ \E S \in Powers : Folding(g, S)
         /\ pc[g][w] = "tree" /\ stride[g][w] > SyncWidth => \E S \in Powers : Folding(g, S)
         /\ pc[g][w] = "tree" /\ stride[g][w] <= SyncWidth =>
              \E s \in Powers \cup {0} : Synced(g, s)
<1>1. Loading(g) => pc[g][w] \in {"start", "load", "barrier"}
  BY DEF Loading, LoadingIn
<1>2. ASSUME NEW S \in Powers, Folding(g, S)
      PROVE  pc[g][w] = "barrier" \/ (pc[g][w] = "tree" /\ stride[g][w] > SyncWidth)
  BY <1>2, Parameters DEF Folding, FoldingIn, Powers
<1>3. ASSUME NEW s \in Powers \cup {0}, Synced(g, s)
      PROVE  pc[g][w] \in {"tree", "exit"} /\ stride[g][w] <= SyncWidth
  BY <1>3, Parameters DEF Synced
<1>4. ASSUME \E S \in Powers : Folding(g, S)
      PROVE  pc[g][w] = "barrier" \/ (pc[g][w] = "tree" /\ stride[g][w] > SyncWidth)
  BY <1>2, <1>4
<1>5. ASSUME \E s \in Powers \cup {0} : Synced(g, s)
      PROVE  pc[g][w] \in {"tree", "exit"} /\ stride[g][w] <= SyncWidth
  BY <1>3, <1>5
<1>6. (\E S \in Powers : Folding(g, S)) => ~ (pc[g][w] = "tree" /\ stride[g][w] <= SyncWidth)
  <2>1. ASSUME NEW S \in Powers, Folding(g, S), pc[g][w] = "tree" PROVE stride[g][w] = S /\ S > SyncWidth
    BY <2>1 DEF Folding, FoldingIn
  <2>. QED
    BY <2>1, Parameters DEF Powers
<1>7. (\E s \in Powers \cup {0} : Synced(g, s)) => ~ stride[g][w] > SyncWidth
  <2>1. ASSUME NEW s \in Powers \cup {0}, Synced(g, s) PROVE stride[g][w] \in Nat /\ stride[g][w] <= SyncWidth
    BY <2>1, Parameters DEF Synced, Powers
  <2>. QED
    BY <2>1, Parameters
<1>. QED
  BY <1>1, <1>4, <1>5, <1>6, <1>7 DEF PhaseOf

(* What a warp's step leaves of the other warps and groups.                *)
LEMMA WarpFrame ==
  ASSUME TypeOK, Wide, size > BlockSize, size' = size, NEW g \in Groups, NEW w \in Warps,
         NEW items, items \subseteq Lanes(w),
         \A h \in Groups : h # g =>
           /\ pc'[h] = pc[h] /\ i'[h] = i[h] /\ stride'[h] = stride[h]
           /\ sdata'[h] = sdata[h] /\ out'[h] = out[h],
         \A v \in Warps : v # w => pc'[g][v] = pc[g][v] /\ stride'[g][v] = stride[g][v]
                                   /\ i'[g][v] = i[g][v],
         \A t \in Items : ~ t \in items => sdata'[g][t] = sdata[g][t]
  PROVE  /\ LongPhases => \A h \in Groups : h # g => PhaseOf(h)'
         /\ \A v \in Warps : v # w => \A t \in Lanes(v) : sdata'[g][t] = sdata[g][t]
         /\ \A v \in Warps : v # w /\ LoadingIn(g, v) => LoadingIn(g, v)'
         /\ \A v \in Warps : v # w => \A S : FoldingIn(g, v, S) => FoldingIn(g, v, S)'
<1>1. ASSUME NEW h \in Groups, h # g, PhaseOf(h) PROVE PhaseOf(h)'
  BY <1>1, OtherGroup
<1>2. size \in Sizes
  BY DEF TypeOK
<1>3. ASSUME NEW v \in Warps, v # w, NEW t \in Lanes(v) PROVE sdata'[g][t] = sdata[g][t]
  <2>1. t \in Items /\ ~ t \in Lanes(w)
    BY <1>2, <1>3, LanesAre
  <2>. QED
    BY <2>1
<1>4. ASSUME NEW v \in Warps, v # w, LoadingIn(g, v) PROVE LoadingIn(g, v)'
  <2>1. pc'[g][v] = pc[g][v] /\ stride'[g][v] = stride[g][v] /\ i'[g][v] = i[g][v]
    BY <1>4
  <2>2. \A t \in Lanes(v) : sdata'[g][t] = sdata[g][t]
    BY <1>3, <1>4
  <2>. QED
    BY <1>4, <2>1, <2>2, SizeStays DEF LoadingIn
<1>5. ASSUME NEW v \in Warps, v # w, NEW S, FoldingIn(g, v, S) PROVE FoldingIn(g, v, S)'
  <2>1. pc'[g][v] = pc[g][v] /\ stride'[g][v] = stride[g][v]
    BY <1>5
  <2>2. \A t \in Lanes(v) : sdata'[g][t] = sdata[g][t]
    BY <1>3, <1>5
  <2>. QED
    BY <1>5, <2>1, <2>2, SizeStays DEF FoldingIn
<1>. QED
  BY <1>1, <1>3, <1>4, <1>5 DEF LongPhases

LEMMA SlotsFunction ==
  ASSUME TypeOK, NEW g \in Groups, NEW F \in [Items -> Sum], sdata' = [sdata EXCEPT ![g] = F]
  PROVE  /\ sdata' \in [Groups -> [Items -> Sum]] /\ sdata'[g] = F
         /\ \A h \in Groups : h # g => sdata'[h] = sdata[h]
BY DEF TypeOK

LEMMA StartStep ==
  ASSUME TypeOK, LongPhases, Wide, size > BlockSize, NEW g \in Groups, NEW w \in Warps, Start(g, w)
  PROVE  TypeOK' /\ LongPhases'
<1>. size \in Sizes /\ size \in Nat /\ size' = size
  BY ReduceAssumption DEF TypeOK, Start
<1>1. Loading(g)
  BY WhichPhase DEF LongPhases, Start, Step
<1> DEFINE F == [t \in Items |-> IF t \in Lanes(w) THEN None ELSE sdata[g][t]]
<1>2. F \in [Items -> Sum] /\ sdata' = [sdata EXCEPT ![g] = F]
  BY JunkType DEF Start, TypeOK
<1>3. /\ sdata' \in [Groups -> [Items -> Sum]] /\ sdata'[g] = F
      /\ \A h \in Groups : h # g => sdata'[h] = sdata[h]
  <2>. HIDE DEF F
  <2>. QED
    BY <1>2, SlotsFunction
<1>4. /\ i' \in [Groups -> [Warps -> Nat]] /\ i'[g][w] = Base(g, 0)
      /\ \A v \in Warps : v # w => i'[g][v] = i[g][v]
      /\ \A h \in Groups : h # g => i'[h] = i[h]
  <2>1. g * (2 * Threads) = Base(g, 0) /\ Base(g, 0) \in Nat
    BY BaseType, ThreadsAre
  <2>. QED
    BY <2>1 DEF Start, TypeOK
<1>5. /\ pc' \in [Groups -> [Warps -> {"start", "load", "barrier", "tree", "exit"}]]
      /\ pc'[g][w] = "load" /\ \A v \in Warps : v # w => pc'[g][v] = pc[g][v]
      /\ \A h \in Groups : h # g => pc'[h] = pc[h]
  BY DEF Start, Goto, TypeOK
<1>6. stride' = stride /\ out' = out
  BY DEF Start
<1>7. TypeOK'
  BY <1>3, <1>4, <1>5, <1>6, SizeStays DEF TypeOK, Start
<1>8. /\ \A h \in Groups : h # g => PhaseOf(h)'
      /\ \A v \in Warps : v # w /\ LoadingIn(g, v) => LoadingIn(g, v)'
  <2>1. \A t \in Items : ~ t \in Lanes(w) => sdata'[g][t] = sdata[g][t]
    BY <1>3
  <2>. HIDE DEF F
  <2>. QED
    BY <1>3, <1>4, <1>5, <1>6, <2>1, WarpFrame
<1>9. ASSUME NEW t \in Lanes(w) PROVE sdata'[g][t] = Each(Terms, Read(g, t, Base(g, 0)))
  <2>1. t \in Items /\ t \in 0..BlockSize-1
    BY LanesAre, ThreadsAre
  <2>2. sdata'[g][t] = None
    BY <1>3, <2>1
  <2>3. Read(g, t, Base(g, 0)) = {}
    BY <2>1, RoundReads
  <2>. QED
    BY <2>2, <2>3 DEF None, Zero, Each
<1>10. LoadingIn(g, w)'
  <2>1. stride'[g][w] = BlockSize \div 2
    BY <1>1, <1>6 DEF Loading, LoadingIn
  <2>. HIDE DEF F
  <2>. QED
    BY <2>1, <1>4, <1>5, <1>9, SizeStays DEF LoadingIn
<1>11. Loading(g)'
  <2>. HIDE DEF F
  <2>1. \A v \in Warps : LoadingIn(g, v)'
    BY <1>1, <1>8, <1>10 DEF Loading
  <2>. QED
    BY <2>1, SizeStays DEF Loading
<1>. HIDE DEF F
<1>. QED
  BY <1>7, <1>8, <1>11 DEF LongPhases, PhaseOf

LEMMA LoadStep ==
  ASSUME TypeOK, LongPhases, Wide, size > BlockSize, NEW g \in Groups, NEW w \in Warps, Load(g, w)
  PROVE  TypeOK' /\ LongPhases'
<1>. size \in Sizes /\ size \in Nat /\ size' = size
  BY ReduceAssumption DEF TypeOK, Load
<1>1. Loading(g)
  BY WhichPhase DEF LongPhases, Load, Step
<1>2. PICK n \in Nat : /\ i[g][w] = Base(g, n)
                       /\ \A t \in Lanes(w) : sdata[g][t] = Each(Terms, Read(g, t, Base(g, n)))
  BY <1>1 DEF Loading, LoadingIn, Load, Step
<1> DEFINE F == [t \in Items |->
                   IF t \in Lanes(w)
                   THEN sdata[g][t] ++ Each(Terms, ReadBy(i[g][w] + t)) ELSE sdata[g][t]]
<1>3. F \in [Items -> Sum] /\ sdata' = [sdata EXCEPT ![g] = F]
  <2>1. \A t \in Items : sdata[g][t] ++ Each(Terms, ReadBy(i[g][w] + t)) \in Sum
    BY EachType, PlusType DEF TypeOK
  <2>. QED
    BY <2>1 DEF Load, TypeOK
<1>4. /\ sdata' \in [Groups -> [Items -> Sum]] /\ sdata'[g] = F
      /\ \A h \in Groups : h # g => sdata'[h] = sdata[h]
  <2>. HIDE DEF F
  <2>. QED
    BY <1>3, SlotsFunction
<1>5. /\ i' \in [Groups -> [Warps -> Nat]] /\ i'[g][w] = Base(g, n + 1)
      /\ \A v \in Warps : v # w => i'[g][v] = i[g][v]
      /\ \A h \in Groups : h # g => i'[h] = i[h]
  <2>1. i[g][w] + BlockSize * 2 * MaxBlocks = Base(g, n + 1) /\ Base(g, n + 1) \in Nat
    BY <1>2, BaseType
  <2>. QED
    BY <2>1 DEF Load, TypeOK
<1>6. pc' = pc /\ stride' = stride /\ out' = out
  BY DEF Load
<1>7. TypeOK'
  BY <1>4, <1>5, <1>6, SizeStays DEF TypeOK, Load
<1>8. /\ \A h \in Groups : h # g => PhaseOf(h)'
      /\ \A v \in Warps : v # w /\ LoadingIn(g, v) => LoadingIn(g, v)'
  <2>1. \A t \in Items : ~ t \in Lanes(w) => sdata'[g][t] = sdata[g][t]
    BY <1>4
  <2>. HIDE DEF F
  <2>. QED
    BY <1>4, <1>5, <1>6, <2>1, WarpFrame
<1>9. ASSUME NEW t \in Lanes(w) PROVE sdata'[g][t] = Each(Terms, Read(g, t, Base(g, n + 1)))
  <2>1. t \in Items /\ t \in 0..BlockSize-1
    BY LanesAre, ThreadsAre
  <2>2. sdata'[g][t] = Each(Terms, Read(g, t, Base(g, n)))
                         ++ Each(Terms, ReadBy(Base(g, n) + t))
    BY <1>2, <1>4, <2>1
  <2>3. /\ Read(g, t, Base(g, n)) \cap ReadBy(Base(g, n) + t) = {}
        /\ Read(g, t, Base(g, n + 1)) = Read(g, t, Base(g, n)) \cup ReadBy(Base(g, n) + t)
    BY <2>1, RoundReads
  <2>. QED
    BY <2>2, <2>3, EachSplits
<1>10. LoadingIn(g, w)'
  <2>1. stride'[g][w] = BlockSize \div 2 /\ pc'[g][w] = "load"
    BY <1>1, <1>6 DEF Loading, LoadingIn, Load, Step
  <2>2. n + 1 \in Nat
    OBVIOUS
  <2>. HIDE DEF F
  <2>. QED
    BY <2>1, <2>2, <1>5, <1>9, SizeStays DEF LoadingIn
<1>11. Loading(g)'
  <2>. HIDE DEF F
  <2>1. \A v \in Warps : LoadingIn(g, v)'
    BY <1>1, <1>8, <1>10 DEF Loading
  <2>. QED
    BY <2>1, SizeStays DEF Loading
<1>. HIDE DEF F
<1>. QED
  BY <1>7, <1>8, <1>11 DEF LongPhases, PhaseOf

LEMMA LoadedStep ==
  ASSUME TypeOK, LongPhases, Wide, size > BlockSize, NEW g \in Groups, NEW w \in Warps, Loaded(g, w)
  PROVE  TypeOK' /\ LongPhases'
<1>. size \in Sizes /\ size \in Nat /\ size' = size
  BY ReduceAssumption DEF TypeOK, Loaded
<1>1. Loading(g)
  BY WhichPhase DEF LongPhases, Loaded, Step
<1>2. PICK n \in Nat : /\ i[g][w] = Base(g, n)
                       /\ \A t \in Lanes(w) : sdata[g][t] = Each(Terms, Read(g, t, Base(g, n)))
  BY <1>1 DEF Loading, LoadingIn, Loaded, Step
<1>3. /\ pc' \in [Groups -> [Warps -> {"start", "load", "barrier", "tree", "exit"}]]
      /\ pc'[g][w] = "barrier" /\ \A v \in Warps : v # w => pc'[g][v] = pc[g][v]
      /\ \A h \in Groups : h # g => pc'[h] = pc[h]
  BY DEF Loaded, Goto, TypeOK
<1>4. sdata' = sdata /\ i' = i /\ stride' = stride /\ out' = out
  BY DEF Loaded
<1>5. TypeOK'
  BY <1>3, <1>4, SizeStays DEF TypeOK, Loaded
<1>6. /\ \A h \in Groups : h # g => PhaseOf(h)'
      /\ \A v \in Warps : v # w /\ LoadingIn(g, v) => LoadingIn(g, v)'
  BY <1>3, <1>4, WarpFrame
<1>7. ASSUME NEW t \in Lanes(w) PROVE sdata'[g][t] = Each(Terms, Fold(g, t, BlockSize))
  <2>1. t \in Items /\ t \in 0..BlockSize-1
    BY LanesAre, ThreadsAre
  <2>2. Base(g, n) + t >= size
    BY <1>2 DEF Loaded
  <2>. QED
    BY <1>2, <1>4, <2>1, <2>2, RoundReads
<1>8. LoadingIn(g, w)'
  <2>1. stride'[g][w] = BlockSize \div 2
    BY <1>1, <1>4 DEF Loading, LoadingIn
  <2>. QED
    BY <2>1, <1>3, <1>7, SizeStays DEF LoadingIn
<1>9. Loading(g)'
  <2>1. \A v \in Warps : LoadingIn(g, v)'
    BY <1>1, <1>6, <1>8 DEF Loading
  <2>. QED
    BY <2>1, SizeStays DEF Loading
<1>. QED
  BY <1>5, <1>6, <1>9 DEF LongPhases, PhaseOf

LEMMA TreeStep ==
  ASSUME TypeOK, LongPhases, Wide, size > BlockSize, NEW g \in Groups, NEW w \in Warps, Tree(g, w)
  PROVE  TypeOK' /\ LongPhases'
<1>. size \in Sizes /\ size \in Nat /\ size' = size
  BY ReduceAssumption DEF TypeOK, Tree
<1>1. PICK S \in Powers : Folding(g, S)
  BY WhichPhase DEF LongPhases, Tree, Step
<1>2. /\ S \in Nat \ {0} /\ 2 * S <= BlockSize /\ BlockSize \in Nat
      /\ stride[g][w] = S /\ pc[g][w] = "tree"
      /\ \A t \in Lanes(w) : t < 2 * S => sdata[g][t] = Each(Terms, Fold(g, t, 2 * S))
  BY <1>1, Parameters DEF Folding, FoldingIn, Tree, Step, Powers
<1>3. ASSUME NEW t \in Items, S <= t, t < 2 * S
      PROVE  sdata[g][t] = Each(Terms, Fold(g, t, 2 * S))
  <2>1. PICK v \in Warps : t \in Lanes(v)
    BY LanesAre
  <2>2. FoldingIn(g, v, S)
    BY <1>1 DEF Folding
  <2>. QED
    BY <1>3, <2>1, <2>2 DEF FoldingIn
<1> DEFINE A == {t \in Lanes(w) : t < S}
<1> DEFINE F == [t \in Items |-> IF t \in A THEN sdata[g][t] ++ Slot(g, t + S) ELSE sdata[g][t]]
<1>4. F \in [Items -> Sum] /\ sdata' = [sdata EXCEPT ![g] = F]
  <2>1. \A t \in Items : sdata[g][t] ++ Slot(g, t + S) \in Sum
    BY PlusType, JunkType DEF TypeOK, Slot
  <2>2. A = Adders(g, w)
    BY <1>2 DEF Adders
  <2>. QED
    BY <1>2, <2>1, <2>2 DEF Tree, Add, TypeOK
<1>5. /\ sdata' \in [Groups -> [Items -> Sum]] /\ sdata'[g] = F
      /\ \A h \in Groups : h # g => sdata'[h] = sdata[h]
  <2>. HIDE DEF F
  <2>. QED
    BY <1>4, SlotsFunction
<1>6. /\ stride' \in [Groups -> [Warps -> 0..BlockSize]] /\ stride'[g][w] = S \div 2
      /\ \A v \in Warps : v # w => stride'[g][v] = stride[g][v]
      /\ \A h \in Groups : h # g => stride'[h] = stride[h]
  <2>1. S \div 2 \in 0..BlockSize
    BY <1>2
  <2>. QED
    BY <1>2, <2>1 DEF Tree, TypeOK
<1>7. /\ pc' \in [Groups -> [Warps -> {"start", "load", "barrier", "tree", "exit"}]]
      /\ pc'[g][w] = "barrier" /\ \A v \in Warps : v # w => pc'[g][v] = pc[g][v]
      /\ \A h \in Groups : h # g => pc'[h] = pc[h]
  BY DEF Tree, Goto, TypeOK
<1>8. i' = i /\ out' = out
  BY DEF Tree
<1>9. TypeOK'
  BY <1>5, <1>6, <1>7, <1>8, SizeStays DEF TypeOK, Tree
<1>10. /\ \A h \in Groups : h # g => PhaseOf(h)'
       /\ \A v \in Warps : v # w => \A R : FoldingIn(g, v, R) => FoldingIn(g, v, R)'
  <2>1. A \subseteq Lanes(w)
    OBVIOUS
  <2>2. \A t \in Items : ~ t \in A => sdata'[g][t] = sdata[g][t]
    BY <1>5
  <2>. HIDE DEF F, A
  <2>. QED
    BY <1>5, <1>6, <1>7, <1>8, <2>1, <2>2, WarpFrame
<1>11. ASSUME NEW t \in Lanes(w)
       PROVE  /\ t < S => sdata'[g][t] = Each(Terms, Fold(g, t, S))
              /\ S <= t /\ t < 2 * S => sdata'[g][t] = Each(Terms, Fold(g, t, 2 * S))
  <2>1. t \in Items /\ t \in 0..BlockSize-1
    BY LanesAre, ThreadsAre
  <2>2. ASSUME t < S PROVE sdata'[g][t] = Each(Terms, Fold(g, t, S))
    <3>1. t + S \in Items /\ S <= t + S /\ t + S < 2 * S
      BY <1>2, <2>1, <2>2, ThreadsAre
    <3>2. Slot(g, t + S) = Each(Terms, Fold(g, t + S, 2 * S))
      BY <1>3, <3>1 DEF Slot
    <3>3. sdata'[g][t] = Each(Terms, Fold(g, t, 2 * S)) ++ Each(Terms, Fold(g, t + S, 2 * S))
      <4>1. t < 2 * S
        BY <1>2, <2>1, <2>2
      <4>. QED
        BY <1>2, <1>5, <2>1, <2>2, <3>2, <4>1
    <3>4. t \in 0..S-1
      BY <1>2, <2>1, <2>2
    <3>5. /\ Fold(g, t, 2 * S) \cap Fold(g, t + S, 2 * S) = {}
          /\ Fold(g, t, S) = Fold(g, t, 2 * S) \cup Fold(g, t + S, 2 * S)
      BY <1>2, <3>4, FoldSplits
    <3>. QED
      BY <3>3, <3>5, EachSplits
  <2>3. ASSUME S <= t, t < 2 * S PROVE sdata'[g][t] = Each(Terms, Fold(g, t, 2 * S))
    <3>1. ~ t \in A
      BY <1>2, <2>1, <2>3
    <3>2. sdata'[g][t] = sdata[g][t]
      BY <1>5, <2>1, <3>1
    <3>. QED
      BY <1>2, <2>3, <3>2
  <2>. QED
    BY <2>2, <2>3
<1>12. FoldingIn(g, w, S)'
  <2>. HIDE DEF F, A
  <2>. QED
    BY <1>6, <1>7, <1>11, SizeStays DEF FoldingIn
<1>13. Folding(g, S)'
  <2>. HIDE DEF F, A
  <2>1. \A v \in Warps : FoldingIn(g, v, S)'
    BY <1>1, <1>10, <1>12 DEF Folding
  <2>. QED
    BY <1>1, <2>1, SizeStays DEF Folding
<1>. HIDE DEF F, A
<1>. QED
  BY <1>9, <1>10, <1>13 DEF LongPhases, PhaseOf

LEMMA BarrierStep ==
  ASSUME TypeOK, LongPhases, Wide, size > BlockSize, NEW g \in Groups, Barrier(g)
  PROVE  TypeOK' /\ LongPhases'
<1>. size \in Sizes /\ size \in Nat /\ size' = size
  BY ReduceAssumption DEF TypeOK, Barrier
<1>1. 0 \in Warps /\ \A w \in Warps : pc[g][w] = "barrier"
  BY LanesAre DEF Barrier, Step
<1>2. /\ pc' \in [Groups -> [Warps -> {"start", "load", "barrier", "tree", "exit"}]]
      /\ \A w \in Warps : pc'[g][w] = "tree"
      /\ \A h \in Groups : h # g => pc'[h] = pc[h]
  BY DEF Barrier, TypeOK
<1>3. sdata' = sdata /\ i' = i /\ stride' = stride /\ out' = out
  BY DEF Barrier
<1>4. TypeOK'
  BY <1>2, <1>3, SizeStays DEF TypeOK, Barrier
<1>5. ASSUME NEW h \in Groups, h # g PROVE PhaseOf(h)'
  BY <1>2, <1>3, <1>5, OtherGroup DEF LongPhases
<1>6. PICK S \in Powers :
        /\ S >= SyncWidth /\ 2 * S <= BlockSize
        /\ \A w \in Warps : stride[g][w] = S
        /\ \A w \in Warps : \A t \in Lanes(w) :
             t < 2 * S => sdata[g][t] = Each(Terms, Fold(g, t, 2 * S))
  <2>1. CASE Loading(g)
    <3>1. PICK S \in Nat \ {0} : S = BlockSize \div 2 /\ BlockSize = 2 * S
                                 /\ IsPowerOf2(S) /\ S >= SyncWidth
      BY Parameters
    <3>2. S \in Powers
      BY <3>1 DEF Powers
    <3>3. \A w \in Warps : LoadingIn(g, w)
      BY <2>1 DEF Loading
    <3>4. 2 * S <= BlockSize
      BY <3>1
    <3>5. \A w \in Warps : stride[g][w] = S
      BY <3>1, <3>3 DEF LoadingIn
    <3>6. \A w \in Warps : \A t \in Lanes(w) :
            sdata[g][t] = Each(Terms, Fold(g, t, 2 * S))
      BY <1>1, <3>1, <3>3 DEF LoadingIn
    <3>. QED
      BY <3>1, <3>2, <3>4, <3>5, <3>6
  <2>2. ASSUME NEW R \in Powers, Folding(g, R)
        PROVE  \E S \in Powers :
                 /\ S >= SyncWidth /\ 2 * S <= BlockSize
                 /\ \A w \in Warps : stride[g][w] = S
                 /\ \A w \in Warps : \A t \in Lanes(w) :
                      t < 2 * S => sdata[g][t] = Each(Terms, Fold(g, t, 2 * S))
    <3>1. R \in Nat \ {0} /\ IsPowerOf2(R) /\ R > SyncWidth /\ 2 * R <= BlockSize
      BY <2>2, Parameters DEF Powers, Folding
    <3>2. PICK S \in Nat \ {0} : S = R \div 2 /\ R = 2 * S /\ IsPowerOf2(S) /\ SyncWidth <= S
      <4>1. R \in Nat /\ R > 1 /\ SyncWidth \in Nat \ {0} /\ IsPowerOf2(SyncWidth)
        BY <3>1, Parameters
      <4>2. R \div 2 \in Nat \ {0} /\ R = 2 * (R \div 2) /\ IsPowerOf2(R \div 2)
        BY <3>1, <4>1, HalfOf
      <4>3. SyncWidth <= R \div 2
        BY <3>1, <4>1, HalfAbove
      <4>. QED
        BY <4>2, <4>3
    <3>3. S \in Powers /\ 2 * S <= BlockSize
      BY <3>1, <3>2, Parameters DEF Powers
    <3>4. \A w \in Warps : FoldingIn(g, w, R)
      BY <2>2 DEF Folding
    <3>5. \A w \in Warps : stride[g][w] = S
      BY <1>1, <3>2, <3>4 DEF FoldingIn
    <3>6. \A w \in Warps : \A t \in Lanes(w) :
            t < 2 * S => sdata[g][t] = Each(Terms, Fold(g, t, 2 * S))
      BY <1>1, <3>2, <3>4 DEF FoldingIn
    <3>. QED
      BY <3>2, <3>3, <3>5, <3>6
  <2>3. Loading(g) \/ \E R \in Powers : Folding(g, R)
    BY <1>1, WhichPhase DEF LongPhases
  <2>. QED
    BY <2>1, <2>2, <2>3
<1>7. S \in Nat \ {0} /\ SyncWidth \in Nat \ {0}
  BY Parameters DEF Powers
<1>8. CASE S > SyncWidth
  <2>1. \A w \in Warps : FoldingIn(g, w, S)'
    BY <1>2, <1>3, <1>6, SizeStays DEF FoldingIn
  <2>2. Folding(g, S)'
    BY <1>6, <1>8, <2>1, SizeStays DEF Folding
  <2>. QED
    BY <1>4, <1>5, <2>2 DEF LongPhases, PhaseOf
<1>9. CASE S = SyncWidth
  <2>1. Span(S) = 2 * S
    BY <1>7 DEF Span
  <2>2. ASSUME NEW t \in Items, t < Span(S)
        PROVE  sdata'[g][t] = Each(Terms, Fold(g, t, Span(S)))
    <3>1. PICK w \in Warps : t \in Lanes(w)
      BY LanesAre
    <3>. QED
      BY <1>3, <1>6, <2>1, <2>2, <3>1
  <2>3. /\ S <= SyncWidth /\ stride'[g][0] = S
        /\ \A w \in Warps : pc'[g][w] \in {"tree", "exit"} /\ stride'[g][w] = SyncWidth
        /\ pc'[g][0] # "exit"
    BY <1>1, <1>2, <1>3, <1>6, <1>7, <1>9
  <2>4. Synced(g, S)'
    BY <2>2, <2>3, SizeStays DEF Synced
  <2>. QED
    BY <1>4, <1>5, <2>4 DEF LongPhases, PhaseOf
<1>. QED
  BY <1>6, <1>7, <1>8, <1>9

LEMMA SyncStep ==
  ASSUME TypeOK, LongPhases, Wide, size > BlockSize, NEW g \in Groups, NEW w \in Warps, Sync(g, w)
  PROVE  TypeOK' /\ LongPhases'
<1>. size \in Sizes /\ size \in Nat /\ size' = size
  BY ReduceAssumption DEF TypeOK, Sync
<1>0. stride[g][w] \in Nat \ {0} /\ stride[g][w] <= SyncWidth /\ pc[g][w] = "tree"
  BY Parameters DEF Sync, Step
<1>1. PICK s \in Powers \cup {0} : Synced(g, s)
  BY <1>0, WhichPhase DEF LongPhases
<1>2. w = 0 /\ 0 \in Warps
  BY OneWarpSyncs, LanesAre DEF Sync
<1>3. /\ s \in Nat \ {0} /\ s \in Powers /\ s <= SyncWidth /\ stride[g][w] = s /\ Span(s) = 2 * s
      /\ 2 * SyncWidth <= BlockSize /\ SyncWidth \in Nat /\ BlockSize \in Nat
  BY <1>0, <1>1, <1>2, Parameters DEF Synced, Powers, Span
<1>4. \A t \in Items : t < 2 * s => sdata[g][t] = Each(Terms, Fold(g, t, 2 * s))
  BY <1>1, <1>3 DEF Synced
<1> DEFINE F == [t \in Items |-> IF t \in Syncing(w) THEN sdata[g][t] ++ Slot(g, t + s) ELSE sdata[g][t]]
<1>5. F \in [Items -> Sum] /\ sdata' = [sdata EXCEPT ![g] = F]
  <2>1. \A t \in Items : sdata[g][t] ++ Slot(g, t + s) \in Sum
    BY PlusType, JunkType DEF TypeOK, Slot
  <2>. QED
    BY <1>3, <2>1 DEF Sync, Add, TypeOK
<1>6. /\ sdata' \in [Groups -> [Items -> Sum]] /\ sdata'[g] = F
      /\ \A h \in Groups : h # g => sdata'[h] = sdata[h]
  <2>. HIDE DEF F
  <2>. QED
    BY <1>5, SlotsFunction
<1>7. /\ stride' \in [Groups -> [Warps -> 0..BlockSize]] /\ stride'[g][w] = s \div 2
      /\ \A v \in Warps : v # w => stride'[g][v] = stride[g][v]
      /\ \A h \in Groups : h # g => stride'[h] = stride[h]
  <2>1. s \div 2 \in 0..BlockSize
    BY <1>3
  <2>. QED
    BY <1>3, <2>1 DEF Sync, TypeOK
<1>8. i' = i /\ out' = out /\ pc' = pc
  BY DEF Sync
<1>9. TypeOK'
  BY <1>6, <1>7, <1>8, SizeStays DEF TypeOK, Sync
<1>10. \A h \in Groups : h # g => PhaseOf(h)'
  <2>1. Syncing(w) \subseteq Lanes(w)
    BY DEF Syncing
  <2>2. \A t \in Items : ~ t \in Syncing(w) => sdata'[g][t] = sdata[g][t]
    BY <1>6
  <2>. HIDE DEF F
  <2>. QED
    BY <1>6, <1>7, <1>8, <2>1, <2>2, WarpFrame
<1>11. PICK r \in Powers \cup {0} : r = s \div 2 /\ Span(r) = s /\ r <= SyncWidth
  <2>1. CASE s = 1
    <3>1. s \div 2 = 0
      BY <2>1
    <3>. QED
      BY <1>3, <2>1, <3>1 DEF Span
  <2>2. CASE s > 1
    <3>1. s \div 2 \in Nat \ {0} /\ s = 2 * (s \div 2) /\ IsPowerOf2(s \div 2)
      BY <1>3, <2>2, HalfOf DEF Powers
    <3>2. s \div 2 \in Powers
      BY <1>3, <3>1 DEF Powers
    <3>. QED
      BY <1>3, <3>1, <3>2 DEF Span
  <2>. QED
    BY <1>3, <2>1, <2>2
<1>12. ASSUME NEW t \in Items, t < s PROVE sdata'[g][t] = Each(Terms, Fold(g, t, s))
  <2>1. t \in Nat /\ t < BlockSize /\ t \in 0..s-1 /\ t + s \in Items /\ t + s < 2 * s /\ t < 2 * s
    BY <1>3, <1>12, ThreadsAre
  <2>2. t \in Syncing(w)
    BY <1>2, <1>3, <1>12, <2>1, OneWarpSyncs
  <2>3. sdata'[g][t] = Each(Terms, Fold(g, t, 2 * s)) ++ Each(Terms, Fold(g, t + s, 2 * s))
    BY <1>4, <1>6, <2>1, <2>2 DEF Slot
  <2>4. /\ Fold(g, t, 2 * s) \cap Fold(g, t + s, 2 * s) = {}
        /\ Fold(g, t, s) = Fold(g, t, 2 * s) \cup Fold(g, t + s, 2 * s)
    <3>1. size \in Nat /\ s \in Nat \ {0} /\ t \in 0..s-1
      BY <1>3, <2>1
    <3>. HIDE DEF F
    <3>. QED
      BY ONLY <3>1, FoldSplits
  <2>. QED
    BY <2>3, <2>4, EachSplits
<1>13. Synced(g, r)'
  <2>. HIDE DEF F
  <2>1. /\ r <= SyncWidth /\ stride'[g][0] = r /\ pc'[g][0] # "exit"
        /\ \A v \in Warps : /\ pc'[g][v] \in {"tree", "exit"}
                            /\ v # 0 => stride'[g][v] = SyncWidth
    BY <1>0, <1>1, <1>2, <1>7, <1>8, <1>11 DEF Synced
  <2>2. \A t \in Items : t < Span(r) => sdata'[g][t] = Each(Terms, Fold(g, t, Span(r)))
    BY <1>11, <1>12
  <2>. QED
    BY <2>1, <2>2, SizeStays DEF Synced
<1>. HIDE DEF F
<1>. QED
  BY <1>9, <1>10, <1>13 DEF LongPhases, PhaseOf

LEMMA WriteStep ==
  ASSUME TypeOK, LongPhases, Wide, size > BlockSize, NEW g \in Groups, NEW w \in Warps, Write(g, w)
  PROVE  TypeOK' /\ LongPhases'
<1>. size \in Sizes /\ size \in Nat /\ size' = size
  BY ReduceAssumption DEF TypeOK, Write
<1>1. PICK s \in Powers \cup {0} : Synced(g, s)
  BY WhichPhase DEF LongPhases, Write, Step
<1>2. 0 \in Warps /\ 0 \in Lanes(0) /\ 0 \in Items /\ (w # 0 => ~ 0 \in Lanes(w))
  BY LanesAre
<1>3. w = 0 => s = 0
  <2>1. 0 \in Syncing(0)
    BY <1>2, OneWarpSyncs, Parameters
  <2>. QED
    BY <1>1, <2>1 DEF Write, Synced
<1>4. /\ pc' \in [Groups -> [Warps -> {"start", "load", "barrier", "tree", "exit"}]]
      /\ pc'[g][w] = "exit" /\ \A v \in Warps : v # w => pc'[g][v] = pc[g][v]
      /\ \A h \in Groups : h # g => pc'[h] = pc[h]
  BY DEF Write, Goto, TypeOK
<1>5. /\ out' \in [Groups -> Sum] /\ (w = 0 => out'[g] = sdata[g][0])
      /\ (w # 0 => out'[g] = out[g])
      /\ \A h \in Groups : h # g => out'[h] = out[h]
  BY <1>2 DEF Write, TypeOK
<1>6. sdata' = sdata /\ i' = i /\ stride' = stride
  BY DEF Write
<1>7. TypeOK'
  BY <1>4, <1>5, <1>6, SizeStays DEF TypeOK, Write
<1>8. ASSUME NEW h \in Groups, h # g PROVE PhaseOf(h)'
  BY <1>4, <1>5, <1>6, <1>8, OtherGroup DEF LongPhases
<1>9. pc'[g][0] = "exit" => s = 0 /\ out'[g] = Each(Terms, Fold(g, 0, 1))
  <2>1. ASSUME w = 0 PROVE out'[g] = Each(Terms, Fold(g, 0, 1))
    <3>1. s = 0 /\ Span(s) = 1
      BY <1>3, <2>1 DEF Span
    <3>2. sdata[g][0] = Each(Terms, Fold(g, 0, 1))
      BY <1>1, <1>2, <3>1 DEF Synced
    <3>. QED
      BY <1>5, <2>1, <3>2
  <2>2. ASSUME w # 0, pc'[g][0] = "exit" PROVE s = 0 /\ out'[g] = Each(Terms, Fold(g, 0, 1))
    BY <1>1, <1>2, <1>4, <1>5, <2>2 DEF Synced
  <2>. QED
    BY <1>3, <2>1, <2>2
<1>10. Synced(g, s)'
  <2>1. \A v \in Warps : pc'[g][v] \in {"tree", "exit"}
    BY <1>1, <1>4 DEF Synced
  <2>. QED
    BY <1>1, <1>6, <1>9, <2>1, SizeStays DEF Synced
<1>. QED
  BY <1>7, <1>8, <1>10 DEF LongPhases, PhaseOf

-----------------------------------------------------------------------------
(* A vector of a block or less: the same phases, and a marred first slot.  *)

LEMMA OtherShort ==
  ASSUME size' = size, NEW g \in Groups, InStep(g), Marred(g), pc'[g] = pc[g],
         stride'[g] = stride[g], sdata'[g] = sdata[g], out'[g] = out[g]
  PROVE  InStep(g)' /\ Marred(g)'
<1>1. InStep(g)'
  BY SizeStays DEF InStep, LoadingAll, FoldingAll, SyncedAll
<1>2. Marred(g)'
  BY DEF Marred, Stale
<1>. QED
  BY <1>1, <1>2

(* What the step of one warp changes.                                      *)
LEMMA WarpStep ==
  ASSUME TypeOK, NEW g \in Groups, NEW w \in Warps, Warp(g, w)
  PROVE  /\ size' = size
         /\ \A h \in Groups : h # g =>
              /\ pc'[h] = pc[h] /\ stride'[h] = stride[h]
              /\ sdata'[h] = sdata[h] /\ out'[h] = out[h]
         /\ \A v \in Warps : v # w => pc'[g][v] = pc[g][v] /\ stride'[g][v] = stride[g][v]
<1>1. CASE Start(g, w)
  BY <1>1 DEF Start, Goto, TypeOK
<1>2. CASE Load(g, w)
  BY <1>2 DEF Load, TypeOK
<1>3. CASE Loaded(g, w)
  BY <1>3 DEF Loaded, Goto, TypeOK
<1>4. CASE Tree(g, w)
  BY <1>4 DEF Tree, Goto, Add, TypeOK
<1>5. CASE Sync(g, w)
  BY <1>5 DEF Sync, Add, TypeOK
<1>6. CASE Write(g, w)
  BY <1>6 DEF Write, Goto, TypeOK
<1>. QED
  BY <1>1, <1>2, <1>3, <1>4, <1>5, <1>6 DEF Warp

(* What an addition of some slots to others leaves.                        *)
LEMMA AddGives ==
  ASSUME TypeOK, NEW g \in Groups, NEW w \in Warps, NEW items, Add(g, w, items)
  PROVE  /\ sdata' \in [Groups -> [Items -> Sum]]
         /\ \A t \in Items : sdata'[g][t] = IF t \in items THEN sdata[g][t] ++ Slot(g, t + stride[g][w])
                                                           ELSE sdata[g][t]
<1> DEFINE F == [t \in Items |-> IF t \in items THEN sdata[g][t] ++ Slot(g, t + stride[g][w])
                                                ELSE sdata[g][t]]
<1>1. F \in [Items -> Sum] /\ sdata' = [sdata EXCEPT ![g] = F]
  <2>1. \A t \in Items : sdata[g][t] ++ Slot(g, t + stride[g][w]) \in Sum
    BY PlusType, JunkType DEF TypeOK, Slot
  <2>. QED
    BY <2>1 DEF Add, TypeOK
<1>2. sdata' \in [Groups -> [Items -> Sum]] /\ sdata'[g] = F
  <2>. HIDE DEF F
  <2>. QED
    BY <1>1, SlotsFunction
<1>. QED
  BY <1>2

(* Every variable keeps its type.                                          *)
LEMMA WarpTyped ==
  ASSUME TypeOK, NEW g \in Groups, NEW w \in Warps, Warp(g, w)
  PROVE  TypeOK'
<1>. size \in Sizes /\ size \in Nat /\ size' = size
  BY ReduceAssumption, WarpStep DEF TypeOK
<1>1. CASE Start(g, w)
  <2>1. sdata' \in [Groups -> [Items -> Sum]]
    BY <1>1, JunkType DEF Start, TypeOK
  <2>2. g * (2 * Threads) \in Nat
    BY SomeThreads, BaseType
  <2>3. i' \in [Groups -> [Warps -> Nat]]
    BY <1>1, <2>2 DEF Start, TypeOK
  <2>4. pc' \in [Groups -> [Warps -> {"start", "load", "barrier", "tree", "exit"}]]
    BY <1>1 DEF Start, Goto, TypeOK
  <2>. QED
    BY <1>1, <2>1, <2>3, <2>4, SizeStays DEF Start, TypeOK
<1>2. CASE Load(g, w)
  <2>1. sdata' \in [Groups -> [Items -> Sum]]
    <3>1. \A t \in Items : sdata[g][t] ++ Each(Terms, ReadBy(i[g][w] + t)) \in Sum
      BY EachType, PlusType DEF TypeOK
    <3>. QED
      BY <1>2, <3>1 DEF Load, TypeOK
  <2>2. BlockSize * 2 * MaxBlocks \in Nat
    <3>1. BlockSize * 2 \in Nat /\ MaxBlocks \in Nat
      BY Parameters
    <3>. QED
      BY ONLY <3>1
  <2>3. i[g][w] \in Nat /\ i[g][w] + BlockSize * 2 * MaxBlocks \in Nat
    <3>1. i[g][w] \in Nat
      BY DEF TypeOK
    <3>. QED
      BY <2>2, <3>1
  <2>4. i' \in [Groups -> [Warps -> Nat]]
    BY <1>2, <2>3 DEF Load, TypeOK
  <2>. QED
    BY <1>2, <2>1, <2>4, SizeStays DEF Load, TypeOK
<1>3. CASE Loaded(g, w)
  <2>1. pc' \in [Groups -> [Warps -> {"start", "load", "barrier", "tree", "exit"}]]
    BY <1>3 DEF Loaded, Goto, TypeOK
  <2>. QED
    BY <1>3, <2>1, SizeStays DEF Loaded, TypeOK
<1>4. stride[g][w] \in 0..BlockSize /\ stride[g][w] \div 2 \in 0..BlockSize
  <2>1. stride[g][w] \in 0..BlockSize /\ BlockSize \in Nat
    BY Parameters DEF TypeOK
  <2>. QED
    BY <2>1
<1>5. CASE Tree(g, w)
  <2>1. sdata' \in [Groups -> [Items -> Sum]]
    BY <1>5, AddGives DEF Tree
  <2>2. stride' \in [Groups -> [Warps -> 0..BlockSize]]
    BY <1>4, <1>5 DEF Tree, TypeOK
  <2>3. pc' \in [Groups -> [Warps -> {"start", "load", "barrier", "tree", "exit"}]]
    BY <1>5 DEF Tree, Goto, TypeOK
  <2>. QED
    BY <1>5, <2>1, <2>2, <2>3, SizeStays DEF Tree, TypeOK
<1>6. CASE Sync(g, w)
  <2>1. sdata' \in [Groups -> [Items -> Sum]]
    BY <1>6, AddGives DEF Sync
  <2>2. stride' \in [Groups -> [Warps -> 0..BlockSize]]
    BY <1>4, <1>6 DEF Sync, TypeOK
  <2>. QED
    BY <1>6, <2>1, <2>2, SizeStays DEF Sync, TypeOK
<1>7. CASE Write(g, w)
  <2>1. pc' \in [Groups -> [Warps -> {"start", "load", "barrier", "tree", "exit"}]]
    BY <1>7 DEF Write, Goto, TypeOK
  <2>2. out' \in [Groups -> Sum]
    BY <1>7, LanesAre DEF Write, TypeOK
  <2>. QED
    BY <1>7, <2>1, <2>2, SizeStays DEF Write, TypeOK
<1>. QED
  BY <1>1, <1>2, <1>3, <1>5, <1>6, <1>7 DEF Warp

(* The first work-item adds what lies beyond local memory, or has done so. *)
LEMMA AddMars ==
  ASSUME TypeOK, ~ size > BlockSize, NEW g \in Groups, NEW s \in Nat \ {0}, s <= BlockSize \div 2,
         sdata'[g][0] = sdata[g][0] ++ Slot(g, s),
         s < BlockSize \div 2 => sdata[g][0][Stale] > 0
  PROVE  sdata'[g][0][Stale] > 0
<1>. size \in Sizes /\ size \in Nat
  BY ReduceAssumption DEF TypeOK
<1>1. 0 \in Items /\ Stale \in Terms
  BY LanesAre DEF Stale, Terms
<1>2. sdata[g][0] \in Sum /\ Slot(g, s) \in Sum
  BY <1>1, JunkType DEF TypeOK, Slot
<1>3. sdata[g][0][Stale] \in Nat /\ Slot(g, s)[Stale] \in Nat /\ DOMAIN sdata[g][0] = Terms
  BY <1>1, <1>2 DEF Sum, Sums
<1>4. sdata'[g][0][Stale] = sdata[g][0][Stale] + Slot(g, s)[Stale]
  BY <1>1, <1>3 DEF ++
<1>5. CASE s < BlockSize \div 2
  BY <1>3, <1>4, <1>5
<1>6. CASE s = BlockSize \div 2
  <2>1. s \notin Items
    BY <1>6, FewThreads, Parameters DEF Items
  <2>2. Slot(g, s)[Stale] = 1
    BY <1>1, <2>1 DEF Slot, Junk, Only
  <2>. QED
    BY <1>3, <1>4, <2>2
<1>. QED
  BY <1>5, <1>6, Parameters

LEMMA TreeShort ==
  ASSUME TypeOK, ~ size > BlockSize, NEW g \in Groups, InStep(g), Marred(g),
         NEW w \in Warps, Tree(g, w)
  PROVE  InStep(g)' /\ Marred(g)'
<1>. size \in Sizes /\ size' = size
  BY WarpStep DEF TypeOK, Tree
<1>0. 0 \in Warps /\ 0 \in Lanes(0) /\ 0 \in Items /\ (w # 0 => 0 \notin Lanes(w))
  BY LanesAre
<1>1. pc[g][w] = "tree" /\ stride[g][w] > SyncWidth /\ stride[g][w] \in Nat
  BY Parameters DEF Tree, Step, TypeOK
<1>2. PICK S \in Powers : FoldingAll(g, S)
  <2>1. ~ LoadingAll(g)
    BY <1>1 DEF LoadingAll
  <2>2. ~ SyncedAll(g)
    <3>. SUFFICES ASSUME SyncedAll(g) PROVE FALSE
      OBVIOUS
    <3>1. stride[g][w] <= SyncWidth
      BY Parameters DEF SyncedAll
    <3>. QED
      BY <1>1, <3>1, Parameters
  <2>. QED
    BY <2>1, <2>2 DEF InStep
<1>3. stride[g][w] = S /\ S \in Nat \ {0} /\ S <= BlockSize \div 2
  <2>1. stride[g][w] = S
    BY <1>1, <1>2 DEF FoldingAll
  <2>2. S \in Nat \ {0} /\ 2 * S <= BlockSize
    BY <1>2, Parameters DEF FoldingAll, Powers
  <2>. QED
    BY <2>1, <2>2, Parameters
<1>4. /\ \A v \in Warps : v # w => pc'[g][v] = pc[g][v] /\ stride'[g][v] = stride[g][v]
      /\ pc'[g][w] = "barrier" /\ stride'[g][w] = S \div 2
  <2>1. \A v \in Warps : v # w => pc'[g][v] = pc[g][v] /\ stride'[g][v] = stride[g][v]
    BY WarpStep DEF Warp
  <2>. QED
    BY <1>3, <2>1 DEF Tree, Goto, TypeOK
<1>5. FoldingAll(g, S)'
  <2>1. \A v \in Warps : \/ pc'[g][v] = "tree" /\ stride'[g][v] = S
                         \/ pc'[g][v] = "barrier" /\ stride'[g][v] = S \div 2
    BY <1>2, <1>4 DEF FoldingAll
  <2>. QED
    BY <1>2, <2>1, SizeStays DEF FoldingAll
<1>6. InStep(g)'
  BY <1>5 DEF InStep, Powers
<1>7. pc'[g][0] # "exit"
  <2>1. pc'[g][0] \in {"tree", "barrier"}
    BY <1>0, <1>5, SizeStays DEF FoldingAll
  <2>. QED
    BY <2>1
<1>8. \A t \in Items : sdata'[g][t] = IF t \in Adders(g, w) THEN sdata[g][t] ++ Slot(g, t + S)
                                                          ELSE sdata[g][t]
  BY <1>3, AddGives DEF Tree
<1>9. CASE w # 0
  <2>1. sdata'[g][0] = sdata[g][0] /\ stride'[g][0] = stride[g][0]
    BY <1>0, <1>4, <1>8, <1>9 DEF Adders
  <2>. QED
    BY <1>6, <1>7, <2>1 DEF Marred, Stale
<1>10. CASE w = 0
  <2>1. 0 \in Adders(g, w) /\ 0 + S = S
    BY <1>0, <1>3, <1>10 DEF Adders
  <2>2. sdata'[g][0] = sdata[g][0] ++ Slot(g, S)
    BY <1>0, <1>8, <2>1
  <2>3. S < BlockSize \div 2 => sdata[g][0][Stale] > 0
    BY <1>3, <1>10 DEF Marred
  <2>4. sdata'[g][0][Stale] > 0
    BY <1>3, <2>2, <2>3, AddMars
  <2>. QED
    BY <1>6, <1>7, <2>4 DEF Marred, Stale
<1>. QED
  BY <1>9, <1>10

LEMMA SyncShort ==
  ASSUME TypeOK, Wide, ~ size > BlockSize, NEW g \in Groups, InStep(g), Marred(g),
         NEW w \in Warps, Sync(g, w)
  PROVE  InStep(g)' /\ Marred(g)'
<1>. size \in Sizes /\ size' = size
  BY WarpStep DEF TypeOK, Sync
<1>0. 0 \in Warps /\ 0 \in Items
  BY LanesAre
<1>1. w = 0
  BY OneWarpSyncs DEF Sync
<1>2. PICK s \in Nat \ {0} : s = stride[g][0] /\ s <= SyncWidth /\ s <= BlockSize \div 2
  BY <1>1, Parameters DEF Sync
<1>3. pc[g][0] = "tree" /\ pc' = pc /\ stride'[g][0] = s \div 2
      /\ \A v \in Warps : v # 0 => stride'[g][v] = stride[g][v]
  BY <1>0, <1>1, <1>2 DEF Sync, Step, TypeOK
<1>4. SyncedAll(g)
  <2>1. ~ LoadingAll(g)
    BY <1>0, <1>3 DEF LoadingAll
  <2>2. ASSUME NEW S \in Powers, FoldingAll(g, S) PROVE FALSE
    <3>1. stride[g][0] = S /\ SyncWidth < S /\ S \in Nat
      BY <1>0, <1>3, <2>2 DEF FoldingAll, Powers
    <3>. QED
      BY <1>2, <3>1, Parameters
  <2>. QED
    BY <2>1, <2>2 DEF InStep
<1>5. SyncedAll(g)'
  <2>1. s \div 2 <= SyncWidth
    BY <1>2, Parameters
  <2>. QED
    BY <1>3, <1>4, <2>1, SizeStays DEF SyncedAll
<1>6. InStep(g)'
  BY <1>5 DEF InStep
<1>7. 0 \in Syncing(w) /\ 0 + s = s
  BY <1>0, <1>1, <1>2, OneWarpSyncs, Parameters
<1>8. sdata'[g][0] = sdata[g][0] ++ Slot(g, s)
  BY <1>0, <1>1, <1>2, <1>7, AddGives DEF Sync
<1>9. sdata'[g][0][Stale] > 0
  BY <1>2, <1>8, AddMars DEF Marred
<1>. QED
  BY <1>3, <1>6, <1>9 DEF Marred, Stale

LEMMA WriteShort ==
  ASSUME TypeOK, Wide, ~ size > BlockSize, NEW g \in Groups, InStep(g), Marred(g),
         NEW w \in Warps, Write(g, w)
  PROVE  InStep(g)' /\ Marred(g)'
<1>. size \in Sizes /\ size' = size
  BY WarpStep DEF TypeOK, Write
<1>0. 0 \in Warps /\ 0 \in Lanes(0) /\ 0 \in Items /\ (w # 0 => 0 \notin Lanes(w))
  BY LanesAre
<1>1. pc[g][w] = "tree" /\ stride[g][w] <= SyncWidth
  BY DEF Write, Step
<1>2. SyncedAll(g)
  <2>1. ~ LoadingAll(g)
    BY <1>1 DEF LoadingAll
  <2>2. ASSUME NEW S \in Powers, FoldingAll(g, S) PROVE FALSE
    <3>1. stride[g][w] = S /\ SyncWidth < S /\ S \in Nat
      BY <1>1, <2>2 DEF FoldingAll, Powers
    <3>. QED
      BY <1>1, <3>1, Parameters
  <2>. QED
    BY <2>1, <2>2 DEF InStep
<1>3. /\ \A v \in Warps : v # w => pc'[g][v] = pc[g][v]
      /\ pc'[g][w] = "exit" /\ stride' = stride /\ sdata' = sdata
  BY DEF Write, Goto, TypeOK
<1>4. InStep(g)'
  <2>1. \A v \in Warps : pc'[g][v] \in {"tree", "exit"}
    BY <1>2, <1>3 DEF SyncedAll
  <2>2. SyncedAll(g)'
    BY <1>2, <1>3, <2>1, SizeStays DEF SyncedAll
  <2>. QED
    BY <2>2 DEF InStep
<1>5. CASE w # 0
  <2>1. out' = out /\ pc'[g][0] = pc[g][0]
    BY <1>0, <1>3, <1>5 DEF Write
  <2>. QED
    BY <1>3, <1>4, <2>1 DEF Marred, Stale
<1>6. CASE w = 0
  <2>1. 0 \in Syncing(0)
    BY <1>0, OneWarpSyncs, Parameters
  <2>2. stride[g][0] = 0
    BY <1>6, <2>1 DEF Write
  <2>3. sdata[g][0][Stale] > 0
    BY <2>2, Parameters DEF Marred
  <2>4. out'[g] = sdata[g][0]
    BY <1>0, <1>6 DEF Write, TypeOK
  <2>. QED
    BY <1>3, <1>4, <2>3, <2>4 DEF Marred, Stale
<1>. QED
  BY <1>5, <1>6

LEMMA BarrierShort ==
  ASSUME TypeOK, ~ size > BlockSize, ShortPhases, NEW g \in Groups, Barrier(g)
  PROVE  TypeOK' /\ ShortPhases'
<1>. size \in Sizes /\ size' = size
  BY DEF TypeOK, Barrier
<1>0. 0 \in Warps /\ \A w \in Warps : pc[g][w] = "barrier"
  BY LanesAre DEF Barrier, Step
<1>1. /\ pc' \in [Groups -> [Warps -> {"start", "load", "barrier", "tree", "exit"}]]
      /\ \A w \in Warps : pc'[g][w] = "tree"
      /\ \A h \in Groups : h # g => pc'[h] = pc[h]
  BY DEF Barrier, TypeOK
<1>2. sdata' = sdata /\ i' = i /\ stride' = stride /\ out' = out
  BY DEF Barrier
<1>3. TypeOK'
  BY <1>1, <1>2, SizeStays DEF TypeOK, Barrier
<1>4. ASSUME NEW h \in Groups, h # g PROVE InStep(h)' /\ Marred(h)'
  BY <1>1, <1>2, <1>4, OtherShort DEF ShortPhases
<1>5. PICK T \in Powers : SyncWidth <= T /\ 2 * T <= BlockSize /\ \A w \in Warps : stride[g][w] = T
  <2>1. CASE LoadingAll(g)
    <3>1. BlockSize \div 2 \in Powers
      BY Parameters DEF Powers
    <3>. QED
      BY <2>1, <3>1, Parameters DEF LoadingAll
  <2>2. ASSUME NEW S \in Powers, FoldingAll(g, S)
        PROVE  /\ S \div 2 \in Powers /\ SyncWidth <= S \div 2 /\ 2 * (S \div 2) <= BlockSize
               /\ \A w \in Warps : stride[g][w] = S \div 2
    <3>1. S \in Nat /\ S <= BlockSize /\ IsPowerOf2(S) /\ SyncWidth < S /\ S > 1
      BY <2>2, Parameters DEF FoldingAll, Powers
    <3>2. S \div 2 \in Nat \ {0} /\ S = 2 * (S \div 2) /\ IsPowerOf2(S \div 2)
      BY <3>1, HalfOf
    <3>3. SyncWidth <= S \div 2
      BY <3>1, HalfAbove, Parameters
    <3>4. \A w \in Warps : stride[g][w] = S \div 2
      BY <1>0, <2>2 DEF FoldingAll
    <3>5. S \div 2 \in Powers
      BY <3>1, <3>2, Parameters DEF Powers
    <3>. QED
      BY <3>1, <3>2, <3>3, <3>4, <3>5
  <2>3. ~ SyncedAll(g)
    BY <1>0 DEF SyncedAll
  <2>. QED
    BY <2>1, <2>2, <2>3 DEF ShortPhases, InStep
<1>6. InStep(g)'
  <2>1. CASE SyncWidth < T
    <3>1. FoldingAll(g, T)'
      BY <1>1, <1>2, <1>5, <2>1, SizeStays DEF FoldingAll
    <3>. QED
      BY <3>1 DEF InStep, Powers
  <2>2. CASE T = SyncWidth
    <3>1. SyncedAll(g)'
      BY <1>0, <1>1, <1>2, <1>5, <2>2, SizeStays, Parameters DEF SyncedAll
    <3>. QED
      BY <3>1 DEF InStep
  <2>3. T \in Nat
    BY DEF Powers
  <2>. QED
    BY <1>5, <2>1, <2>2, <2>3, Parameters
<1>7. Marred(g)'
  <2>1. Marred(g) /\ pc'[g][0] # "exit"
    BY <1>0, <1>1 DEF ShortPhases
  <2>. QED
    BY <1>2, <2>1 DEF Marred, Stale
<1>. QED
  BY <1>3, <1>4, <1>6, <1>7 DEF ShortPhases

LEMMA WarpShort ==
  ASSUME TypeOK, Wide, ~ size > BlockSize, ShortPhases, NEW g \in Groups, NEW w \in Warps, Warp(g, w)
  PROVE  TypeOK' /\ ShortPhases'
<1>. size \in Sizes /\ size' = size
  BY WarpStep DEF TypeOK
<1>1. TypeOK'
  BY WarpTyped
<1>2. ASSUME NEW h \in Groups, h # g PROVE InStep(h)' /\ Marred(h)'
  BY <1>2, WarpStep, OtherShort DEF ShortPhases
<1>3. InStep(g) /\ Marred(g)
  BY DEF ShortPhases
<1>4. ASSUME Start(g, w) \/ Load(g, w) \/ Loaded(g, w) PROVE InStep(g)' /\ Marred(g)'
  <2>1. pc[g][w] \in {"start", "load"}
    BY <1>4 DEF Start, Load, Loaded, Step
  <2>2. LoadingAll(g)
    <3>1. \A S : ~ FoldingAll(g, S)
      BY <2>1 DEF FoldingAll
    <3>2. ~ SyncedAll(g)
      BY <2>1 DEF SyncedAll
    <3>. QED
      BY <1>3, <3>1, <3>2 DEF InStep
  <2>3. stride' = stride /\ pc'[g][w] \in {"load", "barrier"}
    BY <1>4 DEF Start, Load, Loaded, Goto, Step, TypeOK
  <2>4. \A v \in Warps : v # w => pc'[g][v] = pc[g][v]
    BY WarpStep
  <2>5. LoadingAll(g)'
    <3>1. \A v \in Warps : stride'[g][v] = BlockSize \div 2 /\ pc'[g][v] \in {"start", "load", "barrier"}
      BY <2>2, <2>3, <2>4 DEF LoadingAll
    <3>. QED
      BY <3>1, SizeStays DEF LoadingAll
  <2>6. InStep(g)'
    BY <2>5 DEF InStep
  <2>7. 0 \in Warps
    BY LanesAre
  <2>8. stride'[g][0] = BlockSize \div 2 /\ pc'[g][0] # "exit"
    BY <2>5, <2>7, SizeStays DEF LoadingAll
  <2>9. Marred(g)'
    BY <2>8, Parameters DEF Marred
  <2>. QED
    BY <2>6, <2>9
<1>5. InStep(g)' /\ Marred(g)'
  BY <1>3, <1>4, TreeShort, SyncShort, WriteShort DEF Warp
<1>. QED
  BY <1>1, <1>2, <1>5 DEF ShortPhases

-----------------------------------------------------------------------------
(* The queue and the host.                                                 *)

LEMMA PhasesStay ==
  ASSUME Phases, UNCHANGED <<size, kernelVars, out>>
  PROVE  Phases'
<1>1. ASSUME NEW g \in Groups, PhaseOf(g) PROVE PhaseOf(g)'
  BY <1>1, OtherGroup DEF kernelVars
<1>2. ASSUME NEW g \in Groups, InStep(g), Marred(g) PROVE InStep(g)' /\ Marred(g)'
  BY <1>2, OtherShort DEF kernelVars
<1>. QED
  BY <1>1, <1>2 DEF Phases, LongPhases, ShortPhases

LEMMA KernelStep ==
  ASSUME IInv, Wide, NEW g \in Groups, Barrier(g) \/ \E w \in Warps : Warp(g, w)
  PROVE  IInv'
<1>1. TypeOK' /\ Phases'
  <2>1. size' = size
    BY WarpStep DEF IInv, Barrier
  <2>2. CASE size > BlockSize
    <3>1. TypeOK' /\ LongPhases'
      BY <2>2, StartStep, LoadStep, LoadedStep, TreeStep, SyncStep, WriteStep, BarrierStep
         DEF IInv, Phases, Warp
    <3>. QED
      BY <2>1, <2>2, <3>1 DEF Phases
  <2>3. CASE ~ size > BlockSize
    <3>1. TypeOK' /\ ShortPhases'
      BY <2>3, WarpShort, BarrierShort DEF IInv, Phases
    <3>. QED
      BY <2>1, <2>3, <3>1 DEF Phases
  <2>. QED
    BY <2>2, <2>3
<1>2. \E w \in Warps : Step(g, w, pc[g][w])
  <2>1. CASE Barrier(g)
    <3>1. 0 \in Warps
      BY LanesAre DEF IInv, TypeOK
    <3>. QED
      BY <2>1, <3>1 DEF Barrier, Step
  <2>2. ASSUME NEW w \in Warps, Warp(g, w) PROVE Step(g, w, pc[g][w])
    BY <2>2 DEF Warp, Start, Load, Loaded, Tree, Sync, Write, Step
  <2>. QED
    BY <2>1, <2>2
<1>3. queue # <<>> /\ Head(queue) = "reduce"
  BY <1>2 DEF Step
<1>4. UNCHANGED <<size, form, host, queue, j, result>>
  <2>1. ASSUME NEW w \in Warps, Warp(g, w) PROVE UNCHANGED <<size, form, host, queue, j, result>>
    BY <2>1 DEF Warp, Start, Load, Loaded, Tree, Sync, Write
  <2>. QED
    BY <2>1 DEF Barrier
<1>5. Commands' /\ Results'
  BY <1>3, <1>4, Running DEF IInv
<1>. QED
  BY <1>1, <1>5 DEF IInv

LEMMA QueueType ==
  ASSUME NEW q \in {<<>>, <<"reduce">>, <<"reduce", "zero">>, <<"zero">>, <<"zero", "final">>,
                    <<"final">>}
  PROVE  q \in Seq({"reduce", "zero", "final"}) /\ Len(q) <= 2
<1>1. /\ <<>> \in Seq({"reduce", "zero", "final"}) /\ Len(<<>>) <= 2
      /\ <<"reduce">> \in Seq({"reduce", "zero", "final"}) /\ Len(<<"reduce">>) <= 2
      /\ <<"zero">> \in Seq({"reduce", "zero", "final"}) /\ Len(<<"zero">>) <= 2
      /\ <<"final">> \in Seq({"reduce", "zero", "final"}) /\ Len(<<"final">>) <= 2
  OBVIOUS
<1>2. /\ <<"reduce", "zero">> \in Seq({"reduce", "zero", "final"})
      /\ Len(<<"reduce", "zero">>) <= 2
  OBVIOUS
<1>3. /\ <<"zero", "final">> \in Seq({"reduce", "zero", "final"})
      /\ Len(<<"zero", "final">>) <= 2
  OBVIOUS
<1>4. CASE q = <<"reduce", "zero">>
  BY <1>2, <1>4
<1>5. CASE q = <<"zero", "final">>
  BY <1>3, <1>5
<1>6. CASE q \in {<<>>, <<"reduce">>, <<"zero">>, <<"final">>}
  BY <1>1, <1>6
<1>. QED
  BY <1>4, <1>5, <1>6

LEMMA ZeroThenFinal == Append(<<"zero">>, "final") = <<"zero", "final">>
<1> DEFINE q == Append(<<"zero">>, "final")
<1>1. <<"zero">> \in Seq({"zero", "final"}) /\ "final" \in {"zero", "final"}
  OBVIOUS
<1>2. <<"zero", "final">> \in Seq({"zero", "final"})
  OBVIOUS
<1>3. /\ q \in Seq({"zero", "final"}) /\ Len(q) = Len(<<"zero">>) + 1
      /\ \A k \in 1..Len(<<"zero">>) : q[k] = <<"zero">>[k]
      /\ q[Len(<<"zero">>) + 1] = "final"
  BY <1>1, AppendProperties
<1>4. Len(<<"zero">>) = 1 /\ <<"zero">>[1] = "zero"
  OBVIOUS
<1>. HIDE DEF q
<1>5. Len(q) = 2 /\ q[1] = "zero" /\ q[2] = "final"
  BY <1>3, <1>4
<1>6. Len(q) = Len(<<"zero", "final">>) /\ \A k \in 1..Len(q) : q[k] = <<"zero", "final">>[k]
  BY <1>5
<1>7. q = <<"zero", "final">>
  BY <1>2, <1>3, <1>6, SeqEqual
<1>. QED
  BY <1>7 DEF q

(* The steps that leave the kernels' variables.                            *)
LEMMA StillTyped ==
  ASSUME TypeOK, UNCHANGED <<size, kernelVars, out, form>>,
         host' \in {"called", "step1", "step2", "adding", "returned"},
         Commands', j' \in 0..MaxBlocks, result' \in Sum
  PROVE  TypeOK'
<1>1. queue' \in Seq({"reduce", "zero", "final"}) /\ Len(queue') <= 2
  <2>1. queue' \in {<<>>, <<"reduce">>, <<"reduce", "zero">>, <<"zero">>, <<"zero", "final">>, <<"final">>}
    BY DEF Commands
  <2>. QED
    BY <2>1, QueueType
<1>. QED
  BY <1>1, SizeStays DEF TypeOK, kernelVars

LEMMA LaunchStep ==
  ASSUME IInv, Wide, Launch PROVE IInv'
<1>1. Phases'
  BY PhasesStay DEF IInv, Launch
<1>2. Commands'
  BY DEF IInv, TypeOK, Launch, Commands
<1>3. TypeOK'
  BY <1>2, StillTyped, SizeStays DEF IInv, TypeOK, Launch
<1>4. ~ Ran' /\ Unwritten' = Unwritten /\ host' = "step1" /\ j' = j /\ result' = result
  BY DEF IInv, TypeOK, Launch, Ran, Unwritten, Commands
<1>5. Summed' = Summed
  BY <1>4, SummedStays DEF Launch
<1>6. Results'
  BY <1>4, <1>5 DEF IInv, Results
<1>. QED
  BY <1>1, <1>2, <1>3, <1>6 DEF IInv

LEMMA FinishStep ==
  ASSUME IInv, Wide, Finish PROVE IInv'
<1>1. Phases'
  BY PhasesStay DEF IInv, Finish
<1>2. queue \in {<<"zero">>, <<>>}
  <2>1. queue \in {<<"reduce", "zero">>, <<"zero">>, <<>>}
    BY DEF IInv, Finish, Commands
  <2>2. queue # <<"reduce", "zero">>
    <3>1. SUFFICES ASSUME queue = <<"reduce", "zero">> PROVE FALSE
      OBVIOUS
    <3>2. 1 \in 1..Len(queue) /\ queue[1] = "reduce"
      BY <3>1
    <3>. QED
      BY <3>2 DEF Finish
  <2>. QED
    BY <2>1, <2>2
<1>3. queue = <<"zero">> => queue' = <<"zero", "final">>
  BY ZeroThenFinal DEF Finish
<1>4. queue = <<>> => queue' = <<"final">>
  BY DEF Finish
<1>5. host' = "step2" /\ form' = "mem" /\ form = "mem"  /\ host = "step1" /\ j' = j /\ result' = result
  BY DEF Finish
<1>6. Commands'
  BY <1>2, <1>3, <1>4, <1>5 DEF Commands
<1>7. TypeOK'
  BY <1>5, <1>6, StillTyped, SizeStays DEF IInv, TypeOK, Finish
<1>8. Ran /\ Ran' /\ Unwritten' = Unwritten /\ queue' # <<>>
  <2>1. /\ <<"zero">> \notin {<<"reduce">>, <<"reduce", "zero">>}
        /\ <<>> \notin {<<"reduce">>, <<"reduce", "zero">>}
        /\ <<"zero", "final">> \notin {<<"reduce">>, <<"reduce", "zero">>}
        /\ <<"final">> \notin {<<"reduce">>, <<"reduce", "zero">>}
    OBVIOUS
  <2>2. Ran /\ Ran'
    BY <1>2, <1>3, <1>4, <1>5, <2>1 DEF Ran
  <2>3. /\ <<>> \notin {<<"reduce", "zero">>, <<"zero">>, <<"zero", "final">>}
        /\ <<"final">> \notin {<<"reduce", "zero">>, <<"zero">>, <<"zero", "final">>}
        /\ <<"zero", "final">> # <<>> /\ <<"final">> # <<>>
    OBVIOUS
  <2>. QED
    BY <1>2, <1>3, <1>4, <1>5, <2>2, <2>3 DEF Unwritten
<1>9. Summed' = Summed /\ Groups' = Groups /\ Warps' = Warps /\ pc' = pc
  BY <1>5, SizeStays, SummedStays DEF Finish, kernelVars
<1>10. Results'
  BY <1>5, <1>8, <1>9 DEF IInv, Results
<1>. QED
  BY <1>1, <1>6, <1>7, <1>10 DEF IInv

(* What the queue holds when its first command is this one, and after it.  *)
LEMMA HeadAndTail ==
  ASSUME Commands, queue # <<>>
  PROVE  /\ Head(queue) = "reduce" =>
              \/ queue = <<"reduce">> /\ Tail(queue) = <<>>
              \/ queue = <<"reduce", "zero">> /\ Tail(queue) = <<"zero">>
         /\ Head(queue) = "zero" =>
              \/ queue = <<"zero">> /\ Tail(queue) = <<>>
              \/ queue = <<"zero", "final">> /\ Tail(queue) = <<"final">>
         /\ Head(queue) = "final" => queue = <<"final">> /\ Tail(queue) = <<>>
<1>1. queue \in {<<"reduce">>, <<"reduce", "zero">>, <<"zero">>, <<"zero", "final">>, <<"final">>}
  BY DEF Commands
<1>2. /\ Head(<<"reduce">>) = "reduce" /\ Tail(<<"reduce">>) = <<>>
      /\ Head(<<"zero">>) = "zero" /\ Tail(<<"zero">>) = <<>>
      /\ Head(<<"final">>) = "final" /\ Tail(<<"final">>) = <<>>
  OBVIOUS
<1>3. /\ Head(<<"reduce", "zero">>) = "reduce" /\ Tail(<<"reduce", "zero">>) = <<"zero">>
      /\ Head(<<"zero", "final">>) = "zero" /\ Tail(<<"zero", "final">>) = <<"final">>
  OBVIOUS
<1>4. "reduce" # "zero" /\ "reduce" # "final" /\ "zero" # "final"
  OBVIOUS
<1>. QED
  BY <1>1, <1>2, <1>3, <1>4

(* No two of the contents of the queue are the same.                       *)
LEMMA Contents ==
  /\ <<>> \notin {<<"reduce">>, <<"reduce", "zero">>, <<"zero">>, <<"zero", "final">>, <<"final">>}
  /\ <<"reduce">> \notin {<<"reduce", "zero">>, <<"zero">>, <<"zero", "final">>, <<"final">>}
  /\ <<"reduce", "zero">> \notin {<<"zero">>, <<"zero", "final">>, <<"final">>}
  /\ <<"zero">> \notin {<<"zero", "final">>, <<"final">>}
  /\ <<"zero", "final">> # <<"final">>
OBVIOUS

LEMMA ReduceDoneStep ==
  ASSUME IInv, Wide, ReduceDone PROVE IInv'
<1>1. Phases'
  BY PhasesStay DEF IInv, ReduceDone
<1>2. \/ queue = <<"reduce">> /\ queue' = <<>>
      \/ queue = <<"reduce", "zero">> /\ queue' = <<"zero">>
  BY HeadAndTail DEF IInv, ReduceDone
<1>3. host' = host /\ form' = form /\ j' = j /\ result' = result /\ host = "step1"
  BY <1>2, Contents DEF IInv, ReduceDone, Commands
<1>4. Commands'
  BY <1>2, <1>3, Contents DEF IInv, Commands
<1>5. TypeOK'
  BY <1>3, <1>4, StillTyped, SizeStays DEF IInv, TypeOK, ReduceDone
<1>6. Unwritten' = Unwritten
  <2>1. queue = <<"reduce">> => form = "host"
    BY <1>3, Contents DEF IInv, Commands
  <2>. QED
    BY <1>2, <1>3, <2>1, Contents DEF Unwritten
<1>7. \A g \in Groups : \A w \in Warps : pc'[g][w] = "exit"
  BY DEF ReduceDone, kernelVars
<1>8. Summed' = Summed /\ Warps' = Warps
  BY <1>3, SizeStays, SummedStays DEF ReduceDone
<1>9. Results'
  BY <1>3, <1>6, <1>7, <1>8 DEF IInv, Results
<1>. QED
  BY <1>1, <1>4, <1>5, <1>9 DEF IInv

LEMMA ZeroWrittenStep ==
  ASSUME IInv, Wide, ZeroWritten PROVE IInv'
<1>1. Phases'
  BY PhasesStay DEF IInv, ZeroWritten
<1>2. \/ queue = <<"zero">> /\ queue' = <<>>
      \/ queue = <<"zero", "final">> /\ queue' = <<"final">>
  BY HeadAndTail DEF IInv, ZeroWritten
<1>3. /\ host' = host /\ form' = form /\ j' = j /\ result' = None /\ form = "mem"
      /\ \/ host = "step1" /\ queue = <<"zero">>
         \/ host = "step2"
  BY <1>2, Contents DEF IInv, ZeroWritten, Commands
<1>4. Commands'
  BY <1>2, <1>3, Contents DEF IInv, Commands
<1>. size \in Nat
  BY ReduceAssumption DEF IInv, TypeOK
<1>5. TypeOK'
  BY <1>3, <1>4, StillTyped, SizeStays, JunkType DEF IInv, TypeOK, ZeroWritten
<1>6. Unwritten
  BY <1>2, <1>3 DEF Unwritten
<1>7. j' = 0
  BY <1>3, <1>6 DEF IInv, Results
<1>8. Ran /\ pc' = pc /\ Warps' = Warps /\ Terms' = Terms
  BY <1>2, <1>3, Contents, SizeStays DEF Ran, ZeroWritten, kernelVars
<1>9. result' = Each(Terms, {}) /\ Before(0)' = Before(0) /\ Before(0) = {}
  BY <1>3, BeforeGrows, SizeStays DEF None, Zero, Each, ZeroWritten
<1>10. Before(j)' = {}
  <2>1. Before(j)' = {e \in 0..size'-1 : ReaderOf(e) < 0} /\ Before(0)' = {e \in 0..size'-1 : ReaderOf(e) < 0}
    BY <1>7 DEF Before
  <2>. QED
    BY <1>9, <2>1
<1>11. host' # "returned" /\ (host' = "step2" => queue' # <<>>)
  BY <1>2, <1>3, Contents DEF IInv, Commands
<1>12. Summed'
  BY <1>7, <1>8, <1>9, <1>10 DEF Summed
<1>13. Results'
  BY <1>7, <1>8, <1>11, <1>12 DEF IInv, Results
<1>. QED
  BY <1>1, <1>4, <1>5, <1>13 DEF IInv

LEMMA FinalAddStep ==
  ASSUME IInv, Wide, FinalAdd PROVE IInv'
<1>. size \in Nat /\ size \in Sizes /\ size' = size /\ j \in Nat
  BY ReduceAssumption DEF IInv, TypeOK, FinalAdd
<1>1. Phases'
  BY PhasesStay DEF IInv, FinalAdd
<1>2. \/ queue = <<"final">> /\ host = "step2" /\ form = "mem"
      \/ queue = <<>> /\ host = "adding" /\ form = "host"
  BY HeadAndTail, Contents DEF IInv, FinalAdd, Commands
<1>3. UNCHANGED <<host, queue, form>> /\ j' = j + 1 /\ result' = result ++ out[j]
  BY DEF FinalAdd
<1>4. Commands'
  BY <1>3 DEF IInv, Commands
<1>5. j \in Groups
  BY Parameters DEF IInv, TypeOK, FinalAdd, Groups
<1>6. TypeOK'
  <2>1. result' \in Sum
    BY <1>3, <1>5, PlusType DEF IInv, TypeOK
  <2>2. j' \in 0..MaxBlocks
    BY <1>3, Parameters DEF IInv, TypeOK, FinalAdd
  <2>. QED
    BY <1>3, <1>4, <2>1, <2>2, StillTyped, SizeStays DEF IInv, TypeOK, FinalAdd
<1>7. Ran /\ Ran' /\ ~ Unwritten /\ ~ Unwritten'
  BY <1>2, <1>3, Contents DEF Ran, Unwritten
<1>8. Summed /\ \A g \in Groups : \A w \in Warps : pc[g][w] = "exit"
  BY <1>7 DEF IInv, Results
<1>9. pc[j][0] = "exit" /\ 0 \in Warps
  BY <1>5, <1>8, LanesAre
<1>10. Before(j)' = Before(j + 1) /\ Terms' = Terms /\ Stale' = Stale /\ Warps' = Warps /\ pc' = pc
  BY <1>3, SizeStays DEF Before, Stale, FinalAdd, kernelVars
<1>11. Summed'
  <2>1. CASE size > BlockSize
    <3>1. out[j] = Each(Terms, Fold(j, 0, 1))
      <4>1. PhaseOf(j)
        BY <1>5, <2>1 DEF IInv, Phases, LongPhases
      <4>2. PICK s \in Powers \cup {0} : Synced(j, s)
        BY <1>9, <4>1 DEF PhaseOf, Loading, LoadingIn, Folding, FoldingIn
      <4>. QED
        BY <1>9, <4>2 DEF Synced
    <3>2. /\ Before(j) \cap Fold(j, 0, 1) = {}
          /\ Before(j + 1) = Before(j) \cup Fold(j, 0, 1)
      BY <1>5, BeforeGrows
    <3>3. result' = Each(Terms, Before(j + 1))
      BY <1>3, <1>8, <2>1, <3>1, <3>2, EachSplits DEF Summed
    <3>. QED
      BY <1>10, <2>1, <3>3 DEF Summed
  <2>2. CASE ~ size > BlockSize
    <3>1. out[j][Stale] > 0
      BY <1>5, <1>9, <2>2 DEF IInv, Phases, ShortPhases, Marred
    <3>2. result \in Sum /\ out[j] \in Sum /\ Stale \in Terms
      BY <1>5 DEF IInv, TypeOK, Stale, Terms
    <3>3. result[Stale] \in Nat /\ out[j][Stale] \in Nat /\ DOMAIN result = Terms
      BY <3>2 DEF Sum, Sums
    <3>4. result'[Stale] = result[Stale] + out[j][Stale]
      BY <1>3, <3>2, <3>3 DEF ++
    <3>5. result'[Stale] > 0
      BY <3>1, <3>3, <3>4
    <3>. QED
      BY <1>10, <2>2, <3>5 DEF Summed
  <2>. QED
    BY <2>1, <2>2
<1>12. Results'
  BY <1>2, <1>3, <1>7, <1>8, <1>10, <1>11, Contents DEF Results
<1>. QED
  BY <1>1, <1>4, <1>6, <1>12 DEF IInv

LEMMA FinalDoneStep ==
  ASSUME IInv, Wide, FinalDone PROVE IInv'
<1>1. Phases'
  BY PhasesStay DEF IInv, FinalDone
<1>2. queue = <<"final">> /\ queue' = <<>> /\ host = "step2" /\ form = "mem"
  BY HeadAndTail, Contents DEF IInv, FinalDone, Commands
<1>3. UNCHANGED <<host, form, j, result>> /\ j = MaxBlocks
  BY DEF FinalDone
<1>4. Commands'
  BY <1>2, <1>3 DEF Commands
<1>5. TypeOK'
  BY <1>3, <1>4, StillTyped, SizeStays DEF IInv, TypeOK, FinalDone
<1>6. Ran /\ Ran' /\ ~ Unwritten /\ ~ Unwritten'
  BY <1>2, <1>3, Contents DEF Ran, Unwritten
<1>7. Summed' = Summed /\ Warps' = Warps /\ pc' = pc
  BY <1>3, SizeStays, SummedStays DEF FinalDone, kernelVars
<1>8. Results'
  BY <1>3, <1>6, <1>7 DEF IInv, Results
<1>. QED
  BY <1>1, <1>4, <1>5, <1>8 DEF IInv

LEMMA ReadBackStep ==
  ASSUME IInv, Wide, ReadBack PROVE IInv'
<1>1. Phases'
  BY PhasesStay DEF IInv, ReadBack
<1>2. queue = <<>> /\ queue' = <<>> /\ host = "step1" /\ host' = "adding" /\ form = "host"
  BY DEF ReadBack
<1>3. UNCHANGED <<form, j, result>>
  BY DEF ReadBack
<1>4. Commands'
  BY <1>2, <1>3 DEF Commands
<1>5. TypeOK'
  BY <1>2, <1>3, <1>4, StillTyped, SizeStays DEF IInv, TypeOK, ReadBack
<1>6. Ran /\ Ran' /\ ~ Unwritten /\ ~ Unwritten'
  BY <1>2, <1>3, Contents DEF Ran, Unwritten
<1>7. Summed' = Summed /\ Warps' = Warps /\ pc' = pc
  BY <1>3, SizeStays, SummedStays DEF ReadBack, kernelVars
<1>8. Results'
  BY <1>2, <1>3, <1>6, <1>7 DEF IInv, Results
<1>. QED
  BY <1>1, <1>4, <1>5, <1>8 DEF IInv

LEMMA ReturnStep ==
  ASSUME IInv, Wide, Return PROVE IInv'
<1>1. Phases'
  BY PhasesStay DEF IInv, Return
<1>2. queue = <<>> /\ queue' = <<>> /\ host' = "returned" /\ host \in {"step2", "adding"}
  BY DEF IInv, Return, Commands
<1>3. UNCHANGED <<form, j, result>>
  BY DEF Return
<1>4. Commands'
  BY <1>2, <1>3 DEF Commands
<1>5. TypeOK'
  BY <1>2, <1>3, <1>4, StillTyped, SizeStays DEF IInv, TypeOK, Return
<1>6. Ran /\ Ran' /\ ~ Unwritten /\ ~ Unwritten'
  BY <1>2, <1>3, Contents DEF Ran, Unwritten
<1>7. Summed' = Summed /\ Warps' = Warps /\ pc' = pc
  BY <1>3, SizeStays, SummedStays DEF Return, kernelVars
<1>8. j = MaxBlocks
  BY <1>2 DEF IInv, Results, Return
<1>9. Results'
  BY <1>2, <1>3, <1>6, <1>7, <1>8 DEF IInv, Results
<1>. QED
  BY <1>1, <1>4, <1>5, <1>9 DEF IInv

-----------------------------------------------------------------------------
(* The theorems.                                                           *)

LEMMA InitInv == ASSUME Wide, Init PROVE IInv
<1>. size \in Sizes /\ size \in Nat
  BY ReduceAssumption DEF Init
<1>1. TypeOK
  <2>1. BlockSize \div 2 \in 0..BlockSize /\ 0 \in 0..MaxBlocks
    BY Parameters
  <2>2. queue \in Seq({"reduce", "zero", "final"}) /\ Len(queue) <= 2
    BY QueueType DEF Init
  <2>. QED
    BY <2>1, <2>2, JunkType DEF Init, Each2, TypeOK
<1>2. ASSUME NEW g \in Groups, NEW w \in Warps PROVE LoadingIn(g, w)
  BY DEF Init, Each2, LoadingIn
<1>3. Phases
  <2>1. LongPhases
    BY <1>2 DEF LongPhases, PhaseOf, Loading
  <2>2. ASSUME NEW g \in Groups PROVE InStep(g) /\ Marred(g)
    <3>1. 0 \in Warps
      BY LanesAre
    <3>2. LoadingAll(g) /\ stride[g][0] = BlockSize \div 2 /\ pc[g][0] = "start"
      BY <3>1 DEF Init, Each2, LoadingAll
    <3>. QED
      BY <3>2, Parameters DEF InStep, Marred
  <2>. QED
    BY <2>1, <2>2 DEF Phases, ShortPhases
<1>4. Commands
  BY DEF Init, Commands
<1>5. ~ Ran /\ j = 0 /\ host = "called" /\ (~ Unwritten => result = None)
  BY DEF Init, Ran, Unwritten
<1>6. None = Each(Terms, Before(j))
  BY <1>5, BeforeGrows DEF None, Zero, Each
<1>7. Results
  BY <1>5, <1>6 DEF Results, Summed
<1>. QED
  BY <1>1, <1>3, <1>4, <1>7 DEF IInv

LEMMA StutterStep == ASSUME IInv, UNCHANGED vars PROVE IInv'
<1>. size' = size
  BY DEF vars
<1>1. Phases'
  BY PhasesStay DEF IInv, vars
<1>2. Commands'
  BY DEF IInv, vars, Commands
<1>3. TypeOK'
  BY <1>2, StillTyped, SizeStays DEF IInv, TypeOK, vars
<1>4. Ran' = Ran /\ Unwritten' = Unwritten /\ Summed' = Summed /\ Warps' = Warps
      /\ UNCHANGED <<pc, host, queue, j, result>>
  BY SizeStays, SummedStays DEF vars, kernelVars, Ran, Unwritten
<1>5. Results'
  BY <1>4 DEF IInv, Results
<1>. QED
  BY <1>1, <1>2, <1>3, <1>5 DEF IInv

LEMMA NextInv == ASSUME IInv, Wide, [Next]_vars PROVE IInv'
<1>1. CASE Host
  BY <1>1, LaunchStep, FinishStep, ReadBackStep, ReturnStep DEF Host
<1>2. CASE Queue
  BY <1>2, ReduceDoneStep, ZeroWrittenStep, FinalAddStep, FinalDoneStep DEF Queue
<1>3. CASE AtRest \/ UNCHANGED vars
  BY <1>3, StutterStep DEF AtRest
<1>4. ASSUME NEW g \in Groups, Barrier(g) \/ \E w \in Warps : Warp(g, w) PROVE IInv'
  BY <1>4, KernelStep
<1>. QED
  BY <1>1, <1>2, <1>3, <1>4 DEF Next

THEOREM Invariance == ASSUME Wide PROVE Spec => []IInv
<1>1. Init => IInv
  BY InitInv
<1>2. IInv /\ [Next]_vars => IInv'
  BY NextInv
<1>. QED
  BY <1>1, <1>2, PTL DEF Spec

LEMMA PhasesInStep ==
  ASSUME Phases, NEW g \in Groups
  PROVE  InStep(g)
<1>1. Loading(g) => LoadingAll(g)
  BY DEF Loading, LoadingIn, LoadingAll
<1>2. ASSUME NEW S \in Powers, Folding(g, S) PROVE FoldingAll(g, S)
  BY <1>2 DEF Folding, FoldingIn, FoldingAll
<1>3. ASSUME NEW s \in Powers \cup {0}, Synced(g, s) PROVE SyncedAll(g)
  BY <1>3 DEF Synced, SyncedAll
<1>. QED
  BY <1>1, <1>2, <1>3 DEF Phases, LongPhases, ShortPhases, PhaseOf, InStep

LEMMA InvNoLocalRace == ASSUME Wide, IInv PROVE NoLocalRace
<1>. SUFFICES ASSUME NEW g \in Groups, NEW v \in Warps, NEW w \in Warps, v # w,
                     NEW x \in Reads(g, v), x \in Writes(g, w)
              PROVE  FALSE
  BY DEF NoLocalRace
<1>. size \in Sizes
  BY DEF IInv, TypeOK
<1>1. PICK t \in InTree(g, v) : x = t + stride[g][v]
  BY DEF Reads
<1>2. pc[g][v] = "tree" /\ t \in Lanes(v)
  BY <1>1 DEF InTree, Adders, Syncing
<1>3. t \in Nat /\ v \in Nat /\ w \in Nat
  BY <1>2, LanesAre DEF Items
<1>4. InStep(g) /\ ~ LoadingAll(g)
  BY <1>2, PhasesInStep DEF IInv, LoadingAll
<1>5. ASSUME NEW S \in Powers, FoldingAll(g, S) PROVE FALSE
  <2>1. S \in Nat \ {0} /\ S > SyncWidth
    BY <1>5 DEF FoldingAll, Powers
  <2>2. pc[g][v] = "tree" /\ stride[g][v] = S
    BY <1>2, <1>5 DEF FoldingAll
  <2>3. x >= S
    BY <1>1, <1>3, <2>1, <2>2
  <2>4. x \in InTree(g, w)
    BY <1>5 DEF FoldingAll, Writes
  <2>5. pc[g][w] = "tree" /\ stride[g][w] = S
    BY <1>5, <2>4 DEF FoldingAll, InTree
  <2>6. x \in Adders(g, w)
    BY <2>1, <2>4, <2>5 DEF InTree
  <2>7. x < S /\ x \in Nat
    BY <2>5, <2>6, LanesAre DEF Adders, Items
  <2>. QED
    BY <2>1, <2>3, <2>7
<1>6. ASSUME SyncedAll(g) PROVE FALSE
  <2>1. ASSUME NEW u \in Warps, u # 0 PROVE InTree(g, u) = {}
    <3>1. Syncing(u) = {}
      BY <2>1, OneWarpSyncs
    <3>. QED
      BY <1>6, <2>1, <3>1, Parameters DEF SyncedAll, InTree
  <2>2. v = 0
    BY <1>1, <2>1
  <2>3. Writes(g, w) = {}
    BY <1>6, <2>1, <2>2 DEF SyncedAll, Writes
  <2>. QED
    BY <2>3
<1>. QED
  BY <1>4, <1>5, <1>6 DEF InStep

LEMMA InvSumOnReturn == ASSUME Wide, IInv PROVE SumOnReturn
<1>. SUFFICES ASSUME host = "returned" PROVE result = Each(Terms, 0..size-1) <=> size > BlockSize
  BY DEF SumOnReturn
<1>. size \in Nat
  BY ReduceAssumption DEF IInv, TypeOK
<1>1. queue = <<>>
  BY DEF IInv, Commands
<1>2. ~ Unwritten
  BY <1>1, Contents DEF Unwritten
<1>3. Summed /\ j = MaxBlocks
  BY <1>2 DEF IInv, Results
<1>4. ASSUME size > BlockSize PROVE result = Each(Terms, 0..size-1)
  BY <1>3, <1>4, BeforeGrows DEF Summed
<1>5. ASSUME ~ size > BlockSize PROVE result # Each(Terms, 0..size-1)
  <2>1. result[Stale] > 0
    BY <1>3, <1>5, Parameters DEF Summed
  <2>2. Each(Terms, 0..size-1)[Stale] = 0
    BY DEF Each, Stale, Terms
  <2>. QED
    BY <2>1, <2>2
<1>. QED
  BY <1>4, <1>5

(* The type invariant.                                                     *)
THEOREM TypeCorrect == ASSUME Wide PROVE Spec => []TypeOK
<1>1. IInv => TypeOK
  BY DEF IInv
<1>. QED
  BY <1>1, Invariance, PTL

(* No warp reads, in its next step of the tree, a slot of local memory     *)
(* that another one writes in its next step: the barriers are where they   *)
(* have to be, and no work-item is in the part without them but the lanes  *)
(* of one warp.                                                            *)
THEOREM NoRace == ASSUME Wide PROVE Spec => []NoLocalRace
<1>1. IInv => NoLocalRace
  BY InvNoLocalRace
<1>. QED
  BY <1>1, Invariance, PTL

(* For a vector longer than a block, and for no other one, both overloads  *)
(* return the sum of all elements, each of them once, and nothing of what  *)
(* local memory, device_out_data or the result held.                       *)
THEOREM SumReturned == ASSUME Wide PROVE Spec => []SumOnReturn
<1>1. IInv => SumOnReturn
  BY InvSumOnReturn
<1>. QED
  BY <1>1, Invariance, PTL

====
