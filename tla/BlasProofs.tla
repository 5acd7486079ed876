---------------------------- MODULE BlasProofs -----------------------------
(***************************************************************************)
(* Proofs about KernelCache and BlasCalls, for any threads, devices,       *)
(* kernels, contexts, programs, images and sizes.                          *)
(*                                                                         *)
(* First the cache: references are counted exactly, every step has the     *)
(* kernel it asked for, the cache stays within its limit, and nothing is   *)
(* left after clblasTeardown.  The counts are cardinalities of sets of     *)
(* places that refer to a kernel: an action adds a place, removes one, or  *)
(* replaces one by another one.                                            *)
(*                                                                         *)
(* Then whole calls: they use the cache as module KernelCache says, so     *)
(* that what is proved there holds of them; and the scratch images are     *)
(* lent to one step per device, with their references counted exactly.     *)
(***************************************************************************)
EXTENDS BlasCalls, FiniteSetTheorems, SequenceTheorems, TLAPS

(* A kernel is in lruKern once.                                            *)
LruDistinct == \A i, j \in DOMAIN lru : lru[i] = lru[j] => i = j

(* What a thread has in its hands, by where it is.                         *)
PhaseOf(t) ==
  /\ pc[t] = "add" <=> adding[t] # NULL
  /\ pc[t] \in {"out", "make", "add"} => Quiet(t)
  /\ pc[t] = "make" => slot[t] \in Slots /\ want[t][slot[t]] \in Programs
  /\ pc[t] \in {"out", "teardown"} => slot[t] = 1
  /\ pc[t] \in {"find", "make", "add"} => ctx[t] # NULL
  /\ pc[t] # "free" => \A i \in Slots : i >= slot[t] => kernels[t][i] = NULL
Phases == \A t \in Threads : PhaseOf(t)

(* A kernel on its way into the cache is known to its thread only.         *)
AddingFresh ==
  \A t \in Threads :
    adding[t] # NULL =>
      /\ adding[t] \notin InCache
      /\ node[adding[t]].built = ctx[t] /\ node[adding[t]].context = NULL
      /\ \A u \in Threads : adding[u] = adding[t] => u = t

(* The key of a cached kernel has the context it was built for; and only   *)
(* nodes that are in use have sizes and contexts.                          *)
CachedKeys ==
  /\ \A k \in InCache : node[k].context = node[k].built
  /\ \A k \in Kernels : node[k].live => node[k].prog \in Programs
  /\ \A k \in Kernels : ~ node[k].live => node[k].context = NULL

(* Setup and teardown are alone.                                           *)
Sessions ==
  /\ library = "down" => (\A t \in Threads : pc[t] = "out") /\ ~ kcache
  /\ ~ kcache => lru = <<>>
  /\ \A t \in Threads : pc[t] = "add" => kcache
  /\ \A t \in Threads : pc[t] = "teardown" =>
       lru = <<>> /\ \A u \in Threads : u # t => pc[u] = "out"

(* The inductive invariant.                                                *)
IInv ==
  /\ KTypeOK /\ LruDistinct /\ Phases /\ AddingFresh /\ CachedKeys /\ Sessions
  /\ CountsExact /\ KernelsFit /\ ContextsHeld /\ SizeWithinLimit

-----------------------------------------------------------------------------
(* Sums of sizes.                                                          *)

LEMMA UnitsFinite ==
  ASSUME NEW k \in Kernels, node[k].prog \in Programs
  PROVE  /\ IsFiniteSet(Units(k))
         /\ Cardinality(Units(k)) = SizeOf[node[k].prog]
<1>1. PICK n \in Nat : n = SizeOf[node[k].prog]
  BY CacheAssumption
<1>2. IsFiniteSet({k}) /\ Cardinality({k}) = 1
  BY Zenon, FS_Singleton
<1>3. IsFiniteSet(1..n) /\ Cardinality(1..n) = n
  <2>1. 1 \in Int /\ n \in Int
    OBVIOUS
  <2>2. /\ IsFiniteSet(1..n)
        /\ Cardinality(1..n) = IF 1 > n THEN 0 ELSE n - 1 + 1
    BY <2>1, FS_Interval
  <2>. QED  BY <2>2
<1>4. /\ IsFiniteSet({k} \X (1..n))
      /\ Cardinality({k} \X (1..n)) = Cardinality({k}) * Cardinality(1..n)
  BY Zenon, <1>2, <1>3, FS_Product
<1>. QED  BY <1>1, <1>2, <1>3, <1>4 DEF Units

LEMMA UnionFinite ==
  ASSUME NEW S \in SUBSET Kernels, \A k \in S : node[k].prog \in Programs
  PROVE  IsFiniteSet(UNION {Units(k) : k \in S})
<1> DEFINE All == {Units(k) : k \in S}
           f == [k \in S |-> Units(k)]
<1>1. IsFiniteSet(S)
  BY CacheAssumption, FS_Subset
<1>2. f \in Surjection(S, All)
  BY DEF Surjection
<1>3. IsFiniteSet(All)
  BY <1>1, <1>2, FS_Surjection
<1>4. \A T \in All : IsFiniteSet(T)
  BY UnitsFinite
<1>. QED  BY <1>3, <1>4, FS_UNION

LEMMA SumSplit ==
  ASSUME NEW S \in SUBSET Kernels, NEW T \in SUBSET Kernels, S \cap T = {},
         \A k \in S \cup T : node[k].prog \in Programs
  PROVE  SizeSum(S \cup T) = SizeSum(S) + SizeSum(T)
<1> DEFINE US == UNION {Units(k) : k \in S}
           UT == UNION {Units(k) : k \in T}
<1>1. UNION {Units(k) : k \in S \cup T} = US \cup UT
  OBVIOUS
<1>2. US \cap UT = {}
  BY DEF Units
<1>3. IsFiniteSet(US) /\ IsFiniteSet(UT)
  BY UnionFinite
<1>4. Cardinality(US) \in Nat /\ Cardinality(UT) \in Nat /\ Cardinality({}) = 0
  BY <1>3, FS_CardinalityType, FS_EmptySet
<1>5. Cardinality(US \cup UT) = Cardinality(US) + Cardinality(UT)
  <2> HIDE DEF US, UT
  <2>1. Cardinality(US \cup UT) = Cardinality(US) + Cardinality(UT) - Cardinality(US \cap UT)
    BY <1>3, FS_Union
  <2>2. Cardinality(US \cap UT) = 0
    BY <1>2, <1>4
  <2>. QED  BY <1>4, <2>1, <2>2
<1>. QED  BY Zenon, <1>1, <1>5 DEF SizeSum

LEMMA SumOne ==
  ASSUME NEW k \in Kernels, node[k].prog \in Programs
  PROVE  SizeSum({k}) = SizeOf[node[k].prog]
<1>1. UNION {Units(x) : x \in {k}} = Units(k)
  OBVIOUS
<1>. QED  BY Zenon, <1>1, UnitsFinite DEF SizeSum

(* A sum is a number, and zero only if there is nothing to sum up.         *)
LEMMA SumNat ==
  ASSUME NEW S \in SUBSET Kernels, \A k \in S : node[k].prog \in Programs
  PROVE  SizeSum(S) \in Nat /\ (SizeSum(S) = 0 <=> S = {})
<1>1. IsFiniteSet(UNION {Units(k) : k \in S})
  BY UnionFinite
<1>2. UNION {Units(k) : k \in S} = {} <=> S = {}
  <2>1. ASSUME NEW k \in S PROVE <<k, 1>> \in UNION {Units(x) : x \in S}
    <3>1. <<k, 1>> \in Units(k)
      BY CacheAssumption DEF Units
    <3>. QED  BY <3>1
  <2>2. S = {} => UNION {Units(k) : k \in S} = {}
    OBVIOUS
  <2>. QED  BY Zenon, <2>1, <2>2
<1>. QED  BY <1>1, <1>2, FS_CardinalityType, FS_EmptySet DEF SizeSum

-----------------------------------------------------------------------------
(* What happens to lruKern.                                                *)

Elements(s) == {s[i] : i \in DOMAIN s}
Distinct(s) == \A i, j \in DOMAIN s : s[i] = s[j] => i = j

LEMMA Moved ==
  ASSUME lru \in Seq(Kernels), LruDistinct, NEW i \in DOMAIN lru
  PROVE  /\ ToHead(i) \in Seq(Kernels)
         /\ Elements(ToHead(i)) = InCache /\ Distinct(ToHead(i))
<1> DEFINE n == Len(lru)
           s == ToHead(i)
<1>1. n \in Nat /\ DOMAIN lru = 1..n /\ \A j \in 1..n : lru[j] \in Kernels
  BY LenProperties, ElementOfSeq
<1>2. DOMAIN s = 1..n /\ \A j \in 1..n : s[j] = IF j = 1 THEN lru[i] ELSE IF j <= i THEN lru[j - 1] ELSE lru[j]
  BY <1>1 DEF ToHead
<1> HIDE DEF s, n
<1>3. s \in [1..n -> Kernels]
  <2>1. \A j \in 1..n : s[j] \in Kernels
    BY <1>1, <1>2
  <2>2. s = [j \in DOMAIN s |-> s[j]]
    BY DEF s, ToHead
  <2>. QED  BY <1>2, <2>1, <2>2
<1>4. s \in Seq(Kernels)
  BY <1>1, <1>3, SeqDef
<1>5. ASSUME NEW j \in 1..n PROVE s[j] \in InCache
  BY <1>1, <1>2 DEF InCache
<1>6. ASSUME NEW j \in 1..n PROVE \E m \in 1..n : s[m] = lru[j]
  <2>1. CASE j = i
    <3>1. 1 \in 1..n /\ s[1] = lru[j]
      BY <1>1, <1>2, <2>1
    <3>. QED  BY <3>1
  <2>2. CASE j < i
    <3>1. j + 1 \in 1..n /\ s[j + 1] = lru[j]
      BY <1>1, <1>2, <2>2
    <3>. QED  BY <3>1
  <2>3. CASE j > i
    <3>1. s[j] = lru[j]
      BY <1>1, <1>2, <2>3
    <3>. QED  BY <3>1
  <2>. QED  BY <1>1, <2>1, <2>2, <2>3
<1>7. Elements(s) = InCache
  <2>1. Elements(s) = {s[j] : j \in 1..n} /\ InCache = {lru[j] : j \in 1..n}
    BY <1>1, <1>2 DEF Elements, InCache
  <2>2. \A k \in {s[j] : j \in 1..n} : k \in InCache
    BY <1>5
  <2>3. \A k \in {lru[j] : j \in 1..n} : k \in {s[j] : j \in 1..n}
    BY Zenon, <1>6
  <2>. QED  BY Zenon, <2>1, <2>2, <2>3
<1>8. Distinct(s)
  <2>1. \A j, m \in 1..n : lru[j] = lru[m] => j = m
    BY <1>1 DEF LruDistinct
  <2>2. i \in 1..n
    BY <1>1
  <2>3. ASSUME NEW j \in 1..n, NEW m \in 1..n, s[j] = s[m] PROVE j = m
    <3>1. \A x \in 1..n : x = 1 \/ x - 1 \in 1..n
      BY <1>1
    <3>. QED  BY <1>1, <1>2, <2>1, <2>2, <2>3, <3>1
  <2>. QED  BY <1>2, <2>3 DEF Distinct
<1>. QED  BY <1>4, <1>7, <1>8 DEF s

LEMMA Cut ==
  ASSUME lru \in Seq(Kernels), LruDistinct, NEW n \in 0..Len(lru)
  PROVE  /\ Without(n) \in Seq(Kernels) /\ Distinct(Without(n))
         /\ Elements(Without(n)) = InCache \ LastOf(n)
         /\ LastOf(n) \subseteq InCache
         /\ n = Len(lru) => Without(n) = <<>> /\ LastOf(n) = InCache
         /\ n # Len(lru) => Elements(Without(n)) # {}
         /\ n = 0 => LastOf(n) = {}
<1> DEFINE l == Len(lru)
           s == Without(n)
<1>1. /\ l \in Nat /\ DOMAIN lru = 1..l /\ \A j \in 1..l : lru[j] \in Kernels
      /\ l - n \in Nat /\ n \in Nat
  BY LenProperties, ElementOfSeq
<1>2. /\ s \in Seq(Kernels)
      /\ Len(s) = IF 1 <= l - n THEN (l - n) - 1 + 1 ELSE 0
      /\ \A i \in 1..((l - n) - 1 + 1) : s[i] = lru[1 + i - 1]
  BY <1>1, SubSeqProperties DEF Without
<1>3. /\ DOMAIN s = 1..(l - n)
      /\ \A i \in 1..(l - n) : s[i] = lru[i]
  <2> HIDE DEF s, l
  <2>1. DOMAIN s = 1..Len(s)
    BY <1>2, LenProperties
  <2>2. Len(s) = l - n
    BY <1>1, <1>2
  <2>3. ASSUME NEW i \in 1..(l - n) PROVE s[i] = lru[i]
    <3>1. i \in 1..((l - n) - 1 + 1) /\ 1 + i - 1 = i
      BY <1>1
    <3>. QED  BY <1>2, <3>1
  <2>. QED  BY <2>1, <2>2, <2>3
<1>4. LastOf(n) = {lru[i] : i \in (l - n + 1)..l}
  BY DEF LastOf
<1>5. n = l => s = <<>>
  BY <1>1, SubSeqEmpty DEF Without
<1> HIDE DEF s, l
<1>6. Distinct(s)
  BY <1>1, <1>3 DEF Distinct, LruDistinct, l
<1>7. Elements(s) = InCache \ LastOf(n)
  <2>1. ASSUME NEW i \in 1..(l - n) PROVE lru[i] \in InCache \ LastOf(n)
    BY <1>1, <1>4 DEF InCache, LruDistinct, l
  <2>2. ASSUME NEW i \in 1..l, lru[i] \notin LastOf(n) PROVE i \in 1..(l - n)
    BY <1>1, <1>4, <2>2 DEF l
  <2>3. \A k \in Elements(s) : k \in InCache \ LastOf(n)
    BY <1>3, <2>1 DEF Elements
  <2>4. \A k \in InCache \ LastOf(n) : k \in Elements(s)
    <3>1. ASSUME NEW k \in InCache \ LastOf(n) PROVE k \in Elements(s)
      <4>1. PICK i \in 1..l : k = lru[i]
        BY <1>1 DEF InCache
      <4>2. i \in DOMAIN s /\ s[i] = k
        BY <1>3, <2>2, <4>1
      <4>. QED  BY <4>2 DEF Elements
    <3>. QED  BY <3>1
  <2>. QED  BY <2>3, <2>4
<1>8. LastOf(n) \subseteq InCache
  BY <1>1, <1>4 DEF InCache, l
<1>9. n = l => LastOf(n) = InCache
  BY <1>1, <1>4 DEF InCache
<1>10. n # l => Elements(s) # {}
  <2>1. n # l => 1 \in DOMAIN s
    BY <1>1, <1>3
  <2>. QED  BY <2>1 DEF Elements
<1>11. n = 0 => LastOf(n) = {}
  BY <1>1, <1>4
<1>. QED  BY <1>2, <1>5, <1>6, <1>7, <1>8, <1>9, <1>10, <1>11 DEF s, l

LEMMA Prepended ==
  ASSUME NEW s \in Seq(Kernels), Distinct(s), NEW k \in Kernels, k \notin Elements(s)
  PROVE  /\ <<k>> \o s \in Seq(Kernels) /\ Distinct(<<k>> \o s)
         /\ Elements(<<k>> \o s) = {k} \cup Elements(s)
<1> DEFINE c == <<k>> \o s
<1>1. <<k>> \in Seq(Kernels) /\ Len(<<k>>) = 1 /\ <<k>>[1] = k
  OBVIOUS
<1>2. /\ c \in Seq(Kernels) /\ Len(c) = 1 + Len(s)
      /\ \A i \in 1..(1 + Len(s)) : c[i] = IF i <= 1 THEN <<k>>[i] ELSE s[i - 1]
  BY <1>1, ConcatProperties
<1> HIDE DEF c
<1>3. Len(s) \in Nat /\ DOMAIN s = 1..Len(s) /\ DOMAIN c = 1..(1 + Len(s))
  BY <1>2, LenProperties
<1>4. c[1] = k /\ \A i \in DOMAIN s : i + 1 \in DOMAIN c /\ c[i + 1] = s[i]
  BY <1>1, <1>2, <1>3
<1>5. \A i \in DOMAIN c : i = 1 \/ (i - 1 \in DOMAIN s /\ c[i] = s[i - 1])
  BY <1>2, <1>3
<1>6. 1 \in DOMAIN c
  BY <1>3
<1>7. Elements(c) = {k} \cup Elements(s)
  BY <1>3, <1>4, <1>5, <1>6 DEF Elements
<1>8. Distinct(c)
  BY <1>3, <1>4, <1>5 DEF Distinct, Elements
<1>. QED  BY <1>2, <1>7, <1>8 DEF c

-----------------------------------------------------------------------------
(* Who refers to a kernel.                                                 *)

LEMMA PlaceForms ==
  ASSUME NEW h \in Places
  PROVE  /\ h = <<h[1], h[2]>>
         /\ \/ h[1] = NULL /\ h[2] = 0
            \/ h[1] \in Threads /\ h[1] # NULL /\ (h[2] = 0 \/ h[2] = -1 \/ h[2] \in Slots)
BY CacheAssumption DEF Places, Slots

LEMMA HoldersFinite ==
  ASSUME NEW k
  PROVE  IsFiniteSet(Holders(k)) /\ Cardinality(Holders(k)) \in Nat
<1>1. IsFiniteSet(-1..NSlots)
  BY CacheAssumption, FS_Interval
<1>2. IsFiniteSet(Threads \X (-1..NSlots))
  BY <1>1, CacheAssumption, FS_Product
<1>3. IsFiniteSet(Places)
  BY <1>2, FS_AddElement DEF Places
<1>4. IsFiniteSet(Holders(k))
  BY <1>3, FS_Subset DEF Holders
<1>. QED  BY <1>4, FS_CardinalityType

LEMMA HolderGone ==
  ASSUME NEW k, NEW h \in Holders(k)
  PROVE  /\ Cardinality(Holders(k) \ {h}) = Cardinality(Holders(k)) - 1
         /\ Cardinality(Holders(k)) > 0
<1>1. Cardinality(Holders(k) \ {h}) = Cardinality(Holders(k)) - 1
  BY HoldersFinite, FS_RemoveElement
<1>2. Cardinality(Holders(k)) # 0
  BY HoldersFinite, FS_EmptySet
<1>. QED  BY <1>1, <1>2, HoldersFinite

LEMMA HolderNew ==
  ASSUME NEW k, NEW h, h \notin Holders(k)
  PROVE  Cardinality(Holders(k) \cup {h}) = Cardinality(Holders(k)) + 1
BY HoldersFinite, FS_AddElement

LEMMA HolderMoved ==
  ASSUME NEW k, NEW h \in Holders(k), NEW g, g \notin Holders(k)
  PROVE  Cardinality((Holders(k) \ {h}) \cup {g}) = Cardinality(Holders(k))
<1>1. IsFiniteSet(Holders(k) \ {h}) /\ g \notin Holders(k) \ {h}
  BY HoldersFinite, FS_RemoveElement
<1>2. Cardinality((Holders(k) \ {h}) \cup {g}) = Cardinality(Holders(k) \ {h}) + 1
  BY <1>1, FS_AddElement
<1>. QED  BY <1>2, HolderGone, HoldersFinite

(* What CountsExact says of one kernel.                                    *)
CountOf(k) ==
  /\ node[k].live => node[k].refcnt = Cardinality(Holders(k))
  /\ Holders(k) # {} => node[k].live
  /\ (\E t \in Threads : dying[t] = k) <=> (node[k].live /\ node[k].refcnt = 0)
  /\ \A t, u \in Threads : dying[t] = k /\ dying[u] = k => t = u

LEMMA CountsOf == CountsExact <=> \A k \in Kernels : CountOf(k)
BY DEF CountsExact, CountOf

(* A kernel that a step leaves alone.                                      *)
LEMMA CountKept ==
  ASSUME NEW k \in Kernels, CountOf(k), Holders(k)' = Holders(k),
         node'[k].live = node[k].live, node'[k].refcnt = node[k].refcnt,
         \A t \in Threads : dying'[t] = k <=> dying[t] = k
  PROVE  CountOf(k)'
BY DEF CountOf

LEMMA HoldersKept ==
  ASSUME NEW k \in Kernels, k \in InCache' <=> k \in InCache,
         \A t \in Threads :
           /\ adding'[t] = k <=> adding[t] = k
           /\ k \in removed'[t] <=> k \in removed[t]
           /\ \A i \in Slots : kernels'[t][i] = k <=> kernels[t][i] = k
  PROVE  Holders(k)' = Holders(k)
<1>1. ASSUME NEW h \in Places
      PROVE  Refers(h[1], h[2], k)' <=> Refers(h[1], h[2], k)
  BY PlaceForms, CacheAssumption DEF Refers, Slots
<1>. QED  BY <1>1 DEF Holders, Places

(* The places that are lost and those that are gained.                     *)
LEMMA HoldersAre ==
  ASSUME NEW k \in Kernels, NEW L, NEW G \in SUBSET Places,
         k \in InCache' <=> (k \in InCache /\ <<NULL, 0>> \notin L) \/ <<NULL, 0>> \in G,
         \A t \in Threads :
           /\ adding'[t] = k <=> (adding[t] = k /\ <<t, 0>> \notin L) \/ <<t, 0>> \in G
           /\ k \in removed'[t] <=> (k \in removed[t] /\ <<t, -1>> \notin L) \/ <<t, -1>> \in G
           /\ \A i \in Slots :
                kernels'[t][i] = k <=> (kernels[t][i] = k /\ <<t, i>> \notin L) \/ <<t, i>> \in G
  PROVE  Holders(k)' = (Holders(k) \ L) \cup G
<1>1. ASSUME NEW h \in Places
      PROVE  Refers(h[1], h[2], k)' <=> (Refers(h[1], h[2], k) /\ h \notin L) \/ h \in G
  <2>1. h = <<h[1], h[2]>>
    BY PlaceForms
  <2>2. CASE h[1] = NULL /\ h[2] = 0
    BY <2>1, <2>2 DEF Refers
  <2>3. CASE h[1] \in Threads /\ h[1] # NULL /\ h[2] = 0
    BY Zenon, <2>1, <2>3 DEF Refers
  <2>4. CASE h[1] \in Threads /\ h[1] # NULL /\ h[2] = -1
    <3>1. Refers(h[1], h[2], k) <=> k \in removed[h[1]]
      BY <2>4 DEF Refers
    <3>2. Refers(h[1], h[2], k)' <=> k \in removed'[h[1]]
      BY <2>4 DEF Refers
    <3>3. h = <<h[1], -1>>
      BY <2>1, <2>4
    <3>. QED  BY Zenon, <2>4, <3>1, <3>2, <3>3
  <2>5. CASE h[1] \in Threads /\ h[1] # NULL /\ h[2] \in Slots
    <3>1. h[2] # 0 /\ h[2] # -1
      BY <2>5 DEF Slots
    <3>. QED  BY Zenon, <2>1, <2>5, <3>1 DEF Refers
  <2>. QED  BY <2>2, <2>3, <2>4, <2>5, PlaceForms
<1>. QED  BY <1>1 DEF Holders, Places

(* What the steps that only move a thread on, or only change what the      *)
(* application holds, leave alone.                                         *)
LEMMA Kept ==
  ASSUME IInv, UNCHANGED <<lru, node, adding, removed, kernels, dying>>
  PROVE  /\ InCache' = InCache /\ SizeSum(InCache)' = SizeSum(InCache)
         /\ LruDistinct' /\ CachedKeys' /\ CountsExact'
<1>1. InCache' = InCache
  BY DEF InCache
<1>2. SizeSum(InCache)' = SizeSum(InCache)
  BY <1>1 DEF SizeSum, Units
<1>3. LruDistinct' /\ CachedKeys'
  BY <1>1 DEF IInv, LruDistinct, CachedKeys
<1>4. CountsExact'
  <2>1. ASSUME NEW k \in Kernels PROVE CountOf(k)'
    <3>1. Holders(k)' = Holders(k)
      BY <1>1, HoldersKept
    <3>. QED  BY <3>1, CountKept, CountsOf DEF IInv
  <2>. QED  BY <2>1 DEF CountsExact, CountOf
<1>. QED  BY <1>1, <1>2, <1>3, <1>4

-----------------------------------------------------------------------------
(* The application's steps.                                                *)

(* The kernels that hold a context.                                        *)
KeysOf(c) == {k \in Kernels : node[k].live /\ node[k].context = c}

LEMMA InitInv == Init => IInv
<1> SUFFICES ASSUME Init PROVE IInv
  OBVIOUS
<1>1. InCache = {} /\ DOMAIN lru = {}
  BY DEF Init, InCache
<1>2. KTypeOK
  <2>1. node \in [Kernels -> NodeType]
    BY DEF Init, NodeType, FreeNode
  <2>2. lru \in Seq(Kernels) /\ owned \subseteq Contexts /\ totalSize \in Int
    BY DEF Init
  <2>3. slot \in [Threads -> 1..(NSlots + 1)]
    BY CacheAssumption DEF Init
  <2>4. /\ want \in [Threads -> [Slots -> Programs \cup {NULL}]]
        /\ kernels \in [Threads -> [Slots -> Kernels \cup {NULL}]]
    BY DEF Init, NoKernels
  <2>5. /\ adding \in [Threads -> Kernels \cup {NULL}]
        /\ removed \in [Threads -> SUBSET Kernels]
        /\ dying \in [Threads -> Kernels \cup {NULL}]
        /\ ctx \in [Threads -> Contexts \cup {NULL}]
    BY DEF Init
  <2>6. /\ library \in {"down", "up"} /\ kcache \in BOOLEAN /\ limit \in Nat
        /\ refs \in [Contexts -> Nat]
        /\ pc \in [Threads -> {"out", "find", "make", "add", "free", "teardown"}]
    BY Zenon DEF Init
  <2>. QED  BY <2>1, <2>2, <2>3, <2>4, <2>5, <2>6 DEF KTypeOK
<1>3. LruDistinct /\ Phases /\ AddingFresh /\ CachedKeys /\ Sessions /\ KernelsFit
  BY <1>1 DEF Init, LruDistinct, Phases, PhaseOf, AddingFresh, CachedKeys, Sessions, KernelsFit, Quiet,
       FreeNode, NoKernels
<1>4. \A k \in Kernels : Holders(k) = {}
  <2>1. ASSUME NEW k \in Kernels, NEW h \in Places PROVE ~ Refers(h[1], h[2], k)
    BY <1>1, PlaceForms, CacheAssumption DEF Refers, Init, NoKernels, Slots
  <2>. QED  BY <2>1 DEF Holders
<1>5. CountsExact
  BY <1>4, CacheAssumption DEF CountsExact, Init, FreeNode
<1>6. ContextsHeld
  <2>1. ASSUME NEW c \in Contexts PROVE Cardinality(KeysOf(c)) = 0
    <3>1. KeysOf(c) = {}
      BY DEF Init, FreeNode, KeysOf
    <3>. QED  BY <3>1, FS_EmptySet
  <2>2. ASSUME NEW c \in Contexts PROVE refs[c] = 0 /\ c \notin owned
    BY DEF Init
  <2>. QED  BY <2>1, <2>2 DEF ContextsHeld, KeysOf
<1>7. SizeWithinLimit
  BY <1>1, SumNat DEF SizeWithinLimit, Init
<1>. QED  BY <1>2, <1>3, <1>5, <1>6, <1>7 DEF IInv

LEMMA KeysFinite ==
  ASSUME NEW c
  PROVE  IsFiniteSet(KeysOf(c)) /\ Cardinality(KeysOf(c)) \in Nat
BY CacheAssumption, FS_Subset, FS_CardinalityType DEF KeysOf

LEMMA ContextSteps ==
  ASSUME IInv, NEW c \in Contexts, CreateContext(c) \/ ReleaseContext(c)
  PROVE  IInv'
<1> USE DEF IInv
<1>1. UNCHANGED <<cacheVars, node, threadVars>>
  BY DEF CreateContext, ReleaseContext
<1>2. Cardinality(KeysOf(c)) \in Nat /\ refs[c] = Cardinality(KeysOf(c)) + IF c \in owned THEN 1 ELSE 0
  BY KeysFinite DEF ContextsHeld, KeysOf
<1>3. /\ refs' \in [Contexts -> Nat] /\ owned' \subseteq Contexts
      /\ refs'[c] = Cardinality(KeysOf(c)) + IF c \in owned' THEN 1 ELSE 0
      /\ \A d \in Contexts : d # c => refs'[d] = refs[d] /\ (d \in owned' <=> d \in owned)
  <2>1. CASE CreateContext(c)
    <3>1. refs' = [refs EXCEPT ![c] = 1] /\ owned' = owned \cup {c} /\ refs[c] = 0
      BY <2>1 DEF CreateContext
    <3>. QED  BY <3>1, <1>2 DEF KTypeOK
  <2>2. CASE ReleaseContext(c)
    <3>1. refs' = [refs EXCEPT ![c] = @ - 1] /\ owned' = owned \ {c} /\ c \in owned
      BY <2>2 DEF ReleaseContext
    <3>. QED  BY <3>1, <1>2 DEF KTypeOK
  <2>. QED  BY <2>1, <2>2
<1>4. KTypeOK'
  BY <1>1, <1>3 DEF KTypeOK, cacheVars, threadVars
<1>5. InCache' = InCache /\ SizeSum(InCache)' = SizeSum(InCache) /\ LruDistinct' /\ CachedKeys' /\ CountsExact'
  BY <1>1, Kept DEF cacheVars, threadVars
<1>6. Phases' /\ Sessions' /\ KernelsFit' /\ AddingFresh'
  BY <1>1, <1>5 DEF Phases, PhaseOf, Sessions, KernelsFit, AddingFresh, Quiet, cacheVars, threadVars
<1>7. ContextsHeld'
  BY Zenon, <1>1, <1>3 DEF ContextsHeld, KeysOf
<1>8. SizeWithinLimit'
  BY <1>1, <1>5 DEF SizeWithinLimit, cacheVars
<1>. QED  BY <1>4, <1>5, <1>6, <1>7, <1>8

LEMMA SetupStep == IInv /\ Setup => IInv'
<1> SUFFICES ASSUME IInv, Setup PROVE IInv'
  OBVIOUS
<1> USE DEF IInv
<1>1. /\ lru' = lru /\ lru' = <<>> /\ totalSize' = 0 /\ library' = "up"
      /\ limit' \in Nat /\ kcache' \in BOOLEAN /\ UNCHANGED <<node, refs, owned, threadVars>>
  <2>1. lru = <<>>
    BY DEF Setup, Sessions
  <2>2. (kcache' = TRUE /\ limit' \in Limits) \/ (kcache' = FALSE /\ limit' = 0)
    BY DEF Setup
  <2>3. limit' \in Nat
    <3>1. limit' \in Limits \/ limit' = 0
      BY <2>2
    <3>2. \A x \in Limits : x \in Nat
      BY CacheAssumption
    <3>. QED  BY <3>1, <3>2
  <2>4. kcache' \in BOOLEAN
    BY Zenon, <2>2
  <2>. QED  BY <2>1, <2>3, <2>4 DEF Setup
<1>2. KTypeOK'
  BY <1>1 DEF KTypeOK, threadVars
<1>3. InCache' = InCache /\ SizeSum(InCache)' = SizeSum(InCache) /\ LruDistinct' /\ CachedKeys' /\ CountsExact'
  BY <1>1, Kept DEF threadVars
<1>4. Phases' /\ Sessions' /\ KernelsFit' /\ AddingFresh' /\ ContextsHeld'
  BY <1>1, <1>3 DEF Phases, PhaseOf, Sessions, KernelsFit, AddingFresh, Quiet, threadVars, ContextsHeld, Setup
<1>5. SizeWithinLimit'
  <2>1. InCache = {}
    BY <1>1 DEF InCache
  <2>2. SizeSum(InCache) = 0
    BY <2>1, SumNat
  <2>. QED  BY <1>1, <1>3, <2>2 DEF SizeWithinLimit
<1>. QED  BY <1>2, <1>3, <1>4, <1>5

LEMMA BeginStep ==
  ASSUME IInv, NEW t \in Threads, NEW c \in Contexts, Begin(t, c)
  PROVE  IInv'
<1> USE DEF IInv
<1>1. /\ pc' = [pc EXCEPT ![t] = "find"] /\ ctx' = [ctx EXCEPT ![t] = c]
      /\ library = "up" /\ pc[t] = "out" /\ \A u \in Threads : pc[u] # "teardown"
      /\ UNCHANGED <<cacheVars, node, refs, owned, slot, want, kernels, adding, removed, dying>>
  BY DEF Begin
<1>2. KTypeOK'
  BY <1>1 DEF KTypeOK, cacheVars
<1>3. InCache' = InCache /\ SizeSum(InCache)' = SizeSum(InCache) /\ LruDistinct' /\ CachedKeys' /\ CountsExact'
  BY <1>1, Kept DEF cacheVars
<1>4. slot[t] = 1 /\ adding[t] = NULL /\ Quiet(t) /\ \A i \in Slots : kernels[t][i] = NULL
  BY <1>1 DEF Phases, PhaseOf, Slots
<1>5. c # NULL
  BY CacheAssumption
<1>6. Phases'
  <2>1. ASSUME NEW u \in Threads PROVE PhaseOf(u)'
    BY <1>1, <1>4, <1>5 DEF Phases, PhaseOf, KTypeOK, Quiet
  <2>. QED  BY <2>1 DEF Phases
<1>7. Sessions'
  BY <1>1 DEF Sessions, KTypeOK, cacheVars
<1>8. KernelsFit' /\ AddingFresh'
  BY <1>1, <1>3, <1>4 DEF KernelsFit, AddingFresh, KTypeOK
<1>9. ContextsHeld' /\ SizeWithinLimit'
  BY <1>1, <1>3 DEF ContextsHeld, SizeWithinLimit, cacheVars
<1>. QED  BY <1>2, <1>3, <1>6, <1>7, <1>8, <1>9

-----------------------------------------------------------------------------
(* Steps of a thread that leave kernels and the cache alone.               *)

LEMMA ToFreeStep ==
  ASSUME IInv, NEW t \in Threads, MakeFails(t) \/ OutOfResources(t) \/ Launch(t)
  PROVE  IInv'
<1> USE DEF IInv
<1>1. /\ pc' = [pc EXCEPT ![t] = "free"] /\ pc[t] \in {"make", "find"}
      /\ UNCHANGED <<cacheVars, node, refs, owned, ctx, slot, want, kernels, adding, removed, dying>>
  BY DEF MakeFails, OutOfResources, Launch
<1>2. KTypeOK'
  BY <1>1 DEF KTypeOK, cacheVars
<1>3. InCache' = InCache /\ SizeSum(InCache)' = SizeSum(InCache) /\ LruDistinct' /\ CachedKeys' /\ CountsExact'
  BY <1>1, Kept DEF cacheVars
<1>4. Phases'
  <2>1. ASSUME NEW u \in Threads PROVE PhaseOf(u)'
    BY <1>1 DEF Phases, PhaseOf, KTypeOK, Quiet
  <2>. QED  BY <2>1 DEF Phases
<1>5. Sessions'
  BY <1>1 DEF Sessions, KTypeOK, cacheVars
<1>6. KernelsFit' /\ AddingFresh' /\ ContextsHeld' /\ SizeWithinLimit'
  BY <1>1, <1>3 DEF KernelsFit, AddingFresh, ContextsHeld, SizeWithinLimit, cacheVars
<1>. QED  BY <1>2, <1>3, <1>4, <1>5, <1>6

LEMMA EndStep ==
  ASSUME IInv, NEW t \in Threads, End(t)
  PROVE  IInv'
<1> USE DEF IInv
<1>1. /\ pc[t] = "free" /\ Quiet(t) /\ kernels[t] = NoKernels
      /\ pc' = [pc EXCEPT ![t] = "out"] /\ ctx' = [ctx EXCEPT ![t] = NULL]
      /\ slot' = [slot EXCEPT ![t] = 1] /\ want' = [want EXCEPT ![t] = NoKernels]
      /\ UNCHANGED <<cacheVars, node, refs, owned, kernels, adding, removed, dying>>
  BY DEF End
<1>2. KTypeOK'
  <2>1. 1 \in 1..(NSlots + 1) /\ NoKernels \in [Slots -> Programs \cup {NULL}]
    BY CacheAssumption DEF NoKernels
  <2>. QED  BY <1>1, <2>1 DEF KTypeOK, cacheVars
<1>3. InCache' = InCache /\ SizeSum(InCache)' = SizeSum(InCache) /\ LruDistinct' /\ CachedKeys' /\ CountsExact'
  BY <1>1, Kept DEF cacheVars
<1>4. adding[t] = NULL /\ \A i \in Slots : kernels[t][i] = NULL
  BY <1>1 DEF Phases, PhaseOf, NoKernels
<1>5. Phases'
  <2>1. ASSUME NEW u \in Threads PROVE PhaseOf(u)'
    BY <1>1, <1>4 DEF Phases, PhaseOf, KTypeOK, Quiet
  <2>. QED  BY <2>1 DEF Phases
<1>6. Sessions'
  BY <1>1 DEF Sessions, KTypeOK, cacheVars
<1>7. KernelsFit' /\ AddingFresh'
  BY <1>1, <1>3, <1>4 DEF KernelsFit, AddingFresh, KTypeOK
<1>8. ContextsHeld' /\ SizeWithinLimit'
  BY <1>1, <1>3 DEF ContextsHeld, SizeWithinLimit, cacheVars
<1>. QED  BY <1>2, <1>3, <1>5, <1>6, <1>7, <1>8

LEMMA TornDownStep ==
  ASSUME IInv, NEW t \in Threads, TornDown(t)
  PROVE  IInv'
<1> USE DEF IInv
<1>1. /\ pc[t] = "teardown" /\ Quiet(t) /\ pc' = [pc EXCEPT ![t] = "out"]
      /\ library' = "down" /\ kcache' = FALSE /\ limit' = 0
      /\ UNCHANGED <<lru, totalSize, node, refs, owned, ctx, slot, want, kernels, adding,
                     removed, dying>>
  BY DEF TornDown
<1>2. KTypeOK'
  BY Zenon, <1>1 DEF KTypeOK
<1>3. InCache' = InCache /\ SizeSum(InCache)' = SizeSum(InCache) /\ LruDistinct' /\ CachedKeys' /\ CountsExact'
  BY <1>1, Kept
<1>4. Phases'
  <2>1. ASSUME NEW u \in Threads PROVE PhaseOf(u)'
    BY <1>1 DEF Phases, PhaseOf, KTypeOK, Quiet
  <2>. QED  BY <2>1 DEF Phases
<1>5. Sessions'
  <2>1. lru = <<>> /\ \A u \in Threads : u # t => pc[u] = "out"
    BY <1>1 DEF Sessions
  <2>. QED  BY <1>1, <2>1 DEF Sessions, KTypeOK
<1>6. KernelsFit' /\ AddingFresh' /\ ContextsHeld' /\ SizeWithinLimit'
  BY <1>1, <1>3 DEF KernelsFit, AddingFresh, ContextsHeld, SizeWithinLimit
<1>. QED  BY <1>2, <1>3, <1>4, <1>5, <1>6

(* A kernel is not in the cache.                                           *)
LEMMA MissStep ==
  ASSUME IInv, NEW t \in Threads, NEW p \in Programs,
         pc[t] = "find", Quiet(t), slot[t] \in Slots,
         want' = [want EXCEPT ![t][slot[t]] = p],
         pc' = [pc EXCEPT ![t] = "make"],
         UNCHANGED <<cacheVars, node, slot, kernels, refs, owned, ctx, adding, removed, dying>>
  PROVE  IInv'
<1> USE DEF IInv
<1>1. /\ want' \in [Threads -> [Slots -> Programs \cup {NULL}]] /\ want'[t][slot[t]] = p
      /\ \A u \in Threads, i \in Slots : kernels[u][i] # NULL => want'[u][i] = want[u][i]
  <2>1. want \in [Threads -> [Slots -> Programs \cup {NULL}]]
    BY DEF KTypeOK
  <2>2. kernels[t][slot[t]] = NULL
    BY DEF Phases, PhaseOf, Slots
  <2>3. /\ want' \in [Threads -> [Slots -> Programs \cup {NULL}]] /\ want'[t][slot[t]] = p
        /\ \A u \in Threads, i \in Slots : (u = t /\ i = slot[t]) \/ want'[u][i] = want[u][i]
    BY <2>1
  <2>. QED  BY <2>2, <2>3
<1>2. KTypeOK'
  BY <1>1 DEF KTypeOK, cacheVars
<1>3. InCache' = InCache /\ SizeSum(InCache)' = SizeSum(InCache) /\ LruDistinct' /\ CachedKeys' /\ CountsExact'
  BY Kept DEF cacheVars
<1>4. Phases'
  <2>1. ASSUME NEW u \in Threads PROVE PhaseOf(u)'
    BY <1>1 DEF Phases, PhaseOf, KTypeOK, Quiet
  <2>. QED  BY <2>1 DEF Phases
<1>5. Sessions'
  BY DEF Sessions, KTypeOK, cacheVars
<1>6. KernelsFit'
  BY <1>1 DEF KernelsFit
<1>7. AddingFresh' /\ ContextsHeld' /\ SizeWithinLimit'
  BY <1>3 DEF AddingFresh, ContextsHeld, SizeWithinLimit, cacheVars
<1>. QED  BY <1>2, <1>3, <1>4, <1>5, <1>6, <1>7

-----------------------------------------------------------------------------
(* Steps that take or put a reference.                                     *)

(* The nodes are the same, but for their reference counts.                 *)
SameNodes ==
  \A k \in Kernels :
    /\ node'[k].live = node[k].live /\ node'[k].prog = node[k].prog
    /\ node'[k].built = node[k].built /\ node'[k].context = node[k].context

LEMMA NodeCount ==
  ASSUME node \in [Kernels -> NodeType], NEW k \in Kernels, NEW n \in Nat,
         node' = [node EXCEPT ![k].refcnt = n]
  PROVE  /\ node' \in [Kernels -> NodeType] /\ node'[k].refcnt = n
         /\ SameNodes /\ \A x \in Kernels : x # k => node'[x] = node[x]
<1>1. node[k] \in NodeType /\ node'[k] = [node[k] EXCEPT !.refcnt = n]
  OBVIOUS
<1>2. [node[k] EXCEPT !.refcnt = n] \in NodeType
  BY <1>1 DEF NodeType
<1>3. node' \in [Kernels -> NodeType] /\ \A x \in Kernels : x # k => node'[x] = node[x]
  BY <1>1, <1>2
<1>4. /\ node'[k].refcnt = n /\ node'[k].live = node[k].live /\ node'[k].prog = node[k].prog
      /\ node'[k].built = node[k].built /\ node'[k].context = node[k].context
  BY <1>1 DEF NodeType
<1>. QED  BY <1>3, <1>4 DEF SameNodes

LEMMA SlotSet ==
  ASSUME NEW V, NEW f \in [Threads -> [Slots -> V]], NEW t \in Threads, NEW s \in Slots,
         NEW v \in V, NEW g, g = [f EXCEPT ![t][s] = v]
  PROVE  /\ g \in [Threads -> [Slots -> V]] /\ g[t][s] = v
         /\ \A u \in Threads, j \in Slots : (u = t /\ j = s) \/ g[u][j] = f[u][j]
         /\ \A u \in Threads : u # t => g[u] = f[u]
OBVIOUS

LEMMA CachedAre ==
  ASSUME IInv, NEW k \in InCache
  PROVE  /\ k \in Kernels /\ node[k].live /\ node[k].prog \in Programs
         /\ <<NULL, 0>> \in Holders(k)
<1>1. k \in Kernels
  BY ElementOfSeq, LenProperties DEF IInv, KTypeOK, InCache
<1>2. <<NULL, 0>> \in Holders(k)
  BY DEF Holders, Places, Refers
<1>. QED  BY <1>1, <1>2 DEF IInv, CountsExact, CachedKeys

LEMMA SameNodesKeep ==
  ASSUME IInv, SameNodes, InCache' = InCache
  PROVE  /\ SizeSum(InCache)' = SizeSum(InCache) /\ CachedKeys'
         /\ \A c \in Contexts : KeysOf(c)' = KeysOf(c)
<1>1. SizeSum(InCache)' = SizeSum(InCache)
  <2>1. \A k \in InCache : Units(k)' = Units(k)
    BY CachedAre DEF Units, SameNodes
  <2>2. UNION {Units(k)' : k \in InCache} = UNION {Units(k) : k \in InCache}
    BY <2>1
  <2>. QED  BY <2>2 DEF SizeSum
<1>2. CachedKeys'
  BY CachedAre DEF CachedKeys, SameNodes, IInv
<1>. QED  BY <1>1, <1>2 DEF KeysOf, SameNodes

LEMMA HitStep ==
  ASSUME IInv, NEW t \in Threads, NEW p \in Programs, NEW i \in DOMAIN lru,
         pc[t] = "find", Quiet(t), slot[t] \in Slots,
         want' = [want EXCEPT ![t][slot[t]] = p],
         lru[i] \in Matches(ctx[t], p), FindKernel(t, i),
         UNCHANGED <<refs, owned, ctx, adding, removed, dying>>
  PROVE  IInv'
<1> USE DEF IInv
<1>a. PICK k : k = lru[i]
  OBVIOUS
<1>b. PICK s : s = slot[t]
  OBVIOUS
<1>1. /\ kcache /\ node' = [node EXCEPT ![k].refcnt = @ + 1] /\ lru' = ToHead(i)
      /\ kernels' = [kernels EXCEPT ![t][s] = k] /\ slot' = [slot EXCEPT ![t] = @ + 1]
      /\ UNCHANGED <<library, kcache, limit, totalSize, pc>>
  BY <1>a, <1>b DEF FindKernel
<1>2. k \in InCache /\ node[k].prog = p /\ node[k].context = ctx[t] /\ node[k].built = ctx[t]
  BY <1>a DEF Matches, CachedKeys
<1>3. k \in Kernels /\ node[k].live /\ <<NULL, 0>> \in Holders(k) /\ s \in Slots
  BY <1>2, <1>b, CachedAre
<1>4. lru' \in Seq(Kernels) /\ InCache' = InCache /\ LruDistinct'
  <2>1. /\ ToHead(i) \in Seq(Kernels)
        /\ Elements(ToHead(i)) = InCache /\ Distinct(ToHead(i))
    BY Moved DEF KTypeOK
  <2>. QED  BY Zenon, <1>1, <2>1 DEF Elements, Distinct, InCache, LruDistinct
<1>5. kernels[t][s] = NULL /\ s \in Int
  BY <1>3, <1>b DEF Phases, PhaseOf, Slots
<1>6. /\ kernels' \in [Threads -> [Slots -> Kernels \cup {NULL}]] /\ kernels'[t][s] = k
      /\ \A u \in Threads, j \in Slots : (u = t /\ j = s) \/ kernels'[u][j] = kernels[u][j]
  BY <1>1, <1>3, SlotSet DEF KTypeOK
<1>7. /\ want' \in [Threads -> [Slots -> Programs \cup {NULL}]] /\ want'[t][s] = p
      /\ \A u \in Threads, j \in Slots : (u = t /\ j = s) \/ want'[u][j] = want[u][j]
  BY <1>3, <1>b, SlotSet DEF KTypeOK
<1>8. /\ node' \in [Kernels -> NodeType] /\ node'[k].refcnt = node[k].refcnt + 1
      /\ SameNodes /\ \A x \in Kernels : x # k => node'[x] = node[x]
  <2>1. node[k].refcnt + 1 \in Nat /\ node \in [Kernels -> NodeType]
    BY <1>3 DEF KTypeOK, NodeType
  <2>. QED  BY Zenon, <1>1, <1>3, <2>1, NodeCount
<1>9. KTypeOK'
  <2>1. slot' \in [Threads -> 1..(NSlots + 1)]
    BY <1>1, <1>3, <1>b, CacheAssumption DEF KTypeOK, Slots
  <2>. QED  BY <1>1, <1>4, <1>6, <1>7, <1>8, <2>1 DEF KTypeOK
<1>10. Phases'
  <2>1. slot'[t] = s + 1 /\ \A j \in Slots : j >= s + 1 => kernels'[t][j] = NULL
    <3>1. slot'[t] = s + 1
      BY <1>1, <1>b DEF KTypeOK
    <3>2. \A j \in Slots : j >= s => kernels[t][j] = NULL
      BY <1>b DEF Phases, PhaseOf
    <3>3. \A j \in Slots : j >= s + 1 => j >= s /\ j # s
      BY <1>5 DEF Slots
    <3>. QED  BY <1>6, <3>1, <3>2, <3>3
  <2>2. \A u \in Threads : u # t => slot'[u] = slot[u] /\ kernels'[u] = kernels[u] /\ want'[u] = want[u]
    BY <1>1 DEF KTypeOK
  <2>3. ASSUME NEW u \in Threads PROVE PhaseOf(u)'
    BY <1>1, <2>1, <2>2 DEF Phases, PhaseOf, Quiet
  <2>. QED  BY <2>3 DEF Phases
<1>11. CountsExact'
  <2>1. ASSUME NEW x \in Kernels PROVE CountOf(x)'
    <3>1. CASE x # k
      <4>1. Holders(x)' = Holders(x)
        <5>1. \A u \in Threads, j \in Slots : kernels'[u][j] = x <=> kernels[u][j] = x
          BY <1>5, <1>6, <3>1, CacheAssumption
        <5>. QED  BY <1>4, <5>1, HoldersKept
      <4>. QED  BY <4>1, <1>8, <3>1, CountKept, CountsOf
    <3>2. CASE x = k
      <4>1. Holders(k)' = Holders(k) \cup {<<t, s>>} /\ <<t, s>> \notin Holders(k)
        <5>1. <<t, s>> \in Places /\ ~ Refers(t, s, k)
          BY <1>3, <1>5, CacheAssumption DEF Places, Refers, Slots
        <5>2. Holders(k)' = (Holders(k) \ {}) \cup {<<t, s>>}
          <6> DEFINE G == {<<t, s>>}
          <6>1. /\ <<NULL, 0>> \notin G /\ G \subseteq Places
                /\ \A u \in Threads : <<u, 0>> \notin G /\ <<u, -1>> \notin G
                /\ \A u \in Threads, j \in Slots : <<u, j>> \in G <=> u = t /\ j = s
            BY <1>3, <5>1, CacheAssumption DEF Slots
          <6>2. \A u \in Threads, j \in Slots :
                  kernels'[u][j] = k <=> kernels[u][j] = k \/ <<u, j>> \in G
            BY <1>6, <6>1
          <6> HIDE DEF G
          <6>3. Holders(k)' = (Holders(k) \ {}) \cup G
            BY <1>3, <1>4, <6>1, <6>2, HoldersAre
          <6>. QED  BY <6>3 DEF G
        <5>. QED  BY <5>1, <5>2 DEF Holders
      <4>2. Cardinality(Holders(k)') = Cardinality(Holders(k)) + 1
        BY <4>1, HolderNew
      <4>3. CountOf(k) /\ node[k].refcnt = Cardinality(Holders(k)) /\ Cardinality(Holders(k)) > 0
        BY Zenon, <1>3, CountsOf, HolderGone DEF CountOf
      <4>4. node'[k].live /\ node'[k].refcnt = Cardinality(Holders(k)') /\ node'[k].refcnt # 0
        BY <1>3, <1>8, <4>2, <4>3, HoldersFinite DEF SameNodes
      <4>5. \A u \in Threads : dying'[u] # k
        BY <4>3, HoldersFinite DEF CountOf
      <4>6. CountOf(k)'
        BY <4>4, <4>5 DEF CountOf
      <4>. QED  BY <3>2, <4>6
    <3>. QED  BY <3>1, <3>2
  <2>. QED  BY <2>1 DEF CountsExact, CountOf
<1>12. SizeSum(InCache)' = SizeSum(InCache) /\ CachedKeys' /\ \A c \in Contexts : KeysOf(c)' = KeysOf(c)
  BY <1>4, <1>8, SameNodesKeep
<1>13. KernelsFit'
  <2>1. ASSUME NEW u \in Threads, NEW j \in Slots, kernels'[u][j] # NULL
        PROVE  LET x == kernels'[u][j]
               IN  node'[x].live /\ node'[x].built = ctx'[u] /\ node'[x].prog = want'[u][j]
    <3>1. CASE u = t /\ j = s
      BY <1>2, <1>3, <1>6, <1>7, <1>8, <3>1 DEF SameNodes
    <3>2. CASE ~ (u = t /\ j = s)
      <4>1. kernels'[u][j] = kernels[u][j] /\ want'[u][j] = want[u][j] /\ ctx'[u] = ctx[u]
        BY <1>6, <1>7, <3>2
      <4>2. kernels[u][j] \in Kernels
        BY <4>1, <2>1 DEF KTypeOK
      <4>. QED  BY <1>8, <2>1, <4>1, <4>2 DEF SameNodes, KernelsFit
    <3>. QED  BY <3>1, <3>2
  <2>. QED  BY <2>1 DEF KernelsFit
<1>14. AddingFresh'
  <2>1. \A u \in Threads : adding[u] # NULL => adding[u] \in Kernels
    BY DEF KTypeOK
  <2>. QED  BY <1>4, <1>8, <2>1 DEF AddingFresh, SameNodes
<1>15. ContextsHeld' /\ SizeWithinLimit'
  BY <1>1, <1>12 DEF ContextsHeld, KeysOf, SizeWithinLimit
<1>16. Sessions'
  BY <1>1 DEF Sessions
<1>. QED  BY <1>4, <1>9, <1>10, <1>11, <1>12, <1>13, <1>14, <1>15, <1>16

-----------------------------------------------------------------------------
(* A kernel is made, at an address that nobody knows.                      *)

LEMMA UnknownAddress ==
  ASSUME IInv, NEW k \in Kernels, ~ node[k].live
  PROVE  /\ k \notin InCache /\ Holders(k) = {}
         /\ \A u \in Threads :
              /\ adding[u] # k /\ k \notin removed[u] /\ dying[u] # k
              /\ \A j \in Slots : kernels[u][j] # k
<1>1. Holders(k) = {} /\ \A u \in Threads : dying[u] # k
  BY CountsOf DEF IInv, CountOf
<1>2. \A h \in Places : ~ Refers(h[1], h[2], k)
  BY <1>1 DEF Holders
<1>3. k \notin InCache
  <2>1. <<NULL, 0>> \in Places
    BY DEF Places
  <2>. QED  BY <1>2, <2>1 DEF Refers
<1>4. ASSUME NEW u \in Threads
      PROVE  adding[u] # k /\ k \notin removed[u] /\ \A j \in Slots : kernels[u][j] # k
  <2>0. u # NULL
    BY CacheAssumption
  <2>1. /\ <<u, 0>> \in Places /\ <<u, -1>> \in Places
        /\ \A j \in Slots : <<u, j>> \in Places /\ j # 0 /\ j # -1
    BY CacheAssumption DEF Places, Slots
  <2>2. ~ Refers(u, 0, k) /\ ~ Refers(u, -1, k) /\ \A j \in Slots : ~ Refers(u, j, k)
    BY Zenon, <1>2, <2>1
  <2>3. Refers(u, -1, k) <=> k \in removed[u]
    BY <2>0 DEF Refers
  <2>. QED  BY <2>0, <2>1, <2>2, <2>3 DEF Refers
<1>. QED  BY <1>1, <1>3, <1>4

LEMMA MakeStep ==
  ASSUME IInv, NEW t \in Threads, Make(t)
  PROVE  IInv'
<1> USE DEF IInv
<1>a. PICK k \in Kernels :
       /\ ~ node[k].live
       /\ node' = [node EXCEPT ![k] =
            [live |-> TRUE, refcnt |-> IF kcache THEN 2 ELSE 1,
             prog |-> want[t][slot[t]], built |-> ctx[t], context |-> NULL]]
       /\ kernels' = [kernels EXCEPT ![t][slot[t]] = k]
       /\ adding' = [adding EXCEPT ![t] = IF kcache THEN k ELSE NULL]
  BY Zenon DEF Make
<1>b. PICK s : s = slot[t]
  OBVIOUS
<1>1. /\ pc[t] = "make" /\ slot' = [slot EXCEPT ![t] = @ + 1]
      /\ pc' = [pc EXCEPT ![t] = IF kcache THEN "add" ELSE "find"]
      /\ UNCHANGED <<cacheVars, refs, owned, ctx, want, removed, dying>>
  BY DEF Make
<1>2. /\ s \in Slots /\ want[t][s] \in Programs /\ ctx[t] \in Contexts /\ Quiet(t)
      /\ adding[t] = NULL /\ \A j \in Slots : j >= s => kernels[t][j] = NULL
  BY Zenon, <1>1, <1>b DEF Phases, PhaseOf, KTypeOK
<1>3. k # NULL /\ s \in 1..NSlots /\ NSlots \in Nat
  BY <1>2, CacheAssumption DEF Slots
<1>4. /\ node' \in [Kernels -> NodeType] /\ node'[k].live
      /\ node'[k].prog = want[t][s] /\ node'[k].built = ctx[t] /\ node'[k].context = NULL
      /\ node'[k].refcnt = IF kcache THEN 2 ELSE 1
      /\ \A x \in Kernels : x # k => node'[x] = node[x]
  <2>1. [live |-> TRUE, refcnt |-> IF kcache THEN 2 ELSE 1,
         prog |-> want[t][s], built |-> ctx[t], context |-> NULL] \in NodeType
    BY <1>2 DEF NodeType
  <2>. QED  BY <1>a, <1>b, <2>1 DEF KTypeOK
<1>5. /\ kernels' \in [Threads -> [Slots -> Kernels \cup {NULL}]] /\ kernels'[t][s] = k
      /\ \A u \in Threads, j \in Slots : (u = t /\ j = s) \/ kernels'[u][j] = kernels[u][j]
  BY <1>a, <1>b, <1>2, SlotSet DEF KTypeOK
<1>6. /\ k \notin InCache /\ Holders(k) = {}
      /\ \A u \in Threads :
           /\ adding[u] # k /\ k \notin removed[u] /\ dying[u] # k
           /\ \A j \in Slots : kernels[u][j] # k
  BY <1>a, UnknownAddress
<1>7. InCache' = InCache /\ LruDistinct'
  BY <1>1 DEF cacheVars, InCache, LruDistinct
<1>8. /\ adding' \in [Threads -> Kernels \cup {NULL}]
      /\ adding'[t] = IF kcache THEN k ELSE NULL
      /\ \A u \in Threads : u # t => adding'[u] = adding[u]
  BY <1>a DEF KTypeOK
<1>9. slot' \in [Threads -> 1..(NSlots + 1)] /\ slot'[t] = s + 1
      /\ \A u \in Threads : u # t => slot'[u] = slot[u]
  BY <1>1, <1>3, <1>b DEF KTypeOK
<1>10. KTypeOK'
  <2>1. pc' \in [Threads -> {"out", "find", "make", "add", "free", "teardown"}]
    BY <1>1 DEF KTypeOK
  <2>. QED  BY <1>1, <1>4, <1>5, <1>8, <1>9, <2>1 DEF KTypeOK, cacheVars
<1>11. Phases'
  <2>1. \A j \in Slots : j >= s + 1 => kernels'[t][j] = NULL
    <3>1. \A j \in Slots : j >= s + 1 => j >= s /\ j # s
      BY <1>3 DEF Slots
    <3>. QED  BY <1>2, <1>5, <3>1
  <2>2. PhaseOf(t)'
    BY <1>1, <1>2, <1>3, <1>8, <1>9, <2>1, CacheAssumption DEF PhaseOf, Phases, Quiet, KTypeOK
  <2>3. ASSUME NEW u \in Threads, u # t PROVE PhaseOf(u)'
    BY <1>1, <1>5, <1>8, <1>9, <2>3 DEF PhaseOf, Phases, Quiet, KTypeOK
  <2>. QED  BY <2>2, <2>3 DEF Phases
<1>12. CountsExact'
  <2>1. ASSUME NEW x \in Kernels PROVE CountOf(x)'
    <3>1. CASE x # k
      <4>1. Holders(x)' = Holders(x)
        <5>1. \A u \in Threads, j \in Slots : kernels'[u][j] = x <=> kernels[u][j] = x
          BY <1>2, <1>3, <1>5, <3>1, CacheAssumption
        <5>2. \A u \in Threads : adding'[u] = x <=> adding[u] = x
          BY <1>2, <1>8, <3>1, CacheAssumption
        <5>. QED  BY <1>1, <1>7, <5>1, <5>2, HoldersKept
      <4>. QED  BY <4>1, <1>1, <1>4, <3>1, CountKept, CountsOf
    <3>2. CASE x = k
      <4> DEFINE G == IF kcache THEN {<<t, s>>, <<t, 0>>} ELSE {<<t, s>>}
      <4>1. /\ <<NULL, 0>> \notin G /\ G \subseteq Places
            /\ \A u \in Threads : /\ <<u, -1>> \notin G
                                  /\ <<u, 0>> \in G <=> u = t /\ kcache
            /\ \A u \in Threads, j \in Slots : <<u, j>> \in G <=> u = t /\ j = s
        BY <1>2, CacheAssumption DEF Slots, Places
      <4>2. Holders(k)' = G
        <5>1. PICK H : H = G
          BY Zenon
        <5>2. /\ \A u \in Threads : adding'[u] = k <=> <<u, 0>> \in H
              /\ \A u \in Threads, j \in Slots : kernels'[u][j] = k <=> <<u, j>> \in H
          <6>1. \A u \in Threads : <<u, 0>> \in H <=> u = t /\ kcache
            BY Zenon, <4>1, <5>1
          <6>2. \A u \in Threads, j \in Slots : <<u, j>> \in H <=> u = t /\ j = s
            BY Zenon, <4>1, <5>1
          <6>3. k # NULL
            BY <1>2, CacheAssumption
          <6>4. \A u \in Threads : adding'[u] = k <=> u = t /\ kcache
            BY <1>6, <1>8, <6>3
          <6>5. \A u \in Threads, j \in Slots : kernels'[u][j] = k <=> u = t /\ j = s
            BY <1>5, <1>6
          <6>. QED  BY <6>1, <6>2, <6>4, <6>5
        <5>3. Holders(k)' = (Holders(k) \ {}) \cup H
          BY <1>1, <1>6, <1>7, <4>1, <5>1, <5>2, HoldersAre
        <5>. QED  BY <1>6, <5>1, <5>3
      <4>3. Cardinality(G) = IF kcache THEN 2 ELSE 1
        <5>1. IsFiniteSet({<<t, s>>}) /\ Cardinality({<<t, s>>}) = 1
          BY Zenon, FS_Singleton
        <5>2. <<t, 0>> \notin {<<t, s>>}
          BY <1>3
        <5>3. Cardinality({<<t, s>>} \cup {<<t, 0>>}) = 1 + 1
          BY Zenon, <5>1, <5>2, FS_AddElement
        <5>4. {<<t, s>>} \cup {<<t, 0>>} = {<<t, s>>, <<t, 0>>}
          OBVIOUS
        <5>. QED  BY <5>1, <5>3, <5>4
      <4>4. node'[k].refcnt = Cardinality(Holders(k)') /\ node'[k].refcnt # 0
        BY <1>4, <4>2, <4>3
      <4>5. CountOf(k)'
        BY <1>1, <1>4, <1>6, <4>4 DEF CountOf
      <4>. QED  BY <3>2, <4>5
    <3>. QED  BY <3>1, <3>2
  <2>. QED  BY <2>1 DEF CountsExact, CountOf
<1>13. SizeSum(InCache)' = SizeSum(InCache)
  <2>1. \A x \in InCache : Units(x)' = Units(x)
    BY <1>4, <1>6, CachedAre DEF Units
  <2>2. UNION {Units(x)' : x \in InCache} = UNION {Units(x) : x \in InCache}
    BY <2>1
  <2>. QED  BY Zenon, <1>7, <2>2 DEF SizeSum
<1>14. CachedKeys'
  <2>1. \A x \in InCache : x \in Kernels /\ x # k
    BY <1>6, CachedAre
  <2>. QED  BY <1>2, <1>4, <1>7, <2>1 DEF CachedKeys
<1>15. \A c \in Contexts : KeysOf(c)' = KeysOf(c)
  BY <1>a, <1>4, CacheAssumption DEF KeysOf
<1>16. KernelsFit'
  <2>1. ASSUME NEW u \in Threads, NEW j \in Slots, kernels'[u][j] # NULL
        PROVE  LET x == kernels'[u][j]
               IN  node'[x].live /\ node'[x].built = ctx'[u] /\ node'[x].prog = want'[u][j]
    <3>1. CASE u = t /\ j = s
      BY <1>1, <1>4, <1>5, <3>1
    <3>2. CASE ~ (u = t /\ j = s)
      <4>1. kernels'[u][j] = kernels[u][j] /\ want'[u][j] = want[u][j] /\ ctx'[u] = ctx[u]
        BY <1>1, <1>5, <3>2
      <4>2. kernels[u][j] \in Kernels /\ kernels[u][j] # k
        BY <1>6, <4>1, <2>1 DEF KTypeOK
      <4>. QED  BY <1>4, <2>1, <4>1, <4>2 DEF KernelsFit
    <3>. QED  BY <3>1, <3>2
  <2>. QED  BY <2>1 DEF KernelsFit
<1>17. AddingFresh'
  <2>1. \A u \in Threads : adding[u] # NULL => adding[u] \in Kernels /\ adding[u] # k
    BY <1>6 DEF KTypeOK
  <2>2. \A u \in Threads : ctx'[u] = ctx[u]
    BY <1>1
  <2>. QED  BY <1>3, <1>4, <1>6, <1>7, <1>8, <2>1, <2>2 DEF AddingFresh
<1>18. ContextsHeld' /\ SizeWithinLimit' /\ Sessions'
  BY Zenon, <1>1, <1>7, <1>13, <1>15 DEF ContextsHeld, KeysOf, SizeWithinLimit, Sessions, cacheVars, KTypeOK
<1>. QED  BY <1>7, <1>10, <1>11, <1>12, <1>14, <1>16, <1>17, <1>18

-----------------------------------------------------------------------------
(* A reference is put.                                                     *)

LEMMA PutCounts ==
  ASSUME IInv, NEW t \in Threads, NEW k \in Kernels, dying[t] = NULL, PutKernel(t, k),
         NEW h \in Holders(k), Holders(k)' = Holders(k) \ {h},
         \A x \in Kernels : x # k => Holders(x)' = Holders(x)
  PROVE  /\ CountsExact' /\ SameNodes
         /\ node' \in [Kernels -> NodeType] /\ dying' \in [Threads -> Kernels \cup {NULL}]
         /\ \A u \in Threads : u # t => dying'[u] = dying[u]
<1> USE DEF IInv
<1>1. /\ node' = [node EXCEPT ![k].refcnt = @ - 1]
      /\ dying' = IF node[k].refcnt = 1 THEN [dying EXCEPT ![t] = k] ELSE dying
  BY DEF PutKernel
<1>2. /\ node[k].live /\ node[k].refcnt = Cardinality(Holders(k)) /\ Cardinality(Holders(k)) \in Nat
      /\ Cardinality(Holders(k)) > 0 /\ \A u \in Threads : dying[u] # k
  <2>1. CountOf(k)
    BY CountsOf
  <2>2. Cardinality(Holders(k)) \in Nat /\ Cardinality(Holders(k)) > 0 /\ Holders(k) # {}
    BY HolderGone, HoldersFinite
  <2>3. node[k].live /\ node[k].refcnt = Cardinality(Holders(k))
    BY <2>1, <2>2 DEF CountOf
  <2>4. \A u \in Threads : dying[u] # k
    BY <2>1, <2>2, <2>3 DEF CountOf
  <2>. QED  BY <2>2, <2>3, <2>4
<1>3. Cardinality(Holders(k)') = Cardinality(Holders(k)) - 1
  BY HolderGone
<1>4. /\ node' \in [Kernels -> NodeType] /\ node'[k].refcnt = node[k].refcnt - 1
      /\ SameNodes /\ \A x \in Kernels : x # k => node'[x] = node[x]
  <2>1. node[k].refcnt - 1 \in Nat /\ node \in [Kernels -> NodeType]
    BY <1>2 DEF KTypeOK
  <2>. QED  BY Zenon, <1>1, <2>1, NodeCount
<1>5. /\ dying' \in [Threads -> Kernels \cup {NULL}]
      /\ dying'[t] = IF node[k].refcnt = 1 THEN k ELSE NULL
      /\ \A u \in Threads : u # t => dying'[u] = dying[u]
  BY <1>1 DEF KTypeOK
<1>6. ASSUME NEW x \in Kernels PROVE CountOf(x)'
  <2>1. CASE x # k
    <3>1. \A u \in Threads : dying'[u] = x <=> dying[u] = x
      BY <1>5, <2>1, CacheAssumption
    <3>. QED  BY <1>4, <2>1, <3>1, CountKept, CountsOf
  <2>2. CASE x = k
    <3>1. node'[k].live /\ node'[k].refcnt = Cardinality(Holders(k)')
      BY <1>2, <1>3, <1>4 DEF SameNodes
    <3>2. (\E u \in Threads : dying'[u] = k) <=> node'[k].refcnt = 0
      BY <1>2, <1>4, <1>5, CacheAssumption
    <3>3. \A u, v \in Threads : dying'[u] = k /\ dying'[v] = k => u = v
      BY <1>2, <1>5
    <3>4. CountOf(k)'
      BY <3>1, <3>2, <3>3 DEF CountOf
    <3>. QED  BY <2>2, <3>4
  <2>. QED  BY <2>1, <2>2
<1>. QED  BY <1>4, <1>5, <1>6 DEF CountsExact, CountOf

(* Any place that refers to a kernel.                                      *)
LEMMA HolderPlaces ==
  ASSUME NEW t \in Threads, NEW k
  PROVE  /\ <<t, -1>> \in Holders(k) <=> k \in removed[t]
         /\ <<t, 0>> \in Holders(k) <=> adding[t] = k
         /\ \A i \in Slots : <<t, i>> \in Holders(k) <=> kernels[t][i] = k
         /\ <<NULL, 0>> \in Holders(k) <=> k \in InCache
<1>0. t # NULL
  BY CacheAssumption
<1>1. /\ <<t, 0>> \in Places /\ <<t, -1>> \in Places /\ <<NULL, 0>> \in Places
      /\ \A j \in Slots : <<t, j>> \in Places /\ j # 0 /\ j # -1
  BY CacheAssumption DEF Places, Slots
<1>2. /\ Refers(t, 0, k) <=> adding[t] = k
      /\ \A j \in Slots : Refers(t, j, k) <=> kernels[t][j] = k
      /\ Refers(NULL, 0, k) <=> k \in InCache
  BY <1>0, <1>1 DEF Refers
<1>3. Refers(t, -1, k) <=> k \in removed[t]
  BY <1>0 DEF Refers
<1>. QED  BY <1>1, <1>2, <1>3 DEF Holders

LEMMA PutRemovedStep ==
  ASSUME IInv, NEW t \in Threads, PutRemoved(t)
  PROVE  IInv'
<1> USE DEF IInv
<1>a. PICK k \in removed[t] : PutKernel(t, k) /\ removed' = [removed EXCEPT ![t] = @ \ {k}]
  BY Zenon DEF PutRemoved
<1>1. /\ dying[t] = NULL /\ k \in Kernels
      /\ UNCHANGED <<cacheVars, refs, owned, pc, ctx, slot, want, kernels, adding>>
  BY <1>a DEF PutRemoved, KTypeOK
<1>2. /\ removed' \in [Threads -> SUBSET Kernels] /\ removed'[t] = removed[t] \ {k}
      /\ \A u \in Threads : u # t => removed'[u] = removed[u]
  BY <1>a DEF KTypeOK
<1>3. InCache' = InCache /\ LruDistinct'
  BY <1>1 DEF cacheVars, InCache, LruDistinct
<1>4. <<t, -1>> \in Holders(k)
  BY Zenon, <1>a, HolderPlaces
<1>5. Holders(k)' = Holders(k) \ {<<t, -1>>}
  <2> DEFINE L == {<<t, -1>>}
  <2>1. /\ <<NULL, 0>> \notin L
        /\ \A u \in Threads : <<u, 0>> \notin L /\ (<<u, -1>> \in L <=> u = t)
        /\ \A u \in Threads, j \in Slots : <<u, j>> \notin L
    BY CacheAssumption DEF Slots
  <2>2. \A u \in Threads : k \in removed'[u] <=> k \in removed[u] /\ <<u, -1>> \notin L
    BY <1>2, <2>1
  <2> HIDE DEF L
  <2>3. Holders(k)' = (Holders(k) \ L) \cup {}
    BY Zenon, <1>1, <1>3, <2>1, <2>2, HoldersAre
  <2>. QED  BY <2>3 DEF L
<1>6. \A x \in Kernels : x # k => Holders(x)' = Holders(x)
  BY <1>1, <1>2, <1>3, HoldersKept
<1>7. /\ CountsExact' /\ SameNodes
      /\ node' \in [Kernels -> NodeType] /\ dying' \in [Threads -> Kernels \cup {NULL}]
      /\ \A u \in Threads : u # t => dying'[u] = dying[u]
  BY <1>a, <1>1, <1>4, <1>5, <1>6, PutCounts
<1>8. KTypeOK'
  BY <1>1, <1>2, <1>7 DEF KTypeOK, cacheVars
<1>9. Phases'
  <2>1. ~ Quiet(t)
    BY <1>a DEF Quiet
  <2>2. ASSUME NEW u \in Threads PROVE PhaseOf(u)'
    BY <1>1, <1>2, <1>7, <2>1 DEF Phases, PhaseOf, Quiet
  <2>. QED  BY <2>2 DEF Phases
<1>10. SizeSum(InCache)' = SizeSum(InCache) /\ CachedKeys' /\ \A c \in Contexts : KeysOf(c)' = KeysOf(c)
  BY <1>3, <1>7, SameNodesKeep
<1>11. KernelsFit' /\ AddingFresh'
  <2>1. \A u \in Threads : adding[u] # NULL => adding[u] \in Kernels
    BY DEF KTypeOK
  <2>2. \A u \in Threads, j \in Slots : kernels[u][j] # NULL => kernels[u][j] \in Kernels
    BY DEF KTypeOK
  <2>. QED  BY <1>1, <1>3, <1>7, <2>1, <2>2 DEF KernelsFit, AddingFresh, SameNodes
<1>12. ContextsHeld' /\ SizeWithinLimit' /\ Sessions'
  BY <1>1, <1>10 DEF ContextsHeld, KeysOf, SizeWithinLimit, Sessions, cacheVars
<1>. QED  BY <1>3, <1>7, <1>8, <1>9, <1>10, <1>11, <1>12

LEMMA FreeStepStep ==
  ASSUME IInv, NEW t \in Threads, FreeStep(t)
  PROVE  IInv'
<1> USE DEF IInv
<1>a. PICK i \in Slots : /\ kernels[t][i] # NULL /\ PutKernel(t, kernels[t][i])
                         /\ kernels' = [kernels EXCEPT ![t][i] = NULL]
  BY Zenon DEF FreeStep
<1>b. PICK k : k = kernels[t][i]
  OBVIOUS
<1>1. /\ pc[t] = "free" /\ dying[t] = NULL /\ k \in Kernels /\ k # NULL
      /\ UNCHANGED <<cacheVars, refs, owned, pc, ctx, slot, want, adding, removed>>
  BY <1>a, <1>b DEF FreeStep, KTypeOK, Quiet
<1>2. /\ kernels' \in [Threads -> [Slots -> Kernels \cup {NULL}]] /\ kernels'[t][i] = NULL
      /\ \A u \in Threads, j \in Slots : (u = t /\ j = i) \/ kernels'[u][j] = kernels[u][j]
      /\ \A u \in Threads : u # t => kernels'[u] = kernels[u]
  BY <1>a, SlotSet DEF KTypeOK
<1>3. InCache' = InCache /\ LruDistinct'
  BY <1>1 DEF cacheVars, InCache, LruDistinct
<1>4. <<t, i>> \in Holders(k)
  BY Zenon, <1>b, HolderPlaces
<1>5. Holders(k)' = Holders(k) \ {<<t, i>>}
  <2> DEFINE L == {<<t, i>>}
  <2>1. /\ <<NULL, 0>> \notin L
        /\ \A u \in Threads : <<u, 0>> \notin L /\ <<u, -1>> \notin L
        /\ \A u \in Threads, j \in Slots : <<u, j>> \in L <=> u = t /\ j = i
    BY CacheAssumption DEF Slots
  <2>2. \A u \in Threads, j \in Slots : kernels'[u][j] = k <=> kernels[u][j] = k /\ <<u, j>> \notin L
    BY <1>1, <1>2, <2>1
  <2> HIDE DEF L
  <2>3. \A u \in Threads : adding'[u] = adding[u] /\ removed'[u] = removed[u]
    BY <1>1
  <2>4. PICK N : N = {}
    BY Zenon
  <2>5. Holders(k)' = (Holders(k) \ L) \cup N
    <3>1. k \in InCache' <=> (k \in InCache /\ <<NULL, 0>> \notin L) \/ <<NULL, 0>> \in N
      BY <1>3, <2>1, <2>4
    <3>2. \A u \in Threads :
            /\ adding'[u] = k <=> (adding[u] = k /\ <<u, 0>> \notin L) \/ <<u, 0>> \in N
            /\ k \in removed'[u] <=> (k \in removed[u] /\ <<u, -1>> \notin L) \/ <<u, -1>> \in N
            /\ \A j \in Slots :
                 kernels'[u][j] = k <=> (kernels[u][j] = k /\ <<u, j>> \notin L) \/ <<u, j>> \in N
      BY Zenon, <2>1, <2>2, <2>3, <2>4
    <3>3. k \in Kernels /\ N \in SUBSET Places
      BY <1>1, <2>4
    <3>. QED  BY Zenon, <3>1, <3>2, <3>3, HoldersAre
  <2>. QED  BY <2>4, <2>5 DEF L
<1>6. ASSUME NEW x \in Kernels, x # k PROVE Holders(x)' = Holders(x)
  <2>1. \A u \in Threads, j \in Slots : kernels'[u][j] = x <=> kernels[u][j] = x
    BY <1>2, <1>6, <1>b, CacheAssumption
  <2>. QED  BY <1>1, <1>3, <2>1, HoldersKept
<1>7. /\ CountsExact' /\ SameNodes
      /\ node' \in [Kernels -> NodeType] /\ dying' \in [Threads -> Kernels \cup {NULL}]
      /\ \A u \in Threads : u # t => dying'[u] = dying[u]
  BY <1>a, <1>b, <1>1, <1>4, <1>5, <1>6, PutCounts
<1>8. KTypeOK'
  BY <1>1, <1>2, <1>7 DEF KTypeOK, cacheVars
<1>9. Phases'
  <2>1. ASSUME NEW u \in Threads PROVE PhaseOf(u)'
    BY <1>1, <1>2, <1>7 DEF Phases, PhaseOf, Quiet
  <2>. QED  BY <2>1 DEF Phases
<1>10. SizeSum(InCache)' = SizeSum(InCache) /\ CachedKeys' /\ \A c \in Contexts : KeysOf(c)' = KeysOf(c)
  BY <1>3, <1>7, SameNodesKeep
<1>11. KernelsFit'
  <2>1. ASSUME NEW u \in Threads, NEW j \in Slots, kernels'[u][j] # NULL
        PROVE  kernels'[u][j] = kernels[u][j] /\ kernels[u][j] \in Kernels
    BY <1>2, <2>1 DEF KTypeOK
  <2>. QED  BY <1>1, <1>7, <2>1 DEF KernelsFit, SameNodes
<1>12. AddingFresh'
  <2>1. \A u \in Threads : adding[u] # NULL => adding[u] \in Kernels
    BY DEF KTypeOK
  <2>. QED  BY <1>1, <1>3, <1>7, <2>1 DEF AddingFresh, SameNodes
<1>13. ContextsHeld' /\ SizeWithinLimit' /\ Sessions'
  BY <1>1, <1>10 DEF ContextsHeld, KeysOf, SizeWithinLimit, Sessions, cacheVars
<1>. QED  BY <1>3, <1>7, <1>8, <1>9, <1>10, <1>11, <1>12, <1>13

-----------------------------------------------------------------------------
(* A kernel is destroyed.                                                  *)

LEMMA DestroyStep ==
  ASSUME IInv, NEW t \in Threads, Destroy(t)
  PROVE  IInv'
<1> USE DEF IInv
<1>a. PICK k : k = dying[t]
  OBVIOUS
<1>1. /\ k # NULL /\ k \in Kernels /\ dying' = [dying EXCEPT ![t] = NULL]
      /\ node' = [node EXCEPT ![k] = FreeNode] /\ refs' = ReleasedContext(k)
      /\ UNCHANGED <<cacheVars, owned, pc, ctx, slot, want, kernels, adding, removed>>
  BY <1>a DEF Destroy, KTypeOK
<1>2. /\ node[k].live /\ Holders(k) = {} /\ \A u \in Threads : dying[u] = k => u = t
  <2>1. CountOf(k)
    BY <1>1, CountsOf
  <2>2. node[k].live /\ Cardinality(Holders(k)) = 0
    BY <1>a, <2>1 DEF CountOf
  <2>. QED  BY <1>a, <2>1, <2>2, HoldersFinite, FS_EmptySet DEF CountOf
<1>3. /\ k \notin InCache
      /\ \A u \in Threads : adding[u] # k /\ \A j \in Slots : kernels[u][j] # k
  BY Zenon, <1>2, HolderPlaces
<1>4. /\ node' \in [Kernels -> NodeType] /\ node'[k] = FreeNode
      /\ ~ node'[k].live /\ node'[k].context = NULL
      /\ \A x \in Kernels : x # k => node'[x] = node[x]
  <2>1. FreeNode \in NodeType /\ ~ FreeNode.live /\ FreeNode.context = NULL
    BY DEF FreeNode, NodeType
  <2>. QED  BY <1>1, <2>1 DEF KTypeOK
<1>5. InCache' = InCache /\ LruDistinct'
  BY <1>1 DEF cacheVars, InCache, LruDistinct
<1>6. ASSUME NEW c \in Contexts
      PROVE  /\ refs'[c] \in Nat
             /\ refs'[c] = Cardinality(KeysOf(c)') + IF c \in owned THEN 1 ELSE 0
  <2>1. /\ Cardinality(KeysOf(c)) \in Nat /\ IsFiniteSet(KeysOf(c))
        /\ refs[c] = Cardinality(KeysOf(c)) + IF c \in owned THEN 1 ELSE 0
    BY Zenon, KeysFinite DEF ContextsHeld, KeysOf
  <2>2. refs'[c] = IF c = node[k].context THEN refs[c] - 1 ELSE refs[c]
    BY <1>1 DEF ReleasedContext
  <2>3. CASE c = node[k].context
    <3>1. k \in KeysOf(c) /\ KeysOf(c)' = KeysOf(c) \ {k}
      BY <1>1, <1>2, <1>4, <2>3 DEF KeysOf
    <3>2. Cardinality(KeysOf(c)') = Cardinality(KeysOf(c)) - 1
      BY Zenon, <2>1, <3>1, FS_RemoveElement
    <3>3. Cardinality(KeysOf(c)) # 0
      BY <2>1, <3>1, FS_EmptySet
    <3>. QED  BY <2>1, <2>2, <2>3, <3>2, <3>3
  <2>4. CASE c # node[k].context
    <3>1. KeysOf(c)' = KeysOf(c)
      BY <1>1, <1>4, <2>4 DEF KeysOf
    <3>. QED  BY <2>1, <2>2, <2>4, <3>1
  <2>. QED  BY <2>3, <2>4
<1>7. ContextsHeld'
  BY <1>1, <1>6 DEF ContextsHeld, KeysOf
<1>8. KTypeOK'
  <2>1. refs' \in [Contexts -> Nat]
    <3>1. refs' = [c \in Contexts |-> refs'[c]]
      BY <1>1 DEF ReleasedContext
    <3>. QED  BY <1>6, <3>1
  <2>2. dying' \in [Threads -> Kernels \cup {NULL}]
    BY <1>1 DEF KTypeOK
  <2>. QED  BY <1>1, <1>4, <2>1, <2>2 DEF KTypeOK, cacheVars
<1>9. /\ dying'[t] = NULL /\ \A u \in Threads : u # t => dying'[u] = dying[u]
  BY <1>1 DEF KTypeOK
<1>10. Phases'
  <2>1. ASSUME NEW u \in Threads PROVE PhaseOf(u)'
    BY <1>1, <1>9 DEF Phases, PhaseOf, Quiet
  <2>. QED  BY <2>1 DEF Phases
<1>11. CountsExact'
  <2>1. ASSUME NEW x \in Kernels PROVE CountOf(x)'
    <3>1. Holders(x)' = Holders(x)
      BY <1>1, <1>5, HoldersKept
    <3>2. CASE x # k
      <4>1. \A u \in Threads : dying'[u] = x <=> dying[u] = x
        BY <1>1, <1>a, <1>9, <3>2, CacheAssumption
      <4>. QED  BY <1>4, <3>1, <3>2, <4>1, CountKept, CountsOf
    <3>3. CASE x = k
      <4>1. \A u \in Threads : dying'[u] # x
        BY <1>1, <1>2, <1>9, <3>3
      <4>. QED  BY <1>2, <1>4, <3>1, <3>3, <4>1 DEF CountOf
    <3>. QED  BY <3>2, <3>3
  <2>. QED  BY <2>1 DEF CountsExact, CountOf
<1>12. SizeSum(InCache)' = SizeSum(InCache)
  <2>1. \A x \in InCache : Units(x)' = Units(x)
    BY <1>3, <1>4, CachedAre DEF Units
  <2>2. UNION {Units(x)' : x \in InCache} = UNION {Units(x) : x \in InCache}
    BY <2>1
  <2>. QED  BY Zenon, <1>5, <2>2 DEF SizeSum
<1>13. CachedKeys'
  <2>1. \A x \in InCache : x \in Kernels /\ x # k
    BY <1>3, CachedAre
  <2>. QED  BY <1>4, <1>5, <2>1 DEF CachedKeys
<1>14. KernelsFit' /\ AddingFresh'
  <2>1. \A u \in Threads : adding[u] # NULL => adding[u] \in Kernels /\ adding[u] # k
    BY <1>3 DEF KTypeOK
  <2>2. \A u \in Threads, j \in Slots :
          kernels[u][j] # NULL => kernels[u][j] \in Kernels /\ kernels[u][j] # k
    BY <1>3 DEF KTypeOK
  <2>. QED  BY <1>1, <1>4, <1>5, <2>1, <2>2 DEF KernelsFit, AddingFresh
<1>15. SizeWithinLimit' /\ Sessions'
  BY <1>1, <1>12 DEF SizeWithinLimit, Sessions, cacheVars
<1>. QED  BY <1>5, <1>7, <1>8, <1>10, <1>11, <1>13, <1>14, <1>15

-----------------------------------------------------------------------------
(* Kernels leave the cache.                                                *)

LEMMA EvictedHolders ==
  ASSUME IInv, NEW t \in Threads, NEW x \in InCache, x \notin InCache',
         removed[t] = {}, x \in removed'[t],
         \A u \in Threads : u # t => removed'[u] = removed[u],
         \A u \in Threads : adding'[u] # x, UNCHANGED kernels
  PROVE  /\ Holders(x)' = (Holders(x) \ {<<NULL, 0>>}) \cup {<<t, -1>>}
         /\ Cardinality(Holders(x)') = Cardinality(Holders(x))
<1>1. x \in Kernels /\ <<NULL, 0>> \in Holders(x)
  BY CachedAre
<1>2. \A u \in Threads : adding[u] # x
  <2>1. x # NULL
    BY <1>1, CacheAssumption
  <2>. QED  BY <2>1 DEF IInv, AddingFresh
<1>3. PICK L, G : L = {<<NULL, 0>>} /\ G = {<<t, -1>>}
  BY Zenon
<1>4. /\ <<NULL, 0>> \in L /\ <<NULL, 0>> \notin G /\ G \in SUBSET Places
      /\ \A u \in Threads : /\ <<u, 0>> \notin L /\ <<u, -1>> \notin L
                            /\ <<u, 0>> \notin G /\ (<<u, -1>> \in G <=> u = t)
      /\ \A u \in Threads, j \in Slots : <<u, j>> \notin L /\ <<u, j>> \notin G
  BY <1>3, CacheAssumption DEF Slots, Places
<1>5. Holders(x)' = (Holders(x) \ L) \cup G
  <2>1. x \in InCache' <=> (x \in InCache /\ <<NULL, 0>> \notin L) \/ <<NULL, 0>> \in G
    BY <1>4
  <2>2. \A u \in Threads :
          /\ adding'[u] = x <=> (adding[u] = x /\ <<u, 0>> \notin L) \/ <<u, 0>> \in G
          /\ x \in removed'[u] <=> (x \in removed[u] /\ <<u, -1>> \notin L) \/ <<u, -1>> \in G
          /\ \A j \in Slots :
               kernels'[u][j] = x <=> (kernels[u][j] = x /\ <<u, j>> \notin L) \/ <<u, j>> \in G
    BY Zenon, <1>2, <1>4
  <2>. QED  BY <1>1, <1>4, <2>1, <2>2, HoldersAre
<1>6. <<t, -1>> \notin Holders(x)
  BY Zenon, HolderPlaces
<1>. QED  BY <1>1, <1>3, <1>5, <1>6, HolderMoved

(* Only where its references are counted changes.                          *)
LEMMA CountMoved ==
  ASSUME NEW k \in Kernels, CountOf(k), Holders(k) # {},
         Cardinality(Holders(k)') = Cardinality(Holders(k)),
         node'[k].live = node[k].live, node'[k].refcnt = node[k].refcnt,
         UNCHANGED dying
  PROVE  CountOf(k)'
BY DEF CountOf

LEMMA TeardownStep ==
  ASSUME IInv, NEW t \in Threads, Teardown(t)
  PROVE  IInv'
<1> USE DEF IInv
<1>a. PICK n \in RemoveKernels(totalSize) :
        /\ removed' = [removed EXCEPT ![t] = LastOf(n)]
        /\ lru' = Without(n)
        /\ totalSize' = totalSize - SizeSum(LastOf(n))
  BY Zenon DEF Teardown
<1>1. /\ library = "up" /\ \A u \in Threads : pc[u] = "out"
      /\ pc' = [pc EXCEPT ![t] = "teardown"]
      /\ UNCHANGED <<library, kcache, limit, node, refs, owned, ctx, slot, want, kernels,
                     adding, dying>>
  BY DEF Teardown
<1>2. n \in 0..Len(lru) /\ (n = Len(lru) \/ SizeSum(LastOf(n)) >= totalSize)
  BY <1>a DEF RemoveKernels, Enough
<1>3. /\ LastOf(n) \subseteq InCache
      /\ Elements(Without(n)) = InCache \ LastOf(n)
      /\ n = Len(lru) => Without(n) = <<>> /\ LastOf(n) = InCache
      /\ n # Len(lru) => Elements(Without(n)) # {}
  BY <1>2, Cut DEF KTypeOK
<1>4. /\ InCache \in SUBSET Kernels /\ LastOf(n) \in SUBSET Kernels
      /\ \A x \in InCache : node[x].prog \in Programs
  BY <1>3, CachedAre
<1>5. n = Len(lru)
  <2>1. PICK R \in SUBSET Kernels : R = LastOf(n)
    BY <1>4
  <2>2. PICK Rest \in SUBSET Kernels : Rest = InCache \ R
    BY Zenon, <1>4
  <2>3. InCache = R \cup Rest /\ R \cap Rest = {}
    BY <1>3, <2>1, <2>2
  <2>4. SizeSum(InCache) = SizeSum(R) + SizeSum(Rest)
    BY <1>4, <2>3, SumSplit
  <2>5. SizeSum(R) \in Nat /\ SizeSum(Rest) \in Nat /\ (SizeSum(Rest) = 0 <=> Rest = {})
    BY <1>4, <2>3, SumNat
  <2>6. totalSize = SizeSum(InCache)
    BY DEF SizeWithinLimit
  <2>7. CASE SizeSum(R) >= totalSize
    <3>1. Rest = {}
      BY <2>4, <2>5, <2>6, <2>7
    <3>. QED  BY <1>3, <2>1, <2>2, <3>1
  <2>. QED  BY <1>2, <2>1, <2>7
<1>6. lru' = <<>> /\ removed' = [removed EXCEPT ![t] = InCache] /\ totalSize' = 0
  <2>1. SizeSum(InCache) \in Nat /\ totalSize = SizeSum(InCache)
    BY <1>4, SumNat DEF SizeWithinLimit
  <2>. QED  BY <1>a, <1>3, <1>5, <2>1
<1>7. /\ removed' \in [Threads -> SUBSET Kernels] /\ removed'[t] = InCache
      /\ \A u \in Threads : u # t => removed'[u] = removed[u]
  BY <1>4, <1>6 DEF KTypeOK
<1>8. /\ \A u \in Threads : adding[u] = NULL /\ removed[u] = {}
  BY <1>1 DEF Phases, PhaseOf, Quiet
<1>9. InCache' = {} /\ LruDistinct' /\ lru' \in Seq(Kernels)
  BY <1>6 DEF InCache, LruDistinct
<1>10. KTypeOK'
  BY <1>1, <1>6, <1>7, <1>9 DEF KTypeOK
<1>11. Phases'
  <2>1. ASSUME NEW u \in Threads PROVE PhaseOf(u)'
    BY <1>1, <1>7, <1>8 DEF Phases, PhaseOf, Quiet, KTypeOK
  <2>. QED  BY <2>1 DEF Phases
<1>12. CountsExact'
  <2>1. ASSUME NEW x \in Kernels PROVE CountOf(x)'
    <3>1. x # NULL
      BY CacheAssumption
    <3>2. CASE x \in InCache
      <4>1. Cardinality(Holders(x)') = Cardinality(Holders(x)) /\ Holders(x) # {}
        BY <1>1, <1>7, <1>8, <1>9, <3>1, <3>2, EvictedHolders, CachedAre
      <4>. QED  BY <1>1, <4>1, CountMoved, CountsOf
    <3>3. CASE x \notin InCache
      <4>1. Holders(x)' = Holders(x)
        BY <1>1, <1>7, <1>8, <1>9, <3>3, HoldersKept
      <4>. QED  BY <1>1, <4>1, CountKept, CountsOf
    <3>. QED  BY <3>2, <3>3
  <2>. QED  BY <2>1 DEF CountsExact, CountOf
<1>13. SizeWithinLimit'
  <2>1. SizeSum(InCache)' = 0
    <3>1. UNION {Units(x)' : x \in InCache'} = {}
      BY <1>9
    <3>. QED  BY <3>1, FS_EmptySet DEF SizeSum
  <2>. QED  BY <1>1, <1>6, <2>1 DEF SizeWithinLimit, KTypeOK
<1>14. CachedKeys' /\ KernelsFit' /\ AddingFresh' /\ ContextsHeld'
  BY <1>1, <1>8, <1>9 DEF CachedKeys, KernelsFit, AddingFresh, ContextsHeld
<1>15. Sessions'
  BY <1>1, <1>6 DEF Sessions, KTypeOK
<1>. QED  BY <1>9, <1>10, <1>11, <1>12, <1>13, <1>14, <1>15

-----------------------------------------------------------------------------
(* A kernel is added to the cache, or refused.                             *)

(* What holds of the kernel whichever of the two happens.                  *)
LEMMA AddingKernel ==
  ASSUME IInv, NEW t \in Threads, pc[t] = "add"
  PROVE  /\ adding[t] \in Kernels /\ adding[t] # NULL /\ ctx[t] \in Contexts
         /\ removed[t] = {} /\ dying[t] = NULL
         /\ node[adding[t]].live /\ node[adding[t]].prog \in Programs
         /\ <<t, 0>> \in Holders(adding[t])
<1>1. adding[t] \in Kernels /\ adding[t] # NULL /\ ctx[t] \in Contexts /\ Quiet(t)
  BY DEF IInv, KTypeOK, Phases, PhaseOf
<1>2. <<t, 0>> \in Holders(adding[t])
  BY Zenon, HolderPlaces
<1>3. node[adding[t]].live
  BY <1>1, <1>2 DEF IInv, CountsExact
<1>. QED  BY <1>1, <1>2, <1>3 DEF IInv, CachedKeys, Quiet

(* What Add does in either case.                                           *)
AddDone(t) ==
  /\ pc[t] = "add" /\ pc' = [pc EXCEPT ![t] = "find"]
  /\ adding' = [adding EXCEPT ![t] = NULL]
  /\ UNCHANGED <<library, kcache, limit, owned, ctx, slot, want, kernels, dying>>

LEMMA RefusedStep ==
  ASSUME IInv, NEW t \in Threads, AddDone(t),
         removed' = [removed EXCEPT ![t] = {adding[t]}],
         UNCHANGED <<lru, totalSize, node, refs>>
  PROVE  IInv'
<1> USE DEF IInv
<1>a. PICK k : k = adding[t]
  OBVIOUS
<1>1. /\ pc[t] = "add" /\ pc' = [pc EXCEPT ![t] = "find"]
      /\ UNCHANGED <<library, kcache, limit, owned, ctx, slot, want, kernels, dying>>
  BY DEF AddDone
<1>2. /\ k \in Kernels /\ k # NULL /\ removed[t] = {} /\ dying[t] = NULL /\ ctx[t] # NULL
      /\ <<t, 0>> \in Holders(k) /\ \A u \in Threads : adding[u] = k => u = t
  BY <1>a, <1>1, AddingKernel, CacheAssumption DEF AddingFresh
<1>3. /\ removed' \in [Threads -> SUBSET Kernels] /\ removed'[t] = {k}
      /\ \A u \in Threads : u # t => removed'[u] = removed[u]
  BY <1>a, <1>2 DEF KTypeOK
<1>4. /\ adding' \in [Threads -> Kernels \cup {NULL}] /\ adding'[t] = NULL
      /\ \A u \in Threads : u # t => adding'[u] = adding[u]
  BY DEF AddDone, KTypeOK
<1>5. InCache' = InCache /\ LruDistinct' /\ CachedKeys' /\ SizeSum(InCache)' = SizeSum(InCache)
  BY DEF InCache, LruDistinct, CachedKeys, SizeSum, Units
<1>6. KTypeOK'
  <2>1. pc' \in [Threads -> {"out", "find", "make", "add", "free", "teardown"}]
    BY <1>1 DEF KTypeOK
  <2>. QED  BY <1>1, <1>3, <1>4, <2>1 DEF KTypeOK
<1>7. Phases'
  <2>1. ASSUME NEW u \in Threads PROVE PhaseOf(u)'
    BY <1>1, <1>2, <1>3, <1>4 DEF Phases, PhaseOf, Quiet, KTypeOK
  <2>. QED  BY <2>1 DEF Phases
<1>8. CountsExact'
  <2>1. ASSUME NEW x \in Kernels PROVE CountOf(x)'
    <3>1. CASE x # k
      <4>1. Holders(x)' = Holders(x)
        <5>1. \A u \in Threads :
                /\ adding'[u] = x <=> adding[u] = x
                /\ x \in removed'[u] <=> x \in removed[u]
          BY <1>a, <1>2, <1>3, <1>4, <3>1, CacheAssumption
        <5>. QED  BY <1>1, <1>5, <5>1, HoldersKept
      <4>. QED  BY <1>1, <3>1, <4>1, CountKept, CountsOf
    <3>2. CASE x = k
      <4>1. PICK L, G : L = {<<t, 0>>} /\ G = {<<t, -1>>}
        BY Zenon
      <4>2. /\ <<NULL, 0>> \notin L /\ <<NULL, 0>> \notin G /\ G \in SUBSET Places
            /\ \A u \in Threads : /\ <<u, -1>> \notin L /\ <<u, 0>> \notin G
                                  /\ <<u, 0>> \in L <=> u = t
                                  /\ <<u, -1>> \in G <=> u = t
            /\ \A u \in Threads, j \in Slots : <<u, j>> \notin L /\ <<u, j>> \notin G
        BY <4>1, CacheAssumption DEF Slots, Places
      <4>3. Holders(k)' = (Holders(k) \ L) \cup G
        <5>1. k \in InCache' <=> (k \in InCache /\ <<NULL, 0>> \notin L) \/ <<NULL, 0>> \in G
          BY <1>5, <4>2
        <5>2. \A u \in Threads :
                /\ adding'[u] = k <=> (adding[u] = k /\ <<u, 0>> \notin L) \/ <<u, 0>> \in G
                /\ k \in removed'[u] <=> (k \in removed[u] /\ <<u, -1>> \notin L) \/ <<u, -1>> \in G
                /\ \A j \in Slots :
                     kernels'[u][j] = k <=> (kernels[u][j] = k /\ <<u, j>> \notin L) \/ <<u, j>> \in G
          BY Zenon, <1>1, <1>2, <1>3, <1>4, <4>2
        <5>. QED  BY <1>2, <4>2, <5>1, <5>2, HoldersAre
      <4>4. <<t, -1>> \notin Holders(k)
        BY <1>2, HolderPlaces
      <4>5. Cardinality(Holders(k)') = Cardinality(Holders(k)) /\ Holders(k) # {}
        BY <1>2, <4>1, <4>3, <4>4, HolderMoved
      <4>6. CountOf(k)'
        BY <1>1, <1>2, <4>5, CountMoved, CountsOf
      <4>. QED  BY <3>2, <4>6
    <3>. QED  BY <3>1, <3>2
  <2>. QED  BY <2>1 DEF CountsExact, CountOf
<1>9. KernelsFit' /\ AddingFresh' /\ ContextsHeld' /\ SizeWithinLimit'
  BY <1>1, <1>4, <1>5 DEF KernelsFit, AddingFresh, ContextsHeld, SizeWithinLimit, AddDone
<1>10. Sessions'
  BY <1>1 DEF Sessions, KTypeOK
<1>. QED  BY <1>5, <1>6, <1>7, <1>8, <1>9, <1>10

LEMMA NodeKey ==
  ASSUME node \in [Kernels -> NodeType], NEW k \in Kernels, NEW c \in Contexts,
         node' = [node EXCEPT ![k].context = c]
  PROVE  /\ node' \in [Kernels -> NodeType] /\ node'[k].context = c
         /\ \A x \in Kernels :
              /\ node'[x].live = node[x].live /\ node'[x].refcnt = node[x].refcnt
              /\ node'[x].prog = node[x].prog /\ node'[x].built = node[x].built
              /\ x # k => node'[x].context = node[x].context
<1>1. node[k] \in NodeType /\ node'[k] = [node[k] EXCEPT !.context = c]
  OBVIOUS
<1>2. [node[k] EXCEPT !.context = c] \in NodeType
  BY <1>1 DEF NodeType
<1>3. node' \in [Kernels -> NodeType] /\ \A x \in Kernels : x # k => node'[x] = node[x]
  BY <1>1, <1>2
<1>4. /\ node'[k].context = c /\ node'[k].live = node[k].live /\ node'[k].refcnt = node[k].refcnt
      /\ node'[k].built = node[k].built /\ node'[k].prog = node[k].prog
  BY <1>1 DEF NodeType
<1>. QED  BY <1>3, <1>4

(* There is room for the kernel once those that removeKernels took are     *)
(* gone: either it fits, or everything goes, or four times its size does.  *)
LEMMA RoomMade ==
  ASSUME IInv, NEW k \in Kernels, node[k].prog \in Programs, k \notin InCache, ~ Refused(k),
         NEW n \in RemoveKernels(TruncSize(k))
  PROVE  LET left == totalSize - SizeSum(LastOf(n)) + SizeOf[node[k].prog]
         IN  /\ left = SizeSum({k} \cup (InCache \ LastOf(n)))
             /\ limit # 0 => left <= limit
<1>1. n \in 0..Len(lru) /\ (n = Len(lru) \/ SizeSum(LastOf(n)) >= TruncSize(k))
  BY DEF RemoveKernels, Enough
<1>2. /\ LastOf(n) \subseteq InCache /\ (n = Len(lru) => LastOf(n) = InCache)
  BY <1>1, Cut DEF IInv, KTypeOK
<1>3. InCache \in SUBSET Kernels /\ \A x \in InCache : node[x].prog \in Programs
  BY CachedAre
<1>4. PICK R \in SUBSET Kernels : R = LastOf(n)
  BY <1>2, <1>3
<1>5. PICK Rest \in SUBSET Kernels : Rest = InCache \ R
  BY Zenon, <1>3
<1>6. InCache = R \cup Rest /\ R \cap Rest = {} /\ {k} \cap Rest = {} /\ k \notin Rest
  BY <1>2, <1>4, <1>5
<1>7. SizeSum(InCache) = SizeSum(R) + SizeSum(Rest)
  BY <1>3, <1>6, SumSplit
<1>8. /\ SizeSum(R) \in Nat /\ SizeSum(Rest) \in Nat
  BY <1>3, <1>6, SumNat
<1>9. PICK bytes \in Nat : bytes = SizeOf[node[k].prog]
  BY CacheAssumption
<1>10. SizeSum({k} \cup Rest) = bytes + SizeSum(Rest)
  <2>1. SizeSum({k} \cup Rest) = SizeSum({k}) + SizeSum(Rest)
    BY <1>3, <1>6, SumSplit
  <2>2. SizeSum({k}) = bytes
    BY <1>9, SumOne
  <2>. QED  BY <2>1, <2>2
<1>11. /\ totalSize = SizeSum(InCache) /\ (limit # 0 => totalSize <= limit)
       /\ limit \in Nat
  BY DEF IInv, SizeWithinLimit, KTypeOK
<1>12. ASSUME limit # 0 PROVE totalSize - SizeSum(R) + bytes <= limit
  <2>1. bytes <= limit
    BY <1>9, <1>11, <1>12 DEF Refused
  <2>2. CASE bytes <= limit - totalSize
    BY <1>7, <1>8, <1>11, <2>2
  <2>3. CASE bytes > limit - totalSize
    <3>1. TruncSize(k) = bytes * 4
      BY <1>9, <1>12, <2>3 DEF TruncSize, TruncAheadFactor
    <3>2. CASE SizeSum(R) >= TruncSize(k)
      BY <1>7, <1>8, <1>11, <1>12, <3>1, <3>2
    <3>3. CASE n = Len(lru)
      <4>1. R = InCache
        BY <1>2, <1>4, <3>3
      <4>. QED  BY <1>8, <1>11, <2>1, <4>1
    <3>. QED  BY <1>1, <1>4, <3>2, <3>3
  <2>. QED  BY <1>7, <1>8, <1>11, <2>2, <2>3
<1>13. totalSize - SizeSum(R) + bytes = SizeSum({k} \cup Rest)
  BY <1>7, <1>8, <1>10, <1>11
<1>. QED  BY <1>4, <1>5, <1>9, <1>12, <1>13

LEMMA AddedStep ==
  ASSUME IInv, NEW t \in Threads, AddDone(t), ~ Refused(adding[t]),
         NEW n \in RemoveKernels(TruncSize(adding[t])),
         removed' = [removed EXCEPT ![t] = LastOf(n)],
         lru' = <<adding[t]>> \o Without(n),
         totalSize' = totalSize - SizeSum(LastOf(n)) + SizeOf[node[adding[t]].prog],
         node' = [node EXCEPT ![adding[t]].context = ctx[t]],
         refs' = [refs EXCEPT ![ctx[t]] = @ + 1]
  PROVE  IInv'
<1> USE DEF IInv
<1>a. PICK k, c, R : k = adding[t] /\ c = ctx[t] /\ R = LastOf(n)
  OBVIOUS
<1>1. /\ pc[t] = "add" /\ pc' = [pc EXCEPT ![t] = "find"]
      /\ UNCHANGED <<library, kcache, limit, owned, ctx, slot, want, kernels, dying>>
  BY DEF AddDone
<1>2. /\ k \in Kernels /\ k # NULL /\ c \in Contexts /\ c # NULL
      /\ removed[t] = {} /\ dying[t] = NULL
      /\ node[k].live /\ node[k].prog \in Programs
      /\ k \notin InCache /\ <<NULL, 0>> \notin Holders(k) /\ <<t, 0>> \in Holders(k)
      /\ node[k].built = c /\ node[k].context = NULL
      /\ \A u \in Threads : adding[u] = k => u = t
  <2>1. /\ k \in Kernels /\ k # NULL /\ c \in Contexts
        /\ removed[t] = {} /\ dying[t] = NULL
        /\ node[k].live /\ node[k].prog \in Programs /\ <<t, 0>> \in Holders(k)
    BY <1>a, <1>1, AddingKernel
  <2>2. /\ k \notin InCache /\ node[k].built = c /\ node[k].context = NULL
        /\ \A u \in Threads : adding[u] = k => u = t
    BY <1>a, <2>1 DEF AddingFresh
  <2>3. <<NULL, 0>> \notin Holders(k)
    BY Zenon, <2>2, HolderPlaces
  <2>4. c # NULL
    BY <2>1, CacheAssumption
  <2>. QED  BY <2>1, <2>2, <2>3, <2>4
<1>3. n \in 0..Len(lru)
  BY DEF RemoveKernels
<1>4. /\ Without(n) \in Seq(Kernels) /\ Distinct(Without(n))
      /\ Elements(Without(n)) = InCache \ R /\ R \subseteq InCache
  BY <1>a, <1>3, Cut DEF KTypeOK
<1>5. lru' \in Seq(Kernels) /\ LruDistinct' /\ InCache' = {k} \cup (InCache \ R)
  <2>1. k \notin Elements(Without(n))
    BY <1>2, <1>4
  <2>2. PICK s : s = Without(n)
    OBVIOUS
  <2>3. /\ <<k>> \o s \in Seq(Kernels) /\ Distinct(<<k>> \o s)
        /\ Elements(<<k>> \o s) = {k} \cup Elements(s)
    BY <1>2, <1>4, <2>1, <2>2, Prepended
  <2>4. lru' = <<k>> \o s
    BY <1>a, <2>2
  <2>5. LruDistinct'
    BY <2>3, <2>4 DEF LruDistinct, Distinct
  <2>6. InCache' = Elements(<<k>> \o s)
    BY <2>4 DEF InCache, Elements
  <2>7. Elements(s) = InCache \ R
    BY <1>4, <2>2
  <2>. QED  BY Zenon, <2>3, <2>4, <2>5, <2>6, <2>7
<1>6. InCache \in SUBSET Kernels /\ R \in SUBSET Kernels
  BY <1>4, CachedAre
<1>7. /\ removed' \in [Threads -> SUBSET Kernels] /\ removed'[t] = R
      /\ \A u \in Threads : u # t => removed'[u] = removed[u]
  BY <1>a, <1>6 DEF KTypeOK
<1>8. /\ adding' \in [Threads -> Kernels \cup {NULL}] /\ adding'[t] = NULL
      /\ \A u \in Threads : u # t => adding'[u] = adding[u]
  BY DEF AddDone, KTypeOK
<1>9. /\ node' \in [Kernels -> NodeType] /\ node'[k].context = c
      /\ \A x \in Kernels :
           /\ node'[x].live = node[x].live /\ node'[x].refcnt = node[x].refcnt
           /\ node'[x].prog = node[x].prog /\ node'[x].built = node[x].built
           /\ x # k => node'[x].context = node[x].context
  <2>1. node \in [Kernels -> NodeType]
    BY DEF KTypeOK
  <2>2. node' = [node EXCEPT ![k].context = c]
    BY <1>a
  <2>3. k \in Kernels /\ c \in Contexts
    BY <1>2
  <2>. QED  BY ONLY Zenon, <2>1, <2>2, <2>3, NodeKey
<1>10. /\ refs' \in [Contexts -> Nat] /\ refs'[c] = refs[c] + 1
       /\ \A d \in Contexts : d # c => refs'[d] = refs[d]
  BY <1>a, <1>2 DEF KTypeOK
<1>11. /\ totalSize' = SizeSum(InCache') /\ (limit # 0 => totalSize' <= limit)
  BY Zenon, <1>a, <1>2, <1>5, RoomMade
<1>12. SizeSum(InCache)' = SizeSum(InCache')
  <2>1. \A x \in InCache' : Units(x)' = Units(x)
    BY <1>2, <1>5, <1>6, <1>9 DEF Units
  <2>2. PICK S : S = InCache'
    OBVIOUS
  <2>3. UNION {Units(x)' : x \in S} = UNION {Units(x) : x \in S}
    BY <2>1, <2>2
  <2>. QED  BY Zenon, <2>2, <2>3 DEF SizeSum
<1>13. SizeWithinLimit'
  BY <1>1, <1>11, <1>12 DEF SizeWithinLimit
<1>14. KTypeOK'
  <2>1. pc' \in [Threads -> {"out", "find", "make", "add", "free", "teardown"}]
    BY <1>1 DEF KTypeOK
  <2>2. totalSize' \in Int
    <3>1. InCache' \in SUBSET Kernels /\ \A x \in InCache' : node[x].prog \in Programs
      BY <1>2, <1>5, <1>6, CachedAre
    <3>2. PICK S \in SUBSET Kernels : S = InCache'
      BY <3>1
    <3>3. SizeSum(S) \in Nat
      BY <3>1, <3>2, SumNat
    <3>. QED  BY <1>11, <3>2, <3>3
  <2>. QED  BY Zenon, <1>1, <1>5, <1>7, <1>8, <1>9, <1>10, <2>1, <2>2 DEF KTypeOK
<1>15. Phases'
  <2>1. ASSUME NEW u \in Threads PROVE PhaseOf(u)'
    BY <1>a, <1>1, <1>2, <1>7, <1>8 DEF Phases, PhaseOf, Quiet, KTypeOK
  <2>. QED  BY <2>1 DEF Phases
<1>16. CountsExact'
  <2>1. ASSUME NEW x \in Kernels PROVE CountOf(x)'
    <3>0. x # NULL /\ \A u \in Threads : adding'[u] = x <=> adding[u] = x /\ x # k
      BY <1>a, <1>2, <1>8, CacheAssumption
    <3>1. CASE x \in R
      <4>1. x \in InCache /\ x # k /\ x \notin InCache'
        BY <1>2, <1>4, <1>5, <3>1
      <4>2. \A u \in Threads : adding'[u] # x
        BY <3>0, <4>1 DEF AddingFresh
      <4>3. Cardinality(Holders(x)') = Cardinality(Holders(x)) /\ Holders(x) # {}
        BY <1>1, <1>2, <1>7, <3>1, <4>1, <4>2, EvictedHolders, CachedAre
      <4>. QED  BY <1>1, <1>9, <4>3, CountMoved, CountsOf
    <3>2. CASE x = k
      <4>1. PICK L, G : L = {<<t, 0>>} /\ G = {<<NULL, 0>>}
        BY Zenon
      <4>2. /\ <<NULL, 0>> \notin L /\ <<NULL, 0>> \in G /\ G \in SUBSET Places
            /\ \A u \in Threads : /\ <<u, -1>> \notin L /\ <<u, 0>> \notin G /\ <<u, -1>> \notin G
                                  /\ <<u, 0>> \in L <=> u = t
            /\ \A u \in Threads, j \in Slots : <<u, j>> \notin L /\ <<u, j>> \notin G
        BY <4>1, CacheAssumption DEF Slots, Places
      <4>3. Holders(k)' = (Holders(k) \ L) \cup G
        <5>1. k \in InCache' <=> (k \in InCache /\ <<NULL, 0>> \notin L) \/ <<NULL, 0>> \in G
          BY <1>5, <4>2
        <5>2. k \notin R
          BY <1>2, <1>4
        <5>3. \A u \in Threads :
                /\ adding'[u] = k <=> (adding[u] = k /\ <<u, 0>> \notin L) \/ <<u, 0>> \in G
                /\ k \in removed'[u] <=> (k \in removed[u] /\ <<u, -1>> \notin L) \/ <<u, -1>> \in G
                /\ \A j \in Slots :
                     kernels'[u][j] = k <=> (kernels[u][j] = k /\ <<u, j>> \notin L) \/ <<u, j>> \in G
          BY Zenon, <1>1, <1>2, <1>7, <1>8, <4>2, <5>2
        <5>4. k \in Kernels /\ G \in SUBSET Places
          BY <1>2, <4>2
        <5>. QED  BY Zenon, <5>1, <5>3, <5>4, HoldersAre
      <4>4. Cardinality(Holders(k)') = Cardinality(Holders(k)) /\ Holders(k) # {}
        <5>1. Holders(k)' = (Holders(k) \ {<<t, 0>>}) \cup {<<NULL, 0>>}
          BY <4>1, <4>3
        <5>2. <<t, 0>> \in Holders(k) /\ <<NULL, 0>> \notin Holders(k)
          BY <1>2
        <5>3. Cardinality((Holders(k) \ {<<t, 0>>}) \cup {<<NULL, 0>>}) = Cardinality(Holders(k))
          BY Zenon, <5>2, HolderMoved
        <5>. QED  BY <5>1, <5>2, <5>3
      <4>5. CountOf(k)'
        BY <1>1, <1>2, <1>9, <4>4, CountMoved, CountsOf
      <4>. QED  BY <3>2, <4>5
    <3>3. CASE x \notin R /\ x # k
      <4>1. Holders(x)' = Holders(x)
        <5>1. x \in InCache' <=> x \in InCache
          BY <1>5, <3>3
        <5>2. \A u \in Threads : x \in removed'[u] <=> x \in removed[u]
          BY <1>2, <1>7, <3>3
        <5>. QED  BY <1>1, <3>0, <3>3, <5>1, <5>2, HoldersKept
      <4>. QED  BY <1>1, <1>9, <4>1, CountKept, CountsOf
    <3>. QED  BY <3>1, <3>2, <3>3
  <2>. QED  BY <2>1 DEF CountsExact, CountOf
<1>17. CachedKeys'
  <2>1. \A x \in InCache' : node'[x].context = node'[x].built
    BY <1>2, <1>5, <1>6, <1>9 DEF CachedKeys
  <2>2. \A x \in Kernels : ~ node'[x].live => node'[x].context = NULL
    BY <1>2, <1>9 DEF CachedKeys
  <2>3. \A x \in Kernels : node'[x].live => node'[x].prog \in Programs
    BY <1>9 DEF CachedKeys
  <2>. QED  BY <2>1, <2>2, <2>3 DEF CachedKeys
<1>18. KernelsFit'
  <2>1. \A u \in Threads, j \in Slots : kernels[u][j] # NULL => kernels[u][j] \in Kernels
    BY DEF KTypeOK
  <2>. QED  BY <1>1, <1>9, <2>1 DEF KernelsFit
<1>19. AddingFresh'
  <2>1. ASSUME NEW u \in Threads, adding'[u] # NULL
        PROVE  /\ u # t /\ adding'[u] = adding[u] /\ adding[u] \in Kernels /\ adding[u] # k
               /\ ctx'[u] = ctx[u]
    BY <1>1, <1>2, <1>8, <2>1 DEF KTypeOK
  <2>2. ASSUME NEW u \in Threads, adding'[u] # NULL
        PROVE  /\ adding'[u] \notin InCache'
               /\ node'[adding'[u]].built = ctx'[u] /\ node'[adding'[u]].context = NULL
    BY <1>5, <1>9, <2>1, <2>2 DEF AddingFresh
  <2>3. ASSUME NEW u \in Threads, adding'[u] # NULL, NEW v \in Threads, adding'[v] = adding'[u]
        PROVE  v = u
    BY <2>1, <2>3 DEF AddingFresh
  <2>. QED  BY <2>2, <2>3 DEF AddingFresh
<1>20. ContextsHeld'
  <2>1. ASSUME NEW d \in Contexts
        PROVE  refs'[d] = Cardinality(KeysOf(d)') + IF d \in owned THEN 1 ELSE 0
    <3>1. /\ Cardinality(KeysOf(d)) \in Nat /\ IsFiniteSet(KeysOf(d))
          /\ refs[d] = Cardinality(KeysOf(d)) + IF d \in owned THEN 1 ELSE 0
      BY Zenon, KeysFinite DEF ContextsHeld, KeysOf
    <3>2. CASE d = c
      <4>1. KeysOf(c)' = KeysOf(c) \cup {k} /\ k \notin KeysOf(c)
        BY <1>2, <1>9 DEF KeysOf
      <4>2. KeysOf(d)' = KeysOf(d) \cup {k} /\ k \notin KeysOf(d)
        BY <3>2, <4>1
      <4>3. Cardinality(KeysOf(d)') = Cardinality(KeysOf(d)) + 1
        BY Zenon, <3>1, <4>2, FS_AddElement
      <4>. QED  BY <1>10, <3>1, <3>2, <4>3
    <3>3. CASE d # c
      <4>1. KeysOf(d)' = KeysOf(d)
        BY <1>2, <1>9, <3>3, CacheAssumption DEF KeysOf
      <4>. QED  BY <1>10, <3>1, <3>3, <4>1
    <3>. QED  BY <3>2, <3>3
  <2>. QED  BY <1>1, <2>1 DEF ContextsHeld, KeysOf
<1>21. Sessions'
  <2>1. kcache
    BY <1>1 DEF Sessions
  <2>. QED  BY <1>1, <2>1 DEF Sessions, KTypeOK
<1>. QED  BY <1>5, <1>13, <1>14, <1>15, <1>16, <1>17, <1>18, <1>19, <1>20, <1>21

LEMMA AddStep ==
  ASSUME IInv, NEW t \in Threads, Add(t)
  PROVE  IInv'
<1>1. AddDone(t)
  BY DEF Add, AddDone
<1>2. CASE /\ Refused(adding[t])
           /\ removed' = [removed EXCEPT ![t] = RefusedReferences(adding[t])]
           /\ UNCHANGED <<lru, totalSize, node, refs>>
  BY Zenon, <1>1, <1>2, RefusedStep DEF RefusedReferences
<1>3. CASE /\ ~ Refused(adding[t])
           /\ \E n \in RemoveKernels(TruncSize(adding[t])) :
                /\ removed' = [removed EXCEPT ![t] = LastOf(n)]
                /\ lru' = <<adding[t]>> \o Without(n)
                /\ totalSize' = totalSize - SizeSum(LastOf(n)) + SizeOf[node[adding[t]].prog]
           /\ node' = [node EXCEPT ![adding[t]].context = ctx[t]]
           /\ refs' = [refs EXCEPT ![ctx[t]] = @ + 1]
  BY Zenon, <1>1, <1>3, AddedStep
<1>. QED  BY <1>2, <1>3 DEF Add

LEMMA FindStep ==
  ASSUME IInv, NEW t \in Threads, Find(t)
  PROVE  IInv'
<1>1. /\ pc[t] = "find" /\ Quiet(t) /\ slot[t] \in Slots
      /\ UNCHANGED <<refs, owned, ctx, adding, removed, dying>>
  BY DEF Find
<1>2. PICK p \in Programs :
       /\ want' = [want EXCEPT ![t][slot[t]] = p]
       /\ \/ \E i \in DOMAIN lru : lru[i] \in Matches(ctx[t], p) /\ FindKernel(t, i)
          \/ /\ pc' = [pc EXCEPT ![t] = "make"]
             /\ UNCHANGED <<cacheVars, node, slot, kernels>>
  BY Zenon DEF Find
<1>3. CASE \E i \in DOMAIN lru : lru[i] \in Matches(ctx[t], p) /\ FindKernel(t, i)
  BY Zenon, <1>1, <1>2, <1>3, HitStep
<1>4. CASE pc' = [pc EXCEPT ![t] = "make"] /\ UNCHANGED <<cacheVars, node, slot, kernels>>
  BY Zenon, <1>1, <1>2, <1>4, MissStep
<1>. QED  BY <1>2, <1>3, <1>4

-----------------------------------------------------------------------------
LEMMA NextInv == IInv /\ [Next]_kvars => IInv'
<1> SUFFICES ASSUME IInv, [Next]_kvars PROVE IInv'
  OBVIOUS
<1>1. ASSUME NEW c \in Contexts, CreateContext(c) \/ ReleaseContext(c) PROVE IInv'
  BY <1>1, ContextSteps
<1>2. CASE Setup
  BY <1>2, SetupStep
<1>3. ASSUME NEW t \in Threads, Proceed(t) PROVE IInv'
  <2>1. CASE Find(t)
    BY <2>1, FindStep
  <2>2. CASE Make(t)
    BY <2>2, MakeStep
  <2>3. CASE MakeFails(t) \/ OutOfResources(t) \/ Launch(t)
    BY <2>3, ToFreeStep
  <2>4. CASE Add(t)
    BY <2>4, AddStep
  <2>5. CASE Destroy(t)
    BY <2>5, DestroyStep
  <2>6. CASE PutRemoved(t)
    BY <2>6, PutRemovedStep
  <2>7. CASE FreeStep(t)
    BY <2>7, FreeStepStep
  <2>8. CASE End(t)
    BY <2>8, EndStep
  <2>9. CASE TornDown(t)
    BY <2>9, TornDownStep
  <2>. QED  BY <1>3, <2>1, <2>2, <2>3, <2>4, <2>5, <2>6, <2>7, <2>8, <2>9 DEF Proceed
<1>4. ASSUME NEW t \in Threads, Teardown(t) PROVE IInv'
  BY <1>4, TeardownStep
<1>5. ASSUME NEW t \in Threads, NEW c \in Contexts, Begin(t, c) PROVE IInv'
  BY <1>5, BeginStep
<1>6. CASE UNCHANGED kvars
  <2>1. UNCHANGED <<cacheVars, node, refs, owned, threadVars>>
    BY <1>6 DEF kvars
  <2>2. /\ InCache' = InCache /\ SizeSum(InCache)' = SizeSum(InCache)
        /\ LruDistinct' /\ CachedKeys' /\ CountsExact'
    BY <2>1, Kept DEF cacheVars, threadVars
  <2>3. KTypeOK'
    BY <2>1 DEF IInv, KTypeOK, cacheVars, threadVars
  <2>4. Phases' /\ AddingFresh' /\ Sessions' /\ KernelsFit' /\ ContextsHeld' /\ SizeWithinLimit'
    BY <2>1, <2>2 DEF IInv, Phases, PhaseOf, Quiet, AddingFresh, Sessions, KernelsFit,
         ContextsHeld, SizeWithinLimit, cacheVars, threadVars
  <2>. QED  BY <2>2, <2>3, <2>4 DEF IInv
<1>. QED  BY <1>1, <1>2, <1>3, <1>4, <1>5, <1>6 DEF Next

LEMMA DownInv == IInv => NothingCached
<1> SUFFICES ASSUME IInv, library = "down" PROVE NothingCached
  BY DEF NothingCached
<1>1. lru = <<>> /\ \A t \in Threads : pc[t] = "out"
  BY DEF IInv, Sessions
<1>2. ASSUME NEW t \in Threads
      PROVE  /\ adding[t] = NULL /\ Quiet(t) /\ \A i \in Slots : kernels[t][i] = NULL
  BY <1>1 DEF IInv, Phases, PhaseOf, Slots
<1>3. ASSUME NEW k \in Kernels PROVE ~ node[k].live
  <2>1. k # NULL /\ k \notin InCache
    BY <1>1, CacheAssumption DEF InCache
  <2>2. ASSUME NEW h \in Holders(k) PROVE FALSE
    <3>1. h \in Places /\ Refers(h[1], h[2], k)
      BY DEF Holders
    <3>. QED  BY <1>2, <2>1, <3>1, PlaceForms DEF Refers, Quiet, Slots
  <2>3. Holders(k) = {}
    BY <2>2
  <2>4. Cardinality(Holders(k)) = 0
    BY <2>3, FS_EmptySet
  <2>5. CountOf(k) /\ \A t \in Threads : dying[t] # k
    BY <1>2, <2>1, CountsOf DEF IInv, Quiet
  <2>. QED  BY <2>4, <2>5 DEF CountOf
<1>4. ASSUME NEW c \in Contexts PROVE refs[c] = IF c \in owned THEN 1 ELSE 0
  <2>1. KeysOf(c) = {}
    BY <1>3 DEF KeysOf
  <2>2. Cardinality(KeysOf(c)) = 0
    BY <2>1, FS_EmptySet
  <2>. QED  BY <2>2 DEF IInv, ContextsHeld, KeysOf
<1>. QED  BY <1>1, <1>3, <1>4 DEF NothingCached

(* The invariant of the cache, for any number of threads and calls.        *)
THEOREM CacheInvariant == Spec => []IInv
<1>1. Init => IInv
  BY InitInv
<1>2. IInv /\ [Next]_kvars => IInv'
  BY NextInv
<1>. QED  BY <1>1, <1>2, PTL DEF Spec

(* The references of a kernel are those that refer to it, at all times:    *)
(* putKernel frees no kernel in use and leaks none (kern_cache.c:207).     *)
THEOREM CountsAreExact == Spec => []CountsExact
<1>1. IInv => CountsExact
  BY DEF IInv
<1>. QED  BY <1>1, CacheInvariant, PTL

(* A step has the kernel it asked for, built for its own context           *)
(* (makeSolutionSeq).                                                      *)
THEOREM KernelsAlwaysFit == Spec => []KernelsFit
<1>1. IInv => KernelsFit
  BY DEF IInv
<1>. QED  BY <1>1, CacheInvariant, PTL

(* Contexts are held exactly by the application and by the keys of the     *)
(* cache (addKernelToCache, putKernel).                                    *)
THEOREM ContextsStayHeld == Spec => []ContextsHeld
<1>1. IInv => ContextsHeld
  BY DEF IInv
<1>. QED  BY <1>1, CacheInvariant, PTL

(* The cache never exceeds its limit, whatever the sizes of kernels are    *)
(* (removeKernels, addKernelToCache).                                      *)
THEOREM CacheWithinLimit == Spec => []SizeWithinLimit
<1>1. IInv => SizeWithinLimit
  BY DEF IInv
<1>. QED  BY <1>1, CacheInvariant, PTL

(* clblasTeardown leaves nothing behind.                                   *)
THEOREM TeardownLeavesNothing == Spec => []NothingCached
<1>. QED  BY DownInv, CacheInvariant, PTL


-----------------------------------------------------------------------------
(* What a call does with the cache.                                        *)

LEMMA BNextIsNext == BNext => [Next]_kvars
<1> SUFFICES ASSUME BNext PROVE [Next]_kvars
  OBVIOUS
<1>1. CASE Application
  BY <1>1 DEF Application, Next
<1>2. CASE ChangeImages
  BY <1>2 DEF ChangeImages
<1>3. ASSUME NEW t \in Threads, ProceedCall(t) PROVE [Next]_kvars
  <2>1. Proceed(t) => Next
    BY DEF Next
  <2>2. CASE FindBestPattern(t)
    <3>1. CASE GiveUp(t)
      BY <2>1, <3>1 DEF GiveUp, Proceed
    <3>2. CASE GetImage(t) \/ NoImageFound(t) \/ Retry(t) \/ PutImage(t)
      BY <3>2 DEF GetImage, NoImageFound, Retry, PutImage
    <3>. QED  BY <2>2, <3>1, <3>2 DEF FindBestPattern
  <2>3. CASE GetKernels(t) \/ Enqueue(t) \/ Return(t) \/ References(t) \/ EndTeardown(t)
    BY <2>1, <2>3 DEF GetKernels, Enqueue, Return, References, EndTeardown, Proceed
  <2>4. CASE FreeSolutionStep(t)
    BY <2>1, <2>4 DEF FreeSolutionStep, PutImage, Proceed
  <2>. QED  BY <1>3, <2>2, <2>3, <2>4 DEF ProceedCall
<1>. QED  BY <1>1, <1>2, <1>3 DEF BNext

(* Calls are an implementation of the cache: whatever they do with images  *)
(* in between, to the cache they do what KernelCache says.                 *)
THEOREM CallsUseTheCache == BSpec => Spec
<1>1. BInit => Init
  BY DEF BInit
<1>2. [BNext]_bvars => [Next]_kvars
  BY BNextIsNext DEF bvars
<1>. QED  BY <1>1, <1>2, PTL DEF BSpec, Spec

-----------------------------------------------------------------------------
(* Who uses an image, and on which devices.                                *)

UsersOf(m)   == {h \in Holds : Held(h) = m}
DevicesOf(m) == {DeviceOf[h[1]] : h \in UsersOf(m)}

BTypeOK ==
  /\ images \subseteq Images
  /\ image \in [Images -> [refs : Nat, usingDevices : SUBSET Devices]]
  /\ stage \in [Threads -> {"get", "failed", "found"}]
  /\ needed \in [Threads -> {0, 1, 2}]
  /\ scimage \in [Threads -> Seq(Images)]

(* How many images a step holds, by how far its call is.                   *)
LoanOf(t) ==
  /\ Len(scimage[t]) <= 2
  /\ stage[t] = "get" => Len(scimage[t]) < needed[t]
  /\ stage[t] = "failed" => needed[t] > 0
  /\ stage[t] \in {"get", "failed"} => pc[t] = "find"
  /\ pc[t] \in {"out", "teardown"} => scimage[t] = <<>>
Loans == \A t \in Threads : LoanOf(t)

(* Each device of an image has one user, and the notes of a listed image   *)
(* are its users' devices.                                                 *)
LentOf(m) ==
  /\ \A g, h \in UsersOf(m) : DeviceOf[g[1]] = DeviceOf[h[1]] => g = h
  /\ m \in images => image[m].usingDevices = DevicesOf(m)

CountedOf(m) == image[m].refs = Cardinality(UsersOf(m)) + IF m \in images THEN 1 ELSE 0

ImagesInv == \A m \in Images : LentOf(m) /\ CountedOf(m)
BInv      == BTypeOK /\ Loans /\ ImagesInv

LEMMA LoanForms ==
  ASSUME BTypeOK, Loans, NEW t \in Threads
  PROVE  LET s == scimage[t]
         IN  \/ s = <<>> /\ DOMAIN s = {}
             \/ s \in Seq(Images) /\ Len(s) = 1 /\ DOMAIN s = {1} /\ s[1] \in Images
             \/ s \in Seq(Images) /\ Len(s) = 2 /\ DOMAIN s = {1, 2} /\ s[1] \in Images /\ s[2] \in Images
<1>1. PICK s : s = scimage[t]
  OBVIOUS
<1>2. s \in Seq(Images) /\ Len(s) <= 2
  BY <1>1 DEF BTypeOK, Loans, LoanOf
<1>3. Len(s) \in Nat /\ DOMAIN s = 1..Len(s) /\ \A i \in 1..Len(s) : s[i] \in Images
  BY <1>2, LenProperties, ElementOfSeq
<1>4. Len(s) = 0 \/ Len(s) = 1 \/ Len(s) = 2
  BY <1>2, <1>3
<1>5. CASE Len(s) = 0
  BY <1>1, <1>2, <1>3, <1>5, EmptySeq
<1>6. CASE Len(s) = 1
  BY <1>1, <1>2, <1>3, <1>6
<1>7. CASE Len(s) = 2
  <2>1. DOMAIN s = {1, 2}
    BY <1>3, <1>7
  <2>. QED  BY <1>1, <1>2, <1>3, <1>7, <2>1
<1>. QED  BY <1>4, <1>5, <1>6, <1>7

LEMMA UsersFinite ==
  ASSUME NEW m
  PROVE  IsFiniteSet(UsersOf(m)) /\ Cardinality(UsersOf(m)) \in Nat
<1>1. IsFiniteSet({1, 2})
  <2>1. IsFiniteSet({1})
    BY Zenon, FS_Singleton
  <2>2. IsFiniteSet({1} \cup {2}) /\ {1} \cup {2} = {1, 2}
    BY <2>1, FS_AddElement
  <2>. QED  BY <2>2
<1>2. IsFiniteSet(Threads \X {1, 2})
  BY <1>1, CacheAssumption, FS_Product
<1>3. UsersOf(m) \subseteq Threads \X {1, 2}
  BY DEF UsersOf, Holds
<1>. QED  BY <1>2, <1>3, FS_Subset, FS_CardinalityType

LEMMA HeldAreImages ==
  ASSUME BTypeOK, Loans, NEW h \in Holds
  PROVE  Held(h) \in Images /\ h[1] \in Threads
<1>1. h[1] \in Threads /\ h[2] \in DOMAIN scimage[h[1]]
  BY DEF Holds
<1>. QED  BY <1>1, LoanForms DEF Held

LEMMA BInvGives == BInv => LentOncePerDevice /\ ImagesCounted
<1> SUFFICES ASSUME BInv PROVE LentOncePerDevice /\ ImagesCounted
  OBVIOUS
<1>1. ASSUME NEW g \in Holds, NEW h \in Holds, Held(g) = Held(h), DeviceOf[g[1]] = DeviceOf[h[1]]
      PROVE  g = h
  BY <1>1, HeldAreImages DEF BInv, ImagesInv, LentOf, UsersOf
<1>2. ASSUME NEW m \in images
      PROVE  image[m].usingDevices = {DeviceOf[h[1]] : h \in {g \in Holds : Held(g) = m}}
  BY DEF BInv, BTypeOK, ImagesInv, LentOf, DevicesOf, UsersOf
<1>3. ImagesCounted
  BY DEF BInv, ImagesInv, CountedOf, UsersOf, ImagesCounted
<1>. QED  BY <1>1, <1>2, <1>3 DEF LentOncePerDevice

(* An image whose users and whose entry a step leaves alone.               *)
LEMMA ImageKept ==
  ASSUME NEW m \in Images, LentOf(m), CountedOf(m), UsersOf(m)' = UsersOf(m),
         image'[m] = image[m], m \in images' <=> m \in images
  PROVE  (LentOf(m) /\ CountedOf(m))'
BY DEF LentOf, CountedOf, DevicesOf

LEMMA LoansKept ==
  ASSUME BInv, UNCHANGED <<ivars, scimage>>
  PROVE  ImagesInv'
<1>1. ASSUME NEW m \in Images PROVE (LentOf(m) /\ CountedOf(m))'
  <2>1. UsersOf(m)' = UsersOf(m)
    BY DEF UsersOf, Holds, Held
  <2>. QED  BY <2>1, ImageKept DEF BInv, ImagesInv, ivars
<1>. QED  BY <1>1 DEF ImagesInv

-----------------------------------------------------------------------------
(* What happens to an image.                                               *)

ImageNode == [refs : Nat, usingDevices : SUBSET Devices]

LEMMA Released ==
  ASSUME NEW n \in ImageNode, n.refs > 0
  PROVE  /\ ReleaseMemObject(n) \in ImageNode /\ ReleaseMemObject(n).refs = n.refs - 1
         /\ n.refs # 1 => ReleaseMemObject(n).usingDevices = n.usingDevices
<1>1. CASE n.refs = 1
  BY <1>1 DEF ReleaseMemObject, NoNode, ImageNode
<1>2. CASE n.refs # 1
  <2>1. ReleaseMemObject(n) = [n EXCEPT !.refs = n.refs - 1]
    BY <1>2 DEF ReleaseMemObject
  <2>2. n.refs - 1 \in Nat
    BY DEF ImageNode
  <2>. QED  BY <1>2, <2>1, <2>2 DEF ImageNode
<1>. QED  BY <1>1, <1>2

(* The list's reference goes.                                              *)
LEMMA Unlisted ==
  ASSUME BInv, NEW m \in images, image'[m] = FreedImageNode(image[m]), m \notin images',
         UNCHANGED scimage
  PROVE  image'[m] \in ImageNode /\ (LentOf(m) /\ CountedOf(m))'
<1>1. m \in Images /\ image[m] \in ImageNode
  BY DEF BInv, BTypeOK, ImageNode
<1>2. image[m].refs = Cardinality(UsersOf(m)) + 1 /\ Cardinality(UsersOf(m)) \in Nat
  BY <1>1, UsersFinite DEF BInv, ImagesInv, CountedOf
<1>3. PICK n : n = [image[m] EXCEPT !.usingDevices = {}]
  BY Zenon
<1>4. n \in ImageNode /\ n.refs = image[m].refs
  BY <1>1, <1>3 DEF ImageNode
<1>5. image'[m] = ReleaseMemObject(n)
  BY <1>3 DEF FreedImageNode
<1>6. image'[m] \in ImageNode /\ image'[m].refs = Cardinality(UsersOf(m))
  BY <1>2, <1>4, <1>5, Released
<1>7. UsersOf(m)' = UsersOf(m)
  BY DEF UsersOf, Holds, Held
<1>8. CountedOf(m)'
  BY <1>2, <1>6, <1>7 DEF CountedOf
<1>9. LentOf(m)'
  BY <1>1, <1>7 DEF BInv, ImagesInv, LentOf
<1>. QED  BY <1>6, <1>8, <1>9

LEMMA ChangeStep ==
  ASSUME BInv, NEW m \in Images, AddScratchImage(m) \/ RemoveScratchImage(m), UNCHANGED scimage
  PROVE  /\ ImagesInv' /\ images' \subseteq Images
         /\ image' \in [Images -> ImageNode]
<1>1. images \subseteq Images /\ image \in [Images -> ImageNode]
  BY DEF BInv, BTypeOK, ImageNode
<1>2. \A x \in Images : UsersOf(x)' = UsersOf(x)
  BY DEF UsersOf, Holds, Held
<1>3. images' \subseteq Images /\ image' \in [Images -> ImageNode] /\ (LentOf(m) /\ CountedOf(m))'
  <2>1. CASE AddScratchImage(m)
    <3>1. /\ image[m].refs = 0 /\ images' = images \cup {m}
          /\ image' = [image EXCEPT ![m] = [refs |-> 1, usingDevices |-> {}]]
      BY <2>1 DEF AddScratchImage
    <3>2. [refs |-> 1, usingDevices |-> {}] \in ImageNode
      BY DEF ImageNode
    <3>3. image'[m].refs = 1 /\ image'[m].usingDevices = {} /\ m \in images'
      BY <1>1, <3>1
    <3>4. Cardinality(UsersOf(m)) = 0 /\ IsFiniteSet(UsersOf(m))
      BY <3>1, UsersFinite DEF BInv, ImagesInv, CountedOf
    <3>5. UsersOf(m)' = {} /\ Cardinality(UsersOf(m)') = 0
      BY <1>2, <3>4, FS_EmptySet
    <3>6. CountedOf(m)'
      BY <3>3, <3>5 DEF CountedOf
    <3>7. LentOf(m)'
      BY <3>3, <3>5 DEF LentOf, DevicesOf
    <3>. QED  BY <1>1, <3>1, <3>2, <3>6, <3>7
  <2>2. CASE RemoveScratchImage(m)
    <3>1. /\ m \in images /\ images' = images \ {m}
          /\ image' = [image EXCEPT ![m] = FreedImageNode(@)]
      BY <2>2 DEF RemoveScratchImage
    <3>2. image'[m] = FreedImageNode(image[m]) /\ m \notin images'
      BY <1>1, <3>1
    <3>3. image'[m] \in ImageNode /\ (LentOf(m) /\ CountedOf(m))'
      BY <3>1, <3>2, Unlisted
    <3>. QED  BY <1>1, <3>1, <3>3
  <2>. QED  BY <2>1, <2>2
<1>4. ASSUME NEW x \in Images, x # m PROVE (LentOf(x) /\ CountedOf(x))'
  <2>1. image'[x] = image[x] /\ (x \in images' <=> x \in images)
    BY <1>1, <1>4 DEF AddScratchImage, RemoveScratchImage
  <2>. QED  BY <1>2, <2>1, ImageKept DEF BInv, ImagesInv
<1>. QED  BY <1>3, <1>4 DEF ImagesInv

LEMMA ReleaseStep ==
  ASSUME BInv, ReleaseSCImages, UNCHANGED scimage
  PROVE  /\ ImagesInv' /\ images' \subseteq Images
         /\ image' \in [Images -> ImageNode]
<1>1. image \in [Images -> ImageNode]
  BY DEF BInv, BTypeOK, ImageNode
<1>2. /\ images' = {}
      /\ image' = [m \in Images |-> IF m \in images THEN FreedImageNode(image[m]) ELSE image[m]]
  BY DEF ReleaseSCImages
<1>3. ASSUME NEW m \in Images PROVE image'[m] \in ImageNode /\ (LentOf(m) /\ CountedOf(m))'
  <2>1. CASE m \in images
    BY <1>2, <2>1, Unlisted
  <2>2. CASE m \notin images
    <3>1. UsersOf(m)' = UsersOf(m)
      BY DEF UsersOf, Holds, Held
    <3>2. image'[m] = image[m]
      BY <1>2, <2>2
    <3>. QED  BY <1>1, <1>2, <2>2, <3>1, <3>2, ImageKept DEF BInv, ImagesInv
  <2>. QED  BY <2>1, <2>2
<1>4. image' \in [Images -> ImageNode]
  BY <1>2, <1>3
<1>. QED  BY <1>2, <1>3, <1>4 DEF ImagesInv

LEMMA GetStep ==
  ASSUME BInv, NEW t \in Threads, stage[t] = "get", NEW m \in Images,
         GetSCImage(DeviceOf[t], m),
         scimage' = [scimage EXCEPT ![t] = Append(@, m)]
  PROVE  /\ ImagesInv' /\ images' \subseteq Images
         /\ image' \in [Images -> ImageNode]
         /\ scimage' \in [Threads -> Seq(Images)] /\ Len(scimage'[t]) = Len(scimage[t]) + 1
         /\ Len(scimage[t]) \in Nat
         /\ \A u \in Threads : u # t => scimage'[u] = scimage[u]
<1>1. /\ images \subseteq Images /\ image \in [Images -> ImageNode]
      /\ scimage \in [Threads -> Seq(Images)] /\ needed[t] \in {0, 1, 2}
      /\ Len(scimage[t]) < needed[t]
  BY DEF BInv, BTypeOK, ImageNode, Loans, LoanOf
<1>a. PICK s, l, dev : s = scimage[t] /\ l = Len(s) /\ dev = DeviceOf[t]
  BY Zenon
<1>2. /\ images' = images /\ m \in images /\ dev \notin image[m].usingDevices /\ dev \in Devices
      /\ image' = [image EXCEPT ![m].refs = @ + 1, ![m].usingDevices = @ \cup {dev}]
  BY <1>a, CallsAssumption DEF GetSCImage, Serves
<1>3. /\ image' \in [Images -> ImageNode] /\ image'[m].refs = image[m].refs + 1
      /\ image'[m].usingDevices = image[m].usingDevices \cup {dev}
      /\ \A x \in Images : x # m => image'[x] = image[x]
  <2>1. PICK n : n = image[m]
    OBVIOUS
  <2>2. /\ n \in ImageNode /\ n.refs \in Nat /\ n.usingDevices \in SUBSET Devices
    BY <1>1, <2>1 DEF ImageNode
  <2>3. PICK q : q = [refs |-> n.refs + 1, usingDevices |-> n.usingDevices \cup {dev}]
    BY Zenon
  <2>4. q \in ImageNode
    BY <1>2, <2>2, <2>3 DEF ImageNode
  <2>5. image' = [image EXCEPT ![m] = q]
    <3>1. PICK f : f = [image EXCEPT ![m].refs = @ + 1]
      BY Zenon
    <3>2. f = [image EXCEPT ![m] = [n EXCEPT !.refs = n.refs + 1]]
      BY <1>1, <2>1, <3>1
    <3>3. image' = [f EXCEPT ![m].usingDevices = @ \cup {dev}]
      BY <1>2, <3>1
    <3>4. f[m] = [refs |-> n.refs + 1, usingDevices |-> n.usingDevices]
      BY <1>1, <2>1, <2>2, <3>2 DEF ImageNode
    <3>5. PICK r : r = [refs |-> n.refs + 1, usingDevices |-> n.usingDevices]
      BY Zenon
    <3>6. [r EXCEPT !.usingDevices = r.usingDevices \cup {dev}] = q
      BY ONLY <2>3, <3>5
    <3>7. [f[m] EXCEPT !.usingDevices = f[m].usingDevices \cup {dev}] = q
      BY <3>4, <3>5, <3>6
    <3>8. image' = [f EXCEPT ![m] = [f[m] EXCEPT !.usingDevices = f[m].usingDevices \cup {dev}]]
      BY <3>3
    <3>. QED  BY Zenon, <1>1, <3>2, <3>7, <3>8
  <2>. QED  BY <1>1, <2>1, <2>3, <2>4, <2>5
<1>4. s \in Seq(Images) /\ l \in Nat /\ DOMAIN s = 1..l /\ l \in {0, 1}
  BY <1>a, <1>1, LenProperties
<1>5. /\ Append(s, m) \in Seq(Images) /\ Len(Append(s, m)) = l + 1
      /\ DOMAIN Append(s, m) = 1..(l + 1)
      /\ Append(s, m)[l + 1] = m /\ \A i \in 1..l : Append(s, m)[i] = s[i]
  BY <1>a, <1>4, AppendProperties, LenProperties
<1>6. /\ scimage' \in [Threads -> Seq(Images)] /\ scimage'[t] = Append(s, m)
      /\ \A u \in Threads : u # t => scimage'[u] = scimage[u]
  BY <1>a, <1>1, <1>5
<1>7. PICK h : h = <<t, l + 1>>
  BY Zenon
<1>8. /\ h \notin Holds /\ Holds' = Holds \cup {h}
  <2>1. h \notin Holds
    BY <1>a, <1>4, <1>7 DEF Holds
  <2>2. ASSUME NEW g \in Threads \X {1, 2}
        PROVE  g[2] \in DOMAIN scimage'[g[1]] <=> g[2] \in DOMAIN scimage[g[1]] \/ g = h
    <3>1. CASE g[1] = t
      BY <1>a, <1>4, <1>5, <1>6, <1>7, <3>1
    <3>2. CASE g[1] # t
      BY <1>6, <1>7, <3>2
    <3>. QED  BY <3>1, <3>2
  <2>3. h \in Threads \X {1, 2}
    BY <1>4, <1>7
  <2>. QED  BY <2>1, <2>2, <2>3 DEF Holds
<1>9. Held(h)' = m /\ \A g \in Holds : Held(g)' = Held(g)
  <2>1. Held(h)' = m
    BY <1>5, <1>6, <1>7 DEF Held
  <2>2. ASSUME NEW g \in Holds PROVE Held(g)' = Held(g)
    <3>1. CASE g[1] = t
      BY <1>a, <1>4, <1>5, <1>6, <3>1 DEF Held, Holds
    <3>2. CASE g[1] # t
      BY <1>6, <3>2 DEF Held, Holds
    <3>. QED  BY <3>1, <3>2
  <2>. QED  BY <2>1, <2>2
<1>10. UsersOf(m)' = UsersOf(m) \cup {h} /\ h \notin UsersOf(m)
  BY <1>8, <1>9 DEF UsersOf
<1>11. \A x \in Images : x # m => UsersOf(x)' = UsersOf(x)
  BY <1>8, <1>9 DEF UsersOf
<1>12. CountedOf(m)'
  <2>1. Cardinality(UsersOf(m)') = Cardinality(UsersOf(m)) + 1
    BY Zenon, <1>10, UsersFinite, FS_AddElement
  <2>. QED  BY <1>2, <1>3, <2>1, UsersFinite DEF BInv, ImagesInv, CountedOf
<1>13. LentOf(m)'
  <2>1. \A g \in UsersOf(m) : DeviceOf[g[1]] # dev
    BY <1>2 DEF BInv, ImagesInv, LentOf, DevicesOf
  <2>2. DeviceOf[h[1]] = dev
    BY <1>a, <1>7
  <2>3. DevicesOf(m)' = DevicesOf(m) \cup {dev}
    BY <1>10, <2>2 DEF DevicesOf
  <2>. QED  BY <1>2, <1>3, <1>10, <2>1, <2>2, <2>3 DEF BInv, ImagesInv, LentOf
<1>14. ASSUME NEW x \in Images, x # m PROVE (LentOf(x) /\ CountedOf(x))'
  BY <1>2, <1>3, <1>11, <1>14, ImageKept DEF BInv, ImagesInv
<1>. QED  BY <1>a, <1>1, <1>2, <1>3, <1>4, <1>5, <1>6, <1>12, <1>13, <1>14 DEF ImagesInv

(* Who used the second image of a step uses it as its first one then.      *)
LEMMA UserMoved ==
  ASSUME BInv, NEW b \in Images, NEW t \in Threads, NEW h1, NEW h2,
         h1 = <<t, 1>>, h2 = <<t, 2>>, h2 \in UsersOf(b), h1 \notin UsersOf(b),
         UsersOf(b)' = (UsersOf(b) \ {h2}) \cup {h1},
         image'[b] = image[b], images' = images
  PROVE  (LentOf(b) /\ CountedOf(b))'
<1>1. LentOf(b) /\ CountedOf(b) /\ DeviceOf[h1[1]] = DeviceOf[h2[1]]
  BY DEF BInv, ImagesInv
<1>2. Cardinality(UsersOf(b)') = Cardinality(UsersOf(b))
  <2>1. IsFiniteSet(UsersOf(b) \ {h2}) /\ Cardinality(UsersOf(b) \ {h2}) = Cardinality(UsersOf(b)) - 1
    <3>1. PICK U : U = UsersOf(b)
      OBVIOUS
    <3>2. IsFiniteSet(U) /\ h2 \in U
      BY <3>1, UsersFinite
    <3>3. IsFiniteSet(U \ {h2}) /\ Cardinality(U \ {h2}) = Cardinality(U) - 1
      BY ONLY Zenon, <3>2, FS_RemoveElement
    <3>. QED  BY <3>1, <3>3
  <2>2. Cardinality((UsersOf(b) \ {h2}) \cup {h1}) = Cardinality(UsersOf(b) \ {h2}) + 1
    BY Zenon, <2>1, FS_AddElement
  <2>. QED  BY <2>1, <2>2, UsersFinite
<1>3. CountedOf(b)'
  BY <1>1, <1>2 DEF CountedOf
<1>4. DevicesOf(b)' = DevicesOf(b)
  <2>1. \A g \in UsersOf(b)' : \E h \in UsersOf(b) : DeviceOf[g[1]] = DeviceOf[h[1]]
    BY <1>1
  <2>2. \A g \in UsersOf(b) : \E h \in UsersOf(b)' : DeviceOf[g[1]] = DeviceOf[h[1]]
    BY <1>1
  <2>. QED  BY <2>1, <2>2 DEF DevicesOf
<1>5. LentOf(b)'
  BY <1>1, <1>4 DEF LentOf
<1>. QED  BY <1>3, <1>5

LEMMA PutStep ==
  ASSUME BInv, NEW t \in Threads, scimage[t] # <<>>,
         PutSCImage(DeviceOf[t], Head(scimage[t])),
         scimage' = [scimage EXCEPT ![t] = Tail(@)]
  PROVE  /\ ImagesInv' /\ images' \subseteq Images
         /\ image' \in [Images -> ImageNode]
         /\ scimage' \in [Threads -> Seq(Images)]
         /\ Len(scimage'[t]) \in {0, 1}
         /\ \A u \in Threads : u # t => scimage'[u] = scimage[u]
<1>1. /\ images \subseteq Images /\ image \in [Images -> ImageNode]
      /\ scimage \in [Threads -> Seq(Images)]
  BY DEF BInv, BTypeOK, ImageNode
<1>a. PICK s, m, dev : s = scimage[t] /\ m = Head(s) /\ dev = DeviceOf[t]
  OBVIOUS
<1>b. PICK h1, h2 : h1 = <<t, 1>> /\ h2 = <<t, 2>>
  BY Zenon
<1>2. /\ s \in Seq(Images) /\ m = s[1] /\ m \in Images
      /\ \/ Len(s) = 1 /\ DOMAIN s = {1}
         \/ Len(s) = 2 /\ DOMAIN s = {1, 2} /\ s[2] \in Images
  BY <1>a, LoanForms DEF BInv
<1>3. /\ Tail(s) \in Seq(Images) /\ Len(Tail(s)) = Len(s) - 1
      /\ \A i \in 1..Len(Tail(s)) : Tail(s)[i] = s[i + 1]
  BY <1>a, <1>2, HeadTailProperties
<1>4. /\ scimage' \in [Threads -> Seq(Images)] /\ scimage'[t] = Tail(s)
      /\ \A u \in Threads : u # t => scimage'[u] = scimage[u]
  BY <1>a, <1>1, <1>3
<1>5. h1 \in Holds /\ h1 \in UsersOf(m)
  BY <1>a, <1>b, <1>2 DEF Holds, UsersOf, Held
<1>6. ASSUME NEW x \in Images
      PROVE  LentOf(x) /\ CountedOf(x) /\ Cardinality(UsersOf(x)) \in Nat /\ IsFiniteSet(UsersOf(x))
  BY UsersFinite DEF BInv, ImagesInv
<1>7. /\ Cardinality(UsersOf(m) \ {h1}) = Cardinality(UsersOf(m)) - 1
      /\ Cardinality(UsersOf(m)) > 0
  <2>1. Cardinality(UsersOf(m)) # 0
    BY <1>2, <1>5, <1>6, FS_EmptySet
  <2>2. Cardinality(UsersOf(m) \ {h1}) = Cardinality(UsersOf(m)) - 1
    BY Zenon, <1>2, <1>5, <1>6, FS_RemoveElement
  <2>. QED  BY <1>2, <1>6, <2>1, <2>2
<1>8. PICK n : n = IF m \in images THEN NotUsing(image[m], dev) ELSE image[m]
  OBVIOUS
<1>9. /\ n \in ImageNode /\ n.refs = image[m].refs
      /\ m \in images => n.usingDevices = image[m].usingDevices \ {dev}
  BY Zenon, <1>1, <1>2, <1>8 DEF ImageNode, NotUsing
<1>10. images' = images /\ image' = [image EXCEPT ![m] = ReleaseMemObject(n)]
  BY <1>a, <1>8 DEF PutSCImage
<1>11. image[m].refs > 0 /\ (m \in images => image[m].refs # 1)
  BY <1>2, <1>6, <1>7 DEF CountedOf
<1>12. /\ image' \in [Images -> ImageNode] /\ image'[m].refs = image[m].refs - 1
       /\ m \in images => image'[m].usingDevices = image[m].usingDevices \ {dev}
       /\ \A x \in Images : x # m => image'[x] = image[x]
  BY Zenon, <1>1, <1>2, <1>9, <1>10, <1>11, Released
<1>13. ASSUME UsersOf(m)' = UsersOf(m) \ {h1} PROVE (LentOf(m) /\ CountedOf(m))'
  <2>1. CountedOf(m)'
    BY <1>2, <1>6, <1>7, <1>10, <1>12, <1>13 DEF CountedOf
  <2>2. DeviceOf[h1[1]] = dev
    BY <1>a, <1>b
  <2>3. \A g \in UsersOf(m) : DeviceOf[g[1]] = dev => g = h1
    BY <1>2, <1>5, <1>6, <2>2 DEF LentOf
  <2>4. DevicesOf(m)' = DevicesOf(m) \ {dev}
    BY <1>13, <2>2, <2>3 DEF DevicesOf
  <2>5. LentOf(m)'
    BY <1>2, <1>6, <1>10, <1>12, <1>13, <2>4 DEF LentOf
  <2>. QED  BY <2>1, <2>5
<1>14. CASE Len(s) = 1
  <2>1. scimage'[t] = <<>> /\ DOMAIN scimage'[t] = {} /\ DOMAIN s = {1}
    BY <1>2, <1>3, <1>4, <1>14, EmptySeq
  <2>2. Holds' = Holds \ {h1}
    <3>1. ASSUME NEW g \in Threads \X {1, 2}
          PROVE  g[2] \in DOMAIN scimage'[g[1]] <=> g[2] \in DOMAIN scimage[g[1]] /\ g # h1
      BY <1>a, <1>b, <1>4, <2>1
    <3>. QED  BY <3>1 DEF Holds
  <2>3. \A g \in Holds' : Held(g)' = Held(g)
    BY <1>4, <2>1 DEF Held, Holds
  <2>4. UsersOf(m)' = UsersOf(m) \ {h1}
    BY <2>2, <2>3 DEF UsersOf
  <2>5. ASSUME NEW x \in Images, x # m PROVE (LentOf(x) /\ CountedOf(x))'
    <3>1. h1 \notin UsersOf(x)
      BY <1>5, <2>5 DEF UsersOf
    <3>2. UsersOf(x)' = UsersOf(x)
      BY <2>2, <2>3, <3>1 DEF UsersOf
    <3>. QED  BY <1>6, <1>10, <1>12, <2>5, <3>2, ImageKept
  <2>6. ImagesInv'
    BY <1>13, <2>4, <2>5 DEF ImagesInv
  <2>7. Len(scimage'[t]) \in {0, 1}
    <3>1. Len(Tail(s)) = 0
      BY <1>3, <1>14
    <3>2. Len(scimage'[t]) = 0
      BY Zenon, <1>4, <3>1
    <3>. QED  BY <3>2
  <2>. QED  BY <1>1, <1>4, <1>10, <1>12, <2>6, <2>7
<1>15. CASE Len(s) = 2
  <2>1. /\ DOMAIN scimage'[t] = {1} /\ scimage'[t][1] = s[2] /\ DOMAIN s = {1, 2} /\ s[2] \in Images
    <3>1. Len(Tail(s)) = 1
      BY <1>3, <1>15
    <3>2. DOMAIN Tail(s) = {1}
      <4>1. DOMAIN Tail(s) = 1..1
        BY Zenon, <1>3, <3>1, LenProperties
      <4>. QED  BY <4>1
    <3>3. Tail(s)[1] = s[2]
      BY <1>3, <3>1
    <3>4. DOMAIN s = {1, 2} /\ s[2] \in Images
      <4>1. DOMAIN s = 1..2
        BY <1>3, <1>15, LenProperties
      <4>2. 1..2 = {1, 2}
        OBVIOUS
      <4>3. 2 \in DOMAIN s
        BY <4>1
      <4>. QED  BY <1>2, <4>1, <4>2, <4>3
    <3>. QED  BY Zenon, <1>4, <3>2, <3>3, <3>4
  <2>2. PICK b \in Images : b = s[2]
    BY <2>1
  <2>3. h2 \in Holds /\ Held(h2) = b /\ h2 # h1 /\ Held(h1) = m
    BY <1>a, <1>b, <1>2, <2>1, <2>2 DEF Holds, Held
  <2>4. b # m
    <3>1. DeviceOf[h1[1]] = DeviceOf[h2[1]]
      BY <1>b
    <3>. QED  BY Zenon, <1>2, <1>5, <1>6, <2>3, <3>1 DEF LentOf, UsersOf
  <2>5. Holds' = Holds \ {h2}
    <3>1. ASSUME NEW g \in Threads \X {1, 2}
          PROVE  g[2] \in DOMAIN scimage'[g[1]] <=> g[2] \in DOMAIN scimage[g[1]] /\ g # h2
      BY <1>a, <1>b, <1>4, <2>1
    <3>. QED  BY <3>1 DEF Holds
  <2>6. Held(h1)' = b /\ \A g \in Holds' : g # h1 => Held(g)' = Held(g)
    <3>1. Held(h1)' = b
      BY <1>b, <2>1, <2>2 DEF Held
    <3>2. ASSUME NEW g \in Holds', g # h1 PROVE g[1] # t /\ g[1] \in Threads
      BY <1>b, <2>1, <3>2 DEF Holds
    <3>. QED  BY Zenon, <1>4, <3>1, <3>2 DEF Held
  <2>7. UsersOf(m)' = UsersOf(m) \ {h1}
    <3>1. ASSUME NEW g PROVE g \in Holds' /\ Held(g)' = m <=> g \in Holds /\ Held(g) = m /\ g # h1
      BY <2>3, <2>4, <2>5, <2>6
    <3>. QED  BY <3>1 DEF UsersOf
  <2>8. UsersOf(b)' = (UsersOf(b) \ {h2}) \cup {h1} /\ h2 \in UsersOf(b) /\ h1 \notin UsersOf(b)
    <3>1. ASSUME NEW g
          PROVE  g \in Holds' /\ Held(g)' = b <=> (g \in Holds /\ Held(g) = b /\ g # h2) \/ g = h1
      BY <1>5, <2>3, <2>4, <2>5, <2>6
    <3>. QED  BY <2>3, <2>4, <3>1 DEF UsersOf
  <2>9. (LentOf(b) /\ CountedOf(b))'
    BY Zenon, <1>b, <1>10, <1>12, <2>4, <2>8, UserMoved
  <2>10. ASSUME NEW x \in Images, x # m, x # b PROVE (LentOf(x) /\ CountedOf(x))'
    <3>1. ASSUME NEW g PROVE g \in Holds' /\ Held(g)' = x <=> g \in Holds /\ Held(g) = x
      BY <2>3, <2>5, <2>6, <2>10
    <3>2. UsersOf(x)' = UsersOf(x)
      BY <3>1 DEF UsersOf
    <3>. QED  BY <1>6, <1>10, <1>12, <2>10, <3>2, ImageKept
  <2>11. ImagesInv'
    BY <1>13, <2>7, <2>9, <2>10 DEF ImagesInv
  <2>12. Len(scimage'[t]) \in {0, 1}
    <3>1. Len(Tail(s)) = 1
      BY <1>3, <1>15
    <3>2. Len(scimage'[t]) = 1
      BY <1>4, <3>1
    <3>. QED  BY <3>2
  <2>. QED  BY <1>1, <1>4, <1>10, <1>12, <2>11, <2>12
<1>. QED  BY <1>2, <1>14, <1>15

-----------------------------------------------------------------------------
(* Every step of a call and of the application.                            *)

(* Steps that leave the images alone.                                      *)
LEMMA NoImageStep ==
  ASSUME BInv, UNCHANGED <<ivars, scimage>>, Loans',
         stage' \in [Threads -> {"get", "failed", "found"}],
         needed' \in [Threads -> {0, 1, 2}]
  PROVE  BInv'
BY LoansKept DEF BInv, BTypeOK, ivars

LEMMA BInitInv == BInit => BInv
<1> SUFFICES ASSUME BInit PROVE BInv
  OBVIOUS
<1>1. /\ images = {} /\ image = [m \in Images |-> NoNode]
      /\ stage = [t \in Threads |-> "found"] /\ needed = [t \in Threads |-> 0]
      /\ scimage = [t \in Threads |-> <<>>] /\ pc = [t \in Threads |-> "out"]
  BY DEF BInit, ImagesInit, Init
<1>2. BTypeOK
  <2>1. NoNode \in ImageNode
    BY DEF NoNode, ImageNode
  <2>. QED  BY <1>1, <2>1 DEF BTypeOK, ImageNode
<1>3. Loans
  <2>1. Len(<<>>) = 0
    OBVIOUS
  <2>. QED  BY <1>1, <2>1 DEF Loans, LoanOf
<1>4. \A m \in Images : UsersOf(m) = {} /\ image[m].refs = 0
  BY <1>1 DEF UsersOf, Holds, NoNode
<1>5. ImagesInv
  <2>1. \A m \in Images : m \notin images /\ LentOf(m)
    BY <1>1, <1>4 DEF LentOf
  <2>2. \A m \in Images : Cardinality(UsersOf(m)) = 0
    BY <1>4, FS_EmptySet
  <2>3. \A m \in Images : CountedOf(m)
    BY <1>4, <2>1, <2>2 DEF CountedOf
  <2>. QED  BY <2>1, <2>3 DEF ImagesInv
<1>. QED  BY <1>2, <1>3, <1>5 DEF BInv

LEMMA ApplicationStep ==
  ASSUME BInv, KTypeOK, Application
  PROVE  BInv'
<1> USE DEF BInv
<1>1. CASE /\ \/ \E c \in Contexts : CreateContext(c) \/ ReleaseContext(c)
              \/ Setup
              \/ \E t \in Threads : Teardown(t)
           /\ UNCHANGED <<ivars, stepVars>>
  <2>1. pc' = pc \/ \E t \in Threads : pc[t] = "out" /\ pc' = [pc EXCEPT ![t] = "teardown"]
    BY <1>1 DEF CreateContext, ReleaseContext, Setup, Teardown, threadVars
  <2>2. UNCHANGED <<stage, needed, scimage, ivars>>
    BY <1>1 DEF stepVars
  <2>3. ASSUME NEW u \in Threads PROVE LoanOf(u)'
    BY <2>1, <2>2 DEF Loans, LoanOf, KTypeOK
  <2>4. Loans'
    BY <2>3 DEF Loans
  <2>. QED  BY <2>2, <2>4, NoImageStep DEF BTypeOK
<1>2. ASSUME NEW t \in Threads, SelectPattern(t), NEW c \in Contexts, Begin(t, c),
             UNCHANGED <<ivars, maxImages, scimage>>
      PROVE  BInv'
  <2>1. PICK n \in Demand[kcache] :
          /\ needed' = [needed EXCEPT ![t] = n]
          /\ stage' = [stage EXCEPT ![t] = IF n = 0 THEN "found" ELSE "get"]
    BY Zenon, <1>2 DEF SelectPattern
  <2>2. n \in {0, 1, 2}
    BY Zenon, CallsAssumption DEF KTypeOK
  <2>3. pc[t] = "out" /\ pc' = [pc EXCEPT ![t] = "find"]
    BY <1>2 DEF Begin
  <2>4. /\ stage' \in [Threads -> {"get", "failed", "found"}]
        /\ needed' \in [Threads -> {0, 1, 2}]
    BY <2>1, <2>2 DEF BTypeOK
  <2>5. LoanOf(t)'
    <3>1. scimage'[t] = <<>> /\ Len(scimage'[t]) = 0
      BY <1>2, <2>3 DEF Loans, LoanOf
    <3>2. /\ needed'[t] = n /\ pc'[t] = "find"
          /\ stage'[t] = IF n = 0 THEN "found" ELSE "get"
      BY <2>1, <2>3 DEF BTypeOK, KTypeOK
    <3>. QED  BY <2>2, <3>1, <3>2 DEF LoanOf
  <2>6. ASSUME NEW u \in Threads, u # t PROVE LoanOf(u)'
    BY <1>2, <2>1, <2>3, <2>6 DEF Loans, LoanOf, BTypeOK, KTypeOK
  <2>7. Loans'
    BY <2>5, <2>6 DEF Loans
  <2>. QED  BY <1>2, <2>4, <2>7, NoImageStep
<1>. QED  BY <1>1, <1>2 DEF Application

LEMMA GetImageStep ==
  ASSUME BInv, NEW t \in Threads, GetImage(t)
  PROVE  BInv'
<1> USE DEF BInv
<1>1. PICK m \in Images :
        GetSCImage(DeviceOf[t], m) /\ scimage' = [scimage EXCEPT ![t] = Append(@, m)]
  BY Zenon DEF GetImage
<1>2. /\ stage[t] = "get" /\ UNCHANGED <<kvars, needed>>
      /\ stage' = [stage EXCEPT ![t] = IF Len(scimage[t]) + 1 = needed[t] THEN "found" ELSE "get"]
  BY DEF GetImage
<1>3. /\ ImagesInv' /\ images' \subseteq Images
      /\ image' \in [Images -> ImageNode]
      /\ scimage' \in [Threads -> Seq(Images)] /\ Len(scimage'[t]) = Len(scimage[t]) + 1
      /\ Len(scimage[t]) \in Nat
      /\ \A u \in Threads : u # t => scimage'[u] = scimage[u]
  BY Zenon, <1>1, <1>2, GetStep
<1>4. pc' = pc
  BY <1>2 DEF kvars, threadVars
<1>5. BTypeOK'
  BY Zenon, <1>2, <1>3 DEF BTypeOK, ImageNode
<1>6. LoanOf(t)'
  <2>1. PICK l \in Nat : l = Len(scimage[t])
    BY <1>3
  <2>2. Len(scimage'[t]) = l + 1 /\ l < needed[t] /\ needed[t] \in {0, 1, 2} /\ pc[t] = "find"
    BY <1>2, <1>3, <2>1 DEF Loans, LoanOf, BTypeOK
  <2>3. PICK k \in Nat : k = Len(scimage'[t])
    BY <2>2
  <2>4. /\ stage'[t] = IF k = needed[t] THEN "found" ELSE "get"
        /\ k <= needed[t] /\ k <= 2 /\ needed'[t] = needed[t] /\ pc'[t] = "find"
    BY <1>2, <1>4, <2>1, <2>2, <2>3 DEF BTypeOK
  <2>. QED  BY <2>2, <2>3, <2>4 DEF LoanOf
<1>7. ASSUME NEW u \in Threads, u # t PROVE LoanOf(u)'
  BY <1>2, <1>3, <1>4, <1>7 DEF Loans, LoanOf, BTypeOK
<1>. QED  BY <1>3, <1>5, <1>6, <1>7 DEF Loans

LEMMA PutImageStep ==
  ASSUME BInv, NEW t \in Threads, PutImage(t), stage[t] = "failed" \/ pc[t] = "free"
  PROVE  BInv'
<1> USE DEF BInv
<1>1. /\ scimage[t] # <<>> /\ PutSCImage(DeviceOf[t], Head(scimage[t]))
      /\ scimage' = [scimage EXCEPT ![t] = Tail(@)]
      /\ UNCHANGED <<kvars, stage, needed>>
  BY DEF PutImage
<1>2. /\ ImagesInv' /\ images' \subseteq Images
      /\ image' \in [Images -> ImageNode]
      /\ scimage' \in [Threads -> Seq(Images)]
      /\ Len(scimage'[t]) \in {0, 1}
      /\ \A u \in Threads : u # t => scimage'[u] = scimage[u]
  BY Zenon, <1>1, PutStep
<1>3. pc' = pc
  BY <1>1 DEF kvars, threadVars
<1>4. BTypeOK'
  BY <1>1, <1>2 DEF BTypeOK, ImageNode
<1>5. LoanOf(t)'
  <2>1. PICK k \in {0, 1} : k = Len(scimage'[t])
    BY <1>2
  <2>2. pc[t] \notin {"out", "teardown"} /\ stage[t] # "get"
    BY DEF Loans, LoanOf
  <2>. QED  BY <1>1, <1>3, <2>1, <2>2 DEF Loans, LoanOf
<1>6. ASSUME NEW u \in Threads, u # t PROVE LoanOf(u)'
  BY <1>1, <1>2, <1>3, <1>6 DEF Loans, LoanOf, BTypeOK
<1>. QED  BY <1>2, <1>4, <1>5, <1>6 DEF Loans

(* The steps of a call that only look for a pattern, or use the cache.     *)
LEMMA CallStep ==
  ASSUME BInv, KTypeOK, NEW t \in Threads,
         \/ NoImageFound(t) \/ Retry(t) \/ GiveUp(t) \/ GetKernels(t) \/ Enqueue(t)
         \/ FreeStep(t) /\ UNCHANGED <<ivars, stepVars>>
         \/ Return(t) \/ References(t)
  PROVE  BInv'
<1> USE DEF BInv
<1>1. LoanOf(t) /\ Len(scimage[t]) \in Nat /\ needed[t] \in {0, 1, 2}
  <2>1. Len(scimage[t]) \in Nat
    BY LoanForms, LenProperties DEF BTypeOK
  <2>. QED  BY <2>1 DEF Loans, BTypeOK
<1>2. UNCHANGED <<ivars, scimage>>
  BY DEF NoImageFound, Retry, GiveUp, GetKernels, Enqueue, Return, References, stepVars
<1>3. /\ stage' \in [Threads -> {"get", "failed", "found"}]
      /\ needed' \in [Threads -> {0, 1, 2}]
      /\ \A u \in Threads : u # t => stage'[u] = stage[u] /\ needed'[u] = needed[u]
  <2>1. stage' = stage \/ \E x \in {"get", "failed", "found"} : stage' = [stage EXCEPT ![t] = x]
    BY DEF NoImageFound, Retry, GiveUp, GetKernels, Enqueue, Return, References, stepVars
  <2>2. needed' = needed \/ needed' = [needed EXCEPT ![t] = 0]
    BY DEF NoImageFound, Retry, GiveUp, GetKernels, Enqueue, Return, References, stepVars
  <2>. QED  BY Zenon, <2>1, <2>2 DEF BTypeOK
<1>4. \A u \in Threads : u # t => pc'[u] = pc[u]
  <2>1. pc' = pc \/ \E x : pc' = [pc EXCEPT ![t] = x]
    BY Zenon DEF NoImageFound, Retry, GiveUp, OutOfResources, GetKernels, Find, FindKernel, Make,
         MakeFails, Add, Enqueue, Launch, FreeStep, Return, End, References, Destroy, PutRemoved,
         kvars, threadVars, cacheVars
  <2>. QED  BY <2>1 DEF KTypeOK
<1>5. LoanOf(t)'
  <2>1. CASE NoImageFound(t)
    <3>1. stage[t] = "get" /\ stage'[t] = "failed" /\ pc' = pc /\ needed' = needed
      BY <2>1 DEF NoImageFound, BTypeOK, kvars, threadVars
    <3>2. needed[t] > 0
      BY <1>1, <3>1 DEF LoanOf
    <3>. QED  BY <1>1, <1>2, <3>1, <3>2 DEF LoanOf
  <2>2. CASE Retry(t)
    <3>1. /\ stage[t] = "failed" /\ stage'[t] = "get" /\ scimage[t] = <<>>
          /\ pc' = pc /\ needed' = needed
      BY <2>2 DEF Retry, BTypeOK, kvars, threadVars
    <3>2. needed[t] > 0 /\ Len(scimage[t]) = 0
      BY <1>1, <3>1 DEF LoanOf
    <3>. QED  BY <1>1, <1>2, <3>1, <3>2 DEF LoanOf
  <2>3. CASE GiveUp(t)
    <3>1. stage'[t] = "found" /\ pc'[t] = "free"
      BY <2>3 DEF GiveUp, OutOfResources, BTypeOK, KTypeOK
    <3>. QED  BY <1>1, <1>2, <3>1 DEF LoanOf
  <2>4. CASE GetKernels(t)
    <3>1. stage[t] = "found" /\ stage' = stage /\ needed' = needed
      BY <2>4 DEF GetKernels, stepVars
    <3>2. pc[t] \in {"find", "make", "add"} /\ pc'[t] \in {"find", "make", "add", "free"}
      BY <2>4 DEF GetKernels, Find, FindKernel, Make, MakeFails, Add, KTypeOK
    <3>. QED  BY <1>1, <1>2, <3>1, <3>2 DEF LoanOf
  <2>5. CASE Enqueue(t)
    <3>1. stage[t] = "found" /\ stage' = stage /\ pc'[t] = "free"
      BY <2>5 DEF Enqueue, Launch, KTypeOK, stepVars
    <3>. QED  BY <1>1, <1>2, <3>1 DEF LoanOf
  <2>6. CASE (FreeStep(t) /\ UNCHANGED <<ivars, stepVars>>) \/ References(t)
    <3>1. stage' = stage /\ needed' = needed /\ pc' = pc
      BY <2>6 DEF FreeStep, References, Destroy, PutRemoved, stepVars
    <3>. QED  BY <1>1, <1>2, <3>1 DEF LoanOf
  <2>7. CASE Return(t)
    <3>1. scimage[t] = <<>> /\ pc[t] = "free" /\ stage' = stage
      BY <2>7 DEF Return, End
    <3>2. stage[t] \notin {"get", "failed"}
      BY <1>1, <3>1 DEF LoanOf
    <3>. QED  BY <1>1, <1>2, <3>1, <3>2 DEF LoanOf
  <2>. QED  BY <2>1, <2>2, <2>3, <2>4, <2>5, <2>6, <2>7
<1>6. Loans'
  <2>1. ASSUME NEW u \in Threads, u # t PROVE LoanOf(u)'
    BY <1>2, <1>3, <1>4, <2>1 DEF Loans, LoanOf
  <2>. QED  BY <1>5, <2>1 DEF Loans
<1>. QED  BY <1>2, <1>3, <1>6, NoImageStep

LEMMA EndTeardownStep ==
  ASSUME BInv, KTypeOK, NEW t \in Threads, EndTeardown(t)
  PROVE  BInv'
<1> USE DEF BInv
<1>1. /\ pc[t] = "teardown" /\ pc' = [pc EXCEPT ![t] = "out"] /\ ReleaseSCImages
      /\ UNCHANGED <<stage, needed, scimage>>
  BY DEF EndTeardown, TornDown, stepVars
<1>2. ImagesInv' /\ images' \subseteq Images /\ image' \in [Images -> ImageNode]
  BY <1>1, ReleaseStep
<1>3. BTypeOK'
  BY <1>1, <1>2 DEF BTypeOK, ImageNode
<1>4. ASSUME NEW u \in Threads PROVE LoanOf(u)'
  BY <1>1 DEF Loans, LoanOf, KTypeOK
<1>. QED  BY <1>2, <1>3, <1>4 DEF Loans

LEMMA BNextInv == BInv /\ KTypeOK /\ [BNext]_bvars => BInv'
<1> SUFFICES ASSUME BInv, KTypeOK, [BNext]_bvars PROVE BInv'
  OBVIOUS
<1>1. CASE Application
  BY <1>1, ApplicationStep
<1>2. CASE ChangeImages
  <2>1. PICK m \in Images : AddScratchImage(m) \/ RemoveScratchImage(m)
    BY <1>2 DEF ChangeImages
  <2>2. UNCHANGED <<pc, stage, needed, scimage>>
    BY <1>2 DEF ChangeImages, stepVars, kvars, threadVars
  <2>3. ImagesInv' /\ images' \subseteq Images /\ image' \in [Images -> ImageNode]
    BY <2>1, <2>2, ChangeStep
  <2>4. BTypeOK' /\ Loans'
    BY <2>2, <2>3 DEF BInv, BTypeOK, ImageNode, Loans, LoanOf
  <2>. QED  BY <2>3, <2>4 DEF BInv
<1>3. ASSUME NEW t \in Threads, ProceedCall(t) PROVE BInv'
  <2>1. CASE GetImage(t)
    BY <2>1, GetImageStep
  <2>2. CASE (stage[t] = "failed" /\ maxImages[t] > 0 /\ PutImage(t)) \/ (KernelsPut(t) /\ PutImage(t))
    BY <2>2, PutImageStep DEF KernelsPut
  <2>3. CASE \/ NoImageFound(t) \/ Retry(t) \/ GiveUp(t) \/ GetKernels(t) \/ Enqueue(t)
             \/ FreeStep(t) /\ UNCHANGED <<ivars, stepVars>>
             \/ Return(t) \/ References(t)
    BY <2>3, CallStep
  <2>4. CASE EndTeardown(t)
    BY <2>4, EndTeardownStep
  <2>. QED  BY <1>3, <2>1, <2>2, <2>3, <2>4 DEF ProceedCall, FindBestPattern, FreeSolutionStep
<1>4. CASE UNCHANGED bvars
  <2>1. UNCHANGED <<ivars, pc, stage, needed, scimage>>
    BY <1>4 DEF bvars, kvars, threadVars, stepVars
  <2>2. Loans'
    BY <2>1 DEF BInv, Loans, LoanOf
  <2>. QED  BY <2>1, <2>2, NoImageStep DEF BInv, BTypeOK
<1>. QED  BY <1>1, <1>2, <1>3, <1>4 DEF BNext

(* The invariant of the images a call borrows.                             *)
THEOREM LoanInvariant == BSpec => []BInv
<1>1. BInit => BInv
  BY BInitInv
<1>2. IInv => KTypeOK
  BY DEF IInv
<1>3. BInv /\ KTypeOK /\ [BNext]_bvars => BInv'
  BY BNextInv
<1>. QED  BY <1>1, <1>2, <1>3, CallsUseTheCache, CacheInvariant, PTL DEF BSpec

(* A scratch image is used by one step per device at a time, and what the  *)
(* list notes of it is who does (scimage.c:110).                           *)
THEOREM ImagesAreLentOnce == BSpec => []LentOncePerDevice
<1>. QED  BY BInvGives, LoanInvariant, PTL

(* The references of an image are those of the list and of the steps that  *)
(* hold it (clblasRemoveScratchImage, putSCImage).                         *)
THEOREM ImagesAreCounted == BSpec => []ImagesCounted
<1>. QED  BY BInvGives, LoanInvariant, PTL

(* What the cache promises holds of calls: every step has the kernel it    *)
(* asked for, references are counted, the limit is kept, and nothing is    *)
(* left after clblasTeardown.                                              *)
THEOREM CallsAreSafe ==
  BSpec => [](CountsExact /\ KernelsFit /\ ContextsHeld /\ SizeWithinLimit /\ NothingCached)
<1>1. IInv => CountsExact /\ KernelsFit /\ ContextsHeld /\ SizeWithinLimit /\ NothingCached
  BY DownInv DEF IInv
<1>. QED  BY <1>1, CallsUseTheCache, CacheInvariant, PTL

=============================================================================
