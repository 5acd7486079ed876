---------------------------- MODULE MatrixProofs ----------------------------
(***************************************************************************)
(* Proofs about modules SpMM and Formats, for matrices of every size, by   *)
(* lemmas on the primitives that both are built from.                      *)
(*                                                                         *)
(* SpMM: the workspace holds every product of A B once, and the result     *)
(* holds each in its row and column, and none twice.                       *)
(* The primitives compute by recursion, so their lemmas go by the least    *)
(* element where two arrays differ (LeastOf, SameElements).  The offsets   *)
(* and the output pointers are numbers of entries and of products before   *)
(* a row and before an entry (Offsets, Pointers).  A place of the          *)
(* workspace is in one segment (OneSegment), so what a segment's beginning *)
(* scatters reaches its places by the scans (Located, Paired), and place   *)
(* and product are in a bijection (Complete), which a permutation keeps.   *)
(* The runs of equal keys are numbered without a gap (Runs), so that no    *)
(* element of the result is left out (Exact).                              *)
(*                                                                         *)
(* Formats: the matrices that stand for one file give each other back and  *)
(* have the same product.  The entries of a COO matrix and the places of   *)
(* the CSR arrays are in a bijection that keeps the row (Placed), the      *)
(* slots of an ELL part hold the first entries of every row (Part), and    *)
(* the copies into the COO part of a HYB matrix fill it without a gap      *)
(* (HybOfIs).  So each matrix determines the CSR matrix, and is what the   *)
(* CSR matrix gives: that is the invariant (FInv).  Products count entries *)
(* and are carried along the bijections (SameCount).                       *)
(***************************************************************************)
EXTENDS SpMM, Formats, FiniteSetTheorems, WellFoundedInduction, TLAPS

(* There is a least number in a set.                                       *)
LEMMA LeastOf ==
  ASSUME NEW T, T \subseteq Nat, T # {}
  PROVE  \E m \in T : \A n \in T : m <= n
<1>1. PICK m \in T : \A n \in T : ~ (<<n, m>> \in OpToRel(<, Nat))
  BY WFMin, NatLessThanWellFounded
<1>2. \A n \in T : ~ (n < m)
  BY <1>1 DEF OpToRel
<1>. QED
  BY <1>2

(* Two arrays that are the same as long as they were the same before are   *)
(* the same: what a recursion computes is what satisfies it.               *)
LEMMA SameElements ==
  ASSUME NEW n \in Nat, NEW f, NEW g,
         f[0] = g[0], \A i \in 1..n : f[i - 1] = g[i - 1] => f[i] = g[i]
  PROVE  \A i \in 0..n : f[i] = g[i]
<1> DEFINE T == {i \in 0..n : f[i] # g[i]}
<1> SUFFICES ASSUME T # {} PROVE FALSE
  OBVIOUS
<1>1. T \subseteq Nat
  OBVIOUS
<1> HIDE DEF T
<1>2. PICK m \in T : \A i \in T : m <= i
  BY <1>1, LeastOf
<1>3. m \in 1..n /\ m - 1 \in 0..n /\ m - 1 \notin T
  BY <1>1, <1>2 DEF T
<1> QED
  BY <1>2, <1>3 DEF T

Array(f, n) == f = [i \in 0..n |-> f[i]]

(* Arrays with the same elements are the same.                             *)
LEMMA Extensional ==
  ASSUME NEW n, NEW f, NEW g, Array(f, n), Array(g, n), \A i \in 0..n : f[i] = g[i]
  PROVE  f = g
<1>1. [i \in 0..n |-> f[i]] = [i \in 0..n |-> g[i]]
  OBVIOUS
<1> QED
  BY Zenon, <1>1 DEF Array

Follows(f, g, n) ==
  /\ Array(f, n) /\ Array(g, n)
  /\ f[0] = g[0]
  /\ \A i \in 1..n : f[i - 1] = g[i - 1] => f[i] = g[i]

LEMMA SameArrays == ASSUME NEW n \in Nat, NEW f, NEW g, Follows(f, g, n) PROVE f = g
<1>1. \A i \in 0..n : f[i] = g[i]
  BY SameElements DEF Follows
<1> QED
  BY <1>1, Extensional DEF Follows

(* The four recursions.                                                    *)
LEMMA ExclusiveScanIs ==
  ASSUME NEW n \in Nat, NEW in, DOMAIN in = 0..n, NEW g, Array(g, n),
         g[0] = 0, \A i \in 1..n : g[i] = g[i - 1] + in[i - 1]
  PROVE  ExclusiveScan(in) = g
<1> DEFINE P(f) == f = [i \in 0..n |-> IF i = 0 THEN 0 ELSE f[i - 1] + in[i - 1]]
<1>1. P(g)
  <2> DEFINE h == [i \in 0..n |-> IF i = 0 THEN 0 ELSE g[i - 1] + in[i - 1]]
  <2>1. Array(h, n)
    BY DEF Array
  <2>2. \A i \in 0..n : g[i] = h[i]
    OBVIOUS
  <2> HIDE DEF h
  <2>3. g = h
    BY <2>1, <2>2, Extensional
  <2> QED
    BY <2>3 DEF h
<1>2. ExclusiveScan(in) = CHOOSE f : P(f)
  BY DEF ExclusiveScan
<1>3. PICK f : f = ExclusiveScan(in) /\ P(f)
  BY <1>1, <1>2
<1>4. \A i \in 0..n : f[i] = IF i = 0 THEN 0 ELSE f[i - 1] + in[i - 1]
  BY <1>3
<1>5. Array(f, n)
  BY <1>3 DEF Array
<1>6. \A i \in 1..n : f[i] = f[i - 1] + in[i - 1]
  BY <1>4
<1>7. f[0] = g[0]
  BY <1>4
<1>8. \A i \in 1..n : f[i - 1] = g[i - 1] => f[i] = g[i]
  BY <1>6
<1>9. Follows(f, g, n)
  BY <1>5, <1>7, <1>8 DEF Follows
<1> QED
  BY <1>3, <1>9, SameArrays

LEMMA InclusiveScanMaxIs ==
  ASSUME NEW n \in Nat, NEW in, DOMAIN in = 0..n, NEW g, Array(g, n),
         g[0] = in[0],
         \A i \in 1..n : g[i] = IF in[i] >= g[i - 1] THEN in[i] ELSE g[i - 1]
  PROVE  InclusiveScanMax(in) = g
<1> DEFINE P(f) == f = [i \in 0..n |-> IF i = 0 \/ in[i] >= f[i - 1] THEN in[i] ELSE f[i - 1]]
<1>1. P(g)
  <2> DEFINE h == [i \in 0..n |-> IF i = 0 \/ in[i] >= g[i - 1] THEN in[i] ELSE g[i - 1]]
  <2>1. Array(h, n)
    BY DEF Array
  <2>2. \A i \in 0..n : g[i] = h[i]
    OBVIOUS
  <2> HIDE DEF h
  <2>3. g = h
    BY <2>1, <2>2, Extensional
  <2> QED
    BY <2>3 DEF h
<1>2. InclusiveScanMax(in) = CHOOSE f : P(f)
  BY DEF InclusiveScanMax
<1>3. PICK f : f = InclusiveScanMax(in) /\ P(f)
  BY <1>1, <1>2
<1>4. \A i \in 0..n : f[i] = IF i = 0 \/ in[i] >= f[i - 1] THEN in[i] ELSE f[i - 1]
  BY <1>3
<1>5. Array(f, n)
  BY <1>3 DEF Array
<1>6. \A i \in 1..n : f[i] = IF in[i] >= f[i - 1] THEN in[i] ELSE f[i - 1]
  BY <1>4
<1>7. f[0] = g[0]
  BY <1>4
<1>8. \A i \in 1..n : f[i - 1] = g[i - 1] => f[i] = g[i]
  BY <1>6
<1>9. Follows(f, g, n)
  BY <1>5, <1>7, <1>8 DEF Follows
<1> QED
  BY <1>3, <1>9, SameArrays

LEMMA InclusiveScanByKeyIs ==
  ASSUME NEW n \in Nat, NEW in, DOMAIN in = 0..n, NEW keys, NEW g, Array(g, n),
         g[0] = in[0],
         \A i \in 1..n : g[i] = IF keys[i] = keys[i - 1] THEN g[i - 1] + in[i] ELSE in[i]
  PROVE  InclusiveScanByKey(in, keys) = g
<1> DEFINE P(f) == f = [i \in 0..n |-> IF i > 0 /\ keys[i] = keys[i - 1] THEN f[i - 1] + in[i] ELSE in[i]]
<1>1. P(g)
  <2> DEFINE h == [i \in 0..n |-> IF i > 0 /\ keys[i] = keys[i - 1] THEN g[i - 1] + in[i] ELSE in[i]]
  <2>1. Array(h, n)
    BY DEF Array
  <2>2. \A i \in 0..n : g[i] = h[i]
    OBVIOUS
  <2> HIDE DEF h
  <2>3. g = h
    BY <2>1, <2>2, Extensional
  <2> QED
    BY <2>3 DEF h
<1>2. InclusiveScanByKey(in, keys) = CHOOSE f : P(f)
  BY DEF InclusiveScanByKey
<1>3. PICK f : f = InclusiveScanByKey(in, keys) /\ P(f)
  BY <1>1, <1>2
<1>4. \A i \in 0..n : f[i] = IF i > 0 /\ keys[i] = keys[i - 1] THEN f[i - 1] + in[i] ELSE in[i]
  BY <1>3
<1>5. Array(f, n)
  BY <1>3 DEF Array
<1>6. \A i \in 1..n : f[i] = IF keys[i] = keys[i - 1] THEN f[i - 1] + in[i] ELSE in[i]
  BY <1>4
<1>7. f[0] = g[0]
  BY <1>4
<1>8. \A i \in 1..n : f[i - 1] = g[i - 1] => f[i] = g[i]
  BY <1>6
<1>9. Follows(f, g, n)
  BY <1>5, <1>7, <1>8 DEF Follows
<1> QED
  BY <1>3, <1>9, SameArrays

LEMMA RunOfIs ==
  ASSUME NEW n \in Nat, NEW keys, DOMAIN keys = 0..n, NEW g, Array(g, n),
         g[0] = 0,
         \A i \in 1..n : g[i] = IF keys[i] = keys[i - 1] THEN g[i - 1] ELSE g[i - 1] + 1
  PROVE  RunOf(keys) = g
<1> DEFINE P(f) == f = [i \in 0..n |-> IF i = 0 THEN 0 ELSE IF keys[i] = keys[i - 1] THEN f[i - 1] ELSE f[i - 1] + 1]
<1>1. P(g)
  <2> DEFINE h == [i \in 0..n |-> IF i = 0 THEN 0 ELSE IF keys[i] = keys[i - 1] THEN g[i - 1] ELSE g[i - 1] + 1]
  <2>1. Array(h, n)
    BY DEF Array
  <2>2. \A i \in 0..n : g[i] = h[i]
    OBVIOUS
  <2> HIDE DEF h
  <2>3. g = h
    BY <2>1, <2>2, Extensional
  <2> QED
    BY <2>3 DEF h
<1>2. RunOf(keys) = CHOOSE f : P(f)
  BY DEF RunOf
<1>3. PICK f : f = RunOf(keys) /\ P(f)
  BY <1>1, <1>2
<1>4. \A i \in 0..n : f[i] = IF i = 0 THEN 0 ELSE IF keys[i] = keys[i - 1] THEN f[i - 1] ELSE f[i - 1] + 1
  BY <1>3
<1>5. Array(f, n)
  BY <1>3 DEF Array
<1>6. \A i \in 1..n : f[i] = IF keys[i] = keys[i - 1] THEN f[i - 1] ELSE f[i - 1] + 1
  BY <1>4
<1>7. f[0] = g[0]
  BY <1>4
<1>8. \A i \in 1..n : f[i - 1] = g[i - 1] => f[i] = g[i]
  BY <1>6
<1>9. Follows(f, g, n)
  BY <1>5, <1>7, <1>8 DEF Follows
<1> QED
  BY <1>3, <1>9, SameArrays

-----------------------------------------------------------------------------
(* Counting.                                                               *)

(* A set of numbers below n with every number below one of it is an        *)
(* interval that begins with 0.                                            *)
LEMMA InitialSegment ==
  ASSUME NEW n \in Nat, NEW T, T \subseteq 0..n-1,
         \A i \in T : \A j \in 0..n-1 : j < i => j \in T
  PROVE  IsFiniteSet(T) /\ Cardinality(T) \in 0..n /\ T = 0..Cardinality(T)-1
<1> DEFINE R == (0..n) \ T
<1>1. R \subseteq Nat /\ n \in R
  OBVIOUS
<1>2. PICK m \in R : \A i \in R : m <= i
  BY <1>1, LeastOf
<1>3. T = 0..m-1
  <2>1. m \in Nat /\ m \notin T /\ m <= n
    BY <1>2
  <2>2. ASSUME NEW i \in T PROVE i < m
    <3>1. m # i
      BY <2>1
    <3>2. m < i => m \in T
      BY <2>1
    <3> QED
      BY <2>1, <3>1, <3>2
  <2>3. ASSUME NEW i \in 0..m-1 PROVE i \in T
    <3>1. i \notin R
      BY <1>2, <2>1
    <3> QED
      BY <2>1, <3>1
  <2> HIDE DEF R
  <2>4. \A i \in T : i \in 0..m-1
    BY <2>1, <2>2
  <2>5. \A i \in 0..m-1 : i \in T
    BY <2>3
  <2> QED
    BY Zenon, <2>4, <2>5
<1>4. IsFiniteSet(T) /\ Cardinality(T) = m
  BY <1>2, <1>3, FS_Interval
<1> QED
  BY <1>2, <1>3, <1>4

(* Numbers of elements of an array 0..n-1 do not pass n, and disjoint sets *)
(* add up.                                                                 *)
LEMMA DisjointUnion ==
  ASSUME NEW S, NEW T, IsFiniteSet(S), IsFiniteSet(T), S \cap T = {}
  PROVE  IsFiniteSet(S \cup T) /\ Cardinality(S \cup T) = Cardinality(S) + Cardinality(T)
<1>1. Cardinality(S) \in Nat /\ Cardinality(T) \in Nat
  BY FS_CardinalityType
<1>2. Cardinality({}) = 0
  BY FS_EmptySet
<1>3. /\ IsFiniteSet(S \cup T)
      /\ Cardinality(S \cup T) = Cardinality(S) + Cardinality(T) - Cardinality(S \cap T)
  BY FS_Union
<1>4. Cardinality(S \cap T) = 0
  BY <1>2
<1> QED
  BY <1>1, <1>3, <1>4

-----------------------------------------------------------------------------
(* Sorting.                                                                *)

TotalOrder(R, S) ==
  /\ \A x, y \in S : x # y => <<x, y>> \in R \/ <<y, x>> \in R
  /\ \A x \in S : <<x, x>> \notin R
  /\ \A x, y, z \in S : <<x, y>> \in R /\ <<y, z>> \in R => <<x, z>> \in R

Lower(R, S, x) == {y \in S : <<y, x>> \in R}

(* The numbers of lower elements are 0, 1, ...: each is that of one element, *)
(* and they are in ascending order.                                        *)
LEMMA Ranks ==
  ASSUME NEW S, IsFiniteSet(S), NEW R, TotalOrder(R, S)
  PROVE  /\ Cardinality(S) \in Nat
         /\ \A x \in S : Cardinality(Lower(R, S, x)) \in 0..Cardinality(S)-1
         /\ \A x, y \in S : <<x, y>> \in R => Cardinality(Lower(R, S, x)) < Cardinality(Lower(R, S, y))
         /\ \A x, y \in S : Cardinality(Lower(R, S, x)) = Cardinality(Lower(R, S, y)) => x = y
         /\ \A i \in 0..Cardinality(S)-1 : \E x \in S : Cardinality(Lower(R, S, x)) = i
<1> PICK N : N = Cardinality(S)
  OBVIOUS
<1>1. N \in Nat
  BY FS_CardinalityType
<1> DEFINE rank(x) == Cardinality(Lower(R, S, x))
<1>2. ASSUME NEW x \in S PROVE IsFiniteSet(Lower(R, S, x)) /\ rank(x) \in 0..N-1
  <2>1. Lower(R, S, x) \subseteq S /\ Lower(R, S, x) # S
    BY DEF Lower, TotalOrder
  <2>2. /\ IsFiniteSet(Lower(R, S, x)) /\ rank(x) <= N /\ rank(x) # N
    BY <2>1, FS_Subset
  <2>3. rank(x) \in Nat
    BY <2>2, FS_CardinalityType
  <2> QED
    BY <1>1, <2>2, <2>3
<1>3. ASSUME NEW x \in S, NEW y \in S, <<x, y>> \in R PROVE rank(x) < rank(y)
  <2>1. Lower(R, S, x) \subseteq Lower(R, S, y) /\ x \in Lower(R, S, y) /\ x \notin Lower(R, S, x)
    BY <1>3 DEF Lower, TotalOrder
  <2>2. rank(x) <= rank(y) /\ rank(x) # rank(y)
    BY <1>2, <2>1, FS_Subset
  <2> QED
    BY <1>2, <2>2
<1>4. ASSUME NEW x \in S, NEW y \in S, rank(x) = rank(y) PROVE x = y
  <2>1. rank(x) \in Int /\ rank(y) \in Int
    BY <1>2
  <2> HIDE DEF rank
  <2>2. <<x, y>> \notin R /\ <<y, x>> \notin R
    BY <1>3, <1>4, <2>1
  <2> QED
    BY <2>2 DEF TotalOrder
<1> PICK r : r = [x \in S |-> rank(x)]
  OBVIOUS
<1>5. r \in Injection(S, 0..N-1)
  BY <1>2, <1>4 DEF Injection, IsInjective
<1>6. IsFiniteSet(0..N-1) /\ Cardinality(0..N-1) = N
  <2>1. 0 \in Int /\ N - 1 \in Int
    BY <1>1
  <2>2. /\ IsFiniteSet(0..N-1)
        /\ Cardinality(0..N-1) = IF 0 > N - 1 THEN 0 ELSE N - 1 - 0 + 1
    BY <2>1, FS_Interval
  <2> QED
    BY <1>1, <2>2
<1>7. r \in Surjection(S, 0..N-1)
  BY <1>5, <1>6, FS_Injection
<1>8. \A i \in 0..N-1 : \E x \in S : rank(x) = i
  BY <1>7 DEF Surjection
<1> HIDE DEF rank
<1> QED
  BY <1>1, <1>2, <1>3, <1>4, <1>8 DEF rank

(* What has each element at the place that is the number of those lower is *)
(* in ascending order and has every element.                               *)
LEMMA ByRank ==
  ASSUME NEW S, IsFiniteSet(S), NEW R, TotalOrder(R, S), NEW f,
         \A i \in 0..Cardinality(S)-1 :
           (\E x \in S : Cardinality(Lower(R, S, x)) = i)
             => f[i] \in S /\ Cardinality(Lower(R, S, f[i])) = i
  PROVE  /\ Cardinality(S) \in Nat
         /\ \A i \in 0..Cardinality(S)-1 : f[i] \in S
         /\ \A i, j \in 0..Cardinality(S)-1 : i < j => <<f[i], f[j]>> \in R
         /\ \A x \in S : \E i \in 0..Cardinality(S)-1 : f[i] = x
<1> PICK N : N = Cardinality(S)
  OBVIOUS
<1> DEFINE rank(x) == Cardinality(Lower(R, S, x))
<1>1. /\ N \in Nat
      /\ \A x \in S : rank(x) \in 0..N-1
      /\ \A x, y \in S : <<x, y>> \in R => rank(x) < rank(y)
      /\ \A x, y \in S : rank(x) = rank(y) => x = y
      /\ \A i \in 0..N-1 : \E x \in S : rank(x) = i
  BY Ranks
<1>9. \A i \in 0..N-1 : f[i] \in S /\ rank(f[i]) = i
  BY <1>1
<1>10. ASSUME NEW i \in 0..N-1, NEW j \in 0..N-1, i < j PROVE <<f[i], f[j]>> \in R
  <2>1. f[i] # f[j]
    BY <1>9, <1>10
  <2>2. ASSUME <<f[j], f[i]>> \in R PROVE FALSE
    <3>1. rank(f[j]) < rank(f[i])
      BY <1>1, <1>9, <2>2
    <3> QED
      BY <1>9, <1>10, <3>1
  <2> QED
    BY <1>9, <2>1, <2>2 DEF TotalOrder
<1>11. \A x \in S : f[rank(x)] = x
  BY <1>1, <1>9
<1> QED
  BY <1>1, <1>9, <1>10, <1>11

-----------------------------------------------------------------------------
(* Matrices.                                                               *)

(* A matrix with n entries in order of their rows.                         *)
Matrix(M, n, nrow, ncol) ==
  /\ n \in Nat \ {0}
  /\ M.row \in [0..n-1 -> 0..nrow-1]
  /\ M.col \in [0..n-1 -> 0..ncol-1]
  /\ \A i, j \in 0..n-1 : i < j => M.row[i] <= M.row[j]

(* How long an array is.                                                   *)
LEMMA SizeOf == ASSUME NEW n \in Nat, NEW f, DOMAIN f = 0..n-1 PROVE Size(f) = n
<1>1. 0 \in Int /\ n - 1 \in Int
  OBVIOUS
<1>2. Cardinality(0..n-1) = IF 0 > n - 1 THEN 0 ELSE n - 1 - 0 + 1
  BY <1>1, FS_Interval
<1> QED
  BY <1>2 DEF Size

(* What is loaded is one.                                                  *)
LEMMA LoadedIs ==
  ASSUME NEW nrow \in Nat \ {0}, NEW ncol \in Nat \ {0}, NEW S \in NonEmpty(nrow, ncol)
  PROVE  \E n : Matrix(Loaded(S), n, nrow, ncol)
<1> DEFINE X == (0..nrow-1) \X (0..ncol-1)
           R == {q \in S \X S : Before(q[1], q[2])}
           f == Sorted(S, Before)
<1>1. S \subseteq X /\ S # {}
  BY DEF NonEmpty
<1>2. IsFiniteSet(0..nrow-1) /\ IsFiniteSet(0..ncol-1)
  BY FS_Interval
<1>3. IsFiniteSet(X)
  BY <1>2, FS_Product
<1>4. IsFiniteSet(S)
  BY <1>1, <1>3, FS_Subset
<1>5. Cardinality(S) \in Nat /\ Cardinality(S) # 0
  BY <1>1, <1>4, FS_CardinalityType, FS_EmptySet
<1>6. \A p \in S : p = <<p[1], p[2]>> /\ p[1] \in 0..nrow-1 /\ p[2] \in 0..ncol-1
  BY <1>1
<1>7. \A p, q \in S : <<p, q>> \in R <=> Before(p, q)
  OBVIOUS
<1>8. TotalOrder(R, S)
  <2> HIDE DEF R
  <2>1. \A p, q \in S : p # q => Before(p, q) \/ Before(q, p)
    BY <1>6 DEF Before
  <2>2. \A p \in S : ~ Before(p, p)
    BY <1>6 DEF Before
  <2>3. \A p, q, r \in S : Before(p, q) /\ Before(q, r) => Before(p, r)
    BY <1>6 DEF Before
  <2> QED
    BY <1>7, <2>1, <2>2, <2>3 DEF TotalOrder
<1>9. \A p \in S : Lower(R, S, p) = {q \in S : Before(q, p)}
  BY <1>7 DEF Lower
<1> PICK n : n = Cardinality(S)
  OBVIOUS
<1>10. f = [i \in 0..n-1 |-> CHOOSE p \in S : Cardinality({q \in S : Before(q, p)}) = i]
  BY DEF Sorted
<1> HIDE DEF R, f, X
<1>11. ASSUME NEW i \in 0..n-1, \E p \in S : Cardinality(Lower(R, S, p)) = i
       PROVE  f[i] \in S /\ Cardinality(Lower(R, S, f[i])) = i
  <2>1. \E p \in S : Cardinality({q \in S : Before(q, p)}) = i
    BY <1>9, <1>11
  <2>2. f[i] = CHOOSE p \in S : Cardinality({q \in S : Before(q, p)}) = i
    BY <1>10
  <2>3. f[i] \in S /\ Cardinality({q \in S : Before(q, f[i])}) = i
    BY Zenon, <2>1, <2>2
  <2> QED
    BY <1>9, <2>3
<1>12. /\ \A i \in 0..n-1 : f[i] \in S
       /\ \A i, j \in 0..n-1 : i < j => <<f[i], f[j]>> \in R
  BY <1>4, <1>8, <1>11, ByRank
<1>13. \A i, j \in 0..n-1 : i < j => f[i][1] <= f[j][1]
  <2> TAKE i, j \in 0..n-1
  <2> PICK p, q : p = f[i] /\ q = f[j]
    OBVIOUS
  <2>1. i < j => p \in S /\ q \in S /\ Before(p, q)
    BY <1>7, <1>12
  <2>2. i < j => p[1] <= q[1]
    BY <1>6, <2>1 DEF Before
  <2> QED
    BY <2>2
<1>14. /\ Loaded(S).row = [i \in 0..n-1 |-> f[i][1]]
       /\ Loaded(S).col = [i \in 0..n-1 |-> f[i][2]]
  BY <1>10 DEF Loaded, f
<1> QED
  BY <1>5, <1>6, <1>12, <1>13, <1>14 DEF Matrix

(* The entries of row r have the numbers from off[r] to off[r + 1] - 1.    *)
Offsets(off, M, n, nrow) ==
  /\ off \in [0..nrow -> 0..n]
  /\ off[0] = 0
  /\ \A r \in 0..nrow-1 :
       /\ off[r] <= off[r + 1]
       /\ \A i \in 0..n-1 : M.row[i] = r <=> off[r] <= i /\ i < off[r + 1]

(* calculate_offsets: the counts add up to the numbers of entries before.  *)
LEMMA OffsetsAre ==
  ASSUME NEW nrow \in Nat \ {0}, NEW ncol, NEW M, NEW n, Matrix(M, n, nrow, ncol)
  PROVE  Offsets(CalculateOffsets(M.row, nrow), M, n, nrow)
<1> PICK row : row = M.row
  OBVIOUS
<1>1. n \in Nat \ {0} /\ row \in [0..n-1 -> 0..nrow-1]
      /\ \A i, j \in 0..n-1 : i < j => row[i] <= row[j]
  BY DEF Matrix
<1> DEFINE Below(r) == {i \in 0..n-1 : row[i] < r}
           In(r) == {i \in DOMAIN row : row[i] = r}
<1>2. ASSUME NEW r \in 0..nrow
      PROVE  /\ IsFiniteSet(Below(r)) /\ Cardinality(Below(r)) \in 0..n
             /\ Below(r) = 0..Cardinality(Below(r))-1
  <2>1. \A i \in Below(r) : \A j \in 0..n-1 : j < i => j \in Below(r)
    BY ONLY <1>1, r \in 0..nrow, nrow \in Nat \ {0}
  <2>2. Below(r) \subseteq 0..n-1
    OBVIOUS
  <2> HIDE DEF Below
  <2> QED
    BY <1>1, <2>1, <2>2, InitialSegment
<1>3. ASSUME NEW r \in 0..nrow-1
      PROVE  Cardinality(Below(r + 1)) = Cardinality(Below(r)) + Cardinality(In(r))
  <2>1. Below(r + 1) = Below(r) \cup In(r) /\ Below(r) \cap In(r) = {}
    <3>1. DOMAIN row = 0..n-1 /\ \A i \in 0..n-1 : row[i] \in Nat
      BY <1>1
    <3>2. \A i \in 0..n-1 : row[i] < r + 1 <=> row[i] < r \/ row[i] = r
      BY <3>1
    <3>3. \A i \in 0..n-1 : ~ (row[i] < r /\ row[i] = r)
      BY <3>1
    <3> QED
      BY <3>1, <3>2, <3>3
  <2>2. IsFiniteSet(Below(r + 1)) /\ IsFiniteSet(Below(r))
    BY <1>2
  <2>3. IsFiniteSet(In(r))
    BY <2>1, <2>2, FS_Subset
  <2> HIDE DEF Below, In
  <2> QED
    BY <2>1, <2>2, <2>3, DisjointUnion
<1>4. Cardinality(Below(0)) = 0
  <2>1. Below(0) = {}
    BY <1>1
  <2> QED
    BY <2>1, FS_EmptySet
<1>13. PICK g : g = [r \in 0..nrow |-> Cardinality(Below(r))]
  OBVIOUS
<1>14. PICK in : in = [r \in 0..nrow |-> Cardinality(In(r))]
  OBVIOUS
<1>5. CalculateOffsets(row, nrow) = ExclusiveScan(in)
  BY <1>14 DEF CalculateOffsets, RowCount
<1>6. Array(g, nrow)
  BY <1>13 DEF Array
<1>7. \A i \in 1..nrow : g[i] = g[i - 1] + in[i - 1]
  <2> TAKE i \in 1..nrow
  <2>1. PICK r \in 0..nrow-1 : r = i - 1 /\ i = r + 1 /\ r \in 0..nrow /\ i \in 0..nrow
    OBVIOUS
  <2> HIDE DEF Below, In
  <2> QED
    BY <1>3, <1>13, <1>14, <2>1
<1>8. g[0] = 0
  BY <1>4, <1>13
<1>9. ExclusiveScan(in) = g
  <2>1. DOMAIN in = 0..nrow
    BY <1>14
  <2> HIDE DEF Below, In
  <2> QED
    BY Zenon, <1>6, <1>7, <1>8, <2>1, ExclusiveScanIs
<1>10. \A r \in 0..nrow : g[r] \in 0..n /\ \A i \in 0..n-1 : row[i] < r <=> i < g[r]
  <2> TAKE r \in 0..nrow
  <2>1. g[r] = Cardinality(Below(r))
    BY <1>13
  <2>2. \A i \in 0..n-1 : row[i] < r <=> i \in Below(r)
    OBVIOUS
  <2> HIDE DEF Below, In
  <2> PICK B0 : B0 = Below(r)
    OBVIOUS
  <2>3. g[r] \in 0..n /\ B0 = 0..g[r]-1
    BY <1>2, <2>1
  <2>4. \A i \in 0..n-1 : i \in B0 <=> i < g[r]
    BY <1>1, <2>3
  <2> QED
    BY <2>2, <2>3, <2>4
<1>11. ASSUME NEW r \in 0..nrow-1
       PROVE  /\ g[r] <= g[r + 1]
              /\ \A i \in 0..n-1 : row[i] = r <=> g[r] <= i /\ i < g[r + 1]
  <2>1. r \in 0..nrow /\ r + 1 \in 0..nrow
    OBVIOUS
  <2>2. /\ g[r] \in 0..n /\ g[r + 1] \in 0..n
        /\ \A i \in 0..n-1 : /\ row[i] \in Nat
                             /\ row[i] < r <=> i < g[r]
                             /\ row[i] < r + 1 <=> i < g[r + 1]
    BY <1>1, <1>10, <2>1
  <2>3. g[r] <= g[r + 1]
    <3> SUFFICES ASSUME g[r + 1] < g[r] PROVE FALSE
      BY <2>2
    <3> PICK i, b : i = g[r + 1] /\ b = g[r]
      OBVIOUS
    <3>1. i \in 0..n /\ b \in 0..n
      BY <2>2
    <3>2. i \in 0..n-1 /\ i < b
      BY <1>1, <3>1
    <3>3. row[i] \in Nat /\ row[i] < r /\ ~ (row[i] < r + 1)
      BY <2>2, <3>2
    <3> QED
      BY <3>3
  <2> QED
    BY <2>2, <2>3
<1>12. g \in [0..nrow -> 0..n]
  <2>1. \A r \in 0..nrow : g[r] \in 0..n
    BY <1>10
  <2> QED
    BY <1>13, <2>1
<1> QED
  BY <1>5, <1>8, <1>9, <1>11, <1>12 DEF Offsets

-----------------------------------------------------------------------------
(* Where the products of an entry go.                                      *)

Inputs(nA, nB) == Matrix(A, nA, NRowA, NColA) /\ Matrix(B, nB, NColA, NColB)

(* What is used of the two matrices.                                       *)
LEMMA InputFacts ==
  ASSUME NEW nA, NEW nB, Inputs(nA, nB)
  PROVE  /\ nA \in Nat \ {0} /\ nB \in Nat \ {0}
         /\ Segments = 0..nA-1 /\ NNZ_A = nA
         /\ DOMAIN B.row = 0..nB-1 /\ DOMAIN B.col = 0..nB-1 /\ DOMAIN A.col = 0..nA-1
         /\ \A n \in 0..nA-1 : A.row[n] \in 0..NRowA-1 /\ A.col[n] \in 0..NColA-1
         /\ \A m \in 0..nB-1 : B.row[m] \in 0..NColA-1 /\ B.col[m] \in 0..NColB-1
<1>1. nA \in Nat \ {0} /\ nB \in Nat \ {0}
  BY DEF Inputs, Matrix
<1>2. /\ DOMAIN A.row = 0..nA-1 /\ DOMAIN A.col = 0..nA-1
      /\ DOMAIN B.row = 0..nB-1 /\ DOMAIN B.col = 0..nB-1
      /\ \A n \in 0..nA-1 : A.row[n] \in 0..NRowA-1 /\ A.col[n] \in 0..NColA-1
      /\ \A m \in 0..nB-1 : B.row[m] \in 0..NColA-1 /\ B.col[m] \in 0..NColB-1
  BY DEF Inputs, Matrix
<1>3. NNZ_A = nA
  BY <1>1, <1>2, SizeOf DEF NNZ_A
<1> QED
  BY <1>1, <1>2, <1>3 DEF Segments

(* Segment n begins at ptr[n] and is as long as the row of B that entry n  *)
(* of A meets; together they are as long as there are products.            *)
Pointers(ptr, seg, off, nA) ==
  /\ ptr \in [0..nA -> Nat] /\ ptr[0] = 0
  /\ DOMAIN seg = 0..nA-1
  /\ \A n \in 0..nA-1 :
       /\ seg[n] \in Nat /\ seg[n] = off[A.col[n] + 1] - off[A.col[n]]
       /\ ptr[n + 1] = ptr[n] + seg[n]
  /\ ptr[nA] = Cardinality(Products)

(* The products of an entry of A are numbered by the entries of its row.   *)
LEMMA ProductsOfEntry ==
  ASSUME NEW nA, NEW nB, Inputs(nA, nB), NEW off, Offsets(off, B, nB, NColA), NEW n \in 0..nA-1
  PROVE  /\ IsFiniteSet({p \in Products : p[1] = n})
         /\ off[A.col[n] + 1] - off[A.col[n]] \in Nat
         /\ Cardinality({p \in Products : p[1] = n}) = off[A.col[n] + 1] - off[A.col[n]]
<1> PICK c \in 0..NColA-1 : c = A.col[n]
  BY InputFacts
<1>1. c \in 0..NColA /\ c + 1 \in 0..NColA
  BY SizeAssumption
<1>2. PICK a \in 0..nB, b \in 0..nB : a = off[c] /\ b = off[c + 1]
  BY <1>1 DEF Offsets
<1>3. a <= b /\ nB \in Nat
  BY <1>2, InputFacts DEF Offsets
<1> DEFINE S == a..b-1
           T == {p \in Products : p[1] = n}
<1>4. \A m \in 0..nB-1 : B.row[m] = c <=> a <= m /\ m < b
  BY <1>2 DEF Offsets
<1>5. T = {<<n, m>> : m \in S}
  <2>1. Products = {p \in (0..nA-1) \X (0..nB-1) : A.col[p[1]] = B.row[p[2]]}
    BY InputFacts DEF Products
  <2>2. \A m \in S : m \in 0..nB-1
    BY <1>2, <1>3
  <2>3. \A m \in 0..nB-1 : <<n, m>> \in T <=> m \in S
    BY <1>4, <2>1
  <2>4. \A p \in T : p = <<n, p[2]>> /\ p[2] \in 0..nB-1
    BY <2>1
  <2> HIDE DEF S, T
  <2> QED
    BY <2>2, <2>3, <2>4
<1> PICK f : f = [m \in S |-> <<n, m>>]
  OBVIOUS
<1>6. f \in Bijection(S, T)
  <2> HIDE DEF T
  <2>1. f \in [S -> T]
    BY <1>5
  <2>2. \A k, m \in S : f[k] = f[m] => k = m
    OBVIOUS
  <2>3. \A p \in T : \E m \in S : f[m] = p
    BY <1>5
  <2> QED
    BY <2>1, <2>2, <2>3 DEF Bijection, Injection, Surjection, IsInjective
<1>7. IsFiniteSet(S) /\ Cardinality(S) = b - a
  <2>1. a \in Int /\ b - 1 \in Int
    BY <1>2
  <2>2. IsFiniteSet(S) /\ Cardinality(S) = IF a > b - 1 THEN 0 ELSE b - 1 - a + 1
    BY <2>1, FS_Interval
  <2> HIDE DEF S
  <2>3. a \in Int /\ b \in Int
    BY <1>2
  <2> QED
    BY <1>3, <2>2, <2>3
<1>8. ExistsBijection(S, T)
  BY <1>6 DEF ExistsBijection
<1> HIDE DEF S, T
<1>9. IsFiniteSet(T) /\ Cardinality(T) = b - a
  BY <1>7, <1>8, FS_Bijection
<1> QED
  BY <1>2, <1>3, <1>9 DEF T

(* The two gathers and the scan of CountProducts.                          *)
LEMMA PointersAre ==
  ASSUME NEW nA, NEW nB, Inputs(nA, nB), NEW off, Offsets(off, B, nB, NColA),
         NEW seg, seg = Gather(CalculateRowLengths(off), A.col),
         NEW scanned, scanned = ExclusiveScan(seg),
         NEW ptr, ptr = [n \in 0..NNZ_A |-> IF n < NNZ_A THEN scanned[n]
                                            ELSE scanned[NNZ_A - 1] + seg[NNZ_A - 1]]
  PROVE  Pointers(ptr, seg, off, nA)
<1>1. /\ nA \in Nat \ {0} /\ Segments = 0..nA-1 /\ NNZ_A = nA
      /\ DOMAIN A.col = 0..nA-1 /\ \A n \in 0..nA-1 : A.col[n] \in 0..NColA-1
  BY InputFacts
<1>2. \A n \in 0..nA-1 : seg[n] = off[A.col[n] + 1] - off[A.col[n]]
  <2>1. DOMAIN off = 0..(NColA + 1)-1 /\ NColA + 1 \in Nat
    BY SizeAssumption DEF Offsets
  <2>2. Size(off) - 2 = NColA - 1
    BY <2>1, SizeOf, SizeAssumption
  <2>3. CalculateRowLengths(off) = [r \in 0..NColA-1 |-> off[r + 1] - off[r]]
    BY <2>2 DEF CalculateRowLengths
  <2> QED
    BY <1>1, <2>3 DEF Gather
<1> DEFINE Mine(n) == {p \in Products : p[1] = n}
           Below(n) == {p \in Products : p[1] < n}
<1>3. ASSUME NEW n \in 0..nA-1
      PROVE  IsFiniteSet(Mine(n)) /\ seg[n] \in Nat /\ Cardinality(Mine(n)) = seg[n]
  <2>1. /\ IsFiniteSet({p \in Products : p[1] = n})
        /\ off[A.col[n] + 1] - off[A.col[n]] \in Nat
        /\ Cardinality({p \in Products : p[1] = n}) = off[A.col[n] + 1] - off[A.col[n]]
    BY ONLY Inputs(nA, nB), Offsets(off, B, nB, NColA), n \in 0..nA-1, ProductsOfEntry
  <2> QED
    BY ONLY <1>2, <2>1, n \in 0..nA-1
<1>4. IsFiniteSet(Products) /\ Products \subseteq (0..nA-1) \X DOMAIN B.row
  <2>1. Products \subseteq Segments \X DOMAIN B.row
    BY DEF Products
  <2>2. IsFiniteSet(0..nA-1) /\ IsFiniteSet(DOMAIN B.row)
    BY <1>1, FS_Interval, InputFacts
  <2> QED
    BY <1>1, <2>1, <2>2, FS_Product, FS_Subset
<1>5. ASSUME NEW n \in 0..nA
      PROVE  IsFiniteSet(Below(n)) /\ Cardinality(Below(n)) \in Nat
  <2>1. Below(n) \subseteq Products
    OBVIOUS
  <2> HIDE DEF Below
  <2> QED
    BY <1>4, <2>1, FS_Subset, FS_CardinalityType
<1>6. ASSUME NEW n \in 0..nA-1
      PROVE  Cardinality(Below(n + 1)) = Cardinality(Below(n)) + seg[n]
  <2>1. \A p \in Products : p[1] \in 0..nA-1
    BY <1>4
  <2>2. \A p \in Products : p[1] < n + 1 <=> p[1] < n \/ p[1] = n
    BY <2>1
  <2>3. Below(n + 1) = Below(n) \cup Mine(n) /\ Below(n) \cap Mine(n) = {}
    BY <2>1, <2>2
  <2> HIDE DEF Below, Mine
  <2>4. IsFiniteSet(Below(n)) /\ IsFiniteSet(Mine(n))
    <3>1. n \in 0..nA
      BY <1>1
    <3> QED
      BY <1>3, <1>5, <3>1
  <2> QED
    BY <1>3, <2>3, <2>4, DisjointUnion
<1>7. Below(0) = {} /\ Below(nA) = Products
  <2>1. \A p \in Products : p[1] \in 0..nA-1
    BY <1>4
  <2>2. \A p \in Products : ~ (p[1] < 0) /\ p[1] < nA
    BY <1>1, <2>1
  <2> QED
    BY <2>2
<1>8. PICK g : g = [n \in 0..nA-1 |-> Cardinality(Below(n))]
  OBVIOUS
<1>9. scanned = g
  <2> HIDE DEF Below, Mine
  <2>1. g[0] = 0
    <3>1. 0 \in 0..nA-1
      BY <1>1
    <3>2. g[0] = Cardinality(Below(0))
      BY <1>8, <3>1
    <3> QED
      BY <1>7, <3>2, FS_EmptySet
  <2>2. \A i \in 1..nA-1 : g[i] = g[i - 1] + seg[i - 1]
    <3> TAKE i \in 1..nA-1
    <3>1. PICK n \in 0..nA-1 : n = i - 1 /\ i = n + 1 /\ i \in 0..nA-1
      BY <1>1
    <3> QED
      BY <1>6, <1>8, <3>1
  <2>3. DOMAIN seg = 0..nA-1
    BY <1>1 DEF Gather
  <2>4. PICK k \in Nat : k = nA - 1
    BY <1>1
  <2>5. Array(g, k)
    BY <1>8, <2>4 DEF Array
  <2>6. \A i \in 1..k : g[i] = g[i - 1] + seg[i - 1]
    BY <2>2, <2>4
  <2>7. DOMAIN seg = 0..k
    BY <2>3, <2>4
  <2> QED
    BY Zenon, <2>1, <2>5, <2>6, <2>7, ExclusiveScanIs
<1>10. ASSUME NEW n \in 0..nA PROVE ptr[n] = Cardinality(Below(n))
  <2> HIDE DEF Below, Mine
  <2>1. CASE n < nA
    BY <1>1, <1>8, <1>9, <2>1
  <2>2. CASE n = nA
    <3>1. ptr[n] = g[nA - 1] + seg[nA - 1]
      BY <1>1, <1>9, <2>2
    <3>2. PICK k \in 0..nA-1 : k = nA - 1 /\ k + 1 = nA
      BY <1>1
    <3> QED
      BY <1>6, <1>8, <2>2, <3>1, <3>2
  <2> QED
    BY <1>1, <2>1, <2>2
<1> HIDE DEF Below, Mine
<1>11. ptr \in [0..nA -> Nat]
  BY <1>1, <1>5, <1>10
<1>12. ptr[0] = 0 /\ ptr[nA] = Cardinality(Products)
  <2>1. 0 \in 0..nA /\ nA \in 0..nA
    BY <1>1
  <2>2. ptr[0] = Cardinality({}) /\ ptr[nA] = Cardinality(Products)
    BY <1>7, <1>10, <2>1
  <2> QED
    BY <2>2, FS_EmptySet
<1>13. \A n \in 0..nA-1 : ptr[n + 1] = ptr[n] + seg[n]
  <2> TAKE n \in 0..nA-1
  <2>1. n \in 0..nA /\ n + 1 \in 0..nA
    BY <1>1
  <2>2. ptr[n] = Cardinality(Below(n)) /\ ptr[n + 1] = Cardinality(Below(n + 1))
    BY <1>10, <2>1
  <2> QED
    BY <1>6, <2>2
<1>14. DOMAIN seg = 0..nA-1
  BY <1>1 DEF Gather
<1> QED
  BY <1>2, <1>3, <1>11, <1>12, <1>13, <1>14 DEF Pointers

-----------------------------------------------------------------------------
(* The segment that a place of the workspace is in.                        *)

(* Segments do not begin before earlier ones do.                           *)
LEMMA PointersInOrder ==
  ASSUME NEW nA \in Nat \ {0}, NEW ptr, NEW seg, NEW off, Pointers(ptr, seg, off, nA),
         NEW n \in 0..nA, NEW m \in 0..nA, n <= m
  PROVE  ptr[n] \in Nat /\ ptr[m] \in Nat /\ ptr[n] <= ptr[m]
<1>1. \A i \in 0..nA : ptr[i] \in Nat
  BY DEF Pointers
<1>2. \A i \in 0..nA-1 : ptr[i] <= ptr[i + 1]
  <2> TAKE i \in 0..nA-1
  <2>1. i \in 0..nA /\ i + 1 \in 0..nA
    OBVIOUS
  <2>2. ptr[i] \in Nat /\ ptr[i + 1] \in Nat /\ seg[i] \in Nat /\ ptr[i + 1] = ptr[i] + seg[i]
    BY <1>1, <2>1 DEF Pointers
  <2> QED
    BY <2>2
<1> DEFINE T == {i \in n..nA : ~ (ptr[n] <= ptr[i])}
<1>3. T = {}
  <2> SUFFICES ASSUME T # {} PROVE FALSE
    OBVIOUS
  <2>1. T \subseteq Nat
    OBVIOUS
  <2> HIDE DEF T
  <2>2. PICK i \in T : \A j \in T : i <= j
    BY <2>1, LeastOf
  <2>3. i \in n..nA /\ ~ (ptr[n] <= ptr[i])
    BY <2>2 DEF T
  <2>4. i # n
    BY <1>1, <2>3
  <2>5. PICK j \in n..nA : j = i - 1 /\ i = j + 1 /\ j \in 0..nA-1 /\ j \in 0..nA /\ i \in 0..nA
    BY <2>3, <2>4
  <2>6. j \notin T
    BY <2>1, <2>2, <2>5
  <2>7. ptr[n] <= ptr[j]
    BY <2>5, <2>6 DEF T
  <2>8. ptr[j] <= ptr[i]
    BY <1>2, <2>5
  <2> QED
    BY <1>1, <2>3, <2>5, <2>7, <2>8
<1>4. m \in n..nA /\ m \notin T
  BY <1>3
<1> QED
  BY <1>1, <1>4

IsIn(k, n, ptr) == ptr[n] <= k /\ k < ptr[n + 1]

(* A place is in one segment, and only one.                                *)
LEMMA OneSegment ==
  ASSUME NEW nA \in Nat \ {0}, NEW ptr, NEW seg, NEW off, Pointers(ptr, seg, off, nA),
         NEW k \in 0..ptr[nA]-1
  PROVE  /\ \E n \in 0..nA-1 : IsIn(k, n, ptr)
         /\ \A n, m \in 0..nA-1 : IsIn(k, n, ptr) /\ IsIn(k, m, ptr) => n = m
<1>1. (\A i \in 0..nA : ptr[i] \in Nat) /\ ptr[0] = 0
  BY DEF Pointers
<1>2. k \in Nat /\ k < ptr[nA]
  <2>1. ptr[nA] \in Nat
    BY <1>1
  <2> QED
    BY <2>1
<1>3. \E n \in 0..nA-1 : IsIn(k, n, ptr)
  <2> DEFINE T == {i \in 0..nA : k < ptr[i]}
  <2>1. T \subseteq Nat /\ nA \in T
    BY <1>2
  <2>2. PICK m \in T : \A i \in T : m <= i
    BY <2>1, LeastOf
  <2>3. m # 0
    BY <1>1, <1>2, <2>2
  <2>4. PICK n \in 0..nA-1 : m = n + 1 /\ n \in 0..nA
    BY <2>2, <2>3
  <2>5. n \notin T
    BY <2>2, <2>4
  <2> QED
    BY <1>1, <1>2, <2>2, <2>4, <2>5 DEF IsIn
<1>4. ASSUME NEW n \in 0..nA-1, NEW m \in 0..nA-1, IsIn(k, n, ptr), IsIn(k, m, ptr), n < m
      PROVE  FALSE
  <2>1. n + 1 \in 0..nA /\ m \in 0..nA /\ n + 1 <= m
    BY <1>4
  <2>2. ptr[n + 1] \in Nat /\ ptr[m] \in Nat /\ ptr[n + 1] <= ptr[m]
    BY <2>1, PointersInOrder
  <2> QED
    BY <1>2, <1>4, <2>2 DEF IsIn
<1>5. ASSUME NEW n \in 0..nA-1, NEW m \in 0..nA-1, IsIn(k, n, ptr), IsIn(k, m, ptr) PROVE n = m
  BY <1>4, <1>5
<1> QED
  BY <1>3, <1>5

OneSource(stencil, map, d, n) ==
  /\ n \in DOMAIN stencil /\ n \in Nat /\ stencil[n] # 0 /\ map[n] = d
  /\ \A m \in DOMAIN stencil : stencil[m] # 0 /\ map[m] = d => m = n

NoSource(stencil, map, d) == \A m \in DOMAIN stencil : ~ (stencil[m] # 0 /\ map[m] = d)

(* What scatter_if writes where one element goes, and where none does.     *)
LEMMA ScatterAt ==
  ASSUME NEW in, NEW map, NEW stencil, NEW out, NEW d \in DOMAIN out,
         NEW n, OneSource(stencil, map, d, n)
  PROVE  ScatterIf(in, map, stencil, out)[d] = in[n]
<1> DEFINE S == {i \in DOMAIN stencil : stencil[i] # 0 /\ map[i] = d}
           L == CHOOSE i \in S : \A j \in S : j <= i
<1>1. S = {n} /\ n \in Nat
  BY DEF OneSource
<1>2. L = n
  <2> HIDE DEF S
  <2>1. n \in S /\ (\A j \in S : j <= n) /\ \A i \in S : i = n
    BY <1>1
  <2> QED
    BY <2>1
<1>3. ScatterIf(in, map, stencil, out)[d] = IF S = {} THEN out[d] ELSE in[L]
  BY DEF ScatterIf
<1> HIDE DEF S, L
<1> QED
  BY <1>1, <1>2, <1>3

LEMMA ScatterNone ==
  ASSUME NEW in, NEW map, NEW stencil, NEW out, NEW d \in DOMAIN out,
         NoSource(stencil, map, d)
  PROVE  ScatterIf(in, map, stencil, out)[d] = out[d]
BY DEF ScatterIf, NoSource

(* The place of the k-th product: its segment begins there, or before.     *)
Located(ag, ptr, nA) ==
  /\ ag \in [0..ptr[nA]-1 -> 0..nA-1]
  /\ \A k \in 0..ptr[nA]-1 : IsIn(k, ag[k], ptr)

(* What is scattered by the beginnings of segments.                        *)
LEMMA ScatteredByPointers ==
  ASSUME NEW nA \in Nat \ {0}, NEW ptr, NEW seg, NEW off, Pointers(ptr, seg, off, nA),
         NEW in, NEW out, NEW k \in 0..ptr[nA]-1, k \in DOMAIN out, NEW n \in 0..nA-1, IsIn(k, n, ptr)
  PROVE  ScatterIf(in, ptr, seg, out)[k] = IF ptr[n] = k THEN in[n] ELSE out[k]
<1>1. /\ DOMAIN seg = 0..nA-1
      /\ \A m \in 0..nA-1 : seg[m] \in Nat /\ ptr[m + 1] = ptr[m] + seg[m]
      /\ \A m \in 0..nA : ptr[m] \in Nat
  BY DEF Pointers
<1>2. k \in Nat
  <2>1. ptr[nA] \in Nat
    BY <1>1
  <2> QED
    BY <2>1
<1>3. ASSUME NEW m \in 0..nA-1, seg[m] # 0, ptr[m] = k PROVE m = n
  <2>1. m \in 0..nA /\ m + 1 \in 0..nA
    OBVIOUS
  <2>2. PICK a \in Nat, b \in Nat, c \in Nat : a = seg[m] /\ b = ptr[m] /\ c = ptr[m + 1] /\ c = b + a
    BY <1>1, <2>1
  <2>3. b = k /\ k < c
    BY <1>2, <1>3, <2>2
  <2>4. IsIn(k, m, ptr)
    BY <1>2, <2>2, <2>3 DEF IsIn
  <2> QED
    BY <2>4, OneSegment
<1>4. n \in 0..nA /\ n + 1 \in 0..nA
  OBVIOUS
<1>5. CASE ptr[n] = k
  <2>1. seg[n] # 0
    <3>1. ptr[n + 1] = ptr[n] + seg[n] /\ ptr[n] \in Nat /\ k < ptr[n + 1]
      BY <1>1, <1>4 DEF IsIn
    <3> QED
      BY <1>2, <1>5, <3>1
  <2>2. n \in DOMAIN seg /\ n \in Nat
    BY <1>1
  <2>3. \A m \in DOMAIN seg : seg[m] # 0 /\ ptr[m] = k => m = n
    BY <1>1, <1>3
  <2>4. OneSource(seg, ptr, k, n)
    BY <1>5, <2>1, <2>2, <2>3 DEF OneSource
  <2>5. ScatterIf(in, ptr, seg, out)[k] = in[n]
    BY <2>2, <2>4, ScatterAt
  <2> QED
    BY <1>5, <2>5
<1>6. CASE ptr[n] # k
  <2>1. NoSource(seg, ptr, k)
    BY <1>1, <1>3, <1>6 DEF NoSource
  <2>2. ScatterIf(in, ptr, seg, out)[k] = out[k]
    BY <2>1, ScatterNone
  <2> QED
    BY <1>6, <2>2
<1> QED
  BY <1>5, <1>6

(* One place further on, a segment goes on or the next one begins.         *)
LEMMA NextPlace ==
  ASSUME NEW nA \in Nat \ {0}, NEW ptr, NEW seg, NEW off, Pointers(ptr, seg, off, nA),
         NEW k \in 1..ptr[nA]-1, NEW n \in 0..nA-1, NEW m \in 0..nA-1,
         IsIn(k - 1, n, ptr), IsIn(k, m, ptr)
  PROVE  /\ ptr[m] = k => n < m
         /\ ptr[m] # k => n = m
<1>1. \A i \in 0..nA : ptr[i] \in Nat
  BY DEF Pointers
<1>2. ptr[nA] \in Nat
  BY <1>1
<1>3. k \in Nat /\ k - 1 \in 0..ptr[nA]-1
  BY <1>2
<1>4. n \in 0..nA /\ n + 1 \in 0..nA /\ m \in 0..nA /\ m + 1 \in 0..nA
  OBVIOUS
<1>5. ptr[n] \in Nat /\ ptr[n + 1] \in Nat /\ ptr[m] \in Nat /\ ptr[m + 1] \in Nat
  BY <1>1, <1>4
<1>6. CASE ptr[m] = k
  <2>1. ~ (m <= n)
    <3> SUFFICES ASSUME m <= n PROVE FALSE
      OBVIOUS
    <3>1. ptr[m] <= ptr[n]
      BY <1>4, PointersInOrder
    <3> QED
      BY <1>3, <1>5, <1>6, <3>1 DEF IsIn
  <2> QED
    BY <1>6, <2>1
<1>7. CASE ptr[m] # k
  <2>1. IsIn(k - 1, m, ptr)
    BY <1>3, <1>5, <1>7 DEF IsIn
  <2>2. n = m
    BY <1>3, <2>1, OneSegment
  <2> QED
    BY <1>7, <2>2
<1> QED
  BY <1>6, <1>7

Filled(out, value, n) == out = [k \in 0..n-1 |-> value]

(* The scatter of the numbers and the maximum scan.                        *)
LEMMA LocateAIs ==
  ASSUME NEW nA \in Nat \ {0}, NEW ptr, NEW seg, NEW off, Pointers(ptr, seg, off, nA),
         ptr[nA] # 0, NEW out, Filled(out, 0, ptr[nA])
  PROVE  Located(InclusiveScanMax(ScatterIf([n \in 0..nA-1 |-> n], ptr, seg, out)), ptr, nA)
<1>1. PICK t \in Nat \ {0} : t = ptr[nA]
  BY DEF Pointers
<1>2. PICK last \in Nat : last = t - 1
  BY <1>1
<1>3. PICK in : in = ScatterIf([n \in 0..nA-1 |-> n], ptr, seg, out)
  OBVIOUS
<1>4. PICK g : g = [k \in 0..last |-> CHOOSE n \in 0..nA-1 : IsIn(k, n, ptr)]
  OBVIOUS
<1>5. \A k \in 0..last : g[k] \in 0..nA-1 /\ IsIn(k, g[k], ptr)
  <2> TAKE k \in 0..last
  <2>1. k \in 0..ptr[nA]-1
    BY <1>1, <1>2
  <2>2. \E n \in 0..nA-1 : IsIn(k, n, ptr)
    BY <2>1, OneSegment
  <2>3. g[k] = CHOOSE n \in 0..nA-1 : IsIn(k, n, ptr)
    BY <1>4
  <2> QED
    BY Zenon, <2>2, <2>3
<1>6. \A k \in 0..last : in[k] = IF ptr[g[k]] = k THEN g[k] ELSE 0
  <2> TAKE k \in 0..last
  <2>1. k \in 0..ptr[nA]-1 /\ k \in DOMAIN out /\ out[k] = 0
    BY <1>1, <1>2 DEF Filled
  <2>2. PICK n \in 0..nA-1 : n = g[k] /\ IsIn(k, n, ptr)
    BY <1>5
  <2>3. PICK id : id = [i \in 0..nA-1 |-> i]
    OBVIOUS
  <2>4. ScatterIf(id, ptr, seg, out)[k] = IF ptr[n] = k THEN id[n] ELSE out[k]
    BY <2>1, <2>2, ScatteredByPointers
  <2> QED
    BY <1>3, <2>1, <2>2, <2>3, <2>4
<1>7. in[0] = g[0]
  <2>1. 0 \in 0..last
    BY <1>2
  <2>2. PICK n \in 0..nA-1 : n = g[0] /\ IsIn(0, n, ptr)
    BY <1>5, <2>1
  <2>3. ptr[n] = 0
    <3>1. n \in 0..nA
      OBVIOUS
    <3>2. ptr[n] \in Nat
      BY <3>1 DEF Pointers
    <3> QED
      BY <2>2, <3>2 DEF IsIn
  <2> QED
    BY <1>6, <2>1, <2>2, <2>3
<1>8. \A k \in 1..last : g[k] = IF in[k] >= g[k - 1] THEN in[k] ELSE g[k - 1]
  <2> TAKE k \in 1..last
  <2>1. k \in 0..last /\ k - 1 \in 0..last /\ k \in 1..ptr[nA]-1
    BY <1>1, <1>2
  <2>2. PICK n \in 0..nA-1, m \in 0..nA-1 :
          n = g[k - 1] /\ m = g[k] /\ IsIn(k - 1, n, ptr) /\ IsIn(k, m, ptr)
    BY <1>5, <2>1
  <2>3. (ptr[m] = k => n < m) /\ (ptr[m] # k => n = m)
    BY <2>1, <2>2, NextPlace
  <2>4. in[k] = IF ptr[m] = k THEN m ELSE 0
    BY <1>6, <2>1, <2>2
  <2> QED
    BY <2>2, <2>3, <2>4
<1>9. DOMAIN in = 0..last
  BY <1>1, <1>2, <1>3 DEF ScatterIf, Filled
<1>10. Array(g, last)
  BY <1>4 DEF Array
<1>11. InclusiveScanMax(in) = g
  BY Zenon, <1>7, <1>8, <1>9, <1>10, InclusiveScanMaxIs
<1>12. g \in [0..last -> 0..nA-1]
  BY <1>4, <1>5
<1> QED
  BY <1>1, <1>2, <1>3, <1>5, <1>11, <1>12 DEF Located

(* The entry of B of the k-th product.                                     *)
SecondOf(k, ag, ptr, off) == off[A.col[ag[k]]] + (k - ptr[ag[k]])

Paired(bg, ag, ptr, off, nA) == bg = [k \in 0..ptr[nA]-1 |-> SecondOf(k, ag, ptr, off)]

(* The scatter of the offsets and the scan by key.                         *)
LEMMA LocateBIs ==
  ASSUME NEW nA, NEW nB, Inputs(nA, nB), NEW off, Offsets(off, B, nB, NColA),
         NEW ptr, NEW seg, Pointers(ptr, seg, off, nA),
         ptr[nA] # 0, NEW out, Filled(out, 1, ptr[nA]),
         NEW ag, Located(ag, ptr, nA)
  PROVE  Paired(InclusiveScanByKey(ScatterIfPermuted(off, A.col, ptr, seg, out), ag), ag, ptr, off, nA)
<1>0. /\ nA \in Nat \ {0} /\ nB \in Nat \ {0} /\ DOMAIN A.col = 0..nA-1
      /\ \A n \in 0..nA-1 : A.col[n] \in 0..NColA-1
  BY InputFacts
<1>1. PICK t \in Nat \ {0} : t = ptr[nA]
  BY <1>0 DEF Pointers
<1>2. PICK last \in Nat : last = t - 1
  BY <1>1
<1>3. PICK first : first = Gather(off, A.col)
  OBVIOUS
<1>4. \A n \in 0..nA-1 : first[n] = off[A.col[n]] /\ first[n] \in Nat
  <2> TAKE n \in 0..nA-1
  <2>1. A.col[n] \in 0..NColA
    BY <1>0, SizeAssumption
  <2>2. off[A.col[n]] \in Nat
    BY <1>0, <2>1 DEF Offsets
  <2> QED
    BY <1>0, <1>3, <2>2 DEF Gather
<1>5. PICK in : in = ScatterIf(first, ptr, seg, out)
  OBVIOUS
<1>6. PICK g : g = [k \in 0..last |-> SecondOf(k, ag, ptr, off)]
  OBVIOUS
<1>7. \A k \in 0..last : /\ k \in 0..ptr[nA]-1
                         /\ ag[k] \in 0..nA-1 /\ IsIn(k, ag[k], ptr)
                         /\ ptr[ag[k]] \in Nat
                         /\ g[k] = first[ag[k]] + (k - ptr[ag[k]])
  <2> TAKE k \in 0..last
  <2>1. k \in 0..ptr[nA]-1
    BY <1>1, <1>2
  <2>2. ag[k] \in 0..nA-1 /\ IsIn(k, ag[k], ptr)
    BY <2>1 DEF Located
  <2>3. ag[k] \in 0..nA
    BY <1>0, <2>2
  <2>4. ptr[ag[k]] \in Nat
    BY <2>3 DEF Pointers
  <2>5. g[k] = off[A.col[ag[k]]] + (k - ptr[ag[k]])
    BY <1>6 DEF SecondOf
  <2> QED
    BY <1>4, <2>1, <2>2, <2>4, <2>5
<1>8. \A k \in 0..last : in[k] = IF ptr[ag[k]] = k THEN first[ag[k]] ELSE 1
  <2> TAKE k \in 0..last
  <2>1. k \in 0..ptr[nA]-1 /\ k \in DOMAIN out /\ out[k] = 1
    BY <1>1, <1>2 DEF Filled
  <2>2. PICK n \in 0..nA-1 : n = ag[k] /\ IsIn(k, n, ptr)
    BY <1>7
  <2>3. ScatterIf(first, ptr, seg, out)[k] = IF ptr[n] = k THEN first[n] ELSE out[k]
    BY <1>0, <2>1, <2>2, ScatteredByPointers
  <2> QED
    BY <1>5, <2>1, <2>2, <2>3
<1>9. g[0] = in[0]
  <2>1. 0 \in 0..last
    BY <1>2
  <2>2. PICK n \in 0..nA-1 : n = ag[0] /\ IsIn(0, n, ptr) /\ ptr[n] \in Nat
                             /\ g[0] = first[n] + (0 - ptr[n])
    BY <1>7, <2>1
  <2>3. ptr[n] = 0
    BY <2>2 DEF IsIn
  <2> QED
    BY <1>4, <1>8, <2>1, <2>2, <2>3
<1>10. \A k \in 1..last : g[k] = IF ag[k] = ag[k - 1] THEN g[k - 1] + in[k] ELSE in[k]
  <2> TAKE k \in 1..last
  <2>1. k \in 0..last /\ k - 1 \in 0..last /\ k \in 1..ptr[nA]-1 /\ k \in Nat
    BY <1>1, <1>2
  <2>2. PICK n \in 0..nA-1, m \in 0..nA-1 :
          /\ n = ag[k - 1] /\ m = ag[k] /\ IsIn(k - 1, n, ptr) /\ IsIn(k, m, ptr)
          /\ ptr[n] \in Nat /\ ptr[m] \in Nat
          /\ g[k] = first[m] + (k - ptr[m]) /\ g[k - 1] = first[n] + (k - 1 - ptr[n])
    BY <1>7, <2>1
  <2>3. (ptr[m] = k => n < m) /\ (ptr[m] # k => n = m)
    BY <1>0, <2>1, <2>2, NextPlace
  <2>4. in[k] = IF ptr[m] = k THEN first[m] ELSE 1
    BY <1>8, <2>1, <2>2
  <2>5. PICK a \in Nat, b \in Nat : a = first[m] /\ b = first[n]
    BY <1>4
  <2>6. CASE ptr[m] = k
    <3>1. n # m /\ in[k] = a
      BY <2>3, <2>4, <2>5, <2>6
    <3>2. g[k] = a
      BY <2>1, <2>2, <2>5, <2>6
    <3> QED
      BY <2>2, <3>1, <3>2
  <2>7. CASE ptr[m] # k
    <3>1. n = m /\ in[k] = 1 /\ a = b
      BY <2>3, <2>4, <2>5, <2>7
    <3>2. g[k] = g[k - 1] + 1
      BY <2>1, <2>2, <2>5, <3>1
    <3> QED
      BY <2>2, <3>1, <3>2
  <2> QED
    BY <2>6, <2>7
<1>11. DOMAIN in = 0..last
  BY <1>1, <1>2, <1>5 DEF ScatterIf, Filled
<1>12. Array(g, last)
  BY <1>6 DEF Array
<1>13. InclusiveScanByKey(in, ag) = g
  BY Zenon, <1>9, <1>10, <1>11, <1>12, InclusiveScanByKeyIs
<1>14. Paired(g, ag, ptr, off, nA)
  BY <1>1, <1>2, <1>6 DEF Paired
<1> QED
  BY <1>3, <1>5, <1>13, <1>14 DEF ScatterIfPermuted

(* The workspace holds every product once, in its row and column.          *)
Complete(i, j, v, t) ==
  /\ t \in Nat \ {0}
  /\ DOMAIN i = 0..t-1 /\ DOMAIN j = 0..t-1 /\ DOMAIN v = 0..t-1
  /\ \A k \in 0..t-1 : v[k] \in Products /\ i[k] = A.row[v[k][1]] /\ j[k] = B.col[v[k][2]]
  /\ \A k, l \in 0..t-1 : v[k] = v[l] => k = l
  /\ \A p \in Products : \E k \in 0..t-1 : v[k] = p

(* From a place to an entry, and back.                                     *)
LEMMA Shift ==
  ASSUME NEW n \in Nat, NEW a \in Nat, NEW b \in 0..n, NEW x \in Nat, NEW y \in Nat, y = x + (b - a)
  PROVE  /\ \A k \in Nat : x <= k /\ k < y => /\ a + (k - x) \in 0..n-1
                                             /\ a <= a + (k - x) /\ a + (k - x) < b
         /\ \A m \in 0..n-1 : a <= m /\ m < b => \E k \in Nat : /\ x <= k /\ k < y
                                                               /\ a + (k - x) = m
<1>1. \A m \in 0..n-1 : a <= m /\ m < b => \E k \in Nat : x <= k /\ k < y /\ a + (k - x) = m
  <2> SUFFICES ASSUME NEW m \in 0..n-1, a <= m, m < b
               PROVE  \E k \in Nat : x <= k /\ k < y /\ a + (k - x) = m
    OBVIOUS
  <2> WITNESS x + (m - a) \in Nat
  <2> QED
    OBVIOUS
<1> QED
  BY <1>1

(* The products: each place has one, and each product a place.             *)
LEMMA MultiplyIs ==
  ASSUME NEW nA, NEW nB, Inputs(nA, nB), NEW off, Offsets(off, B, nB, NColA),
         NEW ptr, NEW seg, Pointers(ptr, seg, off, nA), ptr[nA] # 0,
         NEW ag, Located(ag, ptr, nA),
         NEW bg, Paired(bg, ag, ptr, off, nA)
  PROVE  Complete(Gather(A.row, ag), Gather(B.col, bg), [k \in DOMAIN ag |-> <<ag[k], bg[k]>>],
                  ptr[nA])
<1>0. /\ nA \in Nat \ {0} /\ nB \in Nat \ {0} /\ Segments = 0..nA-1 /\ DOMAIN B.row = 0..nB-1
      /\ \A n \in 0..nA-1 : A.col[n] \in 0..NColA-1
  BY InputFacts
<1>a. nB \in Nat
  BY <1>0
<1>1. PICK t \in Nat \ {0} : t = ptr[nA]
  BY <1>0 DEF Pointers
<1>2. \A p : p \in Products <=> /\ p = <<p[1], p[2]>> /\ p[1] \in 0..nA-1 /\ p[2] \in 0..nB-1
                                /\ A.col[p[1]] = B.row[p[2]]
  BY <1>0 DEF Products
<1>3. \A n \in 0..nA-1 :
        /\ off[A.col[n]] \in Nat /\ ptr[n] \in Nat /\ ptr[n + 1] \in Nat
        /\ off[A.col[n]] <= off[A.col[n] + 1] /\ off[A.col[n] + 1] \in 0..nB
        /\ ptr[n + 1] = ptr[n] + (off[A.col[n] + 1] - off[A.col[n]])
        /\ \A m \in 0..nB-1 : B.row[m] = A.col[n] <=> off[A.col[n]] <= m /\ m < off[A.col[n] + 1]
  <2> TAKE n \in 0..nA-1
  <2>1. PICK c \in 0..NColA-1 : c = A.col[n] /\ c \in 0..NColA /\ c + 1 \in 0..NColA
    BY <1>0, SizeAssumption
  <2>2. /\ off[c] \in Nat /\ off[c + 1] \in 0..nB /\ off[c] <= off[c + 1]
        /\ \A m \in 0..nB-1 : B.row[m] = c <=> off[c] <= m /\ m < off[c + 1]
    <3>1. off[c] \in 0..nB /\ off[c + 1] \in 0..nB
      BY <2>1 DEF Offsets
    <3>2. /\ off[c] <= off[c + 1]
          /\ \A m \in 0..nB-1 : B.row[m] = c <=> off[c] <= m /\ m < off[c + 1]
      BY <2>1 DEF Offsets
    <3> QED
      BY <1>0, <3>1, <3>2
  <2>3. n \in 0..nA /\ n + 1 \in 0..nA
    BY <1>0
  <2>4. ptr[n] \in Nat /\ ptr[n + 1] \in Nat /\ ptr[n + 1] = ptr[n] + (off[c + 1] - off[c])
    BY <2>1, <2>3 DEF Pointers
  <2> QED
    BY <2>1, <2>2, <2>4
<1>4. \A k \in 0..t-1 : ag[k] \in 0..nA-1 /\ IsIn(k, ag[k], ptr) /\ bg[k] = SecondOf(k, ag, ptr, off)
  BY <1>1 DEF Located, Paired
<1>5. DOMAIN ag = 0..t-1 /\ DOMAIN bg = 0..t-1
  BY <1>1 DEF Located, Paired
<1>6. PICK v : v = [k \in DOMAIN ag |-> <<ag[k], bg[k]>>]
  OBVIOUS
<1>7. ASSUME NEW k \in 0..t-1 PROVE v[k] = <<ag[k], bg[k]>> /\ v[k] \in Products
  <2>1. PICK n \in 0..nA-1 : n = ag[k] /\ IsIn(k, n, ptr)
    BY <1>4
  <2>2. PICK a \in Nat, b \in 0..nB, x \in Nat, y \in Nat :
          /\ a = off[A.col[n]] /\ b = off[A.col[n] + 1] /\ x = ptr[n] /\ y = ptr[n + 1]
          /\ y = x + (b - a)
    BY <1>3
  <2>3. bg[k] = a + (k - x)
    BY <1>4, <2>1, <2>2 DEF SecondOf
  <2>4. x <= k /\ k < y /\ k \in Nat
    BY <1>1, <2>1, <2>2 DEF IsIn
  <2>5. bg[k] \in 0..nB-1 /\ a <= bg[k] /\ bg[k] < b
    <3>1. y = x + (b - a)
      BY <2>2
    <3> QED
      BY <1>a, <2>3, <2>4, <3>1, Shift
  <2>6. A.col[n] = B.row[bg[k]]
    BY <1>3, <2>2, <2>5
  <2> QED
    BY <1>2, <1>5, <1>6, <2>1, <2>5, <2>6
<1>8. ASSUME NEW k \in 0..t-1, NEW l \in 0..t-1, v[k] = v[l] PROVE k = l
  <2>1. ag[k] = ag[l] /\ bg[k] = bg[l]
    BY <1>7, <1>8
  <2>2. PICK n \in 0..nA-1 : n = ag[k]
    BY <1>4
  <2>3. PICK a \in Nat, b \in 0..nB, x \in Nat, y \in Nat :
          a = off[A.col[n]] /\ x = ptr[n] /\ y = x + (b - a)
    BY <1>3
  <2>4. bg[k] = a + (k - x) /\ bg[l] = a + (l - x)
    BY <1>4, <2>1, <2>2, <2>3 DEF SecondOf
  <2>5. a + (k - x) = a + (l - x)
    BY Zenon, <2>1, <2>4
  <2>6. k \in Nat /\ l \in Nat
    OBVIOUS
  <2> QED
    BY <2>5, <2>6
<1>9. ASSUME NEW p \in Products PROVE \E k \in 0..t-1 : v[k] = p
  <2>1. PICK n \in 0..nA-1, m \in 0..nB-1 : p = <<n, m>> /\ A.col[n] = B.row[m]
    BY <1>2
  <2>2. PICK a \in Nat, b \in 0..nB, x \in Nat, y \in Nat :
          /\ a = off[A.col[n]] /\ b = off[A.col[n] + 1] /\ x = ptr[n] /\ y = ptr[n + 1]
          /\ y = x + (b - a)
    BY <1>3
  <2>3. a <= m /\ m < b
    BY <1>3, <2>1, <2>2
  <2>4. PICK k \in Nat : x <= k /\ k < y /\ a + (k - x) = m
    <3>1. y = x + (b - a)
      BY <2>2
    <3> QED
      BY <1>a, <2>3, <3>1, Shift
  <2>5. k \in 0..t-1
    <3>1. n + 1 \in 0..nA /\ nA \in 0..nA /\ n + 1 <= nA
      BY <1>0
    <3>2. ptr[n + 1] <= ptr[nA]
      BY <1>0, <3>1, PointersInOrder
    <3> QED
      BY <1>1, <2>2, <2>4, <3>2
  <2>6. IsIn(k, n, ptr) /\ k \in 0..ptr[nA]-1
    BY <1>1, <2>2, <2>4, <2>5 DEF IsIn
  <2>7. ag[k] = n
    BY <1>0, <1>4, <2>5, <2>6, OneSegment
  <2>8. bg[k] = a + (k - x)
    BY <1>4, <2>2, <2>5, <2>7 DEF SecondOf
  <2>9. bg[k] = m
    BY <2>4, <2>8
  <2> QED
    BY <1>7, <2>1, <2>5, <2>7, <2>9
<1>10. /\ DOMAIN Gather(A.row, ag) = 0..t-1 /\ DOMAIN Gather(B.col, bg) = 0..t-1 /\ DOMAIN v = 0..t-1
       /\ \A k \in 0..t-1 : Gather(A.row, ag)[k] = A.row[v[k][1]] /\ Gather(B.col, bg)[k] = B.col[v[k][2]]
  BY <1>5, <1>6 DEF Gather
<1>11. PICK i, j : i = Gather(A.row, ag) /\ j = Gather(B.col, bg)
  OBVIOUS
<1>12. Complete(i, j, v, t)
  BY <1>7, <1>8, <1>9, <1>10, <1>11 DEF Complete
<1> QED
  BY <1>1, <1>6, <1>11, <1>12

-----------------------------------------------------------------------------
(* The sort moves all elements, wherever it puts them.                     *)

Permutation(p, n) ==
  /\ p \in [0..n-1 -> 0..n-1]
  /\ \A k, l \in 0..n-1 : p[k] = p[l] => k = l
  /\ \A d \in 0..n-1 : \E k \in 0..n-1 : p[k] = d

(* stable_sort_by_key moves the elements among each other, and leaves the  *)
(* last one.                                                               *)
LEMMA StableSortIs ==
  ASSUME NEW n \in Nat, NEW keys, DOMAIN keys = 0..n, \A k \in 0..n : keys[k] \in Nat
  PROVE  Permutation(StableSort(keys, n), n + 1)
<1> DEFINE S == 0..n-1
           Lt(a, b) == keys[a] < keys[b] \/ (keys[a] = keys[b] /\ a < b)
           R == {q \in S \X S : Lt(q[1], q[2])}
           f == Sorted(S, Lt)
<1>1. IsFiniteSet(S) /\ Cardinality(S) = n
  <2>1. 0 \in Int /\ n - 1 \in Int
    OBVIOUS
  <2>2. IsFiniteSet(S) /\ Cardinality(S) = IF 0 > n - 1 THEN 0 ELSE n - 1 - 0 + 1
    BY <2>1, FS_Interval
  <2> HIDE DEF S
  <2> QED
    BY <2>2
<1>2. \A a, b \in S : <<a, b>> \in R <=> Lt(a, b)
  OBVIOUS
<1>3. TotalOrder(R, S)
  <2> HIDE DEF R
  <2>1. \A a \in S : a \in Nat /\ keys[a] \in Nat
    OBVIOUS
  <2> HIDE DEF S
  <2>2. \A a, b \in S : a # b => Lt(a, b) \/ Lt(b, a)
    BY <2>1
  <2>3. \A a \in S : ~ Lt(a, a)
    BY <2>1
  <2>4. \A a, b, c \in S : Lt(a, b) /\ Lt(b, c) => Lt(a, c)
    BY <2>1
  <2> HIDE DEF Lt
  <2> QED
    BY <1>2, <2>2, <2>3, <2>4 DEF TotalOrder
<1>4. \A a \in S : Lower(R, S, a) = {b \in S : Lt(b, a)}
  <2> HIDE DEF R, Lt
  <2> QED
    BY <1>2 DEF Lower
<1>5. f = [i \in 0..n-1 |-> CHOOSE a \in S : Cardinality({b \in S : Lt(b, a)}) = i]
  BY <1>1 DEF Sorted
<1>6. StableSort(keys, n) = [i \in 0..n |-> IF i < n THEN f[i] ELSE i]
  BY DEF StableSort
<1> HIDE DEF R, f, Lt
<1>7. ASSUME NEW i \in 0..n-1, \E a \in S : Cardinality(Lower(R, S, a)) = i
      PROVE  f[i] \in S /\ Cardinality(Lower(R, S, f[i])) = i
  <2>1. \E a \in S : Cardinality({b \in S : Lt(b, a)}) = i
    BY <1>4, <1>7
  <2>2. f[i] = CHOOSE a \in S : Cardinality({b \in S : Lt(b, a)}) = i
    BY <1>5
  <2>3. f[i] \in S /\ Cardinality({b \in S : Lt(b, f[i])}) = i
    BY Zenon, <2>1, <2>2
  <2> QED
    BY <1>4, <2>3
<1>8. /\ \A i \in 0..n-1 : f[i] \in S
      /\ \A i, j \in 0..n-1 : i < j => <<f[i], f[j]>> \in R
      /\ \A a \in S : \E i \in 0..n-1 : f[i] = a
  <2> HIDE DEF S
  <2>1. IsFiniteSet(S)
    BY <1>1
  <2>2. \A i \in 0..Cardinality(S)-1 :
          (\E a \in S : Cardinality(Lower(R, S, a)) = i)
            => f[i] \in S /\ Cardinality(Lower(R, S, f[i])) = i
    BY <1>1, <1>7
  <2>3. /\ \A i \in 0..Cardinality(S)-1 : f[i] \in S
        /\ \A i, j \in 0..Cardinality(S)-1 : i < j => <<f[i], f[j]>> \in R
        /\ \A a \in S : \E i \in 0..Cardinality(S)-1 : f[i] = a
    BY <1>3, <2>1, <2>2, ByRank
  <2> QED
    BY Zenon, <1>1, <2>3
<1>9. \A i, j \in 0..n-1 : f[i] = f[j] => i = j
  <2>1. \A i, j \in 0..n-1 : i < j => f[i] # f[j]
    BY <1>3, <1>8 DEF TotalOrder
  <2> QED
    BY <2>1
<1>10. PICK p : p = StableSort(keys, n)
  OBVIOUS
<1>11. \A i \in 0..n : p[i] = IF i < n THEN f[i] ELSE i
  BY <1>6, <1>10
<1>12. p \in [0..n -> 0..n]
  <2>1. \A k \in 0..n : p[k] \in 0..n
    <3> TAKE k \in 0..n
    <3>1. k < n => k \in 0..n-1 /\ f[k] \in 0..n-1 /\ p[k] = f[k]
      BY <1>8, <1>11
    <3>2. ~ (k < n) => p[k] = k
      BY <1>11
    <3> QED
      BY <3>1, <3>2
  <2>2. p = [k \in 0..n |-> p[k]]
    BY <1>6, <1>10
  <2> QED
    BY <2>1, <2>2
<1>13. \A k, l \in 0..n : p[k] = p[l] => k = l
  <2> TAKE k, l \in 0..n
  <2>1. /\ k < n => k \in 0..n-1 /\ f[k] \in 0..n-1 /\ p[k] = f[k]
        /\ l < n => l \in 0..n-1 /\ f[l] \in 0..n-1 /\ p[l] = f[l]
        /\ ~ (k < n) => p[k] = k /\ k = n
        /\ ~ (l < n) => p[l] = l /\ l = n
    <3>1. \A m \in 0..n : /\ m < n => m \in 0..n-1 /\ f[m] \in 0..n-1 /\ p[m] = f[m]
                          /\ ~ (m < n) => p[m] = m /\ m = n
      <4> TAKE m \in 0..n
      <4>1. m < n => m \in 0..n-1 /\ f[m] \in 0..n-1 /\ p[m] = f[m]
        BY <1>8, <1>11
      <4>2. ~ (m < n) => p[m] = m /\ m = n
        BY <1>11
      <4> QED
        BY <4>1, <4>2
    <3> QED
      BY Zenon, <3>1
  <2>2. k < n /\ l < n => (f[k] = f[l] => k = l)
    BY <1>9, <2>1
  <2> QED
    BY <2>1, <2>2
<1>14. \A d \in 0..n : \E k \in 0..n : p[k] = d
  <2> TAKE d \in 0..n
  <2>1. CASE d = n
    BY <1>11, <2>1
  <2>2. CASE d # n
    <3>1. d \in S
      BY <2>2
    <3>2. PICK i \in 0..n-1 : f[i] = d
      BY <1>8, <3>1
    <3>3. i \in 0..n /\ p[i] = f[i]
      BY <1>11
    <3> QED
      BY <3>2, <3>3
  <2> QED
    BY <2>1, <2>2
<1>15. (n + 1) - 1 = n
  OBVIOUS
<1> QED
  BY <1>10, <1>12, <1>13, <1>14, <1>15 DEF Permutation

(* One permutation after the other.                                        *)
LEMMA Composed ==
  ASSUME NEW n \in Nat, NEW p, NEW q, Permutation(p, n), Permutation(q, n)
  PROVE  Permutation(Gather(p, q), n)
<1>1. Gather(p, q) = [k \in 0..n-1 |-> p[q[k]]]
  BY DEF Permutation, Gather
<1>2. PICK r : r = Gather(p, q)
  OBVIOUS
<1>3. r \in [0..n-1 -> 0..n-1] /\ \A k \in 0..n-1 : r[k] = p[q[k]]
  BY <1>1, <1>2 DEF Permutation
<1>4. \A k, l \in 0..n-1 : r[k] = r[l] => k = l
  <2> TAKE k, l \in 0..n-1
  <2>1. q[k] \in 0..n-1 /\ q[l] \in 0..n-1 /\ (q[k] = q[l] => k = l)
    BY DEF Permutation
  <2>2. p[q[k]] = p[q[l]] => q[k] = q[l]
    BY <2>1 DEF Permutation
  <2> QED
    BY <1>3, <2>1, <2>2
<1>5. \A d \in 0..n-1 : \E k \in 0..n-1 : r[k] = d
  <2> TAKE d \in 0..n-1
  <2>1. PICK m \in 0..n-1 : p[m] = d
    BY DEF Permutation
  <2>2. PICK k \in 0..n-1 : q[k] = m
    BY DEF Permutation
  <2> QED
    BY <1>3, <2>1, <2>2
<1> QED
  BY <1>2, <1>3, <1>4, <1>5 DEF Permutation

(* Both passes of sort_by_row_and_column.                                  *)
LEMMA SortPermutationIs ==
  ASSUME NEW t \in Nat \ {0}, NEW i, NEW j, DOMAIN i = 0..t-1, DOMAIN j = 0..t-1,
         \A k \in 0..t-1 : i[k] \in Nat /\ j[k] \in Nat
  PROVE  Permutation(SortPermutation(i, j), t)
<1>1. PICK n \in Nat : n = t - 1 /\ t = n + 1
  OBVIOUS
<1>2. SortEnd(i) = n /\ SortEnd(j) = n
  BY <1>1, SizeOf DEF SortEnd
<1>3. PICK p : p = StableSort(j, n)
  OBVIOUS
<1>4. DOMAIN i = 0..n /\ DOMAIN j = 0..n /\ \A k \in 0..n : i[k] \in Nat /\ j[k] \in Nat
  BY <1>1
<1>5. Permutation(p, t)
  BY <1>1, <1>3, <1>4, StableSortIs
<1>6. p \in [0..n -> 0..n]
  BY <1>1, <1>5 DEF Permutation
<1>7. PICK g : g = Gather(i, p)
  OBVIOUS
<1>8. DOMAIN g = 0..n /\ \A k \in 0..n : g[k] \in Nat
  BY <1>4, <1>6, <1>7 DEF Gather
<1>9. PICK q : q = StableSort(g, n)
  OBVIOUS
<1>10. Permutation(q, t)
  BY <1>1, <1>8, <1>9, StableSortIs
<1>11. SortPermutation(i, j) = Gather(p, q)
  BY <1>2, <1>3, <1>7, <1>9 DEF SortPermutation
<1>12. t \in Nat
  OBVIOUS
<1> QED
  BY <1>5, <1>10, <1>11, <1>12, Composed

(* What is moved by a permutation is still complete.                       *)
LEMMA SortedIsComplete ==
  ASSUME NEW t, NEW i, NEW j, NEW v, Complete(i, j, v, t), NEW p, Permutation(p, t)
  PROVE  Complete(Gather(i, p), Gather(j, p), Gather(v, p), t)
<1>1. PICK a, b, c : a = Gather(i, p) /\ b = Gather(j, p) /\ c = Gather(v, p)
  OBVIOUS
<1>2. p \in [0..t-1 -> 0..t-1]
  BY DEF Permutation
<1>3. /\ DOMAIN a = 0..t-1 /\ DOMAIN b = 0..t-1 /\ DOMAIN c = 0..t-1
      /\ \A k \in 0..t-1 : p[k] \in 0..t-1 /\ a[k] = i[p[k]] /\ b[k] = j[p[k]] /\ c[k] = v[p[k]]
  BY <1>1, <1>2 DEF Gather
<1>4. \A k \in 0..t-1 : c[k] \in Products /\ a[k] = A.row[c[k][1]] /\ b[k] = B.col[c[k][2]]
  BY <1>3 DEF Complete
<1>5. \A k, l \in 0..t-1 : c[k] = c[l] => k = l
  <2> TAKE k, l \in 0..t-1
  <2>1. p[k] = p[l] => k = l
    BY DEF Permutation
  <2>2. v[p[k]] = v[p[l]] => p[k] = p[l]
    BY <1>3 DEF Complete
  <2> QED
    BY <1>3, <2>1, <2>2
<1>6. \A q \in Products : \E k \in 0..t-1 : c[k] = q
  <2> TAKE q \in Products
  <2>1. PICK m \in 0..t-1 : v[m] = q
    BY DEF Complete
  <2>2. PICK k \in 0..t-1 : p[k] = m
    BY DEF Permutation
  <2> QED
    BY <1>3, <2>1, <2>2
<1>7. t \in Nat \ {0}
  BY DEF Complete
<1> QED
  BY <1>1, <1>3, <1>4, <1>5, <1>6, <1>7 DEF Complete

-----------------------------------------------------------------------------
(* The runs of equal keys are numbered without a gap.                      *)

Runs(run, keys, n, count) ==
  /\ count \in Nat \ {0}
  /\ \A k \in 0..n : run[k] \in 0..count-1
  /\ \A c \in 0..count-1 : \E k \in 0..n : run[k] = c
  /\ \A k, l \in 0..n : run[k] = run[l] => keys[k] = keys[l]

(* What the numbers are like: they begin with 0 and grow by 0 or 1.        *)
Steps(run, keys, n) ==
  /\ run[0] = 0
  /\ \A k \in 0..n : run[k] \in Nat
  /\ \A k \in 1..n : run[k] = IF keys[k] = keys[k - 1] THEN run[k - 1] ELSE run[k - 1] + 1

(* Of two places, the later one has no smaller number, and the same number *)
(* only in the same run.                                                   *)
LEMMA StepsInOrder ==
  ASSUME NEW n \in Nat, NEW keys, NEW run, Steps(run, keys, n), NEW k \in 0..n
  PROVE  \A l \in k..n : run[k] <= run[l] /\ (run[k] = run[l] => keys[k] = keys[l])
<1> DEFINE T == {l \in k..n : ~ (run[k] <= run[l] /\ (run[k] = run[l] => keys[k] = keys[l]))}
<1> SUFFICES ASSUME T # {} PROVE FALSE
  OBVIOUS
<1>1. T \subseteq Nat
  OBVIOUS
<1> HIDE DEF T
<1>2. PICK l \in T : \A m \in T : l <= m
  BY <1>1, LeastOf
<1>3. l \in k..n /\ ~ (run[k] <= run[l] /\ (run[k] = run[l] => keys[k] = keys[l]))
  BY <1>2 DEF T
<1>4. run[k] \in Nat
  BY DEF Steps
<1>5. l # k
  BY <1>3, <1>4
<1>6. PICK m \in k..n : m = l - 1 /\ l \in 1..n /\ m \in 0..n /\ ~ (l <= m)
  BY <1>3, <1>5
<1>7. m \notin T
  BY <1>2, <1>6
<1>8. run[k] <= run[m] /\ (run[k] = run[m] => keys[k] = keys[m])
  BY <1>6, <1>7 DEF T
<1>9. run[m] \in Nat /\ run[l] = IF keys[l] = keys[m] THEN run[m] ELSE run[m] + 1
  BY <1>6 DEF Steps
<1>10. CASE keys[l] = keys[m]
  BY <1>3, <1>4, <1>8, <1>9, <1>10
<1>11. CASE keys[l] # keys[m]
  BY <1>3, <1>4, <1>8, <1>9, <1>11
<1> QED
  BY <1>10, <1>11

(* out_iterator of reduce_by_key goes through as many runs as              *)
(* calculate_NNZ counts.                                                   *)
LEMMA RunsAre ==
  ASSUME NEW n \in Nat, NEW keys, DOMAIN keys = 0..n
  PROVE  Runs(RunOf(keys), keys, n, CalculateNNZ(keys))
<1> DEFINE D(k) == {j \in 1..k : keys[j - 1] # keys[j]}
<1>1. ASSUME NEW k \in 0..n PROVE IsFiniteSet(D(k)) /\ Cardinality(D(k)) \in Nat
  <2>1. IsFiniteSet(1..k)
    BY FS_Interval
  <2>2. D(k) \subseteq 1..k
    OBVIOUS
  <2> HIDE DEF D
  <2> QED
    BY <2>1, <2>2, FS_Subset, FS_CardinalityType
<1>2. Cardinality(D(0)) = 0
  <2>1. D(0) = {}
    OBVIOUS
  <2> QED
    BY <2>1, FS_EmptySet
<1>3. ASSUME NEW k \in 1..n
      PROVE  Cardinality(D(k)) = IF keys[k] = keys[k - 1] THEN Cardinality(D(k - 1))
                                 ELSE Cardinality(D(k - 1)) + 1
  <2>1. PICK m \in 0..n : m = k - 1 /\ k = m + 1
    OBVIOUS
  <2>2. \A j : j \in 1..k <=> j \in 1..m \/ j = k
    BY <2>1
  <2>3. CASE keys[k] = keys[m]
    <3>1. D(k) = D(m)
      BY <2>1, <2>2, <2>3
    <3> HIDE DEF D
    <3> QED
      BY <2>1, <2>3, <3>1
  <2>4. CASE keys[k] # keys[m]
    <3>1. D(k) = D(m) \cup {k}
      BY <2>1, <2>2, <2>4
    <3>2. k \notin D(m)
      BY <2>1
    <3>3. IsFiniteSet(D(m))
      BY <1>1
    <3> HIDE DEF D
    <3>4. Cardinality(D(k)) = Cardinality(D(m)) + 1
      BY <3>1, <3>2, <3>3, FS_AddElement
    <3> QED
      BY <2>1, <2>4, <3>4
  <2> QED
    BY <2>3, <2>4
<1>4. CalculateNNZ(keys) = Cardinality(D(n)) + 1
  <2>1. (0..n) \ {0} = 1..n
    OBVIOUS
  <2> QED
    BY <2>1 DEF CalculateNNZ
<1>5. PICK g : g = [k \in 0..n |-> Cardinality(D(k))]
  OBVIOUS
<1> HIDE DEF D
<1>6. Array(g, n)
  BY <1>5 DEF Array
<1>7. Steps(g, keys, n)
  <2>1. g[0] = 0 /\ \A k \in 0..n : g[k] \in Nat
    BY <1>1, <1>2, <1>5
  <2>2. \A k \in 1..n : g[k] = IF keys[k] = keys[k - 1] THEN g[k - 1] ELSE g[k - 1] + 1
    <3> TAKE k \in 1..n
    <3>1. k \in 0..n /\ k - 1 \in 0..n
      OBVIOUS
    <3> QED
      BY <1>3, <1>5, <3>1
  <2> QED
    BY <2>1, <2>2 DEF Steps
<1>8. RunOf(keys) = g
  <2>1. \A k \in 1..n : g[k] = IF keys[k] = keys[k - 1] THEN g[k - 1] ELSE g[k - 1] + 1
    BY <1>7 DEF Steps
  <2>2. g[0] = 0
    BY <1>7 DEF Steps
  <2> QED
    BY Zenon, <1>6, <2>1, <2>2, RunOfIs
<1>9. CalculateNNZ(keys) = g[n] + 1 /\ g[n] \in Nat
  BY <1>4, <1>5, <1>7 DEF Steps
<1>10. \A k \in 0..n : g[k] \in 0..(g[n] + 1)-1
  <2> TAKE k \in 0..n
  <2>1. n \in k..n
    OBVIOUS
  <2>2. g[k] <= g[n] /\ g[k] \in Nat
    BY <1>7, <2>1, StepsInOrder DEF Steps
  <2> QED
    BY <1>9, <2>2
<1>11. ASSUME NEW c \in 0..(g[n] + 1)-1 PROVE \E k \in 0..n : g[k] = c
  <2> DEFINE T == {k \in 0..n : c <= g[k]}
  <2>1. T \subseteq Nat /\ n \in T
    BY <1>9
  <2> HIDE DEF T
  <2>2. PICK m \in T : \A k \in T : m <= k
    BY <2>1, LeastOf
  <2>3. m \in 0..n /\ c <= g[m] /\ g[m] \in Nat /\ c \in Nat
    BY <1>7, <1>9, <2>2 DEF T, Steps
  <2>4. CASE m = 0
    <3>1. g[m] = 0
      BY <1>7, <2>4 DEF Steps
    <3> QED
      BY <2>3, <3>1
  <2>5. CASE m # 0
    <3>1. PICK l \in 0..n : l = m - 1 /\ m \in 1..n /\ ~ (m <= l)
      BY <2>3, <2>5
    <3>2. g[l] \in Nat /\ (g[m] = g[l] \/ g[m] = g[l] + 1)
      BY <1>7, <3>1 DEF Steps
    <3>3. ~ (c <= g[l])
      BY <2>2, <3>1 DEF T
    <3> QED
      BY <2>3, <3>2, <3>3
  <2> QED
    BY <2>4, <2>5
<1>12. ASSUME NEW k \in 0..n, NEW l \in 0..n, g[k] = g[l] PROVE keys[k] = keys[l]
  <2>1. l \in k..n \/ k \in l..n
    OBVIOUS
  <2> QED
    BY <1>7, <1>12, <2>1, StepsInOrder
<1>13. g[n] + 1 \in Nat \ {0}
  BY <1>9
<1>14. Runs(g, keys, n, g[n] + 1)
  BY <1>10, <1>11, <1>12, <1>13 DEF Runs
<1> QED
  BY <1>8, <1>9, <1>14

(* What is read off the runs has every product once, in its place.         *)
Exact(c) ==
  /\ \A d \in DOMAIN c : c[d] # Unwritten
  /\ UNION {c[d].val : d \in DOMAIN c} = Products
  /\ \A d \in DOMAIN c : \A p \in c[d].val :
       /\ A.row[p[1]] = c[d].row /\ B.col[p[2]] = c[d].col
       /\ \A e \in DOMAIN c : p \in c[e].val => e = d

(* An element holds the products of its run.                               *)
Reduced(c, i, j, v, run, keys, count) ==
  /\ DOMAIN c = 0..count-1
  /\ \A d \in 0..count-1 :
       \E k \in DOMAIN keys :
         /\ run[k] = d
         /\ c[d] = [row |-> i[k], col |-> j[k],
                    val |-> {v[m] : m \in {l \in DOMAIN keys : run[l] = d}}]

KeysOf(keys, i, j) == keys = [k \in DOMAIN i |-> <<i[k], j[k]>>]

LEMMA ReducedIsExact ==
  ASSUME NEW nA, NEW nB, Inputs(nA, nB),
         NEW t, NEW i, NEW j, NEW v, Complete(i, j, v, t),
         NEW keys, KeysOf(keys, i, j),
         NEW n, n = t - 1, NEW run, NEW count, Runs(run, keys, n, count),
         NEW c, Reduced(c, i, j, v, run, keys, count)
  PROVE  Exact(c)
<1>1. t \in Nat \ {0} /\ n \in Nat /\ 0..t-1 = 0..n /\ DOMAIN keys = 0..n
  BY DEF Complete, KeysOf
<1>2. \A k \in 0..n : v[k] \in Products /\ i[k] = A.row[v[k][1]] /\ j[k] = B.col[v[k][2]]
  BY <1>1 DEF Complete
<1>3. \A k, l \in 0..n : v[k] = v[l] => k = l
  BY <1>1 DEF Complete
<1>4. \A p \in Products : \E k \in 0..n : v[k] = p
  BY <1>1 DEF Complete
<1>5. \A k \in 0..n : keys[k] = <<i[k], j[k]>>
  BY <1>1 DEF KeysOf
<1>6. ASSUME NEW d \in DOMAIN c
      PROVE  \E k \in 0..n : /\ run[k] = d /\ c[d].row = i[k] /\ c[d].col = j[k]
                             /\ \A p : p \in c[d].val <=> \E l \in 0..n : run[l] = d /\ v[l] = p
                             /\ c[d] = [row |-> i[k], col |-> j[k], val |-> c[d].val]
  <2>1. PICK k \in DOMAIN keys :
          /\ run[k] = d
          /\ c[d] = [row |-> i[k], col |-> j[k],
                     val |-> {v[m] : m \in {l \in DOMAIN keys : run[l] = d}}]
    BY DEF Reduced
  <2>2. c[d].val = {v[m] : m \in {l \in DOMAIN keys : run[l] = d}}
        /\ c[d].row = i[k] /\ c[d].col = j[k]
    BY <2>1
  <2> QED
    BY <1>1, <2>1, <2>2
<1>7. ASSUME NEW d \in DOMAIN c PROVE c[d] # Unwritten
  <2>1. PICK k \in 0..n : c[d].row = i[k]
    BY <1>6
  <2>2. i[k] \in 0..NRowA-1
    <3>1. v[k][1] \in 0..nA-1
      BY <1>2, InputFacts DEF Products
    <3> QED
      BY <1>2, <3>1, InputFacts
  <2>3. c[d].row # -1
    BY <2>1, <2>2
  <2>4. Unwritten.row = -1
    BY DEF Unwritten
  <2> QED
    BY Zenon, <2>3, <2>4
<1>8. ASSUME NEW p \in Products PROVE \E d \in DOMAIN c : p \in c[d].val
  <2>1. PICK k \in 0..n : v[k] = p
    BY <1>4
  <2>2. run[k] \in DOMAIN c
    BY DEF Runs, Reduced
  <2> QED
    BY <1>6, <2>1, <2>2
<1>9. ASSUME NEW d \in DOMAIN c, NEW p \in c[d].val
      PROVE  /\ p \in Products
             /\ A.row[p[1]] = c[d].row /\ B.col[p[2]] = c[d].col
             /\ \A e \in DOMAIN c : p \in c[e].val => e = d
  <2>1. PICK k \in 0..n : run[k] = d /\ c[d].row = i[k] /\ c[d].col = j[k]
    BY <1>6
  <2>2. PICK l \in 0..n : run[l] = d /\ v[l] = p
    BY <1>6, <1>9
  <2>3. keys[k] = keys[l]
    BY <2>1, <2>2 DEF Runs
  <2>4. i[k] = i[l] /\ j[k] = j[l]
    BY <1>5, <2>3
  <2>5. p \in Products /\ A.row[p[1]] = i[l] /\ B.col[p[2]] = j[l]
    BY <1>2, <2>2
  <2>6. ASSUME NEW e \in DOMAIN c, p \in c[e].val PROVE e = d
    <3>1. PICK m \in 0..n : run[m] = e /\ v[m] = p
      BY <1>6, <2>6
    <3> QED
      BY <1>3, <2>2, <3>1
  <2> QED
    BY <2>1, <2>4, <2>5, <2>6
<1>10. UNION {c[d].val : d \in DOMAIN c} = Products
  BY <1>8, <1>9
<1> QED
  BY <1>7, <1>9, <1>10 DEF Exact

-----------------------------------------------------------------------------
(* The invariant: what every array is, in the order they come to be.       *)

NNZ_B == Size(B.row)

IInv ==
  /\ Inputs(NNZ_A, NNZ_B)
  /\ pc # "offsets" => /\ Offsets(B_row_offsets, B, NNZ_B, NColA)
                       /\ Pointers(output_ptr, segment_lengths, B_row_offsets, NNZ_A)
  /\ pc \in {"scatter", "locateB", "transform", "sort", "reduce"} => coo_num_nonzeros # 0
  /\ pc \in {"locateB", "transform"} => Located(A_gather_locations, output_ptr, NNZ_A)
  /\ pc = "transform" =>
       Paired(B_gather_locations, A_gather_locations, output_ptr, B_row_offsets, NNZ_A)
  /\ pc \in {"offsets", "choose"} => V = Empty
  /\ pc \in {"sort", "reduce"} => Complete(I, J, V, coo_num_nonzeros)
  /\ pc = "done" => IF coo_num_nonzeros = 0 THEN V = Empty
                    ELSE Complete(I, J, V, coo_num_nonzeros) /\ Exact(C)

(* What the matrices determine does not change with them.                  *)
LEMMA SameMatrices ==
  ASSUME A' = A, B' = B
  PROVE  /\ NNZ_A' = NNZ_A /\ NNZ_B' = NNZ_B /\ Products' = Products
         /\ \A nA, nB : Inputs(nA, nB) => Inputs(nA, nB)'
         /\ \A x, n : Offsets(x, B, n, NColA) => Offsets(x, B, n, NColA)'
         /\ \A x, y, z, n : Pointers(x, y, z, n) => Pointers(x, y, z, n)'
         /\ \A x, y, z, u, n : Paired(x, y, z, u, n) => Paired(x, y, z, u, n)'
         /\ \A x, y, z, t : Complete(x, y, z, t) => Complete(x, y, z, t)'
         /\ \A x : Exact(x) => Exact(x)'
<1>1. NNZ_A' = NNZ_A /\ NNZ_B' = NNZ_B
  BY DEF NNZ_A, NNZ_B
<1>2. Products' = Products
  BY DEF Products, Segments
<1>3. \A nA, nB : Inputs(nA, nB) => Inputs(nA, nB)'
  BY DEF Inputs
<1>4. \A x, n : Offsets(x, B, n, NColA) => Offsets(x, B, n, NColA)'
  OBVIOUS
<1>5. \A x, y, z, n : Pointers(x, y, z, n) => Pointers(x, y, z, n)'
  BY <1>2 DEF Pointers
<1>6. \A x, y, z, u, n : Paired(x, y, z, u, n) => Paired(x, y, z, u, n)'
  BY DEF Paired, SecondOf
<1>7. \A x, y, z, t : Complete(x, y, z, t) => Complete(x, y, z, t)'
  BY <1>2 DEF Complete
<1>8. \A x : Exact(x) => Exact(x)'
  BY <1>2 DEF Exact
<1> QED
  BY <1>1, <1>2, <1>3, <1>4, <1>5, <1>6, <1>7, <1>8

(* The invariant holds when the program begins.                            *)
LEMMA InitEstablishes == ASSUME Init PROVE IInv
<1>1. PICK S \in NonEmpty(NRowA, NColA) : A = Loaded(S)
  BY DEF Init
<1>2. PICK T \in NonEmpty(NColA, NColB) : B = Loaded(T)
  BY DEF Init
<1>3. PICK nA : Matrix(A, nA, NRowA, NColA)
  BY <1>1, LoadedIs, SizeAssumption
<1>4. PICK nB : Matrix(B, nB, NColA, NColB)
  BY <1>2, LoadedIs, SizeAssumption
<1>5. NNZ_A = nA /\ NNZ_B = nB
  BY <1>3, <1>4, SizeOf DEF Matrix, NNZ_A, NNZ_B
<1>6. Inputs(NNZ_A, NNZ_B)
  BY <1>3, <1>4, <1>5 DEF Inputs
<1>7. pc = "offsets" /\ V = Empty
  BY DEF Init
<1> QED
  BY <1>6, <1>7 DEF IInv

(* Each action keeps it.                                                   *)
LEMMA CountProductsStep == ASSUME IInv, CountProducts PROVE IInv'
<1>1. pc = "offsets" /\ pc' = "choose" /\ A' = A /\ B' = B /\ V' = V
  BY DEF CountProducts, At, workspace
<1>2. Inputs(NNZ_A, NNZ_B) /\ V = Empty
  BY <1>1 DEF IInv
<1>3. Offsets(B_row_offsets', B, NNZ_B, NColA)
  <2>1. B_row_offsets' = CalculateOffsets(B.row, NColA)
    BY DEF CountProducts
  <2> QED
    BY <1>2, <2>1, OffsetsAre, SizeAssumption DEF Inputs
<1>4. Pointers(output_ptr', segment_lengths', B_row_offsets', NNZ_A)
  <2>1. PICK scanned : scanned = ExclusiveScan(segment_lengths')
    OBVIOUS
  <2>2. /\ segment_lengths' = Gather(CalculateRowLengths(B_row_offsets'), A.col)
        /\ output_ptr' = [n \in 0..NNZ_A |-> IF n < NNZ_A THEN scanned[n]
                                             ELSE scanned[NNZ_A - 1] + segment_lengths'[NNZ_A - 1]]
    BY <2>1 DEF CountProducts
  <2> QED
    BY Zenon, <1>2, <1>3, <2>1, <2>2, PointersAre
<1>5. NNZ_A' = NNZ_A /\ NNZ_B' = NNZ_B /\ Products' = Products /\ Inputs(NNZ_A, NNZ_B)'
  <2>1. NNZ_A' = NNZ_A /\ NNZ_B' = NNZ_B /\ Products' = Products
    BY <1>1, SameMatrices
  <2>2. PICK nA, nB : nA = NNZ_A /\ nB = NNZ_B /\ nA = NNZ_A' /\ nB = NNZ_B'
    BY <2>1
  <2>3. Inputs(nA, nB)'
    BY <1>1, <1>2, <2>2, SameMatrices
  <2> QED
    BY <2>1, <2>2, <2>3 DEF Inputs
<1>6. Offsets(B_row_offsets, B, NNZ_B, NColA)'
  BY <1>1, <1>3, <1>5 DEF Offsets
<1>7. Pointers(output_ptr, segment_lengths, B_row_offsets, NNZ_A)'
  BY <1>1, <1>4, <1>5 DEF Pointers
<1> QED
  BY <1>1, <1>2, <1>5, <1>6, <1>7 DEF IInv

(* A step that leaves the matrices and the lookup leaves what is known of  *)
(* them.                                                                   *)
LEMMA SameLookup ==
  ASSUME IInv, pc # "offsets", A' = A, B' = B, UNCHANGED lookup
  PROVE  /\ NNZ_A' = NNZ_A /\ NNZ_B' = NNZ_B /\ Products' = Products
         /\ Inputs(NNZ_A, NNZ_B) /\ Inputs(NNZ_A, NNZ_B)'
         /\ Offsets(B_row_offsets, B, NNZ_B, NColA) /\ Offsets(B_row_offsets, B, NNZ_B, NColA)'
         /\ Pointers(output_ptr, segment_lengths, B_row_offsets, NNZ_A)
         /\ Pointers(output_ptr, segment_lengths, B_row_offsets, NNZ_A)'
         /\ coo_num_nonzeros' = coo_num_nonzeros
         /\ coo_num_nonzeros = output_ptr[NNZ_A] /\ coo_num_nonzeros \in Nat
<1>1. NNZ_A' = NNZ_A /\ NNZ_B' = NNZ_B /\ Products' = Products
  BY SameMatrices
<1>2. /\ B_row_offsets' = B_row_offsets /\ segment_lengths' = segment_lengths
      /\ output_ptr' = output_ptr
  BY DEF lookup
<1>3. /\ Inputs(NNZ_A, NNZ_B) /\ Offsets(B_row_offsets, B, NNZ_B, NColA)
      /\ Pointers(output_ptr, segment_lengths, B_row_offsets, NNZ_A)
  BY DEF IInv
<1>4. Inputs(NNZ_A, NNZ_B)'
  BY <1>1, <1>3 DEF Inputs
<1>5. Offsets(B_row_offsets, B, NNZ_B, NColA)'
  BY <1>1, <1>2, <1>3
<1>6. Pointers(output_ptr, segment_lengths, B_row_offsets, NNZ_A)'
  BY <1>1, <1>2, <1>3 DEF Pointers
<1>7. coo_num_nonzeros' = coo_num_nonzeros
  BY <1>1, <1>2 DEF coo_num_nonzeros
<1>8. coo_num_nonzeros = output_ptr[NNZ_A] /\ coo_num_nonzeros \in Nat
  <2>1. NNZ_A \in 0..NNZ_A
    BY <1>3, InputFacts
  <2> QED
    BY <1>3, <2>1 DEF Pointers, coo_num_nonzeros
<1> QED
  BY <1>1, <1>3, <1>4, <1>5, <1>6, <1>7, <1>8

LEMMA ChooseStep == ASSUME IInv, OneHit \/ Slice PROVE IInv'
<1>1. /\ pc = "choose" /\ A' = A /\ B' = B /\ UNCHANGED lookup /\ V' = V
      /\ \/ pc' = IF coo_num_nonzeros = 0 THEN "done" ELSE "scatter"
         \/ pc' = "sliced"
  BY DEF OneHit, Slice, At, workspace
<1>2. /\ Inputs(NNZ_A, NNZ_B)' /\ Offsets(B_row_offsets, B, NNZ_B, NColA)'
      /\ Pointers(output_ptr, segment_lengths, B_row_offsets, NNZ_A)'
      /\ coo_num_nonzeros' = coo_num_nonzeros
  BY <1>1, SameLookup
<1>3. V' = Empty
  BY <1>1 DEF IInv
<1> QED
  BY <1>1, <1>2, <1>3 DEF IInv, Empty

LEMMA LocateAStep == ASSUME IInv, LocateA PROVE IInv'
<1>1. pc = "scatter" /\ pc' = "locateB" /\ A' = A /\ B' = B /\ UNCHANGED lookup
  BY DEF LocateA, At
<1>2. /\ NNZ_A' = NNZ_A /\ output_ptr' = output_ptr
      /\ Inputs(NNZ_A, NNZ_B)' /\ Offsets(B_row_offsets, B, NNZ_B, NColA)'
      /\ Pointers(output_ptr, segment_lengths, B_row_offsets, NNZ_A)'
      /\ Pointers(output_ptr, segment_lengths, B_row_offsets, NNZ_A)
      /\ Inputs(NNZ_A, NNZ_B)
      /\ coo_num_nonzeros' = coo_num_nonzeros /\ coo_num_nonzeros = output_ptr[NNZ_A]
  BY <1>1, SameLookup DEF lookup
<1>3. coo_num_nonzeros # 0
  BY <1>1 DEF IInv
<1>4. Located(A_gather_locations', output_ptr, NNZ_A)
  <2>1. PICK out : out = Fill(0)
    OBVIOUS
  <2>2. Filled(out, 0, output_ptr[NNZ_A])
    BY <1>2, <2>1 DEF Fill, Filled
  <2>3. NNZ_A \in Nat \ {0} /\ Segments = 0..NNZ_A-1
    BY <1>2, InputFacts
  <2>4. A_gather_locations' =
          InclusiveScanMax(ScatterIf([n \in 0..NNZ_A-1 |-> n], output_ptr, segment_lengths, out))
    BY <2>1, <2>3 DEF LocateA
  <2>5. output_ptr[NNZ_A] # 0
    BY <1>2, <1>3
  <2>6. Located(InclusiveScanMax(ScatterIf([n \in 0..NNZ_A-1 |-> n], output_ptr, segment_lengths, out)),
                output_ptr, NNZ_A)
    BY Zenon, <1>2, <2>2, <2>3, <2>5, LocateAIs
  <2> QED
    BY Zenon, <2>4, <2>6
<1>5. Located(A_gather_locations, output_ptr, NNZ_A)'
  BY <1>2, <1>4
<1> QED
  BY <1>1, <1>2, <1>3, <1>5 DEF IInv

LEMMA LocateBStep == ASSUME IInv, LocateB PROVE IInv'
<1>1. /\ pc = "locateB" /\ pc' = "transform" /\ A' = A /\ B' = B /\ UNCHANGED lookup
      /\ A_gather_locations' = A_gather_locations
  BY DEF LocateB, At
<1>2. /\ NNZ_A' = NNZ_A /\ output_ptr' = output_ptr /\ B_row_offsets' = B_row_offsets
      /\ Inputs(NNZ_A, NNZ_B)' /\ Offsets(B_row_offsets, B, NNZ_B, NColA)'
      /\ Pointers(output_ptr, segment_lengths, B_row_offsets, NNZ_A)'
      /\ Inputs(NNZ_A, NNZ_B) /\ Offsets(B_row_offsets, B, NNZ_B, NColA)
      /\ Pointers(output_ptr, segment_lengths, B_row_offsets, NNZ_A)
      /\ coo_num_nonzeros' = coo_num_nonzeros /\ coo_num_nonzeros = output_ptr[NNZ_A]
  BY <1>1, SameLookup DEF lookup
<1>3. coo_num_nonzeros # 0 /\ Located(A_gather_locations, output_ptr, NNZ_A)
  BY <1>1 DEF IInv
<1>4. Paired(B_gather_locations', A_gather_locations, output_ptr, B_row_offsets, NNZ_A)
  <2>1. PICK out : out = Fill(1)
    OBVIOUS
  <2>2. Filled(out, 1, output_ptr[NNZ_A])
    BY <1>2, <2>1 DEF Fill, Filled
  <2>3. B_gather_locations' =
          InclusiveScanByKey(ScatterIfPermuted(B_row_offsets, A.col, output_ptr, segment_lengths, out),
                             A_gather_locations)
    BY <2>1 DEF LocateB
  <2>4. output_ptr[NNZ_A] # 0
    BY <1>2, <1>3
  <2>5. Paired(InclusiveScanByKey(ScatterIfPermuted(B_row_offsets, A.col, output_ptr, segment_lengths, out),
                                  A_gather_locations),
               A_gather_locations, output_ptr, B_row_offsets, NNZ_A)
    BY Zenon, <1>2, <1>3, <2>2, <2>4, LocateBIs
  <2> QED
    BY Zenon, <2>3, <2>5
<1>5. Paired(B_gather_locations, A_gather_locations, output_ptr, B_row_offsets, NNZ_A)'
  BY <1>1, <1>2, <1>4 DEF Paired, SecondOf
<1>6. Located(A_gather_locations, output_ptr, NNZ_A)'
  BY <1>1, <1>2, <1>3
<1> QED
  BY <1>1, <1>2, <1>3, <1>5, <1>6 DEF IInv

LEMMA MultiplyStep == ASSUME IInv, Multiply PROVE IInv'
<1>1. pc = "transform" /\ pc' = "sort" /\ A' = A /\ B' = B /\ UNCHANGED lookup
  BY DEF Multiply, At
<1>2. /\ Inputs(NNZ_A, NNZ_B)' /\ Offsets(B_row_offsets, B, NNZ_B, NColA)'
      /\ Pointers(output_ptr, segment_lengths, B_row_offsets, NNZ_A)'
      /\ Inputs(NNZ_A, NNZ_B) /\ Offsets(B_row_offsets, B, NNZ_B, NColA)
      /\ Pointers(output_ptr, segment_lengths, B_row_offsets, NNZ_A)
      /\ coo_num_nonzeros' = coo_num_nonzeros /\ coo_num_nonzeros = output_ptr[NNZ_A]
      /\ Products' = Products
  BY <1>1, SameLookup
<1>3. /\ coo_num_nonzeros # 0 /\ Located(A_gather_locations, output_ptr, NNZ_A)
      /\ Paired(B_gather_locations, A_gather_locations, output_ptr, B_row_offsets, NNZ_A)
  BY <1>1 DEF IInv
<1>4. Complete(I', J', V', coo_num_nonzeros)
  <2>1. output_ptr[NNZ_A] # 0
    BY <1>2, <1>3
  <2>2. Complete(Gather(A.row, A_gather_locations), Gather(B.col, B_gather_locations),
                 [k \in DOMAIN A_gather_locations |-> <<A_gather_locations[k], B_gather_locations[k]>>],
                 output_ptr[NNZ_A])
    BY Zenon, <1>2, <1>3, <2>1, MultiplyIs
  <2>3. /\ I' = Gather(A.row, A_gather_locations) /\ J' = Gather(B.col, B_gather_locations)
        /\ V' = [k \in DOMAIN A_gather_locations |-> <<A_gather_locations[k], B_gather_locations[k]>>]
    BY DEF Multiply
  <2> QED
    BY Zenon, <1>2, <2>2, <2>3
<1>5. Complete(I, J, V, coo_num_nonzeros)'
  BY <1>1, <1>2, <1>4 DEF Complete
<1> QED
  BY <1>1, <1>2, <1>3, <1>5 DEF IInv

LEMMA SortStep == ASSUME IInv, Sort PROVE IInv'
<1>1. pc = "sort" /\ pc' = "reduce" /\ A' = A /\ B' = B /\ UNCHANGED lookup
  BY DEF Sort, At
<1>2. /\ Inputs(NNZ_A, NNZ_B)' /\ Offsets(B_row_offsets, B, NNZ_B, NColA)'
      /\ Pointers(output_ptr, segment_lengths, B_row_offsets, NNZ_A)'
      /\ Inputs(NNZ_A, NNZ_B)
      /\ coo_num_nonzeros' = coo_num_nonzeros
      /\ Products' = Products
  BY <1>1, SameLookup
<1>3. PICK t : t = coo_num_nonzeros
  OBVIOUS
<1>4. t # 0 /\ Complete(I, J, V, t)
  BY <1>1, <1>3 DEF IInv
<1>5. PICK p : p = SortPermutation(I, J)
  OBVIOUS
<1>6. Permutation(p, t)
  <2>1. t \in Nat \ {0} /\ DOMAIN I = 0..t-1 /\ DOMAIN J = 0..t-1
    BY <1>4 DEF Complete
  <2>2. \A k \in 0..t-1 : V[k] \in Products /\ I[k] = A.row[V[k][1]] /\ J[k] = B.col[V[k][2]]
    BY <1>4 DEF Complete
  <2>3. \A q \in Products : A.row[q[1]] \in Nat /\ B.col[q[2]] \in Nat
    BY <1>2, InputFacts DEF Products
  <2>4. \A k \in 0..t-1 : I[k] \in Nat /\ J[k] \in Nat
    BY <2>2, <2>3
  <2> QED
    BY <1>5, <2>1, <2>4, SortPermutationIs
<1>7. I' = Gather(I, p) /\ J' = Gather(J, p) /\ V' = Gather(V, p)
  BY <1>5 DEF Sort
<1>8. Complete(I', J', V', t)
  BY <1>4, <1>6, <1>7, SortedIsComplete
<1>9. Complete(I, J, V, coo_num_nonzeros)'
  BY <1>1, <1>2, <1>3, <1>8 DEF Complete
<1> QED
  BY <1>1, <1>2, <1>3, <1>4, <1>9 DEF IInv

LEMMA ReduceStep == ASSUME IInv, Reduce PROVE IInv'
<1>1. /\ pc = "reduce" /\ pc' = "done" /\ A' = A /\ B' = B /\ UNCHANGED lookup
      /\ I' = I /\ J' = J /\ V' = V
  BY DEF Reduce, At, workspace
<1>2. /\ Inputs(NNZ_A, NNZ_B)' /\ Offsets(B_row_offsets, B, NNZ_B, NColA)'
      /\ Pointers(output_ptr, segment_lengths, B_row_offsets, NNZ_A)'
      /\ Inputs(NNZ_A, NNZ_B)
      /\ coo_num_nonzeros' = coo_num_nonzeros
      /\ Products' = Products
  BY <1>1, SameLookup
<1>3. PICK t : t = coo_num_nonzeros
  OBVIOUS
<1>4. t # 0 /\ Complete(I, J, V, t)
  BY <1>1, <1>3 DEF IInv
<1>5. PICK keys : keys = Keys
  OBVIOUS
<1>6. KeysOf(keys, I, J)
  BY <1>5 DEF Keys, KeysOf
<1>7. PICK n \in Nat : n = t - 1
  BY <1>4 DEF Complete
<1>8. DOMAIN keys = 0..n
  BY <1>4, <1>6, <1>7 DEF Complete, KeysOf
<1>9. PICK run, count : run = RunOf(keys) /\ count = CalculateNNZ(keys)
  OBVIOUS
<1>10. Runs(run, keys, n, count)
  BY <1>8, <1>9, RunsAre
<1>11. Reduced(C', I, J, V, run, keys, count)
  <2> DEFINE Members(c) == {k \in DOMAIN keys : run[k] = c}
             Entry(c) == LET k == CHOOSE k \in Members(c) : TRUE
                         IN  [row |-> I[k], col |-> J[k], val |-> {V[m] : m \in Members(c)}]
  <2>1. C' = [c \in 0..count-1 |-> IF Members(c) = {} THEN Unwritten ELSE Entry(c)]
    BY <1>5, <1>9 DEF Reduce
  <2>2. ASSUME NEW c \in 0..count-1
        PROVE  \E k \in DOMAIN keys :
                 /\ run[k] = c
                 /\ C'[c] = [row |-> I[k], col |-> J[k],
                             val |-> {V[m] : m \in {l \in DOMAIN keys : run[l] = c}}]
    <3>1. Members(c) # {}
      BY <1>8, <1>10 DEF Runs
    <3>2. PICK k : k = CHOOSE x \in Members(c) : TRUE
      OBVIOUS
    <3>3. k \in Members(c)
      BY <3>1, <3>2
    <3>4. C'[c] = Entry(c)
      BY <2>1, <3>1
    <3>5. Entry(c) = [row |-> I[k], col |-> J[k], val |-> {V[m] : m \in Members(c)}]
      BY <3>2
    <3> QED
      BY <3>3, <3>4, <3>5
  <2>3. DOMAIN C' = 0..count-1
    BY <2>1
  <2> QED
    BY <2>2, <2>3 DEF Reduced
<1>12. PICK c : c = C'
  OBVIOUS
<1>13. Reduced(c, I, J, V, run, keys, count)
  BY Zenon, <1>11, <1>12
<1>14. Exact(c)
  BY Zenon, <1>2, <1>4, <1>6, <1>7, <1>10, <1>13, ReducedIsExact
<1>15. Exact(C)'
  BY <1>1, <1>2, <1>12, <1>14 DEF Exact, Unwritten
<1>16. Complete(I, J, V, coo_num_nonzeros)'
  BY <1>1, <1>2, <1>3, <1>4 DEF Complete
<1> QED
  BY <1>1, <1>2, <1>15, <1>16 DEF IInv

(* The steps that end the program, and those that are not any.             *)
LEMMA StillStep == ASSUME IInv, SortAborts \/ UNCHANGED vars PROVE IInv'
<1>1. CASE SortAborts
  <2>1. pc = "sort" /\ pc' = "aborted" /\ A' = A /\ B' = B /\ UNCHANGED lookup
    BY <1>1 DEF SortAborts, At
  <2>2. /\ Inputs(NNZ_A, NNZ_B)' /\ Offsets(B_row_offsets, B, NNZ_B, NColA)'
        /\ Pointers(output_ptr, segment_lengths, B_row_offsets, NNZ_A)'
    BY <2>1, SameLookup
  <2> QED
    BY <2>1, <2>2 DEF IInv
<1>2. CASE UNCHANGED vars
  <2>1. /\ A' = A /\ B' = B /\ pc' = pc /\ lookup' = lookup /\ C' = C
        /\ locations' = locations /\ workspace' = workspace
    BY <1>2 DEF vars
  <2>2. /\ I' = I /\ J' = J /\ V' = V
        /\ B_row_offsets' = B_row_offsets /\ segment_lengths' = segment_lengths
        /\ output_ptr' = output_ptr
        /\ A_gather_locations' = A_gather_locations /\ B_gather_locations' = B_gather_locations
    BY <2>1 DEF lookup, locations, workspace
  <2>3. NNZ_A' = NNZ_A /\ NNZ_B' = NNZ_B /\ Products' = Products
        /\ coo_num_nonzeros' = coo_num_nonzeros
    BY <2>1, <2>2, SameMatrices DEF coo_num_nonzeros
  <2>4. Inputs(NNZ_A, NNZ_B)'
    BY <2>1, <2>3 DEF IInv, Inputs
  <2>5. pc # "offsets" =>
          /\ Offsets(B_row_offsets, B, NNZ_B, NColA)'
          /\ Pointers(output_ptr, segment_lengths, B_row_offsets, NNZ_A)'
    BY <2>1, <2>2, <2>3 DEF IInv, Pointers
  <2>6. pc = "transform" =>
          Paired(B_gather_locations, A_gather_locations, output_ptr, B_row_offsets, NNZ_A)'
    BY <2>1, <2>2, <2>3 DEF IInv, Paired, SecondOf
  <2>7. Complete(I, J, V, coo_num_nonzeros) => Complete(I, J, V, coo_num_nonzeros)'
    BY <2>1, <2>2, <2>3 DEF Complete
  <2>8. Exact(C) => Exact(C)'
    BY <2>1, <2>3 DEF Exact, Unwritten
  <2>9. pc \in {"locateB", "transform"} => Located(A_gather_locations, output_ptr, NNZ_A)'
    BY <2>2, <2>3 DEF IInv
  <2> QED
    BY <2>1, <2>2, <2>3, <2>4, <2>5, <2>6, <2>7, <2>8, <2>9 DEF IInv
<1> QED
  BY <1>1, <1>2

(* Init establishes the invariant, and every step of the program keeps it. *)
THEOREM InvariantHolds == Spec => []IInv
<1>1. Init => IInv
  BY InitEstablishes
<1>2. ASSUME IInv, [Next]_vars PROVE IInv'
  <2>1. CASE CountProducts
    BY <2>1, <1>2, CountProductsStep
  <2>2. CASE OneHit \/ Slice
    BY <2>2, <1>2, ChooseStep
  <2>3. CASE LocateA
    BY <2>3, <1>2, LocateAStep
  <2>4. CASE LocateB
    BY <2>4, <1>2, LocateBStep
  <2>5. CASE Multiply
    BY <2>5, <1>2, MultiplyStep
  <2>6. CASE Sort
    BY <2>6, <1>2, SortStep
  <2>7. CASE Reduce
    BY <2>7, <1>2, ReduceStep
  <2>8. CASE SortAborts \/ UNCHANGED vars
    BY <2>8, <1>2, StillStep
  <2>9. CASE AtRest
    BY <2>8, <2>9 DEF AtRest
  <2> QED
    BY <1>2, <2>1, <2>2, <2>3, <2>4, <2>5, <2>6, <2>7, <2>8, <2>9 DEF Next
<1> QED
  BY <1>1, <1>2, PTL DEF Spec

-----------------------------------------------------------------------------

(* There are finitely many products.                                       *)
LEMMA ProductsFinite == ASSUME NEW nA, NEW nB, Inputs(nA, nB) PROVE IsFiniteSet(Products)
<1>1. Products \subseteq (0..nA-1) \X (0..nB-1)
  BY InputFacts DEF Products
<1>2. IsFiniteSet(0..nA-1) /\ IsFiniteSet(0..nB-1)
  BY InputFacts, FS_Interval
<1> QED
  BY <1>1, <1>2, FS_Product, FS_Subset

(* Two scatters and two scans (coo_spmm_helper) place every product of the *)
(* definition of A B in the workspace, each once and in its own row and    *)
(* column, for matrices of every size, with or without empty rows; and the *)
(* sort, which moves keys and values by one permutation, loses none.       *)
THEOREM WorkspaceIsExact == Spec => []WorkspaceExact
<1>1. IInv => WorkspaceExact
  <2> SUFFICES ASSUME IInv, pc \in {"sort", "reduce", "done"}
               PROVE  /\ Cardinality(Products) = coo_num_nonzeros
                      /\ {<<I[k], J[k], V[k]>> : k \in DOMAIN V} =
                           {<<A.row[p[1]], B.col[p[2]], p>> : p \in Products}
    BY DEF WorkspaceExact
  <2>1. Inputs(NNZ_A, NNZ_B) /\ Pointers(output_ptr, segment_lengths, B_row_offsets, NNZ_A)
    BY DEF IInv
  <2>2. Cardinality(Products) = coo_num_nonzeros
    BY <2>1 DEF Pointers, coo_num_nonzeros
  <2>3. CASE Complete(I, J, V, coo_num_nonzeros)
    <3>1. PICK t : t = coo_num_nonzeros
      OBVIOUS
    <3>2. /\ DOMAIN V = 0..t-1
          /\ \A k \in 0..t-1 : V[k] \in Products /\ I[k] = A.row[V[k][1]] /\ J[k] = B.col[V[k][2]]
          /\ \A p \in Products : \E k \in 0..t-1 : V[k] = p
      BY <2>3, <3>1 DEF Complete
    <3>3. \A k \in 0..t-1 : <<I[k], J[k], V[k]>> \in {<<A.row[p[1]], B.col[p[2]], p>> : p \in Products}
      BY <3>2
    <3>4. \A p \in Products : <<A.row[p[1]], B.col[p[2]], p>> \in {<<I[k], J[k], V[k]>> : k \in DOMAIN V}
      <4> TAKE p \in Products
      <4>1. PICK k \in 0..t-1 : V[k] = p
        BY <3>2
      <4>2. <<A.row[p[1]], B.col[p[2]], p>> = <<I[k], J[k], V[k]>> /\ k \in DOMAIN V
        BY <3>2, <4>1
      <4> QED
        BY <4>2
    <3> QED
      BY <2>2, <3>2, <3>3, <3>4
  <2>4. CASE coo_num_nonzeros = 0 /\ V = Empty
    <3>1. Products = {}
      BY <2>1, <2>2, <2>4, ProductsFinite, FS_EmptySet
    <3>2. DOMAIN V = {}
      BY <2>4 DEF Empty
    <3> QED
      BY <2>2, <3>1, <3>2
  <2> QED
    BY <2>3, <2>4 DEF IInv
<1> QED
  BY <1>1, InvariantHolds, PTL

(* The result of coo_spmm_helper, for matrices of every size: calculate_NNZ *)
(* counts the runs that reduce_by_key fills, so that no element of C stays *)
(* as it was allocated, and every product is added to one element, which   *)
(* has its row and column.                                                 *)
THEOREM ResultIsExact == Spec => []ResultExact
<1>1. IInv => ResultExact
  <2> SUFFICES ASSUME IInv, pc = "done", coo_num_nonzeros > 0 PROVE Exact(C)
    BY DEF ResultExact, Exact
  <2>1. coo_num_nonzeros # 0
    OBVIOUS
  <2> QED
    BY <2>1 DEF IInv
<1> QED
  BY <1>1, InvariantHolds, PTL

-----------------------------------------------------------------------------
(* Running sums.                                                           *)

(* Starts is the only array that satisfies the recursion.                  *)
Sums0(g, count) ==
  /\ g = [r \in 0..NRow |-> g[r]]
  /\ g[0] = 0
  /\ \A r \in Rows : g[r + 1] = g[r] + count[r]

LEMMA StartsUnique ==
  ASSUME NEW count, NEW g, Sums0(g, count)
  PROVE  Starts(count) = g
<1> DEFINE in == [r \in 0..NRow |-> IF r < NRow THEN count[r] ELSE 0]
<1>1. NRow \in Nat
  BY FormatsAssumption
<1>2. DOMAIN in = 0..NRow
  OBVIOUS
<1>3. Array(g, NRow) /\ g[0] = 0
  BY DEF Array, Sums0
<1>4. \A i \in 1..NRow : g[i] = g[i - 1] + in[i - 1]
  <2> TAKE i \in 1..NRow
  <2>1. PICK r \in Rows : r = i - 1 /\ i = r + 1
    BY <1>1 DEF Rows
  <2>2. in[r] = count[r]
    BY <1>1 DEF Rows
  <2> HIDE DEF in
  <2> QED
    BY <2>1, <2>2 DEF Sums0
<1>5. Starts(count) = ExclusiveScan(in)
  BY DEF Starts
<1> HIDE DEF in
<1> QED
  BY Zenon, <1>1, <1>2, <1>3, <1>4, <1>5, ExclusiveScanIs

(* It satisfies the recursion, since there is an array that does: the      *)
(* numbers of pairs of a row before r and a number below its count.        *)
LEMMA StartsAre ==
  ASSUME NEW N \in Nat, NEW count, \A r \in Rows : count[r] \in 0..N
  PROVE  /\ Starts(count) \in [0..NRow -> Nat]
         /\ Sums0(Starts(count), count)
<1> DEFINE Pairs(r) == {p \in (0..NRow-1) \X (0..N-1) : p[1] < r /\ p[2] < count[p[1]]}
           Row(r) == {p \in (0..NRow-1) \X (0..N-1) : p[1] = r /\ p[2] < count[r]}
<1> PICK g : g = [r \in 0..NRow |-> Cardinality(Pairs(r))]
  OBVIOUS
<1>1. NRow \in Nat /\ \A r \in 0..NRow-1 : count[r] \in 0..N
  BY FormatsAssumption DEF Rows
<1>2. \A k \in Nat : IsFiniteSet(0..k-1) /\ Cardinality(0..k-1) = k
  <2> TAKE k \in Nat
  <2>1. 0 \in Int /\ k - 1 \in Int
    OBVIOUS
  <2>2. IsFiniteSet(0..k-1) /\ Cardinality(0..k-1) = IF 0 > k - 1 THEN 0 ELSE k - 1 - 0 + 1
    BY <2>1, FS_Interval
  <2> QED
    BY <2>2
<1>3. IsFiniteSet((0..NRow-1) \X (0..N-1))
  BY <1>1, <1>2, FS_Product
<1>4. \A r : IsFiniteSet(Pairs(r)) /\ IsFiniteSet(Row(r))
  BY <1>3, FS_Subset
<1>5. \A r : Cardinality(Pairs(r)) \in Nat
  <2> HIDE DEF Pairs, Row
  <2> QED
    BY <1>4, FS_CardinalityType
<1>6. Pairs(0) = {}
  BY <1>1
<1>7. ASSUME NEW r \in 0..NRow-1
      PROVE  Cardinality(Pairs(r + 1)) = Cardinality(Pairs(r)) + count[r]
  <2>1. Pairs(r + 1) = Pairs(r) \cup Row(r) /\ Pairs(r) \cap Row(r) = {}
    <3>1. \A p \in (0..NRow-1) \X (0..N-1) : p[1] \in 0..NRow-1
      OBVIOUS
    <3>2. \A k \in 0..NRow-1 : (k < r + 1 <=> k < r \/ k = r) /\ ~ (k < r /\ k = r)
      BY <1>1
    <3> QED
      BY <3>1, <3>2
  <2>2. Cardinality(Row(r)) = count[r]
    <3> PICK c : c = count[r]
      OBVIOUS
    <3>1. c \in 0..N
      BY <1>1
    <3> PICK f : f = [k \in 0..c-1 |-> <<r, k>>]
      OBVIOUS
    <3>2. \A k \in 0..c-1 : f[k] = <<r, k>> /\ f[k] \in Row(r)
      BY <1>1, <3>1
    <3>3. \A p \in Row(r) : p[2] \in 0..c-1 /\ p = <<r, p[2]>>
      BY <1>1, <3>1
    <3> HIDE DEF Row
    <3>4. \A k, m \in 0..c-1 : f[k] = f[m] => k = m
      BY <3>2
    <3>5. \A p \in Row(r) : \E k \in 0..c-1 : f[k] = p
      BY <3>2, <3>3
    <3>6. f \in [0..c-1 -> Row(r)]
      BY <3>2
    <3>7. f \in Bijection(0..c-1, Row(r))
      BY <3>4, <3>5, <3>6 DEF Bijection, Injection, Surjection, IsInjective
    <3>8. IsFiniteSet(0..c-1) /\ Cardinality(0..c-1) = c
      BY <1>2, <3>1
    <3>9. Cardinality(0..c-1) = Cardinality(Row(r))
      <4>1. ExistsBijection(0..c-1, Row(r))
      BY <3>7 DEF ExistsBijection
    <4> QED
      BY Zenon, <3>8, <4>1, FS_Bijection
    <3> QED
      BY <3>8, <3>9
  <2> HIDE DEF Pairs, Row
  <2> QED
    BY <1>4, <2>1, <2>2, DisjointUnion
<1> HIDE DEF Pairs, Row
<1>8. g[0] = 0
  <2>1. 0 \in 0..NRow
    BY <1>1
  <2>2. g[0] = Cardinality(Pairs(0))
    BY <2>1
  <2> QED
    BY Zenon, <1>6, <2>2, FS_EmptySet
<1>9. \A r \in Rows : g[r + 1] = g[r] + count[r]
  <2> TAKE r \in Rows
  <2>1. r \in 0..NRow-1 /\ r \in 0..NRow /\ r + 1 \in 0..NRow
    BY <1>1 DEF Rows
  <2>2. g[r] = Cardinality(Pairs(r)) /\ g[r + 1] = Cardinality(Pairs(r + 1))
    BY <2>1
  <2> QED
    BY <1>7, <2>1, <2>2
<1>10. Sums0(g, count)
  <2>1. g = [r \in 0..NRow |-> g[r]]
    OBVIOUS
  <2> QED
    BY <1>8, <1>9, <2>1 DEF Sums0
<1>11. Starts(count) = g
  BY <1>10, StartsUnique
<1>12. g \in [0..NRow -> Nat]
  BY <1>5
<1> QED
  BY <1>10, <1>11, <1>12

(* Offsets of rows: they grow from 0 to n.                                 *)
RowOffsets(off, n) ==
  /\ off \in [0..NRow -> Nat]
  /\ off[0] = 0 /\ off[NRow] = n
  /\ \A r \in Rows : off[r] <= off[r + 1]

LEMMA Monotone ==
  ASSUME NEW off, NEW n, RowOffsets(off, n), NEW r \in 0..NRow, NEW s \in 0..NRow, r <= s
  PROVE  off[r] <= off[s]
<1>1. NRow \in Nat /\ \A k \in 0..NRow : off[k] \in Nat
  BY FormatsAssumption DEF RowOffsets
<1> DEFINE T == {k \in 0..NRow : r <= k /\ off[k] < off[r]}
<1> SUFFICES ASSUME T # {} PROVE FALSE
  BY <1>1
<1>2. T \subseteq Nat
  OBVIOUS
<1>3. \A k : k \in T => k \in 0..NRow /\ r <= k /\ off[k] < off[r]
  OBVIOUS
<1>4. \A k \in 0..NRow : r <= k /\ k \notin T => off[r] <= off[k]
  BY <1>1
<1> HIDE DEF T
<1>5. PICK m \in T : \A k \in T : m <= k
  BY <1>2, LeastOf
<1>6. m # r
  BY <1>1, <1>3, <1>5
<1>7. PICK k \in 0..NRow : k = m - 1 /\ m = k + 1 /\ r <= k /\ k \in 0..NRow-1
  BY <1>1, <1>3, <1>5, <1>6
<1>8. k \notin T
  BY <1>5, <1>7
<1>9. off[r] <= off[k]
  BY <1>4, <1>7, <1>8
<1>10. off[k] <= off[m]
  BY <1>7 DEF RowOffsets, Rows
<1>11. off[m] < off[r] /\ m \in 0..NRow
  BY <1>3, <1>5
<1> QED
  BY <1>1, <1>9, <1>10, <1>11

Holds(off, r, d) == off[r] <= d /\ d < off[r + 1]

(* Every index is in one row.                                              *)
LEMMA InOneRow ==
  ASSUME NEW off, NEW n, RowOffsets(off, n)
  PROVE  /\ \A r \in Rows : off[r] \in 0..n /\ off[r + 1] \in 0..n /\ r \in 0..NRow /\ r + 1 \in 0..NRow
         /\ \A d \in 0..n-1 : \E r \in Rows : Holds(off, r, d)
         /\ \A d \in Nat : \A r, s \in Rows : Holds(off, r, d) /\ Holds(off, s, d) => r = s
<1>1. NRow \in Nat /\ \A k \in 0..NRow : off[k] \in Nat
  BY FormatsAssumption DEF RowOffsets
<1>2. n \in Nat /\ off[NRow] = n /\ off[0] = 0
  BY <1>1 DEF RowOffsets
<1>3. \A r, s \in 0..NRow : r <= s => off[r] <= off[s]
  BY Monotone
<1>4. \A r \in Rows : r \in 0..NRow /\ r + 1 \in 0..NRow
  BY <1>1 DEF Rows
<1>5. \A r \in 0..NRow : off[r] \in 0..n
  <2> TAKE r \in 0..NRow
  <2>1. off[r] <= off[NRow] /\ off[r] \in Nat
    BY <1>1, <1>3
  <2> QED
    BY <1>2, <2>1
<1>6. ASSUME NEW d \in 0..n-1 PROVE \E r \in Rows : Holds(off, r, d)
  <2> DEFINE T == {k \in 0..NRow : d < off[k]}
  <2>1. T \subseteq Nat /\ NRow \in T
    BY <1>1, <1>2
  <2>2. \A k : k \in T <=> k \in 0..NRow /\ d < off[k]
    OBVIOUS
  <2> HIDE DEF T
  <2>3. PICK m \in T : \A k \in T : m <= k
    BY <2>1, LeastOf
  <2>4. m # 0
    BY <1>2, <2>2
  <2>5. PICK r \in Rows : r = m - 1 /\ m = r + 1 /\ r \in 0..NRow
    BY <1>1, <2>2, <2>4 DEF Rows
  <2>6. r \notin T
    BY <2>3, <2>5
  <2>7. off[r] <= d
    BY <1>1, <2>2, <2>5, <2>6
  <2>8. d < off[r + 1]
    BY <2>2, <2>5
  <2> QED
    BY <2>7, <2>8 DEF Holds
<1>7. ASSUME NEW d \in Nat, NEW r \in Rows, NEW s \in Rows, Holds(off, r, d), Holds(off, s, d), r < s
      PROVE  FALSE
  <2>1. r + 1 \in 0..NRow /\ s \in 0..NRow /\ r + 1 <= s
    BY <1>1, <1>7 DEF Rows
  <2>2. off[r + 1] <= off[s]
    BY <1>3, <2>1
  <2>3. off[r + 1] \in Nat /\ off[s] \in Nat
    BY <1>1, <2>1
  <2>4. d < off[r + 1] /\ off[s] <= d
    BY <1>7 DEF Holds
  <2> QED
    BY <2>2, <2>3, <2>4
<1>8. \A r, s \in Rows : r < s \/ s < r \/ r = s
  BY <1>1 DEF Rows
<1> QED
  BY <1>4, <1>5, <1>6, <1>7, <1>8

(* The numbers from a up to a + l - 1 in ascending order.                  *)
LEMMA AscendingInterval ==
  ASSUME NEW a \in Nat, NEW l \in Nat, NEW S, \A k : k \in S <=> k \in Nat /\ a <= k /\ k < a + l
  PROVE  Ascending(S) = [i \in 0..l-1 |-> a + i]
<1>1. ASSUME NEW x \in S
      PROVE  /\ IsFiniteSet({k \in S : k < x})
             /\ Cardinality({k \in S : k < x}) = x - a
  <2>1. a \in Int /\ x - 1 \in Int /\ a <= x
    OBVIOUS
  <2>2. \A k : k \in {m \in S : m < x} <=> k \in a..x-1
    OBVIOUS
  <2>3. {k \in S : k < x} = a..x-1
    BY <2>2
  <2>4. IsFiniteSet(a..x-1) /\ Cardinality(a..x-1) = IF a > x - 1 THEN 0 ELSE x - 1 - a + 1
    BY <2>1, FS_Interval
  <2>5. Cardinality(a..x-1) = x - a
    BY <2>1, <2>4
  <2> QED
    BY Zenon, <2>3, <2>4, <2>5
<1>2. Cardinality(S) = l
  <2>1. a \in Int /\ a + l - 1 \in Int
    OBVIOUS
  <2>2. \A k : k \in S <=> k \in a..(a + l - 1)
    OBVIOUS
  <2>3. S = a..(a + l - 1)
    BY <2>2
  <2>4. Cardinality(a..(a + l - 1)) = IF a > a + l - 1 THEN 0 ELSE a + l - 1 - a + 1
    BY <2>1, FS_Interval
  <2> QED
    BY <2>3, <2>4
<1>3. ASSUME NEW i \in 0..l-1
      PROVE  (CHOOSE x \in S : Cardinality({k \in S : k < x}) = i) = a + i
  <2>1. a + i \in S
    OBVIOUS
  <2>2. \A x \in S : Cardinality({k \in S : k < x}) = i <=> x = a + i
    BY <1>1
  <2> QED
    BY <2>1, <2>2
<1>4. Ascending(S) = [i \in 0..Cardinality(S)-1 |-> CHOOSE x \in S : Cardinality({k \in S : k < x}) = i]
  BY DEF Ascending, Sorted
<1>5. Ascending(S) = [i \in 0..l-1 |-> CHOOSE x \in S : Cardinality({k \in S : k < x}) = i]
  BY <1>2, <1>4
<1> QED
  BY <1>3, <1>5

-----------------------------------------------------------------------------
(* From COO to CSR.                                                        *)

(* What is in one-to-one correspondence is as many.                        *)
LEMMA SameNumber ==
  ASSUME NEW S, NEW T, IsFiniteSet(S), NEW f, \A x \in S : f[x] \in T,
         \A x, z \in S : f[x] = f[z] => x = z, \A t \in T : \E x \in S : f[x] = t
  PROVE  IsFiniteSet(T) /\ Cardinality(T) = Cardinality(S)
<1> PICK g : g = [x \in S |-> f[x]]
  OBVIOUS
<1>1. g \in Bijection(S, T)
  BY DEF Bijection, Injection, Surjection, IsInjective
<1>2. ExistsBijection(S, T)
  BY <1>1 DEF ExistsBijection
<1> QED
  BY Zenon, <1>2, FS_Bijection

Zeros == [r \in 0..NRow |-> 0]

(* An array of n entries of a matrix.                                      *)
Entries(ent, n) ==
  /\ DOMAIN ent = 0..n-1
  /\ \A i \in 0..n-1 : ent[i] \in [row : Rows, col : Cols, val : Positions]

Built(ent, n) == CsrOf(ent, n, CooStarts(ent, Zeros))

(* Every entry has a place of its own, in its row.                         *)
Placed(ent, n, off) ==
  /\ RowOffsets(off, n)
  /\ \A k \in 0..n-1 : Dest(ent, off, k) \in 0..n-1 /\ Holds(off, ent[k].row, Dest(ent, off, k))
  /\ \A k, m \in 0..n-1 : Dest(ent, off, k) = Dest(ent, off, m) => k = m
  /\ \A d \in 0..n-1 : \E k \in 0..n-1 : Dest(ent, off, k) = d

Below(ent, n, r) == {i \in 0..n-1 : ent[i].row < r}

LEMMA BelowAndIn ==
  ASSUME NEW n \in Nat, NEW ent, Entries(ent, n)
  PROVE  /\ \A r : IsFiniteSet(Below(ent, n, r)) /\ Cardinality(Below(ent, n, r)) \in 0..n
         /\ \A r : IsFiniteSet(InRow(ent, r)) /\ Cardinality(InRow(ent, r)) \in 0..n
         /\ Cardinality(Below(ent, n, 0)) = 0
         /\ Cardinality(Below(ent, n, NRow)) = n
         /\ \A r \in Rows : /\ Below(ent, n, r) \cap InRow(ent, r) = {}
                            /\ Cardinality(Below(ent, n, r + 1))
                                 = Cardinality(Below(ent, n, r)) + Cardinality(InRow(ent, r))
<1>1. IsFiniteSet(0..n-1) /\ Cardinality(0..n-1) = n
  <2>1. 0 \in Int /\ n - 1 \in Int
    OBVIOUS
  <2>2. IsFiniteSet(0..n-1) /\ Cardinality(0..n-1) = IF 0 > n - 1 THEN 0 ELSE n - 1 - 0 + 1
    BY <2>1, FS_Interval
  <2> QED
    BY <2>2
<1>2. NRow \in Nat /\ \A i \in 0..n-1 : ent[i].row \in 0..NRow-1
  BY FormatsAssumption DEF Entries, Rows
<1>3. ASSUME NEW S, S \subseteq 0..n-1 PROVE IsFiniteSet(S) /\ Cardinality(S) \in 0..n
  <2>1. IsFiniteSet(S) /\ Cardinality(S) <= Cardinality(0..n-1)
    BY <1>1, <1>3, FS_Subset
  <2>2. Cardinality(S) \in Nat
    BY <2>1, FS_CardinalityType
  <2> QED
    BY <1>1, <2>1, <2>2
<1>4. \A r : Below(ent, n, r) \subseteq 0..n-1 /\ InRow(ent, r) \subseteq 0..n-1
  BY DEF Below, InRow, Entries
<1>5. Below(ent, n, 0) = {} /\ Below(ent, n, NRow) = 0..n-1
  BY <1>2 DEF Below
<1>6. \A r : /\ IsFiniteSet(Below(ent, n, r)) /\ Cardinality(Below(ent, n, r)) \in 0..n
             /\ IsFiniteSet(InRow(ent, r)) /\ Cardinality(InRow(ent, r)) \in 0..n
  BY <1>3, <1>4
<1>7. ASSUME NEW r \in Rows
      PROVE  /\ Below(ent, n, r) \cap InRow(ent, r) = {}
             /\ Cardinality(Below(ent, n, r + 1))
                  = Cardinality(Below(ent, n, r)) + Cardinality(InRow(ent, r))
  <2>1. \A i \in 0..n-1 : /\ ent[i].row < r + 1 <=> ent[i].row < r \/ ent[i].row = r
                          /\ ~ (ent[i].row < r /\ ent[i].row = r)
    BY <1>2 DEF Rows
  <2>2. InRow(ent, r) = {i \in 0..n-1 : ent[i].row = r}
    BY DEF InRow, Entries
  <2>3. Below(ent, n, r + 1) = Below(ent, n, r) \cup InRow(ent, r)
        /\ Below(ent, n, r) \cap InRow(ent, r) = {}
    BY <2>1, <2>2 DEF Below
  <2> QED
    BY Zenon, <1>6, <2>3, DisjointUnion
<1>8. Cardinality({}) = 0
  BY FS_EmptySet
<1> QED
  BY Zenon, <1>1, <1>5, <1>6, <1>7, <1>8

(* The offsets of a CSR matrix are the numbers of entries before its rows. *)
LEMMA CooStartsAre ==
  ASSUME NEW n \in Nat, NEW ent, Entries(ent, n)
  PROVE  /\ RowOffsets(CooStarts(ent, Zeros), n)
         /\ \A r \in 0..NRow : CooStarts(ent, Zeros)[r] = Cardinality(Below(ent, n, r))
         /\ \A r \in Rows : CooStarts(ent, Zeros)[r + 1]
                              = CooStarts(ent, Zeros)[r] + Cardinality(InRow(ent, r))
<1>1. NRow \in Nat /\ 0 \in 0..NRow /\ NRow \in 0..NRow
      /\ \A r \in Rows : r \in 0..NRow /\ r + 1 \in 0..NRow
  BY FormatsAssumption DEF Rows
<1> PICK count : count = [r \in Rows |-> Zeros[r] + Cardinality(InRow(ent, r))]
  OBVIOUS
<1>2. \A r \in Rows : count[r] = Cardinality(InRow(ent, r))
  <2> TAKE r \in Rows
  <2>1. Zeros[r] = 0
    BY <1>1 DEF Zeros
  <2>2. Cardinality(InRow(ent, r)) \in 0..n
    BY BelowAndIn
  <2>3. count[r] = 0 + Cardinality(InRow(ent, r))
    BY <2>1
  <2> QED
    BY <2>2, <2>3
<1> PICK g : g = [r \in 0..NRow |-> Cardinality(Below(ent, n, r))]
  OBVIOUS
<1>3. CooStarts(ent, Zeros) = Starts(count)
  BY DEF CooStarts
<1>4. \A r \in 0..NRow : g[r] = Cardinality(Below(ent, n, r))
  OBVIOUS
<1>5. g[0] = 0 /\ g[NRow] = n
  BY <1>1, <1>4, BelowAndIn
<1>6. \A r \in Rows : g[r + 1] = g[r] + count[r]
  BY <1>1, <1>2, <1>4, BelowAndIn
<1>7. Sums0(g, count)
  <2>1. g = [r \in 0..NRow |-> g[r]]
    OBVIOUS
  <2> QED
    BY <1>5, <1>6, <2>1 DEF Sums0
<1>8. Starts(count) = g
  BY <1>7, StartsUnique
<1>9. g \in [0..NRow -> Nat]
  BY BelowAndIn
<1>10. \A r \in Rows : g[r] <= g[r + 1]
  <2> TAKE r \in Rows
  <2>1. g[r + 1] = g[r] + count[r] /\ g[r] \in Nat
    BY <1>1, <1>6, <1>9
  <2>2. count[r] \in 0..n
    BY <1>2, BelowAndIn
  <2> QED
    BY <2>1, <2>2
<1>11. RowOffsets(g, n)
  BY <1>5, <1>9, <1>10 DEF RowOffsets
<1> QED
  BY <1>2, <1>3, <1>4, <1>6, <1>8, <1>11

(* A destination is the number of entries in rows before, or before in the *)
(* same row: the rank of the entry.                                        *)
LEMMA CooPlaced ==
  ASSUME NEW n \in Nat, NEW ent, Entries(ent, n)
  PROVE  Placed(ent, n, CooStarts(ent, Zeros))
<1> PICK off : off = CooStarts(ent, Zeros)
  OBVIOUS
<1>1. /\ RowOffsets(off, n)
      /\ \A r \in 0..NRow : off[r] = Cardinality(Below(ent, n, r))
      /\ \A r \in Rows : off[r + 1] = off[r] + Cardinality(InRow(ent, r))
  BY CooStartsAre
<1> DEFINE R == {p \in (0..n-1) \X (0..n-1) : \/ ent[p[1]].row < ent[p[2]].row
                                              \/ ent[p[1]].row = ent[p[2]].row /\ p[1] < p[2]}
           Earlier0(k) == {i \in InRow(ent, ent[k].row) : i < k}
<1>2. NRow \in Nat /\ \A i \in 0..n-1 : ent[i].row \in 0..NRow-1 /\ ent[i].row \in Rows /\ ent[i].row \in 0..NRow
  BY FormatsAssumption DEF Entries, Rows
<1>3. TotalOrder(R, 0..n-1)
  <2>1. \A i, k \in 0..n-1 : <<i, k>> \in R <=> \/ ent[i].row < ent[k].row
                                                \/ ent[i].row = ent[k].row /\ i < k
    OBVIOUS
  <2>2. \A i \in 0..n-1 : ent[i].row \in Nat
    BY <1>2
  <2> HIDE DEF R
  <2> QED
    BY <2>1, <2>2 DEF TotalOrder
<1>4. ASSUME NEW k \in 0..n-1
      PROVE  Dest(ent, off, k) = Cardinality(Lower(R, 0..n-1, k))
  <2>1. InRow(ent, ent[k].row) = {i \in 0..n-1 : ent[i].row = ent[k].row}
    BY DEF InRow, Entries
  <2>2. Lower(R, 0..n-1, k) = Below(ent, n, ent[k].row) \cup Earlier0(k)
    BY <2>1 DEF Lower, Below
  <2>3. Below(ent, n, ent[k].row) \cap InRow(ent, ent[k].row) = {}
    BY <1>2, BelowAndIn
  <2>4. Below(ent, n, ent[k].row) \cap Earlier0(k) = {}
    BY <2>3
  <2>5. IsFiniteSet(Below(ent, n, ent[k].row)) /\ IsFiniteSet(Earlier0(k))
    <3>1. Earlier0(k) \subseteq InRow(ent, ent[k].row)
      OBVIOUS
    <3>2. IsFiniteSet(InRow(ent, ent[k].row)) /\ IsFiniteSet(Below(ent, n, ent[k].row))
      BY BelowAndIn
    <3> HIDE DEF Earlier0
    <3> QED
      BY Zenon, <3>1, <3>2, FS_Subset
  <2>6. off[ent[k].row] = Cardinality(Below(ent, n, ent[k].row))
    BY <1>1, <1>2
  <2>7. Dest(ent, off, k) = off[ent[k].row] + Cardinality(Earlier0(k))
    BY DEF Dest
  <2> HIDE DEF R, Earlier0
  <2>8. Cardinality(Below(ent, n, ent[k].row) \cup Earlier0(k))
          = Cardinality(Below(ent, n, ent[k].row)) + Cardinality(Earlier0(k))
    BY Zenon, <2>4, <2>5, DisjointUnion
  <2> QED
    BY Zenon, <2>2, <2>6, <2>7, <2>8
<1>5. IsFiniteSet(0..n-1) /\ Cardinality(0..n-1) = n
  <2>1. 0 \in Int /\ n - 1 \in Int
    OBVIOUS
  <2>2. IsFiniteSet(0..n-1) /\ Cardinality(0..n-1) = IF 0 > n - 1 THEN 0 ELSE n - 1 - 0 + 1
    BY <2>1, FS_Interval
  <2> QED
    BY <2>2
<1>6. ASSUME NEW k \in 0..n-1 PROVE Holds(off, ent[k].row, Dest(ent, off, k))
  <2> PICK r \in Rows : r = ent[k].row
    BY <1>2
  <2>1. k \in InRow(ent, r) /\ k \notin Earlier0(k)
    BY DEF InRow, Entries
  <2>2. IsFiniteSet(InRow(ent, r)) /\ Cardinality(InRow(ent, r)) \in 0..n
    BY BelowAndIn
  <2>3. Earlier0(k) \subseteq InRow(ent, r) /\ Earlier0(k) # InRow(ent, r)
    BY <2>1
  <2> HIDE DEF Earlier0
  <2>4. /\ IsFiniteSet(Earlier0(k)) /\ Cardinality(Earlier0(k)) <= Cardinality(InRow(ent, r))
        /\ Cardinality(Earlier0(k)) # Cardinality(InRow(ent, r))
    BY <2>2, <2>3, FS_Subset
  <2>5. Cardinality(Earlier0(k)) \in Nat
    BY <2>4, FS_CardinalityType
  <2>6. Dest(ent, off, k) = off[r] + Cardinality(Earlier0(k))
    BY DEF Dest, Earlier0
  <2>7. off[r + 1] = off[r] + Cardinality(InRow(ent, r))
    BY <1>1
  <2>8. off[r] \in Nat
    BY <1>1, <1>2 DEF RowOffsets
  <2>9. off[r] <= Dest(ent, off, k) /\ Dest(ent, off, k) < off[r + 1]
    BY <2>2, <2>4, <2>5, <2>6, <2>7, <2>8
  <2> QED
    BY <2>9 DEF Holds
<1> HIDE DEF R
<1>7. /\ \A k \in 0..n-1 : Cardinality(Lower(R, 0..n-1, k)) \in 0..n-1
      /\ \A k, m \in 0..n-1 : Cardinality(Lower(R, 0..n-1, k)) = Cardinality(Lower(R, 0..n-1, m)) => k = m
      /\ \A d \in 0..n-1 : \E k \in 0..n-1 : Cardinality(Lower(R, 0..n-1, k)) = d
  <2> PICK S : S = 0..n-1
    OBVIOUS
  <2>1. IsFiniteSet(S) /\ Cardinality(S) = n /\ TotalOrder(R, S)
    BY Zenon, <1>3, <1>5
  <2>2. /\ \A k \in S : Cardinality(Lower(R, S, k)) \in 0..Cardinality(S)-1
        /\ \A k, m \in S : Cardinality(Lower(R, S, k)) = Cardinality(Lower(R, S, m)) => k = m
        /\ \A d \in 0..Cardinality(S)-1 : \E k \in S : Cardinality(Lower(R, S, k)) = d
    BY <2>1, Ranks
  <2>3. 0..Cardinality(S)-1 = S
    BY <2>1
  <2> HIDE <2>1
  <2> QED
    BY Zenon, <2>2, <2>3
<1> QED
  BY <1>1, <1>4, <1>6, <1>7 DEF Placed

(* A CSR matrix of n entries.                                              *)
CsrShape(c, n) ==
  /\ c = [nnz |-> n, offset |-> c.offset, ent |-> [d \in 0..n-1 |-> c.ent[d]]]
  /\ RowOffsets(c.offset, n)
  /\ \A d \in 0..n-1 : c.ent[d] \in [col : Cols, val : Positions]

LEMMA BuiltIs ==
  ASSUME NEW n \in Nat, NEW ent, Entries(ent, n), NEW c, c = Built(ent, n)
  PROVE  /\ CsrShape(c, n)
         /\ c.offset = CooStarts(ent, Zeros)
         /\ Placed(ent, n, c.offset)
         /\ \A k \in 0..n-1 : c.ent[Dest(ent, c.offset, k)] = ColVal(ent[k])
<1> PICK off : off = CooStarts(ent, Zeros)
  OBVIOUS
<1>1. /\ RowOffsets(off, n)
      /\ \A r \in Rows : off[r + 1] = off[r] + Cardinality(InRow(ent, r))
  BY CooStartsAre
<1>2. Placed(ent, n, off)
  BY CooPlaced
<1>3. NRow \in Nat /\ off = [r \in 0..NRow |-> off[r]] /\ off[0] = 0
  BY <1>1, FormatsAssumption DEF RowOffsets
<1> PICK moved : moved = [r \in 0..NRow |-> IF r = 0 THEN 0
                                           ELSE off[r - 1] + Cardinality(InRow(ent, r - 1))]
  OBVIOUS
<1>4. moved = off
  <2>1. \A r \in 0..NRow : moved[r] = off[r]
    <3> TAKE r \in 0..NRow
    <3>1. CASE r = 0
      BY <1>3, <3>1
    <3>2. ASSUME r # 0 PROVE moved[r] = off[r]
      <4>1. PICK s \in Rows : s = r - 1 /\ r = s + 1
        BY <1>3, <3>2 DEF Rows
      <4> QED
        BY <1>1, <3>2, <4>1
    <3> QED
      BY <3>1, <3>2
  <2> QED
    BY <1>3, <2>1
<1> DEFINE Src(d) == CHOOSE k \in 0..n-1 : Dest(ent, off, k) = d
<1>5. c = [nnz |-> n, offset |-> moved, ent |-> [d \in 0..n-1 |-> ColVal(ent[Src(d)])]]
  BY DEF Built, CsrOf
<1> PICK e : e = [d \in 0..n-1 |-> ColVal(ent[Src(d)])]
  OBVIOUS
<1>6. c.nnz = n /\ c.offset = off /\ c.ent = e /\ c = [nnz |-> n, offset |-> off, ent |-> e]
  BY <1>4, <1>5
<1>7. ASSUME NEW d \in 0..n-1 PROVE Src(d) \in 0..n-1 /\ Dest(ent, off, Src(d)) = d
  <2>1. \E k \in 0..n-1 : Dest(ent, off, k) = d
    BY <1>2 DEF Placed
  <2> QED
    BY <2>1
<1>8. ASSUME NEW k \in 0..n-1 PROVE e[Dest(ent, off, k)] = ColVal(ent[k])
  <2> PICK d \in 0..n-1 : d = Dest(ent, off, k)
    BY <1>2 DEF Placed
  <2>1. Src(d) = k
    BY <1>2, <1>7 DEF Placed
  <2> HIDE DEF Src
  <2> QED
    BY <2>1
<1>9. \A d \in 0..n-1 : e[d] \in [col : Cols, val : Positions]
  <2> TAKE d \in 0..n-1
  <2>1. Src(d) \in 0..n-1
    BY <1>7
  <2> HIDE DEF Src
  <2> QED
    BY <2>1 DEF Entries, ColVal
<1>10. e = [d \in 0..n-1 |-> e[d]]
  OBVIOUS
<1> HIDE DEF Src
<1>11. CsrShape(c, n)
  BY <1>1, <1>6, <1>9, <1>10 DEF CsrShape
<1> QED
  BY <1>2, <1>6, <1>8, <1>11

(* Two matrices with the same offsets and entries are the same.            *)
LEMMA SameCsr ==
  ASSUME NEW n, NEW c, NEW b, CsrShape(c, n), CsrShape(b, n), b.offset = c.offset,
         \A d \in 0..n-1 : b.ent[d] = c.ent[d]
  PROVE  b = c
<1>1. [d \in 0..n-1 |-> b.ent[d]] = [d \in 0..n-1 |-> c.ent[d]]
  OBVIOUS
<1> QED
  BY Zenon, <1>1 DEF CsrShape

-----------------------------------------------------------------------------
(* From CSR to COO.                                                        *)

LEMMA CsrRowIs ==
  ASSUME NEW n, CsrShape(csr, n)
  PROVE  \A d \in 0..n-1 : /\ CsrRowOf(d) \in Rows /\ Holds(csr.offset, CsrRowOf(d), d)
                           /\ \A r \in Rows : Holds(csr.offset, r, d) => r = CsrRowOf(d)
<1> TAKE d \in 0..n-1
<1>1. RowOffsets(csr.offset, n)
  BY DEF CsrShape
<1>2. NRow \in Nat /\ n \in Nat
  BY <1>1, FormatsAssumption DEF RowOffsets
<1>3. \A r \in Rows : csr.offset[r] \in 0..n /\ csr.offset[r + 1] \in 0..n
  BY <1>1, InOneRow
<1>4. \A r \in Rows : d \in CsrRow(r) <=> Holds(csr.offset, r, d)
  BY <1>2, <1>3 DEF CsrRow, Holds
<1>5. \E r \in Rows : Holds(csr.offset, r, d)
  BY <1>1, InOneRow
<1>6. CsrRowOf(d) \in Rows /\ d \in CsrRow(CsrRowOf(d))
  BY <1>4, <1>5 DEF CsrRowOf
<1>7. \A r, s \in Rows : Holds(csr.offset, r, d) /\ Holds(csr.offset, s, d) => r = s
  BY <1>1, <1>2, InOneRow
<1> QED
  BY <1>4, <1>6, <1>7

Unpacked(n) == [i \in 0..n-1 |-> Element(CsrRowOf(i), csr.ent[i].col, csr.ent[i].val)]

LEMMA UnpackedIs ==
  ASSUME NEW n \in Nat, CsrShape(csr, n)
  PROVE  Entries(Unpacked(n), n) /\ Built(Unpacked(n), n) = csr
<1> PICK ent : ent = Unpacked(n)
  OBVIOUS
<1> PICK off : off = csr.offset
  OBVIOUS
<1>1. RowOffsets(off, n) /\ NRow \in Nat
  BY FormatsAssumption DEF CsrShape
<1>2. \A d \in 0..n-1 : csr.ent[d] \in [col : Cols, val : Positions]
  BY DEF CsrShape
<1>3. \A d \in 0..n-1 : CsrRowOf(d) \in Rows /\ Holds(off, CsrRowOf(d), d)
  BY CsrRowIs
<1>4. \A i \in 0..n-1 : /\ ent[i] = Element(CsrRowOf(i), csr.ent[i].col, csr.ent[i].val)
                        /\ ent[i].row = CsrRowOf(i)
                        /\ ColVal(ent[i]) = csr.ent[i]
                        /\ ent[i] \in [row : Rows, col : Cols, val : Positions]
  BY <1>2, <1>3 DEF Unpacked, Element, ColVal
<1>5. DOMAIN ent = 0..n-1
  BY DEF Unpacked
<1>6. Entries(ent, n)
  BY <1>4, <1>5 DEF Entries
<1>7. /\ \A r \in Rows : off[r] \in 0..n /\ off[r + 1] \in 0..n /\ r \in 0..NRow /\ r + 1 \in 0..NRow
      /\ \A d \in Nat : \A r, s \in Rows : Holds(off, r, d) /\ Holds(off, s, d) => r = s
  BY <1>1, InOneRow
<1>8. \A r \in 0..NRow : off[r] \in Nat
  BY <1>1 DEF RowOffsets
<1>9. ASSUME NEW r \in 0..NRow PROVE Cardinality(Below(ent, n, r)) = off[r]
  <2>1. off[r] \in 0..n
    <3>1. off[r] <= off[NRow] /\ off[NRow] = n
      BY <1>1, Monotone DEF RowOffsets
    <3> QED
      BY <1>8, <3>1
  <2>2. ASSUME NEW i \in 0..n-1 PROVE ent[i].row < r <=> i < off[r]
    <3> PICK s \in Rows : s = ent[i].row
      BY <1>3, <1>4
    <3>1. Holds(off, s, i)
      BY <1>3, <1>4
    <3>2. s \in 0..NRow /\ s + 1 \in 0..NRow /\ off[s] \in Nat /\ off[s + 1] \in Nat
      BY <1>7
    <3>3. ASSUME s < r PROVE i < off[r]
      <4>1. s + 1 <= r
        BY <3>2, <3>3
      <4>2. off[s + 1] <= off[r]
        BY <1>1, <3>2, <4>1, Monotone
      <4> QED
        BY <2>1, <3>1, <3>2, <4>2 DEF Holds
    <3>4. ASSUME r <= s PROVE ~ (i < off[r])
      <4>1. off[r] <= off[s]
        BY <1>1, <3>2, <3>4, Monotone
      <4> QED
        BY <2>1, <3>1, <3>2, <4>1 DEF Holds
    <3>5. s < r \/ r <= s
      BY <3>2
    <3> QED
      BY <3>3, <3>4, <3>5
  <2> PICK b : b = off[r]
    OBVIOUS
  <2>3. \A i : i \in Below(ent, n, r) <=> i \in 0..b-1
    BY <2>1, <2>2 DEF Below
  <2>4. Below(ent, n, r) = 0..b-1
    BY <2>3
  <2>5. 0 \in Int /\ b - 1 \in Int
    BY <2>1
  <2>6. Cardinality(0..b-1) = IF 0 > b - 1 THEN 0 ELSE b - 1 - 0 + 1
    BY <2>5, FS_Interval
  <2>7. Cardinality(0..b-1) = b
    BY <2>1, <2>6
  <2> QED
    BY <2>4, <2>7
<1>10. CooStarts(ent, Zeros) = off
  <2> PICK st : st = CooStarts(ent, Zeros)
    OBVIOUS
  <2>1. RowOffsets(st, n) /\ \A r \in 0..NRow : st[r] = Cardinality(Below(ent, n, r))
    BY <1>6, CooStartsAre
  <2>2. \A r \in 0..NRow : st[r] = off[r]
    BY <1>9, <2>1
  <2>3. st \in [0..NRow -> Nat] /\ off \in [0..NRow -> Nat]
    BY <1>1, <2>1 DEF RowOffsets
  <2>4. Array(st, NRow) /\ Array(off, NRow)
    BY <2>3 DEF Array
  <2>5. st = off
    BY Zenon, <2>2, <2>4, Extensional
  <2> QED
    BY <2>5
<1>11. ASSUME NEW k \in 0..n-1 PROVE Dest(ent, off, k) = k
  <2> PICK r \in Rows : r = ent[k].row
    BY <1>3, <1>4
  <2> PICK a : a = off[r]
    OBVIOUS
  <2>1. Holds(off, r, k) /\ a \in Nat /\ a <= k /\ k < off[r + 1] /\ off[r + 1] \in Nat
    BY <1>3, <1>4, <1>7 DEF Holds
  <2>2. \A i : i \in {m \in InRow(ent, r) : m < k} <=> i \in a..k-1
    <3> TAKE i
    <3>1. ASSUME i \in InRow(ent, r), i < k PROVE i \in a..k-1
      <4>1. i \in 0..n-1 /\ ent[i].row = r
        BY <1>5, <3>1 DEF InRow
      <4>2. Holds(off, r, i)
        BY <1>3, <1>4, <4>1
      <4> QED
        BY <2>1, <3>1, <4>1, <4>2 DEF Holds
    <3>2. ASSUME i \in a..k-1 PROVE i \in InRow(ent, r) /\ i < k
      <4>1. i \in 0..n-1 /\ i < k /\ i \in Nat
        BY <2>1, <3>2
      <4>2. Holds(off, r, i)
        BY <2>1, <3>2 DEF Holds
      <4>3. Holds(off, CsrRowOf(i), i) /\ CsrRowOf(i) \in Rows
        BY <1>3, <4>1
      <4>4. r = CsrRowOf(i)
        BY <1>7, <4>1, <4>2, <4>3
      <4>5. ent[i].row = r
        BY <1>4, <4>1, <4>4
      <4> QED
        BY <1>5, <4>1, <4>5 DEF InRow
    <3> QED
      BY <3>1, <3>2
  <2>3. {m \in InRow(ent, r) : m < k} = a..k-1
    BY <2>2
  <2>4. a \in Int /\ k - 1 \in Int
    BY <2>1
  <2>5. Cardinality(a..k-1) = IF a > k - 1 THEN 0 ELSE k - 1 - a + 1
    BY <2>4, FS_Interval
  <2>6. Cardinality(a..k-1) = k - a
    BY ONLY <2>1, <2>4, <2>5
  <2>7. Dest(ent, off, k) = a + (k - a)
    BY <2>3, <2>6 DEF Dest
  <2> QED
    BY <2>1, <2>7
<1> PICK b : b = Built(ent, n)
  OBVIOUS
<1>12. /\ CsrShape(b, n) /\ b.offset = off
       /\ \A k \in 0..n-1 : b.ent[Dest(ent, off, k)] = ColVal(ent[k])
  BY <1>6, <1>10, BuiltIs
<1>13. \A d \in 0..n-1 : b.ent[d] = csr.ent[d]
  BY <1>4, <1>11, <1>12
<1>14. b = csr
  BY <1>12, <1>13, SameCsr
<1> QED
  BY <1>6, <1>14

-----------------------------------------------------------------------------
(* A CSR matrix from its rows.                                             *)

(* The first l entries of row r of the CSR matrix, and all of them.        *)
FirstEntries(r, l) == [k \in 0..l-1 |-> csr.ent[csr.offset[r] + k]]
CsrEntries(r)      == FirstEntries(r, RowLength(r))

LEMMA RowLengths ==
  ASSUME NEW n \in Nat, CsrShape(csr, n)
  PROVE  \A r \in Rows : /\ RowLength(r) \in 0..n
                         /\ csr.offset[r] \in 0..n /\ csr.offset[r + 1] = csr.offset[r] + RowLength(r)
                         /\ csr.offset[r + 1] \in 0..n
                         /\ r \in 0..NRow /\ r + 1 \in 0..NRow
<1> TAKE r \in Rows
<1> PICK a, z : a = csr.offset[r] /\ z = csr.offset[r + 1]
  OBVIOUS
<1>1. a \in 0..n /\ z \in 0..n /\ r \in 0..NRow /\ r + 1 \in 0..NRow
  BY InOneRow DEF CsrShape
<1>2. a <= z
  BY DEF CsrShape, RowOffsets
<1>3. RowLength(r) = z - a
  BY DEF RowLength
<1> QED
  BY <1>1, <1>2, <1>3

LEMMA FromRowsIs ==
  ASSUME NEW n \in Nat, CsrShape(csr, n), NEW row, \A r \in Rows : row[r] = CsrEntries(r)
  PROVE  FromRows(row, Zeros) = csr
<1> PICK off : off = csr.offset
  OBVIOUS
<1>1. RowOffsets(off, n) /\ NRow \in Nat
  BY FormatsAssumption DEF CsrShape
<1>2. \A r \in Rows : /\ RowLength(r) \in 0..n
                      /\ off[r] \in 0..n /\ off[r + 1] = off[r] + RowLength(r)
                      /\ r \in 0..NRow /\ r + 1 \in 0..NRow
  BY RowLengths
<1>3. \A r \in Rows : Size(row[r]) = RowLength(r)
  <2> TAKE r \in Rows
  <2>1. row[r] = CsrEntries(r) /\ RowLength(r) \in Nat
    BY <1>2
  <2>2. DOMAIN CsrEntries(r) = 0..RowLength(r)-1
    BY DEF CsrEntries, FirstEntries
  <2>3. DOMAIN row[r] = 0..RowLength(r)-1
    BY <2>1, <2>2
  <2> QED
    BY <2>1, <2>3, SizeOf
<1> PICK count : count = [r \in Rows |-> Zeros[r] + Size(row[r])]
  OBVIOUS
<1>4. \A r \in Rows : count[r] = RowLength(r)
  <2> TAKE r \in Rows
  <2>1. Zeros[r] = 0
    BY <1>2 DEF Zeros
  <2>2. count[r] = 0 + RowLength(r)
    BY <1>3, <2>1
  <2> QED
    BY <1>2, <2>2
<1>5. Sums0(off, count)
  <2>1. off = [r \in 0..NRow |-> off[r]] /\ off[0] = 0
    BY <1>1 DEF RowOffsets
  <2>2. \A r \in Rows : off[r + 1] = off[r] + count[r]
    BY <1>2, <1>4
  <2> QED
    BY <2>1, <2>2 DEF Sums0
<1>6. Starts(count) = off
  BY <1>5, StartsUnique
<1> DEFINE chosen(d) == CHOOSE r \in Holder(row, off, d) : TRUE
           value(d) == IF Holder(row, off, d) = {} THEN [col |-> 0, val |-> Padding]
                       ELSE row[chosen(d)][d - off[chosen(d)]]
<1>7. off[NRow] = n
  BY <1>1 DEF RowOffsets
<1>8. FromRows(row, Zeros) = [nnz |-> n, offset |-> off, ent |-> [d \in 0..n-1 |-> value(d)]]
  <2>1. FromRows(row, Zeros) = Laid(row, off)
    BY Zenon, <1>6 DEF FromRows
  <2>2. Laid(row, off) = [nnz |-> off[NRow], offset |-> off, ent |-> [d \in 0..off[NRow]-1 |-> value(d)]]
    BY DEF Laid
  <2> HIDE DEF value
  <2> QED
    BY Zenon, <1>7, <2>1, <2>2
<1>9. ASSUME NEW d \in 0..n-1 PROVE value(d) = csr.ent[d]
  <2>1. PICK r \in Rows : Holds(off, r, d)
    BY <1>1, InOneRow
  <2>2. \A s \in Rows : s \in Holder(row, off, d) <=> Holds(off, s, d)
    BY <1>2, <1>3 DEF Holds, Holder
  <2>3. \A s \in Rows : Holds(off, s, d) => s = r
    BY <1>1, <2>1, InOneRow
  <2>4. Holder(row, off, d) = {r}
    <3>1. Holder(row, off, d) \subseteq Rows
      BY DEF Holder
    <3> QED
      BY <2>1, <2>2, <2>3, <3>1
  <2>5. (CHOOSE s \in {r} : TRUE) = r
    OBVIOUS
  <2>6. value(d) = row[r][d - off[r]]
    BY <2>4, <2>5
  <2>7. row[r] = [k \in 0..RowLength(r)-1 |-> csr.ent[off[r] + k]]
    BY DEF CsrEntries, FirstEntries
  <2> PICK a, l : a = off[r] /\ l = RowLength(r)
    OBVIOUS
  <2>8. a \in 0..n /\ l \in 0..n /\ a <= d /\ d < a + l
    BY <1>2, <2>1 DEF Holds
  <2>9. d - a \in 0..l-1 /\ a + (d - a) = d
    BY <2>8
  <2> HIDE DEF value
  <2>10. row[r][d - a] = csr.ent[a + (d - a)]
    BY <2>7, <2>9
  <2> QED
    BY <2>6, <2>9, <2>10
<1> HIDE DEF value
<1>10. [d \in 0..n-1 |-> value(d)] = [d \in 0..n-1 |-> csr.ent[d]]
  BY <1>9
<1>11. csr = [nnz |-> n, offset |-> off, ent |-> [d \in 0..n-1 |-> csr.ent[d]]]
  BY DEF CsrShape
<1> QED
  BY Zenon, <1>8, <1>10, <1>11

-----------------------------------------------------------------------------
(* ELL parts.                                                              *)

LEMMA DivMod ==
  ASSUME NEW m \in Nat, NEW d \in Nat \ {0}
  PROVE  /\ m \div d \in Nat /\ m % d \in 0..d-1
         /\ m = d * (m \div d) + (m % d)
BY SMTT(30)

LEMMA Quotients ==
  ASSUME NEW d \in Nat \ {0}, NEW p \in Nat, NEW q \in Nat,
         NEW r \in 0..d-1, NEW s \in 0..d-1, d * p + r = d * q + s
  PROVE  p = q /\ r = s
<1>1. ASSUME NEW m \in Nat, NEW k \in Nat, m < k PROVE d * m + d <= d * k
  <2>1. k - m - 1 \in Nat /\ k = m + 1 + (k - m - 1)
    BY <1>1
  <2>2. PICK e \in Nat : k = m + 1 + e
    BY <2>1
  <2>3. d * k = d * m + d + d * e /\ d * e \in Nat /\ d * m \in Nat
    BY <2>2
  <2> QED
    BY <2>3
<1>2. d * p \in Nat /\ d * q \in Nat
  OBVIOUS
<1>3. ~ p < q
  BY <1>1, <1>2
<1>4. ~ q < p
  BY <1>1, <1>2
<1>5. p = q
  BY <1>3, <1>4
<1> QED
  BY <1>2, <1>5

(* Slots and pairs of a row and a place in it are in correspondence.       *)
LEMMA SlotIs ==
  ASSUME NEW r \in Rows, NEW m \in Nat, NEW w \in Nat
  PROVE  /\ EllInd(r, m) \in Nat
         /\ SlotRow(EllInd(r, m)) = r /\ SlotNth(EllInd(r, m)) = m
         /\ m < w => EllInd(r, m) \in 0..w*NRow-1
<1>1. NRow \in Nat \ {0} /\ r \in 0..NRow-1
  BY FormatsAssumption DEF Rows
<1> PICK N, s : N = NRow /\ s = EllInd(r, m)
  OBVIOUS
<1>2. N \in Nat \ {0} /\ r \in 0..N-1
  BY <1>1
<1>3. m * N \in Nat /\ m * N = N * m
  BY <1>2
<1>4. s = m * N + r
  BY DEF EllInd
<1>5. s \in Nat /\ s = N * m + r
  BY <1>2, <1>3, <1>4
<1>6. /\ s \div N \in Nat /\ s % N \in 0..N-1
      /\ s = N * (s \div N) + (s % N)
  BY <1>2, <1>5, DivMod
<1>7. s \div N = m /\ s % N = r
  <2> PICK q, t : q = s \div N /\ t = s % N
    OBVIOUS
  <2>1. q \in Nat /\ t \in 0..N-1 /\ N * q + t = N * m + r
    BY <1>5, <1>6
  <2>2. q = m /\ t = r
    BY ONLY <1>2, <2>1, m \in Nat, Quotients
  <2> QED
    BY <2>2
<1>8. SlotRow(s) = r /\ SlotNth(s) = m
  BY <1>7 DEF SlotRow, SlotNth
<1>9. ASSUME m < w PROVE s \in 0..w*NRow-1
  <2>1. w - m - 1 \in Nat /\ w = m + 1 + (w - m - 1)
    BY <1>9
  <2>2. PICK e \in Nat : w = m + 1 + e
    BY <2>1
  <2>3. w * N = m * N + N + e * N /\ e * N \in Nat /\ w * N \in Nat
    BY <1>2, <2>2
  <2>4. s < w * N
    BY <1>2, <1>3, <1>4, <2>3
  <2> QED
    BY <1>5, <2>3, <2>4
<1> QED
  BY <1>5, <1>8, <1>9

(* An ELL part of width w holds the first w entries of every row.          *)
Part(sl, w, padding) == sl = [s \in 0..w*NRow-1 |-> SlotOf(s, padding)]

LEMMA PartIs ==
  ASSUME NEW n \in Nat, CsrShape(csr, n), NEW w \in Nat, NEW padding \in Int, padding < 0,
         NEW sl, Part(sl, w, padding), NEW r \in Rows
  PROVE  /\ InEll(r, w) \in 0..RowLength(r) /\ InEll(r, w) <= w
         /\ (InEll(r, w) = RowLength(r) \/ InEll(r, w) = w)
         /\ \A m \in 0..w-1 : sl[EllInd(r, m)].col \in Int
                              /\ (sl[EllInd(r, m)].col >= 0 <=> m < InEll(r, w))
                              /\ (sl[EllInd(r, m)].col \in Cols <=> m < InEll(r, w))
         /\ \A m \in 0..InEll(r, w)-1 : sl[EllInd(r, m)] = csr.ent[csr.offset[r] + m]
<1> PICK a, l, k : a = csr.offset[r] /\ l = RowLength(r) /\ k = InEll(r, w)
  OBVIOUS
<1>1. l \in Nat /\ a \in Nat /\ \A m \in 0..l-1 : a + m \in 0..n-1
  <2>1. l \in 0..n /\ a \in 0..n /\ a + l \in 0..n
    BY RowLengths
  <2> QED
    BY <2>1
<1>2. k = IF l < w THEN l ELSE w
  BY DEF InEll, Smaller
<1>3. k \in 0..l /\ k <= w /\ (k = l \/ k = w)
  BY <1>1, <1>2
<1>4. \A m \in 0..w-1 : m < k <=> m < l
  BY <1>1, <1>2
<1>5. \A m \in 0..w-1 : sl[EllInd(r, m)] = IF m < l THEN csr.ent[a + m]
                                           ELSE [col |-> padding, val |-> Padding]
  <2> TAKE m \in 0..w-1
  <2> PICK s : s = EllInd(r, m)
    OBVIOUS
  <2>1. s \in 0..w*NRow-1 /\ SlotRow(s) = r /\ SlotNth(s) = m
    BY SlotIs
  <2>2. sl[s] = SlotOf(s, padding)
    BY <2>1 DEF Part
  <2> QED
    BY <2>1, <2>2 DEF SlotOf
<1>6. \A d \in 0..n-1 : csr.ent[d].col \in Cols
  BY DEF CsrShape
<1>7. Cols \subseteq Nat
  BY FormatsAssumption DEF Cols
<1>8. \A m \in 0..l-1 : csr.ent[a + m].col \in Cols /\ csr.ent[a + m].col \in Nat
  BY <1>1, <1>6, <1>7
<1>9. padding \notin Cols
  BY <1>7
<1>10. \A m \in 0..w-1 : /\ sl[EllInd(r, m)].col \in Int
                         /\ (sl[EllInd(r, m)].col >= 0 <=> m < k)
                         /\ (sl[EllInd(r, m)].col \in Cols <=> m < k)
  <2> TAKE m \in 0..w-1
  <2>1. CASE m < l
    <3>1. m \in 0..l-1 /\ m < k
      BY <1>1, <1>4, <2>1
    <3>2. sl[EllInd(r, m)] = csr.ent[a + m]
      BY <1>5, <2>1
    <3> QED
      BY <1>8, <3>1, <3>2
  <2>2. CASE ~ (m < l)
    <3>1. ~ (m < k)
      BY <1>4, <2>2
    <3>2. sl[EllInd(r, m)].col = padding
      BY <1>5, <2>2
    <3> QED
      BY <1>9, <3>1, <3>2
  <2> QED
    BY <2>1, <2>2
<1>11. \A m \in 0..k-1 : sl[EllInd(r, m)] = csr.ent[a + m]
  <2> TAKE m \in 0..k-1
  <2>1. m \in 0..w-1 /\ m < l
    BY <1>1, <1>3
  <2> QED
    BY <1>5, <2>1
<1> QED
  BY <1>3, <1>10, <1>11

(* Read back in the order of the slots they are in the order of the row.   *)
LEMMA EllRowIs ==
  ASSUME NEW n \in Nat, CsrShape(csr, n), NEW w \in Nat, NEW padding \in Int, padding < 0,
         NEW sl, Part(sl, w, padding), NEW r \in Rows
  PROVE  /\ Used(sl, w, r) = 0..InEll(r, w)-1
         /\ EllRow(sl, w, r) = FirstEntries(r, InEll(r, w))
<1> PICK k : k = InEll(r, w)
  OBVIOUS
<1>1. k \in Nat /\ k <= w
  <2>1. k \in 0..RowLength(r) /\ k <= w /\ RowLength(r) \in 0..n
    BY PartIs, RowLengths
  <2> QED
    BY <2>1
<1>2. /\ \A m \in 0..w-1 : sl[EllInd(r, m)].col \in Cols <=> m < k
      /\ \A m \in 0..k-1 : sl[EllInd(r, m)] = csr.ent[csr.offset[r] + m]
  BY PartIs
<1> PICK S : S = Used(sl, w, r)
  OBVIOUS
<1>3. \A m : m \in S <=> m \in Nat /\ 0 <= m /\ m < 0 + k
  BY <1>1, <1>2 DEF Used
<1>4. \A m : m \in S <=> m \in 0..k-1
  BY <1>1, <1>3
<1>5. S = 0..k-1
  BY <1>4
<1>6. Ascending(S) = [m \in 0..k-1 |-> 0 + m]
  BY <1>1, <1>3, AscendingInterval
<1> PICK p : p = Ascending(S)
  OBVIOUS
<1>7. DOMAIN p = 0..k-1 /\ \A m \in 0..k-1 : p[m] = m
  BY <1>6
<1>8. EllRow(sl, w, r) = [m \in DOMAIN p |-> sl[EllInd(r, p[m])]]
  BY DEF EllRow
<1>9. EllRow(sl, w, r) = FirstEntries(r, k)
  BY <1>2, <1>7, <1>8 DEF FirstEntries
<1> QED
  BY <1>5, <1>9

LEMMA LongestRowIs ==
  ASSUME NEW n \in Nat, CsrShape(csr, n)
  PROVE  LongestRow \in Nat /\ \A r \in Rows : RowLength(r) <= LongestRow
<1>1. NRow \in Nat \ {0} /\ 0 \in Rows
  BY FormatsAssumption DEF Rows
<1>2. \A r \in Rows : RowLength(r) \in 0..n
  BY RowLengths
<1> DEFINE T == {m \in 0..n : \A r \in Rows : RowLength(r) <= m}
           L == {RowLength(r) : r \in Rows}
<1>3. T \subseteq Nat /\ n \in T
  BY <1>2
<1>4. \A m : m \in T <=> m \in 0..n /\ \A r \in Rows : RowLength(r) <= m
  OBVIOUS
<1> HIDE DEF T
<1>5. PICK m \in T : \A k \in T : m <= k
  BY <1>3, LeastOf
<1>6. m \in L
  <2> SUFFICES ASSUME m \notin L PROVE FALSE
    OBVIOUS
  <2>1. \A r \in Rows : RowLength(r) # m
    OBVIOUS
  <2>2. m \in 0..n /\ \A r \in Rows : RowLength(r) <= m
    BY <1>4
  <2>3. \A r \in Rows : RowLength(r) <= m - 1
    BY <1>2, <2>1, <2>2
  <2>4. m - 1 \in 0..n
    BY <1>1, <1>2, <2>2, <2>3
  <2>5. m - 1 \in T
    BY <1>4, <2>3, <2>4
  <2> QED
    BY <1>5, <2>2, <2>5
<1>7. \A r \in Rows : RowLength(r) <= m
  BY <1>4
<1>8. LongestRow \in L /\ \A r \in Rows : RowLength(r) <= LongestRow
  BY <1>6, <1>7 DEF LongestRow
<1> QED
  BY <1>2, <1>8

(* Converted to ELL and back the matrix is the same.                       *)
LEMMA EllRoundTrip ==
  ASSUME NEW n \in Nat, CsrShape(csr, n), NEW e, e = EllOf(LongestRow)
  PROVE  /\ Part(e.ent, e.max_row, -999) /\ e.max_row \in Nat
         /\ \A r \in Rows : InEll(r, e.max_row) = RowLength(r)
         /\ FromRows([r \in Rows |-> EllRow(e.ent, e.max_row, r)], Zeros) = csr
<1> PICK w : w = LongestRow
  OBVIOUS
<1>1. w \in Nat /\ \A r \in Rows : RowLength(r) <= w
  BY LongestRowIs
<1>2. e.max_row = w /\ Part(e.ent, w, -999)
  BY DEF EllOf, Part
<1>3. \A r \in Rows : InEll(r, w) = RowLength(r)
  BY <1>1, RowLengths DEF InEll, Smaller
<1> PICK row : row = [r \in Rows |-> EllRow(e.ent, e.max_row, r)]
  OBVIOUS
<1>4. \A r \in Rows : row[r] = CsrEntries(r)
  <2> TAKE r \in Rows
  <2>1. EllRow(e.ent, w, r) = FirstEntries(r, InEll(r, w))
    <3> PICK p, sl : p = -999 /\ sl = e.ent
      OBVIOUS
    <3>1. p \in Int /\ p < 0 /\ Part(sl, w, p)
      BY <1>2
    <3>2. EllRow(sl, w, r) = FirstEntries(r, InEll(r, w))
      BY <1>1, <3>1, EllRowIs
    <3> QED
      BY <3>2
  <2>2. row[r] = EllRow(e.ent, w, r)
    BY <1>2
  <2> QED
    BY <1>3, <2>1, <2>2 DEF CsrEntries
<1>5. FromRows(row, Zeros) = csr
  BY <1>4, FromRowsIs
<1> QED
  BY <1>1, <1>2, <1>3, <1>5

-----------------------------------------------------------------------------
(* HYB matrices.                                                           *)

Rest(r, w) == RowLength(r) - InEll(r, w)

(* The COO part of width w has the rest of every row, between the offsets. *)
RestsAt(part, off, w) ==
  /\ RowOffsets(off, CooNnz(w))
  /\ \A r \in Rows : Rest(r, w) \in Nat /\ off[r + 1] = off[r] + Rest(r, w)
  /\ \A d \in 0..CooNnz(w)-1 : \A r \in Rows : Holds(off, r, d) =>
       /\ part[d].row = r
       /\ ColVal(part[d]) = csr.ent[csr.offset[r] + InEll(r, w) + (d - off[r])]

Inside(w) ==
  \A c \in Copies(w, Zeros) : c[2] >= 0 /\ CopyDest(c, w) \in 0..CooNnz(w)-1

LEMMA InEllIs ==
  ASSUME NEW n \in Nat, CsrShape(csr, n), NEW w \in Nat
  PROVE  \A r \in Rows : InEll(r, w) \in 0..RowLength(r) /\ InEll(r, w) \in 0..n /\ Rest(r, w) \in 0..n
                         /\ RestOf(r, w, Zeros) = Rest(r, w)
<1> TAKE r \in Rows
<1>1. RowLength(r) \in 0..n /\ r \in 0..NRow
  BY RowLengths
<1>2. InEll(r, w) = IF RowLength(r) < w THEN RowLength(r) ELSE w
  BY DEF InEll, Smaller
<1>3. InEll(r, w) \in 0..RowLength(r)
  BY <1>1, <1>2
<1>4. InEll(r, w) \in 0..n /\ Rest(r, w) \in 0..n
  BY <1>1, <1>3 DEF Rest
<1>5. RestOf(r, w, Zeros) = Rest(r, w)
  <2>1. Zeros[r] = 0
    BY <1>1 DEF Zeros
  <2>2. CASE RowLength(r) = 0
    <3>1. InEll(r, w) = 0
      BY <1>3, <2>2
    <3>2. Rest(r, w) = 0
      BY <2>2, <3>1 DEF Rest
    <3> QED
      BY <2>1, <2>2, <3>2 DEF RestOf
  <2>3. CASE RowLength(r) # 0
    BY <2>3 DEF RestOf, Rest
  <2> QED
    BY <2>2, <2>3
<1> QED
  BY <1>3, <1>4, <1>5

(* The offsets of the rows are those of the ELL entries and of the rests.  *)
Split(ellOff, off, w) ==
  /\ ellOff \in [0..NRow -> Nat]
  /\ \A r \in Rows : /\ EllUpTo(r, w) = ellOff[r + 1] /\ ellOff[r + 1] \in Nat
                     /\ ellOff[r] \in Nat
                     /\ ellOff[r + 1] = ellOff[r] + InEll(r, w)
                     /\ off[r + 1] = off[r] + Rest(r, w)
  /\ RowOffsets(off, CooNnz(w))
  /\ \A r \in 0..NRow : csr.offset[r] = ellOff[r] + off[r]

SameSteps(f, g, n) == f[0] = g[0] /\ \A i \in 1..n : f[i - 1] = g[i - 1] => f[i] = g[i]

LEMMA SameBySteps ==
  ASSUME NEW n \in Nat, NEW f, NEW g, SameSteps(f, g, n)
  PROVE  \A i \in 0..n : f[i] = g[i]
BY SameElements DEF SameSteps

LEMMA Splits ==
  ASSUME NEW n \in Nat, CsrShape(csr, n), NEW w \in Nat
  PROVE  \E ellOff, off : Split(ellOff, off, w)
<1> PICK c1, c2 : /\ c1 = [r \in Rows |-> InEll(r, w)]
                  /\ c2 = [r \in Rows |-> RowLength(r) - InEll(r, w)]
  OBVIOUS
<1>1. \A r \in Rows : /\ c1[r] = InEll(r, w) /\ c1[r] \in 0..n
                      /\ c2[r] = Rest(r, w) /\ c2[r] \in 0..n
  BY InEllIs DEF Rest
<1> PICK e, f : e = Starts(c1) /\ f = Starts(c2)
  OBVIOUS
<1>2. e \in [0..NRow -> Nat] /\ Sums0(e, c1)
  BY <1>1, StartsAre
<1>3. f \in [0..NRow -> Nat] /\ Sums0(f, c2)
  BY <1>1, StartsAre
<1>4. NRow \in Nat /\ \A r \in Rows : r \in 0..NRow /\ r + 1 \in 0..NRow
  BY FormatsAssumption DEF Rows
<1>5. CooNnz(w) = f[NRow] /\ \A r \in Rows : EllUpTo(r, w) = e[r + 1]
  BY DEF CooNnz, EllUpTo
<1>6. \A r \in Rows : /\ e[r] \in Nat /\ e[r + 1] \in Nat /\ e[r + 1] = e[r] + InEll(r, w)
                      /\ f[r] \in Nat /\ f[r + 1] = f[r] + Rest(r, w)
                      /\ Rest(r, w) \in Nat
  <2> TAKE r \in Rows
  <2>1. e[r + 1] = e[r] + c1[r] /\ f[r + 1] = f[r] + c2[r]
    BY <1>2, <1>3 DEF Sums0
  <2>2. e[r] \in Nat /\ e[r + 1] \in Nat /\ f[r] \in Nat
    BY <1>2, <1>3, <1>4
  <2> QED
    BY <1>1, <2>1, <2>2
<1>7. RowOffsets(f, CooNnz(w))
  <2>1. f[0] = 0
    BY <1>3 DEF Sums0
  <2>2. \A r \in Rows : f[r] <= f[r + 1]
    <3> TAKE r \in Rows
    <3> PICK m, d, k : m = f[r] /\ d = Rest(r, w) /\ k = f[r + 1]
      OBVIOUS
    <3>1. m \in Nat /\ d \in Nat /\ k = m + d
      BY <1>6
    <3>2. m <= k
      BY <3>1
    <3> QED
      BY <3>2
  <2> QED
    BY <1>3, <1>5, <2>1, <2>2 DEF RowOffsets
<1>8. \A r \in 0..NRow : csr.offset[r] = e[r] + f[r]
  <2> PICK g : g = csr.offset
    OBVIOUS
  <2>0. PICK h : \A r \in 0..NRow : h[r] = e[r] + f[r]
    <3>1. \A r \in 0..NRow : [k \in 0..NRow |-> e[k] + f[k]][r] = e[r] + f[r]
      OBVIOUS
    <3> QED
      BY <3>1
  <2>1. g[0] = h[0]
    <3>1. g[0] = 0 /\ e[0] = 0 /\ f[0] = 0 /\ 0 \in 0..NRow
      BY <1>2, <1>3, <1>4 DEF Sums0, CsrShape, RowOffsets
    <3> QED
      BY <2>0, <3>1
  <2>2. \A i \in 1..NRow : g[i - 1] = h[i - 1] => g[i] = h[i]
    <3> TAKE i \in 1..NRow
    <3>1. PICK r \in Rows : r = i - 1 /\ i = r + 1
      BY <1>4 DEF Rows
    <3>2. g[r + 1] = g[r] + RowLength(r) /\ RowLength(r) \in Nat
      BY RowLengths
    <3>3. InEll(r, w) \in Nat /\ RowLength(r) = InEll(r, w) + Rest(r, w)
      BY <3>2, <1>1 DEF Rest
    <3>4. h[r] = e[r] + f[r] /\ h[r + 1] = e[r + 1] + f[r + 1]
      BY <1>4, <2>0
    <3>5. ASSUME g[r] = h[r] PROVE g[r + 1] = h[r + 1]
      <4> PICK m, d, l, i0, q : m = e[r] /\ d = f[r] /\ l = RowLength(r) /\ i0 = InEll(r, w) /\ q = Rest(r, w)
        OBVIOUS
      <4>1. m \in Nat /\ d \in Nat /\ i0 \in Nat /\ q \in Nat /\ l = i0 + q
        BY <1>6, <3>3
      <4>2. e[r + 1] = m + i0 /\ f[r + 1] = d + q
        BY <1>6
      <4>3. g[r + 1] = (m + d) + l /\ h[r + 1] = (m + i0) + (d + q)
        BY <3>2, <3>4, <3>5, <4>2
      <4>4. (m + d) + l = (m + i0) + (d + q)
        BY <4>1
      <4> QED
        BY Zenon, <4>3, <4>4
    <3> QED
      BY <3>1, <3>5
  <2>3. \A i \in 0..NRow : g[i] = h[i]
    <3>1. SameSteps(g, h, NRow)
      BY ONLY <2>1, <2>2 DEF SameSteps
    <3>2. NRow \in Nat
      BY <1>4
    <3> QED
      BY ONLY <3>1, <3>2, SameBySteps
  <2> QED
    BY <2>0, <2>3
<1>9. Split(e, f, w)
  BY <1>2, <1>5, <1>6, <1>7, <1>8 DEF Split
<1> QED
  BY <1>9

(* Every place of the COO part is written by one copy, and no copy goes    *)
(* outside.                                                                *)
LEMMA HybOfIs ==
  ASSUME NEW n \in Nat, CsrShape(csr, n), NEW w \in Nat, NEW h, h = HybOf(w, Zeros)
  PROVE  /\ Part(h.ell, w, -1) /\ h.max_row = w /\ DOMAIN h.coo = 0..CooNnz(w)-1
         /\ Inside(w)
         /\ \E off : RestsAt(h.coo, off, w)
<1>1. PICK e, off : Split(e, off, w)
  BY Splits
<1> PICK N : N = CooNnz(w)
  OBVIOUS
<1>2. RowOffsets(off, N) /\ N \in Nat
  BY <1>1, FormatsAssumption DEF Split, RowOffsets
<1>3. \A r \in Rows : /\ RowLength(r) \in 0..n /\ csr.offset[r] \in 0..n
                      /\ csr.offset[r + 1] = csr.offset[r] + RowLength(r) /\ csr.offset[r + 1] \in 0..n
                      /\ r \in 0..NRow /\ r + 1 \in 0..NRow
  BY RowLengths
<1>4. \A r \in Rows : /\ InEll(r, w) \in 0..RowLength(r) /\ Rest(r, w) \in 0..n
                      /\ RestOf(r, w, Zeros) = Rest(r, w) /\ InEll(r, w) \in 0..n
  BY InEllIs
<1>5. \A r \in Rows : /\ off[r] \in 0..N /\ off[r + 1] \in 0..N
                      /\ off[r + 1] = off[r] + Rest(r, w)
                      /\ e[r + 1] \in Nat /\ EllUpTo(r, w) = e[r + 1]
                      /\ csr.offset[r + 1] = e[r + 1] + off[r + 1]
  <2> TAKE r \in Rows
  <2>1. off[r] \in 0..N /\ off[r + 1] \in 0..N
    BY <1>2, InOneRow
  <2>2. r + 1 \in 0..NRow
    BY <1>3
  <2> QED
    BY <1>1, <2>1, <2>2 DEF Split
<1>6. \A c : c \in Copies(w, Zeros) <=>
        \E r \in Rows : \E j \in Int : /\ c = <<r, j>>
                                       /\ csr.offset[r + 1] - Rest(r, w) <= j /\ j < csr.offset[r + 1]
  <2>1. \A r \in Rows : csr.offset[r + 1] \in Nat /\ Rest(r, w) \in Nat
    BY <1>3, <1>4
  <2>2. \A r \in Rows : \A j : j \in csr.offset[r + 1] - Rest(r, w) .. csr.offset[r + 1] - 1
          <=> j \in Int /\ csr.offset[r + 1] - Rest(r, w) <= j /\ j < csr.offset[r + 1]
    BY <2>1
  <2>3. \A c : c \in Copies(w, Zeros) <=>
          \E r \in Rows : c \in {r} \X (csr.offset[r + 1] - Rest(r, w) .. csr.offset[r + 1] - 1)
    BY <1>4 DEF Copies
  <2>4. \A r, c : c \in {r} \X (csr.offset[r + 1] - Rest(r, w) .. csr.offset[r + 1] - 1) <=>
          \E j \in csr.offset[r + 1] - Rest(r, w) .. csr.offset[r + 1] - 1 : c = <<r, j>>
    OBVIOUS
  <2> QED
    BY <2>2, <2>3, <2>4
<1>7. ASSUME NEW r \in Rows, NEW j \in Int,
             csr.offset[r + 1] - Rest(r, w) <= j, j < csr.offset[r + 1]
      PROVE  /\ CopyDest(<<r, j>>, w) = j - e[r + 1]
             /\ CopyDest(<<r, j>>, w) \in 0..N-1
             /\ Holds(off, r, CopyDest(<<r, j>>, w))
             /\ j \in 0..n-1
  <2> PICK o, o1, q, e1, c1 : /\ o = off[r] /\ o1 = off[r + 1] /\ q = Rest(r, w) /\ e1 = e[r + 1]
                              /\ c1 = csr.offset[r + 1]
    OBVIOUS
  <2>1. /\ o \in 0..N /\ o1 \in 0..N /\ q \in 0..n /\ e1 \in Nat /\ c1 \in 0..n
        /\ o1 = o + q /\ c1 = e1 + o1
    BY <1>3, <1>4, <1>5
  <2>2. c1 - q <= j /\ j < c1
    BY <1>7
  <2>3. j - e1 \in 0..N-1 /\ o <= j - e1 /\ j - e1 < o1 /\ j \in 0..n-1
    BY <1>2, <2>1, <2>2
  <2>4. CopyDest(<<r, j>>, w) = j - e1
    BY <1>5 DEF CopyDest
  <2> QED
    BY <2>3, <2>4 DEF Holds
<1>8. Inside(w)
  <2> SUFFICES ASSUME NEW c \in Copies(w, Zeros) PROVE c[2] >= 0 /\ CopyDest(c, w) \in 0..N-1
    BY DEF Inside
  <2>1. PICK r \in Rows, j \in Int : /\ c = <<r, j>>
                                     /\ csr.offset[r + 1] - Rest(r, w) <= j /\ j < csr.offset[r + 1]
    BY <1>6
  <2> QED
    BY <1>7, <2>1
<1>9. ASSUME NEW d \in 0..N-1, NEW r \in Rows, Holds(off, r, d)
      PROVE  /\ LastTo(d, w, Zeros) = <<r, d + e[r + 1]>>
             /\ d + e[r + 1] \in 0..n-1
             /\ d + e[r + 1] = csr.offset[r] + InEll(r, w) + (d - off[r])
  <2> PICK o, o1, q, e1, c0, c1, l, k : /\ o = off[r] /\ o1 = off[r + 1] /\ q = Rest(r, w) /\ e1 = e[r + 1]
                                        /\ c0 = csr.offset[r] /\ c1 = csr.offset[r + 1]
                                        /\ l = RowLength(r) /\ k = InEll(r, w)
    OBVIOUS
  <2>1. /\ o \in 0..N /\ o1 \in 0..N /\ q \in 0..n /\ e1 \in Nat /\ c1 \in 0..n /\ c0 \in 0..n
        /\ o1 = o + q /\ c1 = e1 + o1 /\ c1 = c0 + l /\ l \in 0..n /\ k \in 0..n
    BY <1>3, <1>4, <1>5
  <2>2. q = l - k
    BY DEF Rest
  <2>3. o <= d /\ d < o1
    BY <1>9 DEF Holds
  <2>4. /\ d + e1 \in 0..n-1 /\ c1 - q <= d + e1 /\ d + e1 < c1 /\ (d + e1) - e1 = d
        /\ d + e1 = c0 + k + (d - o)
    <3>1. d \in Nat /\ n \in Nat /\ N \in Nat
      BY <1>2
    <3>2. c0 + k = e1 + o
      BY ONLY <2>1, <2>2, <3>1
    <3>3. c1 - q = e1 + o
      BY ONLY <2>1, <3>1
    <3>4. d + e1 < c1
      BY ONLY <2>1, <2>3, <3>1
    <3>5. c1 - q <= d + e1
      BY ONLY <2>1, <2>3, <3>1, <3>3
    <3>6. d + e1 \in 0..n-1
      BY ONLY <2>1, <3>1, <3>4
    <3>7. d + e1 = c0 + k + (d - o)
      BY ONLY <2>1, <2>3, <3>1, <3>2
    <3>8. (d + e1) - e1 = d
      BY ONLY <2>1, <3>1
    <3> QED
      BY ONLY <3>4, <3>5, <3>6, <3>7, <3>8
  <2>5. <<r, d + e1>> \in CopiesTo(d, w, Zeros)
    <3>1. <<r, d + e1>> \in Copies(w, Zeros)
      BY <1>6, <2>4
    <3>2. CopyDest(<<r, d + e1>>, w) = (d + e1) - e1
      BY <1>7, <2>4
    <3> QED
      BY <2>4, <3>1, <3>2 DEF CopiesTo
  <2>6. ASSUME NEW c \in CopiesTo(d, w, Zeros) PROVE c = <<r, d + e1>>
    <3>1. c \in Copies(w, Zeros) /\ CopyDest(c, w) = d
      BY DEF CopiesTo
    <3>2. PICK s \in Rows, j \in Int : /\ c = <<s, j>>
                                       /\ csr.offset[s + 1] - Rest(s, w) <= j /\ j < csr.offset[s + 1]
      BY <1>6, <3>1
    <3>3. Holds(off, s, d) /\ d = j - e[s + 1]
      BY <1>7, <3>1, <3>2
    <3>4. s = r
      BY <1>2, <1>9, <3>3, InOneRow
    <3>5. j = d + e1
      BY <2>1, <3>3, <3>4
    <3> QED
      BY <3>2, <3>4, <3>5
  <2>7. CopiesTo(d, w, Zeros) = {<<r, d + e1>>}
    BY <2>5, <2>6
  <2>8. (CHOOSE c \in {<<r, d + e1>>} : \A b0 \in {<<r, d + e1>>} : b0[1] <= c[1]) = <<r, d + e1>>
    <3>1. r <= r
      BY FormatsAssumption DEF Rows
    <3>2. \A b0 \in {<<r, d + e1>>} : b0[1] <= <<r, d + e1>>[1]
      BY <3>1
    <3> QED
      BY <3>2
  <2>9. LastTo(d, w, Zeros) = <<r, d + e1>>
    BY Zenon, <2>7, <2>8 DEF LastTo
  <2> QED
    BY <2>4, <2>9
<1>10. Part(h.ell, w, -1) /\ h.max_row = w /\ h.coo = [d \in 0..N-1 |-> Copied(LastTo(d, w, Zeros))]
  BY DEF HybOf, Part
<1>11. RestsAt(h.coo, off, w)
  <2>1. \A r \in Rows : Rest(r, w) \in Nat /\ off[r + 1] = off[r] + Rest(r, w)
    BY <1>4, <1>5
  <2>2. ASSUME NEW d \in 0..N-1, NEW r \in Rows, Holds(off, r, d)
        PROVE  /\ h.coo[d].row = r
               /\ ColVal(h.coo[d]) = csr.ent[csr.offset[r] + InEll(r, w) + (d - off[r])]
    <3> PICK j : j = d + e[r + 1]
      OBVIOUS
    <3>1. LastTo(d, w, Zeros) = <<r, j>> /\ j \in 0..n-1
          /\ j = csr.offset[r] + InEll(r, w) + (d - off[r])
      BY <1>9, <2>2
    <3>2. h.coo[d] = Element(r, csr.ent[j].col, csr.ent[j].val)
      <4>1. h.coo[d] = Copied(LastTo(d, w, Zeros))
        BY <1>10
      <4>2. Copied(<<r, j>>) = Element(r, csr.ent[j].col, csr.ent[j].val)
        BY DEF Copied
      <4> QED
        BY <3>1, <4>1, <4>2
    <3>3. csr.ent[j] \in [col : Cols, val : Positions]
      BY <3>1 DEF CsrShape
    <3>4. h.coo[d].row = r /\ ColVal(h.coo[d]) = csr.ent[j]
      BY <3>2, <3>3 DEF Element, ColVal
    <3> QED
      BY <3>1, <3>4
  <2> QED
    BY <1>2, <2>1, <2>2 DEF RestsAt
<1>12. DOMAIN h.coo = 0..N-1
  BY <1>10
<1> QED
  BY <1>8, <1>10, <1>11, <1>12

LEMMA HybRestIs ==
  ASSUME NEW n \in Nat, CsrShape(csr, n), NEW w \in Nat, hyb = HybOf(w, Zeros),
         NEW off, RestsAt(hyb.coo, off, w), NEW r \in Rows
  PROVE  /\ off[r] \in Nat /\ Rest(r, w) \in Nat
         /\ \A i : i \in HybRest(r) <=> i \in Nat /\ off[r] <= i /\ i < off[r] + Rest(r, w)
         /\ \A k \in 0..Rest(r, w)-1 :
              ColVal(hyb.coo[off[r] + k]) = csr.ent[csr.offset[r] + InEll(r, w) + k]
<1> PICK N, part : N = CooNnz(w) /\ part = hyb.coo
  OBVIOUS
<1>1. RowOffsets(off, N) /\ N \in Nat
  BY FormatsAssumption DEF RestsAt, RowOffsets
<1>2. DOMAIN part = 0..N-1
  BY HybOfIs
<1>3. /\ \A s \in Rows : off[s] \in 0..N /\ off[s + 1] \in 0..N
      /\ \A d \in 0..N-1 : \E s \in Rows : Holds(off, s, d)
  BY <1>1, InOneRow
<1>4. \A d \in 0..N-1 : \A s \in Rows : Holds(off, s, d) =>
        /\ part[d].row = s
        /\ ColVal(part[d]) = csr.ent[csr.offset[s] + InEll(s, w) + (d - off[s])]
  BY DEF RestsAt
<1> PICK o, q : o = off[r] /\ q = Rest(r, w)
  OBVIOUS
<1>5. q \in Nat /\ o \in 0..N /\ off[r + 1] = o + q /\ o + q \in 0..N
  BY <1>3 DEF RestsAt
<1>6. \A i \in 0..N-1 : part[i].row = r <=> Holds(off, r, i)
  BY <1>3, <1>4
<1>7. \A i : i \in HybRest(r) <=> i \in 0..N-1 /\ Holds(off, r, i)
  BY <1>2, <1>6 DEF HybRest
<1>8. \A i : i \in HybRest(r) <=> i \in Nat /\ o <= i /\ i < o + q
  <2>1. \A i : Holds(off, r, i) <=> o <= i /\ i < o + q
    BY <1>5 DEF Holds
  <2> QED
    BY ONLY <1>1, <1>5, <1>7, <2>1
<1>9. ASSUME NEW k \in 0..q-1
      PROVE  ColVal(part[o + k]) = csr.ent[csr.offset[r] + InEll(r, w) + k]
  <2>1. o + k \in 0..N-1 /\ o <= o + k /\ o + k < o + q /\ (o + k) - o = k
    BY <1>1, <1>5
  <2>2. Holds(off, r, o + k)
    BY <1>5, <2>1 DEF Holds
  <2>3. ColVal(part[o + k]) = csr.ent[csr.offset[r] + InEll(r, w) + ((o + k) - o)]
    BY <1>4, <2>1, <2>2
  <2> QED
    BY <2>1, <2>3
<1> QED
  BY <1>5, <1>8, <1>9

LEMMA HybRoundTrip ==
  ASSUME NEW n \in Nat, CsrShape(csr, n), NEW w \in Nat, hyb = HybOf(w, Zeros)
  PROVE  FromRows([r \in Rows |-> HybRow(r)], Zeros) = csr
<1>1. /\ Part(hyb.ell, w, -1) /\ hyb.max_row = w
      /\ \E off : RestsAt(hyb.coo, off, w)
  BY HybOfIs
<1>2. PICK off : RestsAt(hyb.coo, off, w)
  BY <1>1
<1>3. ASSUME NEW r \in Rows PROVE HybRow(r) = CsrEntries(r)
  <2> PICK a, o, q, k, l : /\ a = csr.offset[r] /\ o = off[r] /\ q = Rest(r, w) /\ k = InEll(r, w)
                           /\ l = RowLength(r)
    OBVIOUS
  <2>1. k \in 0..l /\ l \in 0..n /\ a \in Nat
    BY RowLengths, InEllIs
  <2>2. /\ o \in Nat /\ q \in Nat
        /\ \A i : i \in HybRest(r) <=> i \in Nat /\ o <= i /\ i < o + q
        /\ \A i \in 0..q-1 : ColVal(hyb.coo[o + i]) = csr.ent[a + k + i]
    BY <1>2, HybRestIs
  <2>3. q = l - k
    BY DEF Rest
  <2> PICK first, rest : first = EllRow(hyb.ell, w, r) /\ rest = Ascending(HybRest(r))
    OBVIOUS
  <2>4. first = FirstEntries(r, k)
    <3> PICK p, sl : p = -1 /\ sl = hyb.ell
      OBVIOUS
    <3>1. p \in Int /\ p < 0 /\ Part(sl, w, p)
      BY <1>1
    <3>2. EllRow(sl, w, r) = FirstEntries(r, k)
      BY <3>1, EllRowIs
    <3> QED
      BY <3>2
  <2>5. DOMAIN first = 0..k-1 /\ \A i \in 0..k-1 : first[i] = csr.ent[a + i]
    BY <2>4 DEF FirstEntries
  <2>6. rest = [i \in 0..q-1 |-> o + i]
    <3> PICK S : S = HybRest(r)
      OBVIOUS
    <3>1. \A i : i \in S <=> i \in Nat /\ o <= i /\ i < o + q
      BY <2>2
    <3>2. Ascending(S) = [i \in 0..q-1 |-> o + i]
      BY <2>2, <3>1, AscendingInterval
    <3> QED
      BY <3>2
  <2>7. Size(first) = k /\ Size(rest) = q
    BY <2>1, <2>2, <2>5, <2>6, SizeOf
  <2>8. HybRow(r) = [m \in 0..Size(first)+Size(rest)-1 |->
                       IF m < Size(first) THEN first[m]
                       ELSE ColVal(hyb.coo[rest[m - Size(first)]])]
    BY <1>1 DEF HybRow
  <2>9. HybRow(r) = [m \in 0..k+q-1 |-> IF m < k THEN first[m] ELSE ColVal(hyb.coo[rest[m - k]])]
    BY <2>7, <2>8
  <2>10. ASSUME NEW m \in 0..k+q-1
         PROVE  (IF m < k THEN first[m] ELSE ColVal(hyb.coo[rest[m - k]])) = csr.ent[a + m]
    <3>1. CASE m < k
      <4>1. m \in 0..k-1
        BY <2>1, <3>1
      <4> QED
        BY <2>5, <3>1, <4>1
    <3>2. CASE ~ (m < k)
      <4>1. m - k \in 0..q-1 /\ a + k + (m - k) = a + m
        BY <2>1, <2>2, <3>2
      <4>2. rest[m - k] = o + (m - k)
        BY <2>6, <4>1
      <4>3. ColVal(hyb.coo[o + (m - k)]) = csr.ent[a + k + (m - k)]
        BY <2>2, <4>1
      <4> QED
        BY <3>2, <4>1, <4>2, <4>3
    <3> QED
      BY <3>1, <3>2
  <2>11. k + q = l
    BY <2>1, <2>3
  <2>12. CsrEntries(r) = [m \in 0..l-1 |-> csr.ent[a + m]]
    BY DEF CsrEntries, FirstEntries
  <2>13. HybRow(r) = [m \in 0..k+q-1 |-> csr.ent[a + m]]
    BY <2>9, <2>10
  <2> QED
    <3>1. 0..k+q-1 = 0..l-1
      BY <2>1, <2>2, <2>11
    <3> QED
      BY ONLY <2>12, <2>13, <3>1
<1> PICK row : row = [r \in Rows |-> HybRow(r)]
  OBVIOUS
<1>4. \A r \in Rows : row[r] = CsrEntries(r)
  BY <1>3
<1>5. FromRows(row, Zeros) = csr
  BY <1>4, FromRowsIs
<1> QED
  BY <1>5

-----------------------------------------------------------------------------
(* Products.                                                               *)

Matches(e, S, t) == {i \in S : <<e[i].val, e[i].col>> = t}

(* Entries that are in correspondence are counted alike.                   *)
LEMMA SameCount ==
  ASSUME NEW S, IsFiniteSet(S), NEW T, NEW e, NEW g, NEW f,
         \A i \in S : f[i] \in T /\ e[i].val = g[f[i]].val /\ e[i].col = g[f[i]].col,
         \A i, j \in S : f[i] = f[j] => i = j,
         \A j \in T : \E i \in S : f[i] = j
  PROVE  Count(g, T) = Count(e, S)
<1>1. ASSUME NEW t \in Terms PROVE Cardinality(Matches(g, T, t)) = Cardinality(Matches(e, S, t))
  <2> PICK M, K : M = Matches(e, S, t) /\ K = Matches(g, T, t)
    OBVIOUS
  <2>1. M \subseteq S /\ IsFiniteSet(M)
    <3>1. M \subseteq S
      BY DEF Matches
    <3> QED
      BY <3>1, FS_Subset
  <2>2. \A i \in M : f[i] \in K
    BY DEF Matches
  <2>3. \A i, j \in M : f[i] = f[j] => i = j
    BY <2>1
  <2>4. \A j \in K : \E i \in M : f[i] = j
    BY DEF Matches
  <2>5. Cardinality(K) = Cardinality(M)
    BY ONLY <2>1, <2>2, <2>3, <2>4, SameNumber
  <2> QED
    BY <2>5
<1>2. Count(e, S) = [t \in Terms |-> Cardinality(Matches(e, S, t))]
  BY DEF Count, Matches
<1>3. Count(g, T) = [t \in Terms |-> Cardinality(Matches(g, T, t))]
  BY DEF Count, Matches
<1> QED
  BY ONLY <1>1, <1>2, <1>3

(* Those of two parts of a set add up.                                     *)
LEMMA CountSplit ==
  ASSUME NEW S, NEW T, IsFiniteSet(S), IsFiniteSet(T), S \cap T = {}, NEW e
  PROVE  Count(e, S \cup T) = Count(e, S) ++ Count(e, T)
<1>1. \A R0 : Count(e, R0) = [t \in Terms |-> Cardinality(Matches(e, R0, t))]
  BY DEF Count, Matches
<1>2. ASSUME NEW t \in Terms
      PROVE  Cardinality(Matches(e, S \cup T, t))
               = Cardinality(Matches(e, S, t)) + Cardinality(Matches(e, T, t))
  <2>1. Matches(e, S \cup T, t) = Matches(e, S, t) \cup Matches(e, T, t)
        /\ Matches(e, S, t) \cap Matches(e, T, t) = {}
    BY DEF Matches
  <2>2. IsFiniteSet(Matches(e, S, t)) /\ IsFiniteSet(Matches(e, T, t))
    <3>1. Matches(e, S, t) \subseteq S /\ Matches(e, T, t) \subseteq T
      BY DEF Matches
    <3> QED
      BY <3>1, FS_Subset
  <2> QED
    BY Zenon, <2>1, <2>2, DisjointUnion
<1>3. Count(e, S) ++ Count(e, T)
        = [t \in Terms |-> Cardinality(Matches(e, S, t)) + Cardinality(Matches(e, T, t))]
  BY <1>1 DEF ++
<1>4. Count(e, S \cup T) = [t \in Terms |-> Cardinality(Matches(e, S \cup T, t))]
  BY <1>1
<1> QED
  BY ONLY <1>2, <1>3, <1>4

(* The product that the file stands for.                                   *)
Right(r) == Each(Terms, {<<p, p[2]>> : p \in {q \in file : q[1] = r}})

(* Every entry of the file is in the array once.                           *)
Whole(ent, n) ==
  /\ \A i \in 0..n-1 : \E p \in file : ent[i] = Element(p[1], p[2], p)
  /\ \A p \in file : \E i \in 0..n-1 : ent[i].val = p
  /\ \A i, j \in 0..n-1 : ent[i].val = ent[j].val => i = j

LEMMA CooCount ==
  ASSUME NEW n \in Nat, NEW ent, DOMAIN ent = 0..n-1, Whole(ent, n), file \subseteq Positions, NEW r \in Rows
  PROVE  Count(ent, InRow(ent, r)) = Right(r)
<1> PICK S : S = InRow(ent, r)
  OBVIOUS
<1> DEFINE Due == {<<p, p[2]>> : p \in {q \in file : q[1] = r}}
<1>1. ASSUME NEW t \in Terms PROVE Cardinality(Matches(ent, S, t)) = IF t \in Due THEN 1 ELSE 0
  <2>1. ASSUME NEW i \in Matches(ent, S, t)
        PROVE  t \in Due /\ i \in 0..n-1 /\ ent[i].val = t[1]
    <3>1. i \in 0..n-1 /\ ent[i].row = r /\ <<ent[i].val, ent[i].col>> = t
      BY DEF Matches, InRow
    <3>2. PICK p \in file : ent[i] = Element(p[1], p[2], p)
      BY <3>1 DEF Whole
    <3>3. ent[i].row = p[1] /\ ent[i].col = p[2] /\ ent[i].val = p
      BY <3>2 DEF Element
    <3>4. t = <<p, p[2]>> /\ p[1] = r /\ i \in 0..n-1 /\ ent[i].val = p
      BY <3>1, <3>3
    <3>5. t[1] = p
      BY ONLY <3>4
    <3> QED
      BY ONLY <3>2, <3>4, <3>5
  <2>2. ASSUME t \in Due PROVE Cardinality(Matches(ent, S, t)) = 1
    <3>1. PICK p \in file : p[1] = r /\ t = <<p, p[2]>>
      BY <2>2
    <3>2. PICK i \in 0..n-1 : ent[i].val = p
      BY DEF Whole
    <3>3. PICK q \in file : ent[i] = Element(q[1], q[2], q)
      BY DEF Whole
    <3>4. ent[i].row = p[1] /\ ent[i].col = p[2]
      BY <3>2, <3>3 DEF Element
    <3>5. i \in Matches(ent, S, t)
      BY <3>1, <3>2, <3>4 DEF Matches, InRow
    <3>6. \A j \in Matches(ent, S, t) : j = i
      BY <2>1, <3>5 DEF Whole
    <3>7. Matches(ent, S, t) = {i}
      BY <3>5, <3>6
    <3> QED
      BY <3>7, FS_Singleton
  <2>3. ASSUME t \notin Due PROVE Cardinality(Matches(ent, S, t)) = 0
    <3>1. Matches(ent, S, t) = {}
      BY <2>1, <2>3
    <3> QED
      BY <3>1, FS_EmptySet
  <2> HIDE DEF Due
  <2> QED
    BY <2>2, <2>3
<1>2. Count(ent, S) = [t \in Terms |-> Cardinality(Matches(ent, S, t))]
  BY DEF Count, Matches
<1>3. Right(r) = [t \in Terms |-> IF t \in Due THEN 1 ELSE 0]
  BY DEF Right, Each
<1> HIDE DEF Due
<1> QED
  BY <1>1, <1>2, <1>3

(* CSR.                                                                    *)
LEMMA CsrCount ==
  ASSUME NEW n \in Nat, NEW ent, Entries(ent, n), csr = Built(ent, n), NEW r \in Rows
  PROVE  Count(csr.ent, CsrRow(r)) = Count(ent, InRow(ent, r))
<1> PICK off, S, T, g : off = csr.offset /\ S = InRow(ent, r) /\ T = CsrRow(r) /\ g = csr.ent
  OBVIOUS
<1>1. /\ CsrShape(csr, n) /\ Placed(ent, n, off)
      /\ \A k \in 0..n-1 : g[Dest(ent, off, k)] = ColVal(ent[k])
  BY BuiltIs
<1>2. RowOffsets(off, n) /\ off[r] \in 0..n /\ off[r + 1] \in 0..n
  BY <1>1, InOneRow DEF Placed
<1>3. \A d : d \in T <=> d \in 0..n-1 /\ Holds(off, r, d)
  BY <1>2 DEF CsrRow, Holds
<1>4. \A k : k \in S <=> k \in 0..n-1 /\ ent[k].row = r
  BY DEF InRow, Entries
<1>5. IsFiniteSet(S)
  BY BelowAndIn
<1> PICK f : f = [k \in 0..n-1 |-> Dest(ent, off, k)]
  OBVIOUS
<1>6. \A k \in 0..n-1 : f[k] \in 0..n-1 /\ Holds(off, ent[k].row, f[k]) /\ ent[k].row \in Rows
                        /\ g[f[k]] = ColVal(ent[k])
  BY <1>1 DEF Placed, Entries
<1>7. \A k, m \in 0..n-1 : f[k] = f[m] => k = m
  BY <1>1 DEF Placed
<1>8. \A d \in 0..n-1 : \E k \in 0..n-1 : f[k] = d
  BY <1>1 DEF Placed
<1>9. ASSUME NEW k \in S PROVE f[k] \in T /\ ent[k].val = g[f[k]].val /\ ent[k].col = g[f[k]].col
  <2>1. k \in 0..n-1 /\ ent[k].row = r
    BY ONLY <1>4
  <2>2. f[k] \in 0..n-1 /\ Holds(off, r, f[k]) /\ g[f[k]] = ColVal(ent[k])
    BY ONLY <1>6, <2>1
  <2>3. ColVal(ent[k]).val = ent[k].val /\ ColVal(ent[k]).col = ent[k].col
    BY DEF ColVal
  <2> QED
    BY ONLY <1>3, <2>2, <2>3
<1>10. \A k, m \in S : f[k] = f[m] => k = m
  BY <1>4, <1>7
<1>11. \A d \in T : \E k \in S : f[k] = d
  <2> TAKE d \in T
  <2>1. d \in 0..n-1 /\ Holds(off, r, d) /\ d \in Nat
    BY <1>3
  <2>2. PICK k \in 0..n-1 : f[k] = d
    BY <1>8, <2>1
  <2>3. Holds(off, ent[k].row, d) /\ ent[k].row \in Rows
    BY <1>6, <2>2
  <2>4. ent[k].row = r
    BY <1>2, <2>1, <2>3, InOneRow
  <2> QED
    BY <1>4, <2>2, <2>4
<1>12. Count(g, T) = Count(ent, S)
  BY ONLY <1>5, <1>9, <1>10, <1>11, SameCount
<1> QED
  BY <1>12

(* The l entries from place a.                                             *)
Span(a, l) == a .. a + l - 1

LEMMA SpanIs ==
  ASSUME NEW a \in Nat, NEW l \in Nat
  PROVE  /\ IsFiniteSet(Span(a, l))
         /\ \A d : d \in Span(a, l) <=> d \in Nat /\ a <= d /\ d < a + l
<1>1. a \in Int /\ a + l - 1 \in Int
  OBVIOUS
<1>2. IsFiniteSet(Span(a, l))
  BY <1>1, FS_Interval DEF Span
<1>3. \A d : d \in Span(a, l) <=> d \in Nat /\ a <= d /\ d < a + l
  BY DEF Span
<1> QED
  BY <1>2, <1>3

(* ELL: the used slots of a row hold the first entries of the row.         *)
LEMMA PartCount ==
  ASSUME NEW n \in Nat, CsrShape(csr, n), NEW w \in Nat, NEW padding \in Int, padding < 0,
         NEW sl, Part(sl, w, padding), NEW r \in Rows
  PROVE  Count(sl, Slots(r, 0..InEll(r, w)-1)) = Count(csr.ent, Span(csr.offset[r], InEll(r, w)))
<1> PICK k, a, S, T, g : /\ k = InEll(r, w) /\ a = csr.offset[r] /\ S = Span(a, k)
                         /\ T = Slots(r, 0..k-1) /\ g = csr.ent
  OBVIOUS
<1>1. /\ k \in Nat /\ k <= w
      /\ \A m \in 0..k-1 : sl[EllInd(r, m)] = g[a + m]
  <2>1. k \in 0..RowLength(r) /\ k <= w /\ \A m \in 0..k-1 : sl[EllInd(r, m)] = g[a + m]
    BY PartIs
  <2>2. RowLength(r) \in Nat
    BY RowLengths
  <2> QED
    BY <2>1, <2>2
<1>2. a \in Nat
  BY RowLengths
<1>3. IsFiniteSet(S) /\ \A d : d \in S <=> d \in Nat /\ a <= d /\ d < a + k
  BY <1>1, <1>2, SpanIs
<1>4. \A m \in Nat : SlotNth(EllInd(r, m)) = m
  BY SlotIs
<1> PICK f : f = [d \in S |-> EllInd(r, d - a)]
  OBVIOUS
<1>5. ASSUME NEW d \in S PROVE /\ f[d] \in T /\ g[d].val = sl[f[d]].val /\ g[d].col = sl[f[d]].col
                               /\ d - a \in Nat /\ d \in Nat /\ SlotNth(f[d]) = d - a
  <2>1. d - a \in 0..k-1 /\ a + (d - a) = d /\ d \in Nat
    BY ONLY <1>1, <1>2, <1>3
  <2>2. f[d] = EllInd(r, d - a)
    OBVIOUS
  <2>3. f[d] \in T
    BY <2>1, <2>2 DEF Slots
  <2>4. sl[f[d]] = g[d]
    BY ONLY <1>1, <2>1, <2>2
  <2>5. SlotNth(f[d]) = d - a
    BY ONLY <1>4, <2>1, <2>2
  <2> QED
    BY ONLY <2>1, <2>3, <2>4, <2>5
<1>6. ASSUME NEW d \in S, NEW e \in S, f[d] = f[e] PROVE d = e
  BY ONLY <1>2, <1>5, <1>6
<1>7. ASSUME NEW s \in T PROVE \E d \in S : f[d] = s
  <2>1. PICK m \in 0..k-1 : s = EllInd(r, m)
    BY DEF Slots
  <2>2. a + m \in S /\ (a + m) - a = m
    BY ONLY <1>1, <1>2, <1>3, m \in 0..k-1
  <2> QED
    BY <2>1, <2>2
<1>8. Count(sl, T) = Count(g, S)
  BY ONLY <1>3, <1>5, <1>6, <1>7, SameCount
<1> QED
  BY <1>8

LEMMA CsrRowSpan ==
  ASSUME NEW n \in Nat, CsrShape(csr, n), NEW r \in Rows
  PROVE  CsrRow(r) = Span(csr.offset[r], RowLength(r))
<1> PICK a, b, l : a = csr.offset[r] /\ b = csr.offset[r + 1] /\ l = RowLength(r)
  OBVIOUS
<1>1. a \in Nat /\ l \in Nat /\ b = a + l
  BY RowLengths
<1>2. b - 1 = a + l - 1
  BY ONLY <1>1
<1>3. CsrRow(r) = a..b-1 /\ Span(a, l) = a .. a + l - 1
  BY DEF CsrRow, Span
<1> QED
  BY ONLY <1>2, <1>3, a = csr.offset[r], l = RowLength(r)

LEMMA EllCount ==
  ASSUME NEW n \in Nat, CsrShape(csr, n), NEW e, e = EllOf(LongestRow), NEW r \in Rows
  PROVE  /\ Used(e.ent, e.max_row, r) = 0..InEll(r, e.max_row)-1
         /\ Count(e.ent, Slots(r, 0..InEll(r, e.max_row)-1)) = Count(csr.ent, CsrRow(r))
<1>1. Part(e.ent, e.max_row, -999) /\ e.max_row \in Nat /\ InEll(r, e.max_row) = RowLength(r)
  BY ZenonT(40), EllRoundTrip
<1> PICK p, w, sl : p = -999 /\ w = e.max_row /\ sl = e.ent
  OBVIOUS
<1>2. p \in Int /\ p < 0 /\ Part(sl, w, p)
  BY <1>1
<1>3. Used(sl, w, r) = 0..InEll(r, w)-1
  BY <1>1, <1>2, EllRowIs
<1>4. Count(sl, Slots(r, 0..InEll(r, w)-1)) = Count(csr.ent, Span(csr.offset[r], InEll(r, w)))
  BY <1>1, <1>2, PartCount
<1> QED
  BY <1>1, <1>3, <1>4, CsrRowSpan

(* The kernel stops where the row ends: its padding comes last.            *)
LEMMA KernelSlots ==
  ASSUME NEW n \in Nat, CsrShape(csr, n), ell = EllOf(LongestRow), NEW r \in Rows
  PROVE  EllPrefix(r) = 0..InEll(r, ell.max_row)-1
<1>1. Part(ell.ent, ell.max_row, -999) /\ ell.max_row \in Nat
  <2> PICK w : w = LongestRow
    OBVIOUS
  <2>1. w \in Nat
    BY LongestRowIs
  <2>2. ell.max_row = w /\ Part(ell.ent, w, -999)
    BY DEF EllOf, Part
  <2> QED
    BY <2>1, <2>2
<1> PICK p, w, sl, k : p = -999 /\ w = ell.max_row /\ sl = ell.ent /\ k = InEll(r, w)
  OBVIOUS
<1>2. p \in Int /\ p < 0 /\ Part(sl, w, p) /\ w \in Nat
  BY <1>1
<1>3. k \in 0..RowLength(r) /\ k <= w /\ RowLength(r) \in Nat
      /\ \A m \in 0..w-1 : sl[EllInd(r, m)].col >= 0 <=> m < k
  BY <1>2, PartIs, RowLengths
<1>4. EllPrefix(r) = {m \in 0..w-1 : \A i \in 0..m : sl[EllInd(r, i)].col >= 0}
  BY DEF EllPrefix
<1>5. ASSUME NEW m \in 0..w-1
      PROVE  (\A i \in 0..m : sl[EllInd(r, i)].col >= 0) <=> m < k
  <2>1. \A i \in 0..m : i \in 0..w-1
    BY ONLY <1>2, m \in 0..w-1
  <2>2. (\A i \in 0..m : sl[EllInd(r, i)].col >= 0) <=> \A i \in 0..m : i < k
    BY ONLY <1>3, <2>1
  <2>3. (\A i \in 0..m : i < k) <=> m < k
    BY ONLY <1>2, <1>3, m \in 0..w-1
  <2> QED
    BY ONLY <2>2, <2>3
<1>6. EllPrefix(r) = {m \in 0..w-1 : m < k}
  BY ONLY <1>4, <1>5
<1>7. {m \in 0..w-1 : m < k} = 0..k-1
  BY ONLY <1>2, <1>3
<1> QED
  BY <1>6, <1>7

(* HYB: the two parts hold the first entries of the row and the others.    *)
LEMMA HybCount ==
  ASSUME NEW n \in Nat, CsrShape(csr, n), NEW w \in Nat, hyb = HybOf(w, Zeros), NEW r \in Rows
  PROVE  Count(hyb.ell, Slots(r, Used(hyb.ell, hyb.max_row, r))) ++ Count(hyb.coo, HybRest(r))
           = Count(csr.ent, CsrRow(r))
<1>1. Part(hyb.ell, w, -1) /\ hyb.max_row = w /\ \E off : RestsAt(hyb.coo, off, w)
  BY HybOfIs
<1> PICK p, sl, part, g, a, k, l, q : /\ p = -1 /\ sl = hyb.ell /\ part = hyb.coo /\ g = csr.ent
                                   /\ a = csr.offset[r] /\ l = RowLength(r)
                                   /\ k = InEll(r, w) /\ q = Rest(r, w)
  OBVIOUS
<1>2. p \in Int /\ p < 0 /\ Part(sl, w, p)
  BY <1>1
<1>3. Used(sl, w, r) = 0..k-1
  BY <1>2, EllRowIs
<1>4. Count(sl, Slots(r, 0..k-1)) = Count(g, Span(a, k))
  BY <1>2, PartCount
<1>5. a \in Nat /\ l \in Nat /\ k \in 0..l /\ q = l - k /\ q \in Nat
  <2>1. a \in Nat /\ l \in Nat
    BY RowLengths
  <2>2. k \in 0..l
    BY InEllIs
  <2> QED
    BY <2>1, <2>2 DEF Rest
<1>6. PICK off : RestsAt(part, off, w)
  BY <1>1
<1> PICK o : o = off[r]
  OBVIOUS
<1>7. /\ o \in Nat
      /\ \A i : i \in HybRest(r) <=> i \in Nat /\ o <= i /\ i < o + q
      /\ \A i \in 0..q-1 : ColVal(part[o + i]) = g[a + k + i]
  BY <1>6, HybRestIs
<1> PICK T, S, f : /\ T = HybRest(r) /\ S = Span(a + k, q)
                   /\ f = [d \in S |-> o + (d - (a + k))]
  OBVIOUS
<1>8. IsFiniteSet(S) /\ \A d : d \in S <=> d \in Nat /\ a + k <= d /\ d < a + k + q
  <2>1. a + k \in Nat
    BY ONLY <1>5
  <2> QED
    BY <2>1, <1>5, SpanIs
<1>9. ASSUME NEW d \in S
      PROVE  /\ f[d] \in T /\ g[d].val = part[f[d]].val /\ g[d].col = part[f[d]].col
             /\ f[d] = o + (d - (a + k)) /\ d \in Nat
  <2>1. f[d] = o + (d - (a + k)) /\ d \in Nat /\ d - (a + k) \in 0..q-1 /\ a + k + (d - (a + k)) = d
    BY <1>5, <1>8
  <2>2. f[d] \in T
    <3>1. f[d] \in Nat /\ o <= f[d] /\ f[d] < o + q
      BY ONLY <1>5, <1>7, <2>1
    <3> QED
      BY <1>7, <3>1
  <2>3. ColVal(part[f[d]]) = g[d]
    BY ONLY <1>7, <2>1
  <2>4. g[d].val = part[f[d]].val /\ g[d].col = part[f[d]].col
    BY <2>3 DEF ColVal
  <2> QED
    BY ONLY <2>1, <2>2, <2>4
<1>10. ASSUME NEW d \in S, NEW e \in S, f[d] = f[e] PROVE d = e
  BY ONLY <1>5, <1>7, <1>9, <1>10
<1>11. ASSUME NEW i \in T PROVE \E d \in S : f[d] = i
  <2>1. i \in Nat /\ o <= i /\ i < o + q
    BY <1>7
  <2> PICK d : d = (a + k) + (i - o)
    OBVIOUS
  <2>2. d \in S /\ o + (d - (a + k)) = i
    BY ONLY <1>5, <1>7, <1>8, <2>1, d = (a + k) + (i - o)
  <2> QED
    BY ONLY <1>9, <2>2
<1>12. Count(part, T) = Count(g, S)
  BY ONLY <1>8, <1>9, <1>10, <1>11, SameCount
<1>13. /\ IsFiniteSet(Span(a, k))
       /\ \A d : d \in Span(a, k) <=> d \in Nat /\ a <= d /\ d < a + k
       /\ \A d : d \in Span(a, l) <=> d \in Nat /\ a <= d /\ d < a + l
  BY <1>5, SpanIs
<1>14. Span(a, k) \cap S = {} /\ Span(a, k) \cup S = Span(a, l)
  <2>1. \A d : ~(d \in Span(a, k) /\ d \in S)
    BY ONLY <1>5, <1>8, <1>13
  <2>2. \A d : d \in Span(a, k) \/ d \in S <=> d \in Span(a, l)
    BY ONLY <1>5, <1>8, <1>13
  <2> QED
    BY ONLY <2>1, <2>2
<1>15. Count(g, Span(a, k) \cup S) = Count(g, Span(a, k)) ++ Count(g, S)
  BY ONLY <1>8, <1>13, <1>14, CountSplit
<1>16. CsrRow(r) = Span(a, l)
  BY CsrRowSpan
<1>17. Count(sl, Slots(r, Used(sl, w, r))) ++ Count(part, T) = Count(g, CsrRow(r))
  BY ONLY <1>3, <1>4, <1>12, <1>14, <1>15, <1>16
<1> QED
  BY <1>1, <1>17

-----------------------------------------------------------------------------
(* What the matrices hold.                                                 *)

LEMMA UnpackedWhole ==
  ASSUME NEW n \in Nat, NEW ent, Entries(ent, n), Whole(ent, n), csr = Built(ent, n)
  PROVE  Whole(Unpacked(n), n)
<1> PICK off, u : off = csr.offset /\ u = Unpacked(n)
  OBVIOUS
<1>1. /\ CsrShape(csr, n) /\ Placed(ent, n, off)
      /\ \A k \in 0..n-1 : csr.ent[Dest(ent, off, k)] = ColVal(ent[k])
  BY BuiltIs
<1>2. ASSUME NEW k \in 0..n-1
      PROVE  Dest(ent, off, k) \in 0..n-1 /\ u[Dest(ent, off, k)] = ent[k]
  <2> PICK d : d = Dest(ent, off, k)
    OBVIOUS
  <2>1. ent[k] \in [row : Rows, col : Cols, val : Positions]
    BY DEF Entries
  <2>2. d \in 0..n-1 /\ Holds(off, ent[k].row, d) /\ csr.ent[d] = ColVal(ent[k])
    BY <1>1 DEF Placed
  <2>3. CsrRowOf(d) = ent[k].row
    BY <1>1, <2>1, <2>2, CsrRowIs
  <2>4. csr.ent[d].col = ent[k].col /\ csr.ent[d].val = ent[k].val
    BY <2>2 DEF ColVal
  <2>5. u[d] = Element(CsrRowOf(d), csr.ent[d].col, csr.ent[d].val)
    BY <2>2 DEF Unpacked
  <2>6. u[d] = Element(ent[k].row, ent[k].col, ent[k].val)
    BY ONLY <2>3, <2>4, <2>5
  <2>7. ent[k] = Element(ent[k].row, ent[k].col, ent[k].val)
    BY ONLY <2>1 DEF Element
  <2> QED
    BY <2>2, <2>6, <2>7
<1>3. \A d \in 0..n-1 : \E k \in 0..n-1 : Dest(ent, off, k) = d
  BY <1>1 DEF Placed
<1>4. \A d \in 0..n-1 : \E k \in 0..n-1 : Dest(ent, off, k) = d /\ u[d] = ent[k]
  BY ONLY <1>2, <1>3
<1>5. \A d \in 0..n-1 : \E p \in file : u[d] = Element(p[1], p[2], p)
  BY <1>4 DEF Whole
<1>6. \A p \in file : \E d \in 0..n-1 : u[d].val = p
  BY <1>2 DEF Whole
<1>7. ASSUME NEW d \in 0..n-1, NEW e \in 0..n-1, u[d].val = u[e].val PROVE d = e
  <2>1. PICK k \in 0..n-1 : Dest(ent, off, k) = d /\ u[d] = ent[k]
    BY <1>4
  <2>2. PICK m \in 0..n-1 : Dest(ent, off, m) = e /\ u[e] = ent[m]
    BY <1>4
  <2>3. k = m
    BY <1>7, <2>1, <2>2 DEF Whole
  <2> QED
    BY <2>1, <2>2, <2>3
<1> QED
  BY <1>5, <1>6, <1>7 DEF Whole

(* The files that are read.                                                *)
FileOK ==
  /\ file \subseteq Positions /\ IsFiniteSet(file)
  /\ symmetric \in Symmetric
  /\ symmetric => \A p \in file : p[1] >= p[2]

LEMMA StoredIs ==
  ASSUME FileOK
  PROVE  /\ IsFiniteSet(Stored) /\ Cardinality(Stored) = Cardinality(file)
         /\ Cardinality(file) \in Nat
<1> PICK f : f = [p \in file |-> Element(p[1], p[2], p)]
  OBVIOUS
<1>1. /\ \A p \in file : f[p] \in Stored /\ f[p].val = p
      /\ \A e \in Stored : \E p \in file : f[p] = e
  BY DEF Stored, Element
<1>2. \A p, q \in file : f[p] = f[q] => p = q
  BY <1>1
<1>3. IsFiniteSet(file)
  BY DEF FileOK
<1>4. IsFiniteSet(Stored) /\ Cardinality(Stored) = Cardinality(file)
  BY ONLY <1>1, <1>2, <1>3, SameNumber
<1> QED
  BY <1>3, <1>4, FS_CardinalityType

LEMMA MirroredIs == ASSUME FileOK PROVE IsFiniteSet(Mirrored)
<1> PICK S : S = {q \in file : q[1] # q[2]}
  OBVIOUS
<1> PICK f : f = [p \in S |-> Element(p[2], p[1], p)]
  OBVIOUS
<1>1. /\ \A p \in S : f[p] \in Mirrored /\ f[p].val = p
      /\ \A e \in Mirrored : \E p \in S : f[p] = e
  BY DEF Mirrored, Element
<1>2. \A p, q \in S : f[p] = f[q] => p = q
  BY <1>1
<1>3. IsFiniteSet(S)
  BY FS_Subset DEF FileOK
<1> QED
  BY ONLY <1>1, <1>2, <1>3, SameNumber

(* Of two entries one is before the other, also if one is a mirror image.  *)
LEMMA ExpansionIs ==
  ASSUME FileOK
  PROVE  /\ IsFiniteSet(Expansion) /\ Cardinality(file) <= Cardinality(Expansion)
         /\ ~symmetric => Expansion = Stored
         /\ Expansion \subseteq [row : Rows, col : Cols, val : Positions]
         /\ TotalOrder({p \in Expansion \X Expansion : Earlier(p[1], p[2])}, Expansion)
<1> PICK S, R : S = Expansion /\ R = {p \in S \X S : Earlier(p[1], p[2])}
  OBVIOUS
<1>1. IsFiniteSet(S) /\ Stored \subseteq S
  <2>1. S = Stored \/ S = Stored \cup Mirrored
    BY DEF Expansion
  <2>2. IsFiniteSet(Stored \cup Mirrored)
    BY StoredIs, MirroredIs, FS_Union
  <2> QED
    BY <2>1, <2>2, StoredIs
<1>2. Cardinality(file) <= Cardinality(S)
  BY <1>1, StoredIs, FS_Subset
<1>3. ~symmetric => S = Stored
  BY DEF Expansion
<1>4. symmetric => Rows = Cols
  BY FormatsAssumption DEF FileOK, Rows, Cols
<1>5. ASSUME NEW x \in Stored
      PROVE  /\ x \in [row : Rows, col : Cols, val : Positions]
             /\ x.val = <<x.row, x.col>> /\ (symmetric => x.row >= x.col)
             /\ x = Element(x.row, x.col, x.val)
  <2>1. PICK p \in file : x = Element(p[1], p[2], p)
    BY DEF Stored
  <2>2. p = <<p[1], p[2]>> /\ p[1] \in Rows /\ p[2] \in Cols /\ p \in Positions
        /\ (symmetric => p[1] >= p[2])
    BY DEF FileOK, Positions
  <2> QED
    BY <2>1, <2>2 DEF Element
<1>6. ASSUME NEW x \in Mirrored, symmetric
      PROVE  /\ x \in [row : Rows, col : Cols, val : Positions]
             /\ x.val = <<x.col, x.row>> /\ x.row < x.col
             /\ x = Element(x.row, x.col, x.val)
  <2>1. PICK p \in file : p[1] # p[2] /\ x = Element(p[2], p[1], p)
    BY DEF Mirrored
  <2>2. p = <<p[1], p[2]>> /\ p[1] \in Rows /\ p[2] \in Cols /\ p \in Positions
        /\ p[1] >= p[2] /\ p[1] \in Int /\ p[2] \in Int
    BY <1>6 DEF FileOK, Positions, Rows, Cols
  <2>3. p[2] < p[1]
    BY ONLY <2>1, <2>2
  <2> QED
    BY <1>4, <1>6, <2>1, <2>2, <2>3 DEF Element
<1>7. \A x \in S : x \in Stored \/ (symmetric /\ x \in Mirrored)
  BY DEF Expansion
<1>8. ASSUME NEW x \in S
      PROVE  x \in [row : Rows, col : Cols, val : Positions] /\ x.row \in Int /\ x.col \in Int
  <2>1. x \in [row : Rows, col : Cols, val : Positions]
    BY <1>5, <1>6, <1>7
  <2> QED
    BY <2>1 DEF Rows, Cols
<1>9. ASSUME NEW x \in S, NEW z \in S, x.row = z.row, x.col = z.col PROVE x = z
  <2>1. CASE x \in Stored /\ z \in Stored
    BY <1>5, <1>9, <2>1
  <2>2. CASE symmetric /\ x \in Mirrored /\ z \in Mirrored
    BY <1>6, <1>9, <2>2
  <2>3. CASE symmetric /\ x \in Stored /\ z \in Mirrored
    <3>1. x.row >= x.col /\ z.row < z.col
      BY <1>5, <1>6, <2>3
    <3> QED
      BY <1>8, <1>9, <3>1
  <2>4. CASE symmetric /\ x \in Mirrored /\ z \in Stored
    <3>1. z.row >= z.col /\ x.row < x.col
      BY <1>5, <1>6, <2>4
    <3> QED
      BY <1>8, <1>9, <3>1
  <2> QED
    BY <1>7, <2>1, <2>2, <2>3, <2>4
<1>10. \A x, z \in S : <<x, z>> \in R <=> x.row < z.row \/ (x.row = z.row /\ x.col < z.col)
  BY DEF Earlier
<1>11. TotalOrder(R, S)
  <2>1. ASSUME NEW x \in S, NEW z \in S, x # z PROVE <<x, z>> \in R \/ <<z, x>> \in R
    BY <1>8, <1>9, <1>10, <2>1
  <2>2. \A x \in S : <<x, x>> \notin R
    BY <1>8, <1>10
  <2>3. ASSUME NEW x \in S, NEW y \in S, NEW z \in S, <<x, y>> \in R, <<y, z>> \in R
        PROVE  <<x, z>> \in R
    <3>1. /\ x.row < y.row \/ (x.row = y.row /\ x.col < y.col)
          /\ y.row < z.row \/ (y.row = z.row /\ y.col < z.col)
      BY <1>10, <2>3
    <3>2. x.row < z.row \/ (x.row = z.row /\ x.col < z.col)
      BY ONLY <1>8, <3>1
    <3> QED
      BY <1>10, <3>2
  <2> QED
    BY <2>1, <2>2, <2>3 DEF TotalOrder
<1>12. S \subseteq [row : Rows, col : Cols, val : Positions]
  BY <1>8
<1> QED
  BY <1>1, <1>2, <1>3, <1>11, <1>12

(* What load leaves: the first entries of the expansion in ascending order. *)
LEMMA LoadIs ==
  ASSUME FileOK, NEW n, n = Cardinality(file), NEW ent,
         ent = [i \in 0..n-1 |-> Sorted(Expansion, Earlier)[i]]
  PROVE  n \in Nat /\ Entries(ent, n) /\ (~symmetric => Whole(ent, n))
<1> PICK S, R, N, f : /\ S = Expansion /\ R = {p \in S \X S : Earlier(p[1], p[2])}
                      /\ N = Cardinality(S) /\ f = Sorted(Expansion, Earlier)
  OBVIOUS
<1>1. /\ IsFiniteSet(S) /\ n <= N /\ (~symmetric => S = Stored)
      /\ S \subseteq [row : Rows, col : Cols, val : Positions]
      /\ TotalOrder(R, S)
  BY ExpansionIs
<1>2. n \in Nat /\ n = Cardinality(Stored) /\ N \in Nat
  BY <1>1, StoredIs, FS_CardinalityType
<1>3. ASSUME NEW x \in S PROVE Lower(R, S, x) = {y \in S : Earlier(y, x)}
  BY DEF Lower
<1>4. f = [i \in 0..N-1 |-> CHOOSE x \in S : Cardinality({y \in S : Earlier(y, x)}) = i]
  BY DEF Sorted
<1>5. ASSUME NEW i \in 0..N-1, \E x \in S : Cardinality(Lower(R, S, x)) = i
      PROVE  f[i] \in S /\ Cardinality(Lower(R, S, f[i])) = i
  <2>1. f[i] = CHOOSE x \in S : Cardinality({y \in S : Earlier(y, x)}) = i
    BY <1>4
  <2>2. \E x \in S : Cardinality({y \in S : Earlier(y, x)}) = i
    BY ONLY <1>3, <1>5
  <2>3. f[i] \in S /\ Cardinality({y \in S : Earlier(y, f[i])}) = i
    BY ONLY <2>1, <2>2
  <2> QED
    BY ONLY <1>3, <2>3
<1>6. /\ \A i \in 0..N-1 : f[i] \in S
      /\ \A i, j \in 0..N-1 : i < j => <<f[i], f[j]>> \in R
      /\ \A x \in S : \E i \in 0..N-1 : f[i] = x
  <2>1. \A i \in 0..Cardinality(S)-1 : (\E x \in S : Cardinality(Lower(R, S, x)) = i)
                                         => f[i] \in S /\ Cardinality(Lower(R, S, f[i])) = i
    BY <1>5
  <2>2. /\ \A i \in 0..Cardinality(S)-1 : f[i] \in S
        /\ \A i, j \in 0..Cardinality(S)-1 : i < j => <<f[i], f[j]>> \in R
        /\ \A x \in S : \E i \in 0..Cardinality(S)-1 : f[i] = x
    BY ONLY <1>1, <2>1, ByRank
  <2> QED
    BY <2>2
<1>7. \A i \in 0..n-1 : i \in 0..N-1 /\ ent[i] = f[i]
  BY <1>1, <1>2
<1>8. Entries(ent, n)
  BY <1>1, <1>6, <1>7 DEF Entries
<1>9. ASSUME ~symmetric PROVE Whole(ent, n)
  <2>1. S = Stored /\ N = n
    BY <1>1, <1>2, <1>9
  <2>2. \A i \in 0..n-1 : \E p \in file : ent[i] = Element(p[1], p[2], p)
    BY <1>6, <1>7, <2>1 DEF Stored
  <2>3. ASSUME NEW p \in file PROVE \E i \in 0..n-1 : ent[i].val = p
    <3>1. Element(p[1], p[2], p) \in S
      BY <2>1 DEF Stored
    <3>2. PICK i \in 0..n-1 : ent[i] = Element(p[1], p[2], p)
      BY <1>6, <1>7, <2>1, <3>1
    <3> QED
      BY <3>2 DEF Element
  <2>4. ASSUME NEW i \in 0..n-1, NEW j \in 0..n-1, ent[i].val = ent[j].val PROVE i = j
    <3>1. PICK p \in file : ent[i] = Element(p[1], p[2], p)
      BY <2>2
    <3>2. PICK q \in file : ent[j] = Element(q[1], q[2], q)
      BY <2>2
    <3>3. ent[i] = ent[j]
      BY <2>4, <3>1, <3>2 DEF Element
    <3>4. f[i] = f[j] /\ f[i] \in S /\ i \in 0..N-1 /\ j \in 0..N-1
      BY <1>6, <1>7, <3>3
    <3>5. <<f[i], f[j]>> \notin R /\ <<f[j], f[i]>> \notin R
      BY <1>1, <3>4 DEF TotalOrder
    <3>6. ~(i < j) /\ ~(j < i)
      BY ONLY <1>6, <3>4, <3>5
    <3> QED
      BY ONLY <3>4, <3>6
  <2> QED
    BY <2>2, <2>3, <2>4 DEF Whole
<1> QED
  BY <1>2, <1>8, <1>9

(* An array of as many different entries as the file has, has them all.    *)
LEMMA ConstructIs ==
  ASSUME FileOK, NEW n, n = Cardinality(file), NEW s \in [0..n-1 -> Stored],
         \A i, j \in DOMAIN s : s[i] = s[j] => i = j
  PROVE  n \in Nat /\ Entries(s, n) /\ Whole(s, n)
<1>1. IsFiniteSet(Stored) /\ Cardinality(Stored) = n /\ n \in Nat
  BY StoredIs
<1>2. s \in Injection(0..n-1, Stored)
  BY DEF Injection, IsInjective
<1>3. Cardinality(0..n-1) = n
  <2>1. 0 \in Int /\ n - 1 \in Int
    BY <1>1
  <2>2. Cardinality(0..n-1) = IF 0 > n - 1 THEN 0 ELSE n - 1 - 0 + 1
    BY <2>1, FS_Interval
  <2> QED
    BY ONLY <1>1, <2>2
<1>4. s \in Surjection(0..n-1, Stored)
  BY <1>1, <1>2, <1>3, FS_Injection
<1>5. \A e \in Stored : \E i \in 0..n-1 : s[i] = e
  BY <1>4 DEF Surjection
<1>6. \A i \in 0..n-1 : \E p \in file : s[i] = Element(p[1], p[2], p)
  BY DEF Stored
<1>7. ASSUME NEW p \in file PROVE \E i \in 0..n-1 : s[i].val = p
  <2>1. Element(p[1], p[2], p) \in Stored /\ Element(p[1], p[2], p).val = p
    BY DEF Stored, Element
  <2> QED
    BY <1>5, <2>1
<1>8. ASSUME NEW i \in 0..n-1, NEW j \in 0..n-1, s[i].val = s[j].val PROVE i = j
  <2>1. PICK p \in file : s[i] = Element(p[1], p[2], p)
    BY <1>6
  <2>2. PICK q \in file : s[j] = Element(q[1], q[2], q)
    BY <1>6
  <2>3. s[i] = s[j]
    BY <1>8, <2>1, <2>2 DEF Element
  <2> QED
    BY <2>3
<1>9. \A i \in 0..n-1 : s[i] \in [row : Rows, col : Cols, val : Positions]
  BY <1>6 DEF Element, FileOK, Positions
<1> QED
  BY <1>1, <1>6, <1>7, <1>8, <1>9 DEF Entries, Whole

-----------------------------------------------------------------------------
(* The inductive invariant.  The conversions count in arrays that they do  *)
(* not clear (matrixcsr_cpu.cpp:176, 234, 330, matrixhyb_cpu.cpp:183), so  *)
(* that all of this holds only if new int[] returns zeros.                 *)

ZeroMemory == FreshOffsets = {0} /\ FreshCounts = {0}

CooOK ==
  /\ coo.nnz \in Nat /\ Entries(coo.ent, coo.nnz)
  /\ coo.nnz > 0 /\ ~symmetric => Whole(coo.ent, coo.nnz)
(* Of the three other matrices each is what the conversion of the one it   *)
(* came from gives, and would give now.                                    *)
CsrOK == csr.nnz \in Nat /\ (csr.nnz > 0 => csr.nnz = coo.nnz /\ csr = Built(coo.ent, coo.nnz))
EllOK == ell.nnz > 0 => csr.nnz > 0 /\ ell = EllOf(LongestRow)
HybOK == hyb.max_row \in Nat /\ (hyb.nnz > 0 => csr.nnz > 0 /\ hyb = HybOf(hyb.max_row, Zeros))

ProductOK == product # <<>> => product \in [Rows -> Sums(Terms)]

FInv ==
  /\ FileOK /\ CooOK /\ CsrOK /\ EllOK /\ HybOK
  /\ ProductOK /\ ProductsAgree
  /\ status \in {"ok", "aborted"}

LEMMA FreshIs ==
  ASSUME NEW fresh \in Fresh({0}) PROVE fresh = Zeros
BY DEF Fresh, Zeros

LEMMA FInitOK == ASSUME FInit, ZeroMemory PROVE FInv
<1>1. FileOK
  <2>1. /\ file \in SUBSET Positions /\ symmetric \in Symmetric
        /\ symmetric => \A p \in file : p[1] >= p[2]
    BY DEF FInit
  <2>2. IsFiniteSet(Positions)
    <3>1. IsFiniteSet(Rows) /\ IsFiniteSet(Cols)
      BY FormatsAssumption, FS_Interval DEF Rows, Cols
    <3> QED
      BY <3>1, FS_Product DEF Positions
  <2> QED
    BY <2>1, <2>2, FS_Subset DEF FileOK
<1>2. CooOK
  <2>1. coo = [nnz |-> 0, ent |-> <<>>]
    BY DEF FInit
  <2>2. coo.nnz = 0 /\ coo.ent = <<>> /\ DOMAIN <<>> = 0..0-1
    BY <2>1
  <2> QED
    BY <2>2 DEF CooOK, Entries
<1>3. CsrOK /\ EllOK /\ HybOK /\ ProductOK /\ ProductsAgree /\ status \in {"ok", "aborted"}
  BY FormatsAssumption DEF FInit, CsrOK, EllOK, HybOK, ProductOK, ProductsAgree
<1> QED
  BY <1>1, <1>2, <1>3 DEF FInv

(* What holds wherever there is a CSR matrix.                              *)
LEMMA CsrHere ==
  ASSUME FInv, csr.nnz > 0
  PROVE  /\ coo.nnz \in Nat /\ csr.nnz = coo.nnz /\ coo.nnz > 0
         /\ Entries(coo.ent, coo.nnz) /\ csr = Built(coo.ent, coo.nnz)
         /\ CsrShape(csr, coo.nnz)
         /\ ~symmetric => Whole(coo.ent, coo.nnz)
<1>1. /\ coo.nnz \in Nat /\ csr.nnz = coo.nnz /\ coo.nnz > 0
      /\ Entries(coo.ent, coo.nnz) /\ csr = Built(coo.ent, coo.nnz)
      /\ ~symmetric => Whole(coo.ent, coo.nnz)
  BY DEF FInv, CooOK, CsrOK
<1>2. CsrShape(csr, coo.nnz)
  BY <1>1, BuiltIs
<1> QED
  BY <1>1, <1>2

(* Every conversion to CSR gives the CSR matrix there is.                  *)
LEMMA CsrStays ==
  ASSUME FInv, ZeroMemory, [FNext]_fvars, csr.nnz > 0
  PROVE  csr' = csr
<1>0. /\ coo.nnz \in Nat /\ CsrShape(csr, coo.nnz) /\ csr = Built(coo.ent, coo.nnz)
  BY CsrHere
<1>1. CASE CooToCsr
  <2>1. PICK fresh \in Fresh({0}) :
          LET starts == CooStarts(coo.ent, fresh)
          IN  IF \A k \in 0..coo.nnz-1 : Dest(coo.ent, starts, k) \in 0..coo.nnz-1
              THEN csr' = CsrOf(coo.ent, coo.nnz, starts) /\ UNCHANGED status
              ELSE status' = "overflow" /\ UNCHANGED csr
    BY <1>1 DEF CooToCsr, ZeroMemory
  <2>2. fresh = Zeros
    BY FreshIs
  <2>3. csr' = CsrOf(coo.ent, coo.nnz, CooStarts(coo.ent, Zeros)) \/ csr' = csr
    BY <2>1, <2>2
  <2> QED
    BY <1>0, <2>3 DEF Built
<1>2. CASE EllToCsr
  <2>1. ell.nnz > 0 /\ \E fresh \in Fresh({0}) :
          csr' = FromRows([r \in Rows |-> EllRow(ell.ent, ell.max_row, r)], fresh)
    BY <1>2 DEF EllToCsr, ZeroMemory
  <2>2. ell = EllOf(LongestRow)
    BY <2>1 DEF FInv, EllOK
  <2>3. csr' = FromRows([r \in Rows |-> EllRow(ell.ent, ell.max_row, r)], Zeros)
    BY <2>1, FreshIs
  <2> QED
    BY <1>0, <2>2, <2>3, EllRoundTrip
<1>3. CASE HybToCsr
  <2>1. hyb.nnz > 0 /\ \E fresh \in Fresh({0}) :
          csr' = FromRows([r \in Rows |-> HybRow(r)], fresh)
    BY <1>3 DEF HybToCsr, ZeroMemory
  <2>2. hyb.max_row \in Nat /\ hyb = HybOf(hyb.max_row, Zeros)
    BY <2>1 DEF FInv, HybOK
  <2>3. csr' = FromRows([r \in Rows |-> HybRow(r)], Zeros)
    BY <2>1, FreshIs
  <2> QED
    BY <1>0, <2>2, <2>3, HybRoundTrip
<1>4. CASE LoadCOO \/ ConstructCOO \/ CsrToCoo \/ CsrToEll \/ CsrToHyb
  BY <1>4 DEF LoadCOO, ConstructCOO, CsrToCoo, CsrToEll, CsrToHyb, Unchanged
<1>5. CASE MultiplyCOO \/ MultiplyCSR \/ MultiplyELL \/ MultiplyEllKernel \/ MultiplyHYB
  BY <1>5 DEF MultiplyCOO, MultiplyCSR, MultiplyELL, MultiplyEllKernel, MultiplyHYB,
              Computes, Unchanged, matrices
<1>6. CASE UNCHANGED fvars
  BY <1>6 DEF fvars, matrices
<1> QED
  BY <1>1, <1>2, <1>3, <1>4, <1>5, <1>6 DEF FNext, Convert, Ended

LEMMA FilesStay ==
  ASSUME [FNext]_fvars PROVE file' = file /\ symmetric' = symmetric
BY DEF FNext, fvars, LoadCOO, ConstructCOO, Convert, CooToCsr, CsrToCoo, CsrToEll, EllToCsr,
       CsrToHyb, HybToCsr, MultiplyCOO, MultiplyCSR, MultiplyELL, MultiplyEllKernel, MultiplyHYB,
       Ended, Computes, Unchanged

LEMMA CooStep == ASSUME FInv, [FNext]_fvars PROVE CooOK'
<1>1. file' = file /\ symmetric' = symmetric
  BY FilesStay
<1>2. FileOK /\ CooOK
  BY DEF FInv
<1> PICK N : N = Cardinality(file)
  OBVIOUS
<1>3. ASSUME NEW n \in Nat, NEW s, coo' = [nnz |-> n, ent |-> s], Entries(s, n),
             ~symmetric => Whole(s, n)
      PROVE  CooOK'
  <2>1. coo'.nnz = n /\ coo'.ent = s
    BY <1>3
  <2> QED
    BY <1>1, <1>3, <2>1 DEF CooOK, Entries, Whole
<1>4. CASE LoadCOO
  <2> PICK ent : ent = [i \in 0..N-1 |-> Sorted(Expansion, Earlier)[i]]
    OBVIOUS
  <2>1. coo' = [nnz |-> N, ent |-> ent]
    BY <1>4 DEF LoadCOO
  <2>2. N \in Nat /\ Entries(ent, N) /\ (~symmetric => Whole(ent, N))
    BY <1>2, LoadIs
  <2> QED
    BY <1>3, <2>1, <2>2
<1>5. CASE ConstructCOO
  <2>1. PICK s \in [0..N-1 -> Stored] : /\ \A i, j \in DOMAIN s : s[i] = s[j] => i = j
                                        /\ coo' = [nnz |-> N, ent |-> s]
    BY <1>5 DEF ConstructCOO
  <2>2. N \in Nat /\ Entries(s, N) /\ Whole(s, N)
    BY <1>2, <2>1, ConstructIs
  <2> QED
    BY <1>3, <2>1, <2>2
<1>6. CASE CsrToCoo
  <2>1. coo' = [nnz |-> csr.nnz, ent |-> Unpacked(csr.nnz)] /\ csr.nnz > 0
    BY <1>6 DEF CsrToCoo, CsrReadable, Unpacked
  <2>2. /\ csr.nnz \in Nat /\ CsrShape(csr, csr.nnz)
        /\ csr = Built(coo.ent, csr.nnz) /\ Entries(coo.ent, csr.nnz)
        /\ ~symmetric => Whole(coo.ent, csr.nnz)
    BY <2>1, CsrHere
  <2> QED
    BY <1>3, <2>1, <2>2, UnpackedIs, UnpackedWhole
<1>7. CASE UNCHANGED coo
  BY <1>1, <1>2, <1>7 DEF CooOK, Entries, Whole
<1> QED
  BY <1>4, <1>5, <1>6, <1>7
     DEF FNext, fvars, matrices, Convert, CooToCsr, CsrToEll, EllToCsr, CsrToHyb, HybToCsr, MultiplyCOO,
         MultiplyCSR, MultiplyELL, MultiplyEllKernel, MultiplyHYB, Ended, Computes, Unchanged

LEMMA CsrStep == ASSUME FInv, ZeroMemory, [FNext]_fvars PROVE CsrOK'
<1>1. CASE csr.nnz > 0
  <2>1. csr' = csr
    BY <1>1, CsrStays
  <2>2. coo.nnz \in Nat /\ coo.nnz > 0 /\ csr.nnz = coo.nnz /\ csr = Built(coo.ent, coo.nnz)
        /\ CsrShape(csr, coo.nnz)
    BY <1>1, CsrHere
  <2>3. CASE CsrToCoo
    <3>1. coo' = [nnz |-> csr.nnz, ent |-> Unpacked(csr.nnz)]
      BY <2>3 DEF CsrToCoo, Unpacked
    <3>2. coo'.nnz = csr.nnz /\ coo'.ent = Unpacked(csr.nnz)
      BY <3>1
    <3>3. Built(coo'.ent, coo'.nnz) = csr
      BY <2>2, <3>2, UnpackedIs
    <3> QED
      BY <1>1, <2>1, <2>2, <3>2, <3>3 DEF CsrOK, Built
  <2>4. CASE UNCHANGED coo
    BY <1>1, <2>1, <2>2, <2>4 DEF CsrOK, Built
  <2>5. ~LoadCOO /\ ~ConstructCOO
    BY <2>2 DEF LoadCOO, ConstructCOO
  <2> QED
    BY <2>3, <2>4, <2>5
       DEF FNext, fvars, matrices, Convert, CooToCsr, CsrToEll, EllToCsr, CsrToHyb, HybToCsr, MultiplyCOO,
           MultiplyCSR, MultiplyELL, MultiplyEllKernel, MultiplyHYB, Ended, Computes, Unchanged
<1>2. CASE csr.nnz = 0
  <2>1. ell.nnz > 0 => FALSE
    BY <1>2 DEF FInv, EllOK
  <2>2. hyb.nnz > 0 => FALSE
    BY <1>2 DEF FInv, HybOK
  <2>3. CASE CooToCsr
    <3>1. PICK fresh \in Fresh({0}) :
            LET starts == CooStarts(coo.ent, fresh)
            IN  IF \A k \in 0..coo.nnz-1 : Dest(coo.ent, starts, k) \in 0..coo.nnz-1
                THEN csr' = CsrOf(coo.ent, coo.nnz, starts) /\ UNCHANGED status
                ELSE status' = "overflow" /\ UNCHANGED csr
      BY <2>3 DEF CooToCsr, ZeroMemory
    <3>2. fresh = Zeros /\ UNCHANGED coo /\ coo.nnz > 0
      BY <2>3, FreshIs DEF CooToCsr, Unchanged
    <3>3. CASE UNCHANGED csr
      BY <1>2, <3>3 DEF CsrOK
    <3>4. CASE csr' = Built(coo.ent, coo.nnz)
      <4>1. coo.nnz \in Nat /\ Entries(coo.ent, coo.nnz)
        BY DEF FInv, CooOK
      <4>2. CsrShape(csr', coo.nnz)
        BY <3>4, <4>1, BuiltIs
      <4>3. csr'.nnz = coo.nnz
        BY <4>2 DEF CsrShape
      <4> QED
        BY <3>2, <3>4, <4>1, <4>3 DEF CsrOK, Built
    <3> QED
      BY <3>1, <3>2, <3>3, <3>4 DEF Built
  <2>4. CASE UNCHANGED csr
    BY <1>2, <2>4 DEF CsrOK
  <2> QED
    BY <2>1, <2>2, <2>3, <2>4
       DEF FNext, fvars, matrices, Convert, LoadCOO, ConstructCOO, CsrToCoo, CsrToEll, EllToCsr, CsrToHyb,
           HybToCsr, MultiplyCOO, MultiplyCSR, MultiplyELL, MultiplyEllKernel, MultiplyHYB, Ended,
           Computes, Unchanged
<1>3. csr.nnz \in Nat
  BY DEF FInv, CsrOK
<1> QED
  BY <1>1, <1>2, <1>3

LEMMA EllStep == ASSUME FInv, ZeroMemory, [FNext]_fvars PROVE EllOK'
<1>1. ASSUME csr' = csr PROVE (EllOf(LongestRow))' = EllOf(LongestRow)
  BY <1>1 DEF EllOf, LongestRow, SlotOf, RowLength, SlotRow, SlotNth, EllInd
<1>2. CASE CsrToEll
  <2>1. ell' = EllOf(LongestRow) /\ csr' = csr /\ csr.nnz > 0
    BY <1>2 DEF CsrToEll, CsrReadable, Unchanged
  <2> QED
    BY <1>1, <2>1 DEF EllOK
<1>3. CASE UNCHANGED ell
  <2>1. CASE ell.nnz > 0
    <3>1. csr.nnz > 0 /\ ell = EllOf(LongestRow)
      BY <2>1 DEF FInv, EllOK
    <3>2. csr' = csr
      BY <3>1, CsrStays
    <3> QED
      BY <1>1, <1>3, <3>1, <3>2 DEF EllOK
  <2>2. CASE ~(ell.nnz > 0)
    BY <1>3, <2>2 DEF EllOK
  <2> QED
    BY <2>1, <2>2
<1> QED
  BY <1>2, <1>3
     DEF FNext, fvars, matrices, Convert, LoadCOO, ConstructCOO, CooToCsr, CsrToCoo, EllToCsr, CsrToHyb,
         HybToCsr, MultiplyCOO, MultiplyCSR, MultiplyELL, MultiplyEllKernel, MultiplyHYB, Ended,
         Computes, Unchanged

(* The conversion to HYB never writes outside its arrays.                  *)
LEMMA ToHyb ==
  ASSUME FInv, ZeroMemory, CsrToHyb
  PROVE  /\ csr.nnz > 0 /\ csr' = csr /\ CsrShape(csr, coo.nnz) /\ coo.nnz \in Nat
         /\ status' \in {"ok", "aborted"}
         /\ hyb' = hyb \/ \E w \in Nat : hyb' = HybOf(w, Zeros)
<1>1. csr.nnz > 0 /\ csr' = csr
  BY DEF CsrToHyb, CsrReadable, Unchanged
<1>2. /\ coo.nnz \in Nat /\ CsrShape(csr, coo.nnz) /\ csr.nnz \in Nat
  BY <1>1, CsrHere
<1> PICK w : w = IF hyb.max_row = 0 THEN csr.nnz \div NRow ELSE hyb.max_row
  OBVIOUS
<1>3. w \in Nat
  <2>1. csr.nnz \div NRow \in Nat
    BY <1>2, FormatsAssumption, DivMod
  <2> QED
    BY <2>1 DEF FInv, HybOK
<1>4. Inside(w)
  BY <1>2, <1>3, HybOfIs
<1> PICK aborts : aborts = (w = 0 \/ CooNnz(w) = 0)
  OBVIOUS
<1>5. PICK fresh \in Fresh({0}) :
        LET inside == \A c \in Copies(w, fresh) :
                        c[2] >= 0 /\ CopyDest(c, w) \in 0..CooNnz(w)-1
        IN  /\ status' = IF w = 0 \/ CooNnz(w) = 0 THEN "aborted" ELSE IF inside THEN "ok" ELSE "overflow"
            /\ hyb' = IF (w = 0 \/ CooNnz(w) = 0) \/ ~inside THEN hyb ELSE HybOf(w, fresh)
  BY DEF CsrToHyb, ZeroMemory
<1>6. fresh = Zeros
  BY FreshIs
<1>7. /\ status' = IF w = 0 \/ CooNnz(w) = 0 THEN "aborted" ELSE IF Inside(w) THEN "ok" ELSE "overflow"
      /\ hyb' = IF (w = 0 \/ CooNnz(w) = 0) \/ ~Inside(w) THEN hyb ELSE HybOf(w, Zeros)
  BY <1>5, <1>6 DEF Inside
<1>8. status' \in {"ok", "aborted"}
  BY ONLY <1>4, <1>7
<1>9. hyb' = hyb \/ hyb' = HybOf(w, Zeros)
  BY ONLY <1>7
<1> QED
  BY <1>1, <1>2, <1>3, <1>8, <1>9

LEMMA HybStep == ASSUME FInv, ZeroMemory, [FNext]_fvars PROVE HybOK'
<1>1. ASSUME csr' = csr, NEW CONSTANT w PROVE HybOf(w, Zeros)' = HybOf(w, Zeros)
  BY <1>1 DEF HybOf, CooNnz, SlotOf, RowLength, SlotRow, SlotNth, Copied, LastTo, CopiesTo, Copies,
              CopyDest, EllUpTo, RestOf, InEll
<1>2. hyb.max_row \in Nat
  BY DEF FInv, HybOK
<1>3. CASE UNCHANGED hyb
  <2>1. CASE hyb.nnz > 0
    <3>1. csr.nnz > 0 /\ hyb = HybOf(hyb.max_row, Zeros)
      BY <2>1 DEF FInv, HybOK
    <3>2. csr' = csr
      BY <3>1, CsrStays
    <3> PICK w : w = hyb.max_row
      OBVIOUS
    <3>3. hyb' = HybOf(w, Zeros)' /\ hyb'.max_row = w
      BY <1>1, <1>3, <3>1, <3>2
    <3> QED
      BY <1>2, <1>3, <3>1, <3>2, <3>3 DEF HybOK
  <2>2. CASE ~(hyb.nnz > 0)
    BY <1>2, <1>3, <2>2 DEF HybOK
  <2> QED
    BY <2>1, <2>2
<1>4. CASE CsrToHyb
  <2>1. /\ csr.nnz > 0 /\ csr' = csr /\ CsrShape(csr, coo.nnz) /\ coo.nnz \in Nat
        /\ hyb' = hyb \/ \E w \in Nat : hyb' = HybOf(w, Zeros)
    BY <1>4, ToHyb
  <2>2. ASSUME NEW w \in Nat, hyb' = HybOf(w, Zeros) PROVE HybOK'
    <3> PICK h : h = HybOf(w, Zeros)
      OBVIOUS
    <3>1. h.max_row = w
      BY <2>1, HybOfIs
    <3>2. hyb'.max_row = w /\ hyb' = HybOf(w, Zeros)'
      BY <1>1, <2>1, <2>2, <3>1
    <3> QED
      BY <2>1, <3>2 DEF HybOK
  <2> QED
    BY <1>3, <2>1, <2>2
<1> QED
  BY <1>3, <1>4
     DEF FNext, fvars, matrices, Convert, LoadCOO, ConstructCOO, CooToCsr, CsrToCoo, CsrToEll, EllToCsr,
         HybToCsr, MultiplyCOO, MultiplyCSR, MultiplyELL, MultiplyEllKernel, MultiplyHYB, Ended,
         Computes, Unchanged

LEMMA StatusStep ==
  ASSUME FInv, ZeroMemory, [FNext]_fvars PROVE status' \in {"ok", "aborted"}
<1>1. status \in {"ok", "aborted"}
  BY DEF FInv
<1>2. CASE CooToCsr
  <2>1. PICK fresh \in Fresh({0}) :
          LET starts == CooStarts(coo.ent, fresh)
          IN  IF \A k \in 0..coo.nnz-1 : Dest(coo.ent, starts, k) \in 0..coo.nnz-1
              THEN csr' = CsrOf(coo.ent, coo.nnz, starts) /\ UNCHANGED status
              ELSE status' = "overflow" /\ UNCHANGED csr
    BY <1>2 DEF CooToCsr, ZeroMemory
  <2>2. fresh = Zeros
    BY FreshIs
  <2>3. Placed(coo.ent, coo.nnz, CooStarts(coo.ent, Zeros))
    BY CooPlaced DEF FInv, CooOK
  <2>4. \A k \in 0..coo.nnz-1 : Dest(coo.ent, CooStarts(coo.ent, Zeros), k) \in 0..coo.nnz-1
    BY <2>3 DEF Placed
  <2>5. UNCHANGED status
    BY <2>1, <2>2, <2>4
  <2> QED
    BY <1>1, <2>5
<1>3. CASE CsrToHyb
  BY <1>3, ToHyb
<1>4. CASE UNCHANGED status
  BY <1>1, <1>4
<1> QED
  BY <1>2, <1>3, <1>4
     DEF FNext, fvars, matrices, Convert, LoadCOO, ConstructCOO, CsrToCoo, CsrToEll, EllToCsr,
         HybToCsr, MultiplyCOO, MultiplyCSR, MultiplyELL, MultiplyEllKernel, MultiplyHYB, Ended,
         Computes, Unchanged

(* What every product is, in every format: that of the COO matrix.         *)
CooProduct == [r \in Rows |-> Count(coo.ent, InRow(coo.ent, r))]

LEMMA CsrProduct ==
  ASSUME FInv, csr.nnz > 0, NEW r \in Rows
  PROVE  Count(csr.ent, CsrRow(r)) = CooProduct[r]
<1>1. coo.nnz \in Nat /\ Entries(coo.ent, coo.nnz) /\ csr = Built(coo.ent, coo.nnz)
  BY CsrHere
<1>2. Count(csr.ent, CsrRow(r)) = Count(coo.ent, InRow(coo.ent, r))
  BY <1>1, CsrCount
<1> QED
  BY <1>2 DEF CooProduct

LEMMA EllProducts ==
  ASSUME FInv, ell.nnz > 0, NEW r \in Rows
  PROVE  /\ Count(ell.ent, Slots(r, Used(ell.ent, ell.max_row, r))) = CooProduct[r]
         /\ Count(ell.ent, Slots(r, EllPrefix(r))) = CooProduct[r]
<1>1. csr.nnz > 0 /\ ell = EllOf(LongestRow)
  BY DEF FInv, EllOK
<1>2. coo.nnz \in Nat /\ CsrShape(csr, coo.nnz)
  BY <1>1, CsrHere
<1> PICK e : e = ell
  OBVIOUS
<1>3. /\ Used(e.ent, e.max_row, r) = 0..InEll(r, e.max_row)-1
      /\ Count(e.ent, Slots(r, 0..InEll(r, e.max_row)-1)) = Count(csr.ent, CsrRow(r))
  BY <1>1, <1>2, EllCount
<1>4. EllPrefix(r) = 0..InEll(r, ell.max_row)-1
  BY <1>1, <1>2, KernelSlots
<1>5. Count(csr.ent, CsrRow(r)) = CooProduct[r]
  BY <1>1, CsrProduct
<1> QED
  BY <1>3, <1>4, <1>5

LEMMA HybProduct ==
  ASSUME FInv, hyb.nnz > 0, NEW r \in Rows
  PROVE  Count(hyb.ell, Slots(r, Used(hyb.ell, hyb.max_row, r))) ++ Count(hyb.coo, HybRest(r))
           = CooProduct[r]
<1>1. csr.nnz > 0 /\ hyb.max_row \in Nat /\ hyb = HybOf(hyb.max_row, Zeros)
  BY DEF FInv, HybOK
<1>2. coo.nnz \in Nat /\ CsrShape(csr, coo.nnz)
  BY <1>1, CsrHere
<1>3. Count(hyb.ell, Slots(r, Used(hyb.ell, hyb.max_row, r))) ++ Count(hyb.coo, HybRest(r))
        = Count(csr.ent, CsrRow(r))
  BY <1>1, <1>2, HybCount
<1> QED
  BY <1>1, <1>3, CsrProduct

LEMMA OneProduct ==
  ASSUME FInv, [FNext]_fvars
  PROVE  product' = product \/ (coo.nnz > 0 /\ product' = CooProduct)
<1>1. ASSUME NEW p, product' = [r \in Rows |-> p[r]], \A r \in Rows : p[r] = CooProduct[r]
      PROVE  product' = CooProduct
  BY <1>1 DEF CooProduct
<1>2. csr.nnz > 0 => coo.nnz > 0
  BY CsrHere
<1>3. CASE MultiplyCOO
  BY <1>3 DEF MultiplyCOO, Computes, CooProduct
<1>4. CASE MultiplyCSR
  <2> PICK p : p = [r \in Rows |-> Count(csr.ent, CsrRow(r))]
    OBVIOUS
  <2>1. csr.nnz > 0 /\ product' = p
    BY <1>4 DEF MultiplyCSR, CsrReadable, Computes
  <2>2. \A r \in Rows : p[r] = CooProduct[r]
    BY <2>1, CsrProduct
  <2> QED
    BY <1>1, <1>2, <2>1, <2>2
<1>5. CASE MultiplyELL
  <2> PICK p : p = [r \in Rows |-> Count(ell.ent, Slots(r, Used(ell.ent, ell.max_row, r)))]
    OBVIOUS
  <2>1. ell.nnz > 0 /\ product' = p
    BY <1>5 DEF MultiplyELL, Computes
  <2>2. \A r \in Rows : p[r] = CooProduct[r]
    BY <2>1, EllProducts
  <2> QED
    BY <1>1, <1>2, <2>1, <2>2 DEF FInv, EllOK
<1>6. CASE MultiplyEllKernel
  <2> PICK p : p = [r \in Rows |-> Count(ell.ent, Slots(r, EllPrefix(r)))]
    OBVIOUS
  <2>1. ell.nnz > 0 /\ product' = p
    BY <1>6 DEF MultiplyEllKernel, Computes
  <2>2. \A r \in Rows : p[r] = CooProduct[r]
    BY <2>1, EllProducts
  <2> QED
    BY <1>1, <1>2, <2>1, <2>2 DEF FInv, EllOK
<1>7. CASE MultiplyHYB
  <2> PICK p : p = [r \in Rows |->
           Count(hyb.ell, Slots(r, Used(hyb.ell, hyb.max_row, r))) ++ Count(hyb.coo, HybRest(r))]
    OBVIOUS
  <2>1. hyb.nnz > 0 /\ product' = p
    BY <1>7 DEF MultiplyHYB, Computes
  <2>2. \A r \in Rows : p[r] = CooProduct[r]
    BY <2>1, HybProduct
  <2> QED
    BY <1>1, <1>2, <2>1, <2>2 DEF FInv, HybOK
<1>8. CASE UNCHANGED product
  BY <1>8
<1> QED
  BY <1>3, <1>4, <1>5, <1>6, <1>7, <1>8
     DEF FNext, fvars, matrices, Convert, LoadCOO, ConstructCOO, CooToCsr, CsrToCoo, CsrToEll, EllToCsr,
         CsrToHyb, HybToCsr, Ended, Unchanged

LEMMA CooProductIs ==
  ASSUME FInv
  PROVE  /\ CooProduct \in [Rows -> Sums(Terms)]
         /\ coo.nnz > 0 /\ ~symmetric => \A r \in Rows : CooProduct[r] = Right(r)
<1>1. coo.nnz \in Nat /\ Entries(coo.ent, coo.nnz)
  BY DEF FInv, CooOK
<1>2. ASSUME NEW r \in Rows PROVE Count(coo.ent, InRow(coo.ent, r)) \in Sums(Terms)
  <2>1. IsFiniteSet(InRow(coo.ent, r))
    BY <1>1, BelowAndIn
  <2>2. ASSUME NEW t \in Terms
        PROVE  Cardinality({i \in InRow(coo.ent, r) : <<coo.ent[i].val, coo.ent[i].col>> = t}) \in Nat
    <3>1. IsFiniteSet({i \in InRow(coo.ent, r) : <<coo.ent[i].val, coo.ent[i].col>> = t})
      BY <2>1, FS_Subset
    <3> QED
      BY <3>1, FS_CardinalityType
  <2> QED
    BY <2>2 DEF Count, Sums
<1>3. ASSUME coo.nnz > 0, ~symmetric, NEW r \in Rows PROVE CooProduct[r] = Right(r)
  <2>1. Whole(coo.ent, coo.nnz)
    BY <1>3 DEF FInv, CooOK
  <2>2. Count(coo.ent, InRow(coo.ent, r)) = Right(r)
    BY <1>1, <2>1, CooCount DEF Entries, FInv, FileOK
  <2> QED
    BY <2>2 DEF CooProduct
<1> QED
  BY <1>2, <1>3 DEF CooProduct

LEMMA ProductsStep == ASSUME FInv, [FNext]_fvars PROVE ProductOK' /\ ProductsAgree'
<1>1. file' = file /\ symmetric' = symmetric
  BY FilesStay
<1>2. CASE product' = product
  BY <1>1, <1>2 DEF FInv, ProductOK, ProductsAgree, Terms
<1>3. CASE coo.nnz > 0 /\ product' = CooProduct
  <2>1. ProductOK'
    BY <1>3, CooProductIs DEF ProductOK
  <2>2. ~symmetric => \A r \in Rows : product'[r] = Right(r)
    BY <1>3, CooProductIs
  <2>3. ProductsAgree'
    BY <1>1, <2>2 DEF ProductsAgree, Right
  <2> QED
    BY <2>1, <2>3
<1> QED
  BY <1>2, <1>3, OneProduct

LEMMA FInvNext == ASSUME FInv, ZeroMemory, [FNext]_fvars PROVE FInv'
<1>1. FileOK'
  BY FilesStay DEF FInv, FileOK
<1> QED
  BY <1>1, CooStep, CsrStep, EllStep, HybStep, ProductsStep, StatusStep DEF FInv

(* In every reachable state the CSR matrix is the one that get_data builds *)
(* from the COO matrix, and the ELL and the HYB matrix are those it builds *)
(* from the CSR matrix, for files of any size, whatever was converted into *)
(* what and in which order.                                                *)
THEOREM FInvariant == ASSUME ZeroMemory PROVE FSpec => []FInv
<1>1. FInit => FInv
  BY FInitOK
<1>2. FInv /\ [FNext]_fvars => FInv'
  BY FInvNext
<1> QED
  BY <1>1, <1>2, PTL DEF FSpec

(* No conversion writes outside the arrays it has allocated: not where CSR *)
(* puts the entries of COO, and not where the rests of the rows are copied *)
(* into the COO part of HYB, whose size was counted in another loop.  The  *)
(* program can only end in a failed assertion.                             *)
THEOREM Within == ASSUME ZeroMemory PROVE FSpec => [](status # "overflow")
<1>1. FInv => status # "overflow"
  BY DEF FInv
<1> QED
  BY <1>1, FInvariant, PTL

(* Every product of a file that is not symmetric is that of the file: in   *)
(* all formats, on the CPU and by the ELL kernel, which stops at the first *)
(* padding where the CPU skips it.                                         *)
THEOREM ProductsOfFile == ASSUME ZeroMemory PROVE FSpec => []ProductsAgree
<1>1. FInv => ProductsAgree
  BY DEF FInv
<1> QED
  BY <1>1, FInvariant, PTL

(* Every product, of a symmetric file too, is that of the COO matrix: what *)
(* load has cut off of its expansion is missing in all formats alike.      *)
THEOREM FormatsAgree ==
  ASSUME ZeroMemory
  PROVE  FSpec => [][product' = product \/ product' = CooProduct]_fvars
<1>1. FInv /\ [FNext]_fvars => product' = product \/ product' = CooProduct
  BY OneProduct
<1> QED
  BY <1>1, FInvariant, PTL DEF FSpec

(* Once there is a CSR matrix, get_data from COO, ELL or HYB gives it      *)
(* again: no entry is lost, repeated, moved to another row or out of its   *)
(* place in the row.                                                       *)
THEOREM RoundTrips == ASSUME ZeroMemory PROVE FSpec => RoundTrip
<1>1. FInv /\ [FNext]_fvars => (csr.nnz > 0 => csr' = csr)
  BY CsrStays
<1> QED
  BY <1>1, FInvariant, PTL DEF FSpec, RoundTrip

(* The COO part of HYB has the size that was counted, in order of its rows. *)
LEMMA HybTyped ==
  ASSUME FInv, hyb.nnz > 0
  PROVE  /\ hyb.nnz = Size(hyb.coo) + hyb.max_row * NRow
         /\ \A m, n \in DOMAIN hyb.coo : m < n => hyb.coo[m].row <= hyb.coo[n].row
<1>1. csr.nnz > 0 /\ hyb.max_row \in Nat /\ hyb = HybOf(hyb.max_row, Zeros)
  BY DEF FInv, HybOK
<1>2. coo.nnz \in Nat /\ CsrShape(csr, coo.nnz)
  BY <1>1, CsrHere
<1> PICK w, N, part : w = hyb.max_row /\ N = CooNnz(w) /\ part = hyb.coo
  OBVIOUS
<1>3. DOMAIN part = 0..N-1 /\ \E off : RestsAt(part, off, w)
  BY <1>1, <1>2, HybOfIs
<1>4. PICK off : RestsAt(part, off, w)
  BY <1>3
<1>5. RowOffsets(off, N) /\ \A d \in 0..N-1 : \A r \in Rows : Holds(off, r, d) => part[d].row = r
  BY <1>4 DEF RestsAt
<1>6. N \in Nat
  BY <1>5, FormatsAssumption DEF RowOffsets
<1>7. hyb.nnz = Size(part) + w * NRow
  <2>1. Size(part) = N
    BY <1>3, <1>6, SizeOf
  <2>2. hyb.nnz = N + w * NRow
    BY <1>1 DEF HybOf
  <2> QED
    BY <2>1, <2>2
<1>8. ASSUME NEW m \in 0..N-1, NEW d \in 0..N-1, m < d PROVE part[m].row <= part[d].row
  <2>1. PICK r, s : r \in Rows /\ s \in Rows /\ Holds(off, r, m) /\ Holds(off, s, d)
    BY <1>5, InOneRow
  <2>2. part[m].row = r /\ part[d].row = s
    BY <1>5, <2>1
  <2>3. /\ r \in 0..NRow /\ s \in 0..NRow /\ s + 1 \in 0..NRow /\ r \in Int /\ s \in Int
        /\ off[r] \in Nat /\ off[s + 1] \in Nat
    <3>1. \A q \in Rows : q \in 0..NRow /\ q + 1 \in 0..NRow /\ q \in Int
      BY FormatsAssumption DEF Rows
    <3> QED
      BY <1>5, <2>1, <3>1 DEF RowOffsets
  <2>4. CASE r <= s
    BY <2>2, <2>4
  <2>5. ASSUME s + 1 <= r PROVE FALSE
    <3>1. off[s + 1] <= off[r]
      BY <1>5, <2>3, <2>5, Monotone
    <3>2. off[r] <= m /\ d < off[s + 1]
      BY <2>1 DEF Holds
    <3> QED
      BY ONLY <1>6, <1>8, <2>3, <3>1, <3>2
  <2> QED
    BY <2>3, <2>4, <2>5
<1> QED
  BY <1>3, <1>7, <1>8

LEMMA Typed == ASSUME FInv PROVE FTypeOK
<1>1. /\ file \subseteq Positions /\ symmetric \in BOOLEAN
      /\ DOMAIN coo.ent = 0..coo.nnz-1
      /\ \A i \in DOMAIN coo.ent : coo.ent[i].row \in Rows /\ coo.ent[i].col \in Cols
      /\ product # <<>> => product \in [Rows -> Sums(Terms)]
      /\ status \in {"ok", "aborted", "overflow"}
  BY FormatsAssumption DEF FInv, FileOK, CooOK, Entries, ProductOK
<1>2. ASSUME csr.nnz > 0
      PROVE  csr.offset \in [0..NRow -> 0..csr.nnz] /\ DOMAIN csr.ent = 0..csr.nnz-1
  <2> PICK n, off : n = csr.nnz /\ off = csr.offset
    OBVIOUS
  <2>1. n \in Nat /\ CsrShape(csr, n)
    BY <1>2, CsrHere
  <2>2. RowOffsets(off, n) /\ DOMAIN csr.ent = 0..n-1
    BY <2>1 DEF CsrShape
  <2>3. ASSUME NEW r \in 0..NRow PROVE off[r] \in 0..n
    <3>1. NRow \in 0..NRow /\ r <= NRow
      BY FormatsAssumption
    <3>2. off[r] <= off[NRow]
      BY <2>2, <3>1, Monotone
    <3>3. off[r] \in Nat /\ off[NRow] = n
      BY <2>2 DEF RowOffsets
    <3> QED
      BY ONLY <2>1, <3>2, <3>3
  <2>4. off \in [0..NRow -> 0..n]
    BY <2>2, <2>3 DEF RowOffsets
  <2> QED
    BY <2>2, <2>4
<1>3. ASSUME ell.nnz > 0
      PROVE  DOMAIN ell.ent = 0..ell.nnz-1 /\ ell.nnz = ell.max_row * NRow
  <2>1. ell = EllOf(LongestRow)
    BY <1>3 DEF FInv, EllOK
  <2> PICK w : w = LongestRow
    OBVIOUS
  <2>2. ell = EllOf(w)
    BY <2>1
  <2> QED
    BY <2>2 DEF EllOf
<1> QED
  BY <1>1, <1>2, <1>3, HybTyped DEF FTypeOK

(* Type correctness: no array of the four formats is longer or shorter     *)
(* than its object says.                                                   *)
THEOREM FTypes == ASSUME ZeroMemory PROVE FSpec => []FTypeOK
<1>1. FInv => FTypeOK
  BY Typed
<1> QED
  BY <1>1, FInvariant, PTL

=============================================================================
