-------------------------- MODULE HostArraysProofs --------------------------
(***************************************************************************)
(* Ownership of the arrays of the host, for any objects of each class, any *)
(* addresses and any lengths.                                              *)
(*                                                                         *)
(* DeletedOnce and InBounds are not inductive.  MatrixCOO::resize deletes  *)
(* an array that no destructor would: it must be the object's own and of   *)
(* the length it claims; and an object that nothing has been written to    *)
(* must have nothing, though an ELL matrix may say it has.                 *)
(***************************************************************************)
EXTENDS HostArrays, FiniteSetTheorems, TLAPS

(* Objects that may delete their array.                                    *)
Owns(o) == ptr[o] # NULL /\ (o \in Vectors \cup COO \/ size[o] > 0)

OwnedOnce ==
  \A o \in alive :
    Owns(o) => /\ mem[ptr[o]] # Free
               /\ \A q \in alive : Owns(q) /\ ptr[q] = ptr[o] => q = o

ExactCOO == \A o \in COO \cap alive : ptr[o] # NULL => mem[ptr[o]] = size[o]

BlankHoldNothing ==
  \A o \in Objects : /\ o \notin alive \/ o \in unset => ptr[o] = NULL
                     /\ o \notin alive \/ o \in unset \ ELL => size[o] = 0

IInv == TypeOK /\ OwnedOnce /\ InBounds /\ ExactCOO /\ BlankHoldNothing

Heaps == [Arrays -> Nat \cup {Free}]

LEMMA InitArrays == Init => IInv
<1>1. Free \in Nat \cup {Free} /\ Objects = Matrices \cup Vectors
  BY DEF Objects
<1>. QED
  BY <1>1 DEF Init, IInv, TypeOK, OwnedOnce, InBounds, ExactCOO, BlankHoldNothing

(* What new gives: an address that was free; nothing else changes on m.    *)
LEMMA AcquireGives ==
  ASSUME TypeOK, NEW o \in Objects, NEW n \in Nat, NEW m \in Heaps, Acquire(o, n, m)
  PROVE  /\ size' \in [Objects -> Nat] /\ ptr' \in [Objects -> Arrays \cup {NULL}]
         /\ mem' \in Heaps /\ ptr'[o] \in Arrays /\ ptr'[o] # NULL
         /\ m[ptr'[o]] = Free /\ mem'[ptr'[o]] = n /\ size'[o] = n
         /\ \A q \in Objects : q # o => ptr'[q] = ptr[q] /\ size'[q] = size[q]
         /\ \A b \in Arrays : b # ptr'[o] => mem'[b] = m[b]
<1>1. PICK b \in Arrays : /\ m[b] = Free /\ ptr' = [ptr EXCEPT ![o] = b]
                          /\ mem' = [m EXCEPT ![b] = n] /\ size' = [size EXCEPT ![o] = n]
  BY DEF Acquire
<1>2. b # NULL
  BY ArraysAssumption
<1>. QED
  BY <1>1, <1>2 DEF TypeOK, Heaps

(* The invariant survives a new array for o on a heap m that has what the  *)
(* other objects own.                                                      *)
LEMMA AcquireKeeps ==
  ASSUME IInv, NEW o \in Objects, NEW n \in Nat, NEW m \in Heaps, Acquire(o, n, m),
         \A q \in alive : q # o /\ Owns(q) => m[ptr[q]] = mem[ptr[q]],
         alive' = alive \cup {o}, unset' = unset \ {o}, status' = status
  PROVE  IInv'
<1>1. /\ size' \in [Objects -> Nat] /\ ptr' \in [Objects -> Arrays \cup {NULL}]
      /\ mem' \in Heaps /\ ptr'[o] \in Arrays /\ ptr'[o] # NULL
      /\ m[ptr'[o]] = Free /\ mem'[ptr'[o]] = n /\ size'[o] = n
      /\ \A q \in Objects : q # o => ptr'[q] = ptr[q] /\ size'[q] = size[q]
      /\ \A b \in Arrays : b # ptr'[o] => mem'[b] = m[b]
  BY AcquireGives DEF IInv
<1>2. TypeOK'
  BY <1>1 DEF IInv, TypeOK, Heaps
<1>3. ASSUME NEW q \in alive, q # o
      PROVE  /\ q \in Objects /\ ptr'[q] = ptr[q] /\ size'[q] = size[q] /\ Owns(q)' = Owns(q)
             /\ Owns(q) => /\ ptr[q] # ptr'[o] /\ mem'[ptr[q]] = mem[ptr[q]]
                           /\ mem[ptr[q]] # Free
  <2>1. q \in Objects /\ ptr'[q] = ptr[q] /\ size'[q] = size[q]
    BY <1>1, <1>3 DEF IInv, TypeOK
  <2>2. Owns(q)' = Owns(q)
    BY <2>1 DEF Owns
  <2>3. ASSUME Owns(q) PROVE ptr[q] \in Arrays /\ mem[ptr[q]] # Free /\ m[ptr[q]] # Free
    BY <1>3, <2>1, <2>3 DEF IInv, TypeOK, OwnedOnce, Owns
  <2>. QED
    BY <2>1, <2>2, <2>3, <1>1, <1>3
<1>4. OwnedOnce'
  <2>. SUFFICES ASSUME NEW q \in alive', Owns(q)'
                PROVE  /\ mem'[ptr'[q]] # Free
                       /\ \A r \in alive' : Owns(r)' /\ ptr'[r] = ptr'[q] => r = q
    BY DEF OwnedOnce
  <2>1. CASE q = o
    BY <2>1, <1>1, <1>3 DEF Free
  <2>2. CASE q # o
    <3>1. q \in alive /\ Owns(q)
      BY <2>2, <1>3
    <3>2. ASSUME NEW r \in alive', Owns(r)', ptr'[r] = ptr'[q] PROVE r = q
      <4>1. r # o
        BY <3>1, <3>2, <2>2, <1>3
      <4>. QED
        BY <3>1, <3>2, <4>1, <2>2, <1>3 DEF IInv, OwnedOnce
    <3>. QED
      BY <3>1, <3>2, <2>2, <1>3
  <2>. QED
    BY <2>1, <2>2
<1>5. InBounds'
  <2>. SUFFICES ASSUME NEW q \in alive' \ unset' PROVE Within(q, size[q])'
    BY DEF InBounds
  <2>1. CASE q = o
    BY <2>1, <1>1 DEF Within
  <2>2. CASE q # o
    <3>1. q \in alive \ unset /\ Within(q, size[q]) /\ q \in Objects
      BY <2>2 DEF IInv, InBounds, TypeOK
    <3>2. CASE size[q] = 0
      BY <3>1, <3>2, <2>2, <1>3 DEF Within
    <3>3. CASE size[q] # 0
      <4>1. Owns(q)
        BY <3>1, <3>3 DEF Owns, Within, IInv, TypeOK
      <4>. QED
        BY <3>1, <3>3, <4>1, <2>2, <1>3 DEF Within
    <3>. QED
      BY <3>2, <3>3
  <2>. QED
    BY <2>1, <2>2
<1>6. ExactCOO'
  <2>. SUFFICES ASSUME NEW q \in COO \cap alive', ptr'[q] # NULL PROVE mem'[ptr'[q]] = size'[q]
    BY DEF ExactCOO
  <2>1. CASE q = o
    BY <2>1, <1>1
  <2>2. CASE q # o
    <3>1. q \in alive /\ Owns(q)
      BY <2>2, <1>3 DEF Owns
    <3>. QED
      BY <3>1, <2>2, <1>3 DEF IInv, ExactCOO
  <2>. QED
    BY <2>1, <2>2
<1>7. BlankHoldNothing'
  BY <1>1 DEF IInv, BlankHoldNothing
<1>. QED
  BY <1>2, <1>4, <1>5, <1>6, <1>7 DEF IInv

(* Deleting the array of an object leaves those of all others.             *)
LEMMA OthersUntouched ==
  ASSUME IInv, NEW o \in alive
  PROVE  /\ Deleted(o) \in Heaps
         /\ \A q \in alive : q # o /\ Owns(q) => Deleted(o)[ptr[q]] = mem[ptr[q]]
<1>1. Deleted(o) \in Heaps
  BY DEF Deleted, Heaps, IInv, TypeOK
<1>2. ASSUME NEW q \in alive, q # o, Owns(q)
      PROVE  Deleted(o)[ptr[q]] = mem[ptr[q]]
  <2>1. ptr[q] \in Arrays
    BY <1>2 DEF Owns, IInv, TypeOK
  <2>2. Deletes(o) => ptr[o] # ptr[q]
    BY <1>2 DEF Deletes, Owns, IInv, OwnedOnce
  <2>. QED
    BY <2>1, <2>2 DEF Deleted
<1>. QED
  BY <1>1, <1>2

(* The invariant survives when o lets go of its array.                     *)
LEMMA ReleaseKeeps ==
  ASSUME IInv, NEW o \in alive,
         mem' = Deleted(o), size' = [size EXCEPT ![o] = 0],
         ptr' = [ptr EXCEPT ![o] = NULL] \/ (o \in HYB /\ ptr' = ptr /\ o \in alive' \ unset'),
         alive' \in {alive, alive \ {o}}, unset' \in {unset, unset \ {o}},
         unset' \subseteq alive', status' = status
  PROVE  IInv'
<1>1. /\ o \in Objects /\ size'[o] = 0
      /\ \A q \in Objects : q # o => ptr'[q] = ptr[q] /\ size'[q] = size[q]
      /\ ptr'[o] = NULL \/ (o \in HYB /\ o \in alive' \ unset')
  BY DEF IInv, TypeOK
<1>2. TypeOK'
  BY <1>1, OthersUntouched DEF IInv, TypeOK, Heaps
<1>3. ~ Owns(o)'
  <2>1. o \in HYB => o \notin Vectors \cup COO
    BY ArraysAssumption DEF Matrices
  <2>. QED
    BY <1>1, <2>1 DEF Owns
<1>4. ASSUME NEW q \in alive', q # o
      PROVE  /\ q \in alive /\ q \in Objects /\ ptr'[q] = ptr[q] /\ size'[q] = size[q]
             /\ Owns(q)' = Owns(q) /\ (Owns(q) => mem'[ptr[q]] = mem[ptr[q]])
  <2>1. q \in alive /\ q \in Objects
    BY DEF IInv, TypeOK
  <2>. QED
    BY <2>1, <1>1, <1>4, OthersUntouched DEF Owns
<1>5. OwnedOnce'
  BY <1>3, <1>4 DEF IInv, OwnedOnce
<1>6. InBounds'
  <2>. SUFFICES ASSUME NEW q \in alive' \ unset' PROVE Within(q, size[q])'
    BY DEF InBounds
  <2>1. CASE q = o
    BY <2>1, <1>1 DEF Within
  <2>2. CASE q # o
    <3>1. q \in alive \ unset /\ Within(q, size[q])
      BY <2>2, <1>4 DEF IInv, InBounds
    <3>2. size[q] # 0 => Owns(q)
      BY <3>1, <1>4, <2>2 DEF Owns, Within, IInv, TypeOK
    <3>. QED
      BY <3>1, <3>2, <2>2, <1>4 DEF Within
  <2>. QED
    BY <2>1, <2>2
<1>7. ExactCOO'
  <2>. SUFFICES ASSUME NEW q \in COO \cap alive', ptr'[q] # NULL PROVE mem'[ptr'[q]] = size'[q]
    BY DEF ExactCOO
  <2>1. q # o
    BY <1>3 DEF Owns
  <2>2. Owns(q)
    BY <2>1, <1>4 DEF Owns
  <2>. QED
    BY <2>1, <2>2, <1>4 DEF IInv, ExactCOO
<1>8. BlankHoldNothing'
  <2>. SUFFICES ASSUME NEW q \in Objects, q \notin alive' \/ q \in unset'
                PROVE  ptr'[q] = NULL /\ (q \notin alive' \/ q \notin ELL => size'[q] = 0)
    BY DEF BlankHoldNothing
  <2>1. CASE q = o
    BY <2>1, <1>1
  <2>2. CASE q # o
    BY <2>2, <1>1 DEF IInv, BlankHoldNothing
  <2>. QED
    BY <2>1, <2>2
<1>. QED
  BY <1>2, <1>5, <1>6, <1>7, <1>8 DEF IInv

(* Renew deletes what o owns, so it is a new array on a heap without that. *)
LEMMA RenewIsAcquire ==
  ASSUME IInv, NEW o \in alive, Owns(o), NEW n \in Nat, Within(o, n), Renew(o, n),
         NEW m \in Heaps, m = [mem EXCEPT ![ptr[o]] = Free]
  PROVE  /\ m \in Heaps /\ Acquire(o, n, m)
         /\ \A q \in alive : q # o /\ Owns(q) => m[ptr[q]] = mem[ptr[q]]
         /\ UNCHANGED <<alive, unset, status>>
         /\ ptr'[o] # ptr[o]
<1>1. /\ ptr[o] \in Arrays /\ mem[ptr[o]] # Free /\ mem \in Heaps
      /\ o \in Objects /\ ptr \in [Objects -> Arrays \cup {NULL}]
  BY DEF Owns, IInv, TypeOK, OwnedOnce, Heaps
<1>2. PICK b \in Arrays : /\ mem[b] = Free /\ ptr' = [ptr EXCEPT ![o] = b]
                          /\ mem' = [mem EXCEPT ![b] = n, ![ptr[o]] = Free]
                          /\ size' = [size EXCEPT ![o] = n]
                          /\ UNCHANGED <<alive, unset, status>>
  BY DEF Renew
<1>3. b # ptr[o] /\ ptr'[o] = b
  BY <1>1, <1>2
<1>4. m \in Heaps /\ m[b] = Free
  BY <1>1, <1>2, <1>3 DEF Heaps
<1>5. mem' = [m EXCEPT ![b] = n]
  BY <1>1, <1>2, <1>3 DEF Heaps
<1>6. ASSUME NEW q \in alive, q # o, Owns(q) PROVE m[ptr[q]] = mem[ptr[q]]
  <2>1. ptr[q] \in Arrays /\ ptr[q] # ptr[o]
    BY <1>6 DEF Owns, IInv, TypeOK, OwnedOnce
  <2>. QED
    BY <2>1, <1>1 DEF Heaps
<1>. QED
  BY <1>2, <1>3, <1>4, <1>5, <1>6 DEF Acquire

-----------------------------------------------------------------------------
(* Every call keeps the invariant.                                         *)

LEMMA ClassesApart ==
  /\ Objects = Matrices \cup Vectors /\ COO \subseteq Matrices
  /\ \A v \in Vectors : v \notin CSR \cup ELL \cup HYB /\ v \in Objects
  /\ \A c \in COO : c \notin CSR \cup ELL \cup HYB /\ c \in Objects
BY ArraysAssumption DEF Objects, Matrices

LEMMA OverrunKeeps ==
  ASSUME IInv, Overrun
  PROVE  IInv'
BY DEF Overrun, IInv, TypeOK, OwnedOnce, Owns, InBounds, Within, ExactCOO, BlankHoldNothing

(* A new array for o, on the heap as it is or without what o deletes.      *)
LEMMA NewKeeps ==
  ASSUME IInv, NEW o \in Objects, NEW n \in Nat,
         NEW m \in {mem, Deleted(o)}, Acquire(o, n, m), m = mem \/ o \in alive,
         alive' = alive \cup {o}, unset' = unset \ {o}, status' = status
  PROVE  IInv'
<1>1. mem \in Heaps
  BY DEF IInv, TypeOK, Heaps
<1>2. CASE m = mem
  BY <1>1, <1>2, AcquireKeeps
<1>3. CASE o \in alive /\ m = Deleted(o)
  BY <1>3, OthersUntouched, AcquireKeeps
<1>. QED
  BY <1>2, <1>3

LEMMA RenewKeeps ==
  ASSUME IInv, NEW o \in alive, Owns(o), o \notin unset, NEW n \in Nat, Renew(o, n)
  PROVE  IInv'
<1>1. CASE Within(o, n)
  <2>1. PICK m \in Heaps : m = [mem EXCEPT ![ptr[o]] = Free]
    BY DEF IInv, TypeOK, Owns, Heaps
  <2>2. /\ m \in Heaps /\ Acquire(o, n, m)
        /\ \A q \in alive : q # o /\ Owns(q) => m[ptr[q]] = mem[ptr[q]]
        /\ UNCHANGED <<alive, unset, status>>
    BY <1>1, <2>1, RenewIsAcquire
  <2>3. o \in Objects /\ alive' = alive \cup {o} /\ unset' = unset \ {o}
    BY <2>2 DEF IInv, TypeOK
  <2>. QED
    BY <2>2, <2>3, AcquireKeeps
<1>2. CASE ~ Within(o, n)
  BY <1>2, OverrunKeeps DEF Renew
<1>. QED
  BY <1>1, <1>2

LEMMA ConstructKeeps ==
  ASSUME IInv, NEW o \in Objects, ConstructDefault(o) \/ Construct(o)
  PROVE  IInv'
<1>1. o \notin alive /\ ptr[o] = NULL /\ size[o] = 0 /\ o \notin unset
  BY DEF ConstructDefault, Construct, IInv, BlankHoldNothing, TypeOK
<1>2. ASSUME UNCHANGED <<ptr, mem, status>>, alive' = alive \cup {o},
             NEW n \in Nat, size' = [size EXCEPT ![o] = n], n = 0 \/ o \in ELL,
             unset' \in {unset, unset \cup {o}}, o \in unset' => o \in CSR \cup ELL \cup HYB,
             o \in ELL => o \in unset'
      PROVE  IInv'
  <2>1. /\ size'[o] = n /\ size' \in [Objects -> Nat]
        /\ \A q \in Objects : q # o => size'[q] = size[q]
    BY <1>2 DEF IInv, TypeOK
  <2>2. TypeOK'
    BY <1>2, <2>1 DEF IInv, TypeOK
  <2>3. \A q \in Objects : Owns(q)' = Owns(q)
    BY <1>1, <1>2, <2>1 DEF Owns
  <2>4. OwnedOnce' /\ ExactCOO'
    BY <1>1, <1>2, <2>1, <2>3 DEF IInv, TypeOK, OwnedOnce, ExactCOO, Owns
  <2>5. InBounds'
    BY <1>1, <1>2, <2>1 DEF IInv, TypeOK, InBounds, Within
  <2>6. BlankHoldNothing'
    BY <1>1, <1>2, <2>1 DEF IInv, BlankHoldNothing
  <2>. QED
    BY <2>2, <2>4, <2>5, <2>6 DEF IInv
<1>3. CASE ConstructDefault(o)
  <2>1. ptr' = ptr /\ mem' = mem /\ status' = status /\ alive' = alive \cup {o}
        /\ unset' = unset \cup ({o} \cap ELL)
    BY <1>1, <1>3 DEF ConstructDefault, IInv, TypeOK
  <2>2. PICK n \in IF o \in ELL THEN 0..MaxSize ELSE {0} : size' = [size EXCEPT ![o] = n]
    BY <1>3 DEF ConstructDefault
  <2>3. n \in Nat /\ (n = 0 \/ o \in ELL)
    BY <2>2, ArraysAssumption
  <2>. QED
    BY <1>1, <2>1, <2>2, <2>3, <1>2
<1>4. CASE Construct(o)
  <2>1. PICK n \in 0..MaxSize :
          IF n = 0 /\ o \in CSR \cup HYB
          THEN unset' = unset \cup {o} /\ UNCHANGED <<size, ptr, mem>>
          ELSE Acquire(o, n, mem) /\ UNCHANGED unset
    BY <1>4 DEF Construct
  <2>2. alive' = alive \cup {o} /\ status' = status /\ n \in Nat
    BY <1>4 DEF Construct
  <2>3. CASE n = 0 /\ o \in CSR \cup HYB
    <3>1. size' = [size EXCEPT ![o] = 0] /\ o \notin ELL
      BY <1>1, <2>1, <2>3, ArraysAssumption DEF IInv, TypeOK
    <3>. QED
      BY <2>1, <2>2, <2>3, <3>1, <1>2
  <2>4. CASE ~ (n = 0 /\ o \in CSR \cup HYB)
    BY <2>1, <2>2, <2>4, <1>1, NewKeeps
  <2>. QED
    BY <2>3, <2>4
<1>. QED
  BY <1>3, <1>4

LEMMA DestroyKeeps ==
  ASSUME IInv, NEW o \in Objects, Destroy(o)
  PROVE  IInv'
<1>1. o \in unset => Deleted(o) = mem
  BY DEF IInv, BlankHoldNothing, Deletes, Deleted, TypeOK
<1>2. mem' = Deleted(o) /\ o \in alive /\ unset' \subseteq alive'
  BY <1>1 DEF Destroy, IInv, TypeOK
<1>. QED
  BY <1>2, ReleaseKeeps DEF Destroy

LEMMA VectorKeeps ==
  ASSUME IInv, NEW v \in Vectors,
         \/ \E w \in Vectors : Copy(v, w) \/ Assign(v, w)
         \/ \E n \in 0..MaxSize : Resize(v, n) \/ LoadVector(v, n)
  PROVE  IInv'
<1>1. v \in Objects /\ v \notin unset /\ unset \ {v} = unset
  BY ClassesApart DEF IInv, TypeOK
<1>2. ASSUME NEW w \in Vectors PROVE size[w] \in Nat
  BY ClassesApart DEF IInv, TypeOK
<1>3. ASSUME NEW w \in Vectors, Copy(v, w) PROVE IInv'
  BY <1>1, <1>2, <1>3, NewKeeps, OverrunKeeps DEF Copy
<1>4. ASSUME NEW w \in Vectors, Assign(v, w) PROVE IInv'
  <2>1. v \in alive
    BY <1>4 DEF Assign, Usable
  <2>2. CASE Within(w, size[w])
    <3>1. Acquire(v, size[w], Deleted(v)) /\ UNCHANGED <<alive, unset, status>>
      BY <1>4, <2>2 DEF Assign
    <3>. QED
      BY <1>1, <1>2, <2>1, <3>1, NewKeeps
  <2>3. CASE ~ Within(w, size[w])
    BY <1>4, <2>3, OverrunKeeps DEF Assign
  <2>. QED
    BY <2>2, <2>3
<1>5. ASSUME NEW n \in 0..MaxSize, Resize(v, n) PROVE IInv'
  <2>1. v \in alive /\ n \in Nat
    BY <1>5 DEF Resize, Usable
  <2>2. CASE size[v] # 0
    <3>1. Owns(v)
      BY <1>1, <2>1, <2>2 DEF IInv, InBounds, Within, Owns
    <3>. QED
      BY <1>1, <1>5, <2>1, <2>2, <3>1, RenewKeeps DEF Resize
  <2>3. CASE size[v] = 0
    BY <1>1, <1>5, <2>1, <2>3, NewKeeps DEF Resize
  <2>. QED
    BY <2>2, <2>3
<1>6. ASSUME NEW n \in 0..MaxSize, LoadVector(v, n) PROVE IInv'
  <2>1. v \in alive /\ n \in Nat /\ v \notin COO
    BY <1>6, ArraysAssumption DEF LoadVector, Usable, Matrices
  <2>2. CASE Within(v, n)
    <3>1. size' = [size EXCEPT ![v] = n] /\ UNCHANGED <<alive, unset, ptr, mem, status>>
      BY <1>6, <2>2 DEF LoadVector
    <3>2. \A q \in Objects : Owns(q)' = Owns(q) /\ (q # v => size'[q] = size[q])
      BY <1>1, <3>1 DEF Owns, IInv, TypeOK
    <3>3. TypeOK' /\ BlankHoldNothing'
      BY <1>1, <2>1, <3>1 DEF IInv, TypeOK, BlankHoldNothing
    <3>4. OwnedOnce'
      BY <3>1, <3>2 DEF IInv, TypeOK, OwnedOnce
    <3>5. ExactCOO'
      BY <2>1, <3>1, <3>2, ClassesApart DEF IInv, ExactCOO
    <3>6. InBounds'
      <4>1. size'[v] = n
        BY <1>1, <3>1 DEF IInv, TypeOK
      <4>. QED
        BY <2>2, <3>1, <3>2, <4>1 DEF IInv, TypeOK, InBounds, Within
    <3>. QED
      BY <3>3, <3>4, <3>5, <3>6 DEF IInv
  <2>3. CASE ~ Within(v, n)
    BY <1>6, <2>3, OverrunKeeps DEF LoadVector
  <2>. QED
    BY <2>2, <2>3
<1>. QED
  BY <1>3, <1>4, <1>5, <1>6

LEMMA MatrixKeeps ==
  ASSUME IInv, NEW o \in Matrices,
         \/ Clear(o) \/ Crash(o)
         \/ \E n \in 0..MaxSize : Load(o, n)
         \/ \E w \in Matrices, n \in 0..MaxSize : GetData(o, w, n)
         \/ o \in COO /\ \E n \in 0..MaxSize : ResizeCOO(o, n)
  PROVE  IInv'
<1>1. o \in Objects /\ 0..MaxSize \subseteq Nat
  BY DEF Objects
<1>2. ASSUME NEW n \in 0..MaxSize, o \in alive, Fill(o, n) PROVE IInv'
  BY <1>1, <1>2, NewKeeps DEF Fill
<1>3. CASE Clear(o)
  <2>1. o \in alive /\ unset \subseteq alive
    BY <1>3 DEF Clear, HasPointers, IInv, TypeOK
  <2>. QED
    BY <1>3, <2>1, ReleaseKeeps DEF Clear
<1>4. CASE Crash(o)
  BY <1>4 DEF Crash, IInv, TypeOK, OwnedOnce, Owns, InBounds, Within, ExactCOO, BlankHoldNothing
<1>5. ASSUME NEW n \in 0..MaxSize, Load(o, n) PROVE IInv'
  BY <1>2, <1>5 DEF Load
<1>6. ASSUME NEW w \in Matrices, NEW n \in 0..MaxSize, GetData(o, w, n) PROVE IInv'
  BY <1>2, <1>6, OverrunKeeps DEF GetData
<1>7. ASSUME NEW n \in 0..MaxSize, o \in COO, ResizeCOO(o, n) PROVE IInv'
  <2>1. o \in alive /\ o \notin unset /\ alive \cup {o} = alive /\ unset \ {o} = unset
    BY <1>7 DEF ResizeCOO, Usable
  <2>2. CASE n > 0 /\ ptr[o] # NULL
    BY <1>1, <1>7, <2>1, <2>2, RenewKeeps DEF ResizeCOO, Owns
  <2>3. CASE ~ (n > 0 /\ ptr[o] # NULL)
    <3>1. /\ UNCHANGED <<alive, unset, status>>
          /\ \/ Acquire(o, n, mem)
             \/ \E c \in Arrays : mem[c] = Free /\ Acquire(o, n, [mem EXCEPT ![c] = n])
      BY <1>7, <2>3 DEF ResizeCOO
    <3>2. CASE Acquire(o, n, mem)
      BY <1>1, <2>1, <3>1, <3>2, NewKeeps
    <3>3. ASSUME NEW c \in Arrays, mem[c] = Free, Acquire(o, n, [mem EXCEPT ![c] = n])
          PROVE  IInv'
      <4>1. PICK m : m = [mem EXCEPT ![c] = n]
        OBVIOUS
      <4>2. m \in Heaps
        BY <1>1, <4>1 DEF IInv, TypeOK, Heaps
      <4>3. \A q \in alive : q # o /\ Owns(q) => m[ptr[q]] = mem[ptr[q]]
        BY <3>3, <4>1 DEF IInv, TypeOK, OwnedOnce, Owns
      <4>. QED
        BY <1>1, <2>1, <3>1, <3>3, <4>1, <4>2, <4>3, AcquireKeeps
    <3>. QED
      BY <3>1, <3>2, <3>3
  <2>. QED
    BY <2>2, <2>3
<1>. QED
  BY <1>3, <1>4, <1>5, <1>6, <1>7

LEMMA NextArrays == IInv /\ [Next]_vars => IInv'
<1>. SUFFICES ASSUME IInv, [Next]_vars PROVE IInv'
  OBVIOUS
<1>1. CASE UNCHANGED vars
  BY <1>1 DEF vars, IInv, TypeOK, OwnedOnce, Owns, InBounds, Within, ExactCOO, BlankHoldNothing
<1>2. ASSUME NEW o \in Objects, Crash(o) PROVE IInv'
  BY <1>2 DEF Crash, IInv, TypeOK, OwnedOnce, Owns, InBounds, Within, ExactCOO, BlankHoldNothing
<1>3. COO \subseteq Matrices
  BY DEF Matrices
<1>. QED
  BY <1>1, <1>2, <1>3, ConstructKeeps, DestroyKeeps, VectorKeeps, MatrixKeeps DEF Next, Ended

(* Nothing is deleted twice, whatever is constructed, loaded, converted,   *)
(* resized, assigned, cleared and destroyed (matrix*_cpu.cpp clear,        *)
(* cpu_vector.cpp operator=).                                              *)
THEOREM NothingDeletedTwice == Spec => []DeletedOnce
<1>1. IInv => DeletedOnce
  BY DEF IInv, OwnedOnce, Owns, Deletes, DeletedOnce, TypeOK
<1>. QED
  BY InitArrays, NextArrays, <1>1, PTL DEF Spec

(* Every call that goes over all elements of an object whose nnz or size   *)
(* has been set stays inside its array, whatever calls there were before.  *)
(* (A default ELL matrix is none: nothing has set its nnz.)                *)
THEOREM ClaimsHold == Spec => []InBounds
<1>1. IInv => InBounds
  BY DEF IInv
<1>. QED
  BY InitArrays, NextArrays, <1>1, PTL DEF Spec

-----------------------------------------------------------------------------
(* Lost arrays.                                                            *)

(* What a new array for o leaves without owner: that array itself, when    *)
(* the destructor of o would not delete it, the one o had, or what was     *)
(* lost before.                                                            *)
LEMMA AcquireLoses ==
  ASSUME IInv, NEW o \in Objects, NEW n \in Nat, NEW m \in Heaps, Acquire(o, n, m),
         alive' = alive \cup {o}
  PROVE  /\ ptr'[o] # NULL /\ size'[o] = n
         /\ \A b \in Lost' :
              \/ b = ptr'[o] /\ n = 0 /\ o \notin Vectors
              \/ /\ m[b] # Free /\ b # ptr'[o]
                 /\ mem[b] # Free => b \in Lost \/ (Deletes(o) /\ b = ptr[o])
<1>1. /\ ptr'[o] \in Arrays /\ ptr'[o] # NULL /\ size'[o] = n
      /\ \A q \in Objects : q # o => ptr'[q] = ptr[q] /\ size'[q] = size[q]
      /\ \A b \in Arrays : b # ptr'[o] => mem'[b] = m[b]
  BY AcquireGives DEF IInv
<1>2. ASSUME NEW b \in Lost', b = ptr'[o] PROVE n = 0 /\ o \notin Vectors
  <2>1. ~ Deletes(o)'
    BY <1>2 DEF Lost
  <2>. QED
    BY <2>1, <1>1 DEF Deletes
<1>3. ASSUME NEW b \in Lost', b # ptr'[o], mem[b] # Free, b \notin Lost
      PROVE  Deletes(o) /\ b = ptr[o]
  <2>1. PICK q \in alive : Deletes(q) /\ ptr[q] = b
    BY <1>3 DEF Lost
  <2>2. ASSUME q # o PROVE FALSE
    <3>1. Deletes(q)' /\ ptr'[q] = b
      BY <2>1, <2>2, <1>1 DEF Deletes, IInv, TypeOK
    <3>. QED
      BY <3>1, <1>3 DEF Lost
  <2>. QED
    BY <2>1, <2>2
<1>4. ASSUME NEW b \in Lost', b # ptr'[o] PROVE m[b] # Free
  BY <1>1, <1>4 DEF Lost
<1>. QED
  BY <1>1, <1>2, <1>3, <1>4

(* Deleting loses nothing that was not lost.                               *)
LEMMA ReleaseLoses ==
  ASSUME IInv, NEW o \in alive, mem' = Deleted(o), alive' \in {alive, alive \ {o}},
         size' = [size EXCEPT ![o] = 0],
         ptr' = [ptr EXCEPT ![o] = NULL] \/ ptr' = ptr
  PROVE  Lost' \subseteq Lost
<1>. SUFFICES ASSUME NEW b \in Lost', b \notin Lost PROVE FALSE
  OBVIOUS
<1>1. b \in Arrays /\ mem[b] # Free /\ ~ (Deletes(o) /\ b = ptr[o])
  BY DEF Lost, Deleted
<1>2. PICK q \in alive : Deletes(q) /\ ptr[q] = b
  BY <1>1 DEF Lost
<1>3. q # o /\ q \in Objects /\ ptr'[q] = ptr[q] /\ size'[q] = size[q] /\ q \in alive'
  BY <1>1, <1>2 DEF IInv, TypeOK
<1>4. Deletes(q)'
  BY <1>2, <1>3 DEF Deletes
<1>. QED
  BY <1>2, <1>3, <1>4 DEF Lost

LEMMA SameLoses ==
  ASSUME mem' = mem,
         \A q \in alive : q \in alive' /\ ptr'[q] = ptr[q] /\ (Deletes(q) => Deletes(q)')
  PROVE  Lost' \subseteq Lost
BY DEF Lost

LEMMA OverrunLoses == Overrun => Lost' \subseteq Lost
BY DEF Overrun, Lost, Deletes

(* A new array in place of the one of o, which is deleted.                 *)
LEMMA ReplaceLoses ==
  ASSUME IInv, NEW o \in alive, NEW n \in Nat, NEW m \in Heaps, Acquire(o, n, m),
         n > 0 \/ o \in Vectors, alive' = alive,
         \A b \in Arrays : m[b] # Free => mem[b] # Free /\ ~ (Deletes(o) /\ b = ptr[o])
  PROVE  Lost' \subseteq Lost
<1>1. o \in Objects /\ alive' = alive \cup {o}
  BY DEF IInv, TypeOK
<1>2. Lost' \subseteq Arrays
  BY DEF Lost
<1>3. \A b \in Lost' :
        \/ b = ptr'[o] /\ n = 0 /\ o \notin Vectors
        \/ /\ m[b] # Free /\ b # ptr'[o]
           /\ mem[b] # Free => b \in Lost \/ (Deletes(o) /\ b = ptr[o])
  BY <1>1, AcquireLoses
<1>. QED
  BY <1>2, <1>3

LEMMA RenewLoses ==
  ASSUME IInv, NEW o \in alive, Owns(o), NEW n \in Nat, Renew(o, n), n > 0 \/ o \in Vectors
  PROVE  Lost' \subseteq Lost
<1>1. CASE Within(o, n)
  <2>1. PICK m \in Heaps : m = [mem EXCEPT ![ptr[o]] = Free]
    BY DEF IInv, TypeOK, Owns, Heaps
  <2>2. Acquire(o, n, m) /\ alive' = alive
    BY <1>1, <2>1, RenewIsAcquire
  <2>3. \A b \in Arrays : m[b] # Free => mem[b] # Free /\ ~ (Deletes(o) /\ b = ptr[o])
    BY <2>1 DEF IInv, TypeOK, Heaps
  <2>. QED
    BY <2>2, <2>3, ReplaceLoses
<1>2. CASE ~ Within(o, n)
  BY <1>2, OverrunLoses DEF Renew
<1>. QED
  BY <1>1, <1>2

(* A new array beside the one of o.                                        *)
LEMMA NewLoses ==
  ASSUME IInv, NEW o \in Objects, NEW n \in Nat, Acquire(o, n, mem), alive' = alive \cup {o}
  PROVE  /\ ptr'[o] # NULL /\ size'[o] = n
         /\ Lost' \subseteq Lost \cup {ptr[o], ptr'[o]}
         /\ n > 0 \/ o \in Vectors => Lost' \subseteq Lost \cup {ptr[o]}
         /\ (n > 0 \/ o \in Vectors) /\ ~ Deletes(o) => Lost' \subseteq Lost
<1>1. mem \in Heaps
  BY DEF IInv, TypeOK, Heaps
<1>. QED
  BY <1>1, AcquireLoses

(* MatrixCOO::resize of a matrix without arrays makes two and keeps one.   *)
LEMMA SecondIsLost ==
  ASSUME IInv, NEW o \in alive, ptr[o] = NULL, NEW n \in Nat, n > 0, alive' = alive,
         NEW c \in Arrays, mem[c] = Free, Acquire(o, n, [mem EXCEPT ![c] = n])
  PROVE  Cardinality(Lost' \ Lost) = 1
<1>1. PICK m \in Heaps : m = [mem EXCEPT ![c] = n]
  BY DEF IInv, TypeOK, Heaps
<1>2. /\ o \in Objects /\ alive' = alive \cup {o} /\ Acquire(o, n, m) /\ n # Free
      /\ m[c] = n /\ \A b \in Arrays : b # c => m[b] = mem[b]
  BY <1>1 DEF IInv, TypeOK, Heaps, Free
<1>3. \A b \in Lost' : b \in Arrays /\ (b \in Lost \/ b = c)
  <2>1. \A b \in Lost' :
          \/ b = ptr'[o] /\ n = 0 /\ o \notin Vectors
          \/ /\ m[b] # Free /\ b # ptr'[o]
             /\ mem[b] # Free => b \in Lost \/ (Deletes(o) /\ b = ptr[o])
    BY <1>2, AcquireLoses
  <2>2. ~ Deletes(o) /\ Lost' \subseteq Arrays
    BY DEF Deletes, Lost
  <2>. QED
    BY <2>1, <2>2, <1>2
<1>4. c \notin Lost
  BY DEF Lost
<1>5. c \in Lost'
  <2>1. /\ m[ptr'[o]] = Free /\ ptr'[o] \in Arrays
        /\ \A q \in Objects : q # o => ptr'[q] = ptr[q] /\ size'[q] = size[q]
        /\ \A b \in Arrays : b # ptr'[o] => mem'[b] = m[b]
    BY <1>2, AcquireGives DEF IInv
  <2>2. c # ptr'[o] /\ mem'[c] # Free
    BY <2>1, <1>2
  <2>3. ASSUME NEW q \in alive', Deletes(q)', ptr'[q] = c PROVE FALSE
    <3>1. q # o /\ q \in alive /\ ptr[q] = c /\ Deletes(q)
      BY <2>1, <2>2, <2>3 DEF IInv, TypeOK, Deletes
    <3>2. Owns(q)
      BY <3>1 DEF Deletes, Owns
    <3>. QED
      BY <3>1, <3>2 DEF IInv, OwnedOnce
  <2>. QED
    BY <2>2, <2>3 DEF Lost
<1>6. Lost' \ Lost = {c}
  BY <1>3, <1>4, <1>5
<1>. QED
  BY <1>6, FS_Singleton

(* The named exceptions of OnlyTheseLose.                                  *)
MadeEmpty ==
  \E o \in COO \cup ELL :
    size'[o] = 0 /\ ptr'[o] # NULL /\ Lost' \subseteq Lost \cup {ptr[o], ptr'[o]}
FilledOver ==
  \E o \in Matrices : /\ size[o] > 0 /\ Lost' \subseteq Lost \cup {ptr[o]}
                      /\ \E n \in 0..MaxSize, w \in Matrices : Load(o, n) \/ GetData(o, w, n)
MadeTwo ==
  \E o \in COO, n \in 1..MaxSize :
    ptr[o] = NULL /\ ResizeCOO(o, n) /\ Cardinality(Lost' \ Lost) = 1
LeftBehind ==
  \E v \in Vectors, n \in 1..MaxSize :
    size[v] = 0 /\ Resize(v, n) /\ Lost' \subseteq Lost \cup {ptr[v]}
FilledFromNothing ==
  \E o \in CSR, w \in ELL \cap unset :
    GetData(o, w, 0) /\ Lost' \subseteq Lost \cup {ptr[o], ptr'[o]}
Accounted ==
  \/ Lost' \subseteq Lost
  \/ MadeEmpty \/ FilledOver \/ MadeTwo \/ LeftBehind \/ FilledFromNothing

LEMMA ConstructLoses ==
  ASSUME IInv, NEW o \in Objects, ConstructDefault(o) \/ Construct(o)
  PROVE  Accounted
<1>1. o \notin alive /\ ptr[o] = NULL /\ size[o] = 0
  BY DEF ConstructDefault, Construct, IInv, BlankHoldNothing
<1>2. alive' = alive \cup {o}
  BY DEF ConstructDefault, Construct
<1>3. ASSUME UNCHANGED <<size, ptr, mem>> PROVE Lost' \subseteq Lost
  BY <1>2, <1>3, SameLoses DEF Deletes
<1>4. CASE ConstructDefault(o)
  <2>1. ptr' = ptr /\ mem' = mem
    BY <1>1, <1>4 DEF ConstructDefault, IInv, TypeOK
  <2>2. ASSUME NEW q \in alive PROVE size'[q] = size[q]
    BY <1>1, <1>4, <2>2 DEF ConstructDefault, IInv, TypeOK
  <2>. QED
    BY <1>2, <2>1, <2>2, SameLoses DEF Deletes, Accounted
<1>5. CASE Construct(o)
  <2>1. PICK n \in 0..MaxSize :
          IF n = 0 /\ o \in CSR \cup HYB
          THEN unset' = unset \cup {o} /\ UNCHANGED <<size, ptr, mem>>
          ELSE Acquire(o, n, mem) /\ UNCHANGED unset
    BY <1>5 DEF Construct
  <2>2. CASE n = 0 /\ o \in CSR \cup HYB
    BY <2>1, <2>2, <1>3 DEF Accounted
  <2>3. CASE ~ (n = 0 /\ o \in CSR \cup HYB)
    <3>1. Acquire(o, n, mem) /\ n \in Nat
      BY <2>1, <2>3
    <3>2. CASE n > 0 \/ o \in Vectors
      BY <3>1, <3>2, <1>1, <1>2, NewLoses DEF Accounted, Deletes
    <3>3. CASE n = 0 /\ o \in COO \cup ELL
      BY <3>1, <3>3, <1>2, NewLoses DEF Accounted, MadeEmpty
    <3>. QED
      BY <2>3, <3>2, <3>3 DEF Objects, Matrices
  <2>. QED
    BY <2>2, <2>3
<1>. QED
  BY <1>4, <1>5

LEMMA VectorLoses ==
  ASSUME IInv, NEW v \in Vectors,
         \/ \E w \in Vectors : Copy(v, w) \/ Assign(v, w)
         \/ \E n \in 0..MaxSize : Resize(v, n) \/ LoadVector(v, n)
  PROVE  Accounted
<1>1. v \in Objects /\ 0..MaxSize \subseteq Nat
  BY ClassesApart
<1>2. ASSUME NEW w \in Vectors PROVE size[w] \in Nat
  BY ClassesApart DEF IInv, TypeOK
<1>3. ASSUME NEW w \in Vectors, Copy(v, w) PROVE Accounted
  <2>1. CASE Within(w, size[w])
    <3>1. ~ Deletes(v)
      BY <1>1, <1>3 DEF Copy, IInv, BlankHoldNothing, Deletes
    <3>. QED
      BY <1>1, <1>2, <1>3, <2>1, <3>1, NewLoses DEF Copy, Accounted
  <2>2. CASE ~ Within(w, size[w])
    BY <1>3, <2>2, OverrunLoses DEF Copy, Accounted
  <2>. QED
    BY <2>1, <2>2
<1>4. ASSUME NEW w \in Vectors, Assign(v, w) PROVE Accounted
  <2>1. v \in alive
    BY <1>4 DEF Assign, Usable
  <2>2. CASE Within(w, size[w])
    <3>1. Acquire(v, size[w], Deleted(v)) /\ UNCHANGED alive
      BY <1>4, <2>2 DEF Assign
    <3>2. \A b \in Arrays : Deleted(v)[b] # Free => mem[b] # Free /\ ~ (Deletes(v) /\ b = ptr[v])
      BY DEF Deleted
    <3>3. Deleted(v) \in Heaps
      BY <2>1, OthersUntouched
    <3>. QED
      BY <1>2, <2>1, <3>1, <3>2, <3>3, ReplaceLoses DEF Accounted
  <2>3. CASE ~ Within(w, size[w])
    BY <1>4, <2>3, OverrunLoses DEF Assign, Accounted
  <2>. QED
    BY <2>2, <2>3
<1>5. ASSUME NEW n \in 0..MaxSize, Resize(v, n) PROVE Accounted
  <2>1. v \in alive /\ n \in Nat /\ v \notin unset /\ n # size[v]
    BY <1>5 DEF Resize, Usable
  <2>2. CASE size[v] # 0
    <3>1. Owns(v) /\ Renew(v, n)
      BY <1>1, <1>5, <2>1, <2>2 DEF IInv, InBounds, Within, Owns, Resize
    <3>. QED
      BY <2>1, <3>1, RenewLoses DEF Accounted
  <2>3. CASE size[v] = 0
    <3>1. n \in 1..MaxSize /\ Acquire(v, n, mem) /\ alive' = alive \cup {v}
      BY <1>5, <2>1, <2>3 DEF Resize
    <3>2. Lost' \subseteq Lost \cup {ptr[v]}
      BY <1>1, <2>1, <3>1, NewLoses
    <3>. QED
      BY <1>5, <2>3, <3>1, <3>2 DEF Accounted, LeftBehind
  <2>. QED
    BY <2>2, <2>3
<1>6. ASSUME NEW n \in 0..MaxSize, LoadVector(v, n) PROVE Accounted
  <2>1. CASE Within(v, n)
    <3>1. UNCHANGED <<alive, ptr, mem>> /\ size' = [size EXCEPT ![v] = n]
      BY <1>6, <2>1 DEF LoadVector
    <3>2. \A q \in alive : Deletes(q) => Deletes(q)'
      BY <3>1 DEF Deletes, IInv, TypeOK
    <3>. QED
      BY <3>1, <3>2, SameLoses DEF Accounted
  <2>2. CASE ~ Within(v, n)
    BY <1>6, <2>2, OverrunLoses DEF LoadVector, Accounted
  <2>. QED
    BY <2>1, <2>2
<1>. QED
  BY <1>3, <1>4, <1>5, <1>6

LEMMA FillLoses ==
  ASSUME IInv, NEW o \in Matrices, o \in alive, NEW n \in 0..MaxSize, Fill(o, n),
         o \in COO \/ n > 0 \/ FilledFromNothing,
         \E k \in 0..MaxSize, w \in Matrices : Load(o, k) \/ GetData(o, w, k)
  PROVE  Accounted
<1>1. /\ Acquire(o, n, mem) /\ alive' = alive \cup {o} /\ n \in Nat
      /\ o \in Objects /\ size[o] \in Nat
  BY DEF Fill, Objects, IInv, TypeOK
<1>2. CASE n = 0
  <2>1. CASE o \in COO
    BY <1>1, <1>2, <2>1, NewLoses DEF Accounted, MadeEmpty
  <2>. QED
    BY <1>2, <2>1 DEF Accounted
<1>3. CASE n > 0 /\ size[o] > 0
  <2>1. Lost' \subseteq Lost \cup {ptr[o]}
    BY <1>1, <1>3, NewLoses
  <2>. QED
    BY <1>3, <2>1 DEF Accounted, FilledOver
<1>4. CASE n > 0 /\ size[o] = 0
  <2>1. ~ Deletes(o)
    BY <1>4, ClassesApart, ArraysAssumption DEF Deletes
  <2>. QED
    BY <1>1, <1>4, <2>1, NewLoses DEF Accounted
<1>. QED
  BY <1>1, <1>2, <1>3, <1>4

LEMMA MatrixLoses ==
  ASSUME IInv, NEW o \in Matrices,
         \/ Clear(o)
         \/ \E n \in 0..MaxSize : Load(o, n)
         \/ \E w \in Matrices, n \in 0..MaxSize : GetData(o, w, n)
         \/ o \in COO /\ \E n \in 0..MaxSize : ResizeCOO(o, n)
  PROVE  Accounted
<1>1. o \in Objects /\ 0..MaxSize \subseteq Nat
  BY DEF Objects
<1>2. CASE Clear(o)
  BY <1>2, ReleaseLoses DEF Clear, HasPointers, Accounted
<1>3. ASSUME NEW n \in 0..MaxSize, Load(o, n) PROVE Accounted
  BY <1>3, FillLoses DEF Load
<1>4. ASSUME NEW w \in Matrices, NEW n \in 0..MaxSize, GetData(o, w, n) PROVE Accounted
  <2>1. CASE w \in unset \/ Within(w, size[w])
    <3>1. Fill(o, n) /\ o \in alive
      BY <1>4, <2>1 DEF GetData
    <3>2. CASE w \notin unset
      <4>1. n > 0
        BY <1>4, <1>1, <3>2 DEF GetData, Converted
      <4>. QED
        BY <1>4, <3>1, <4>1, FillLoses
    <3>3. CASE w \in unset
      <4>1. o \in CSR /\ w \in ELL \cap unset
        BY <1>4, <3>3 DEF GetData, Converted, HasPointers
      <4>2. Lost' \subseteq Lost \cup {ptr[o], ptr'[o]}
        BY <1>1, <3>1, NewLoses DEF Fill
      <4>3. n = 0 => FilledFromNothing
        BY <1>4, <4>1, <4>2 DEF FilledFromNothing
      <4>4. n > 0 \/ FilledFromNothing
        BY <4>3
      <4>. QED
        BY <1>4, <3>1, <4>4, FillLoses
    <3>. QED
      BY <3>2, <3>3
  <2>2. CASE ~ (w \in unset \/ Within(w, size[w]))
    BY <1>4, <2>2, OverrunLoses DEF GetData, Accounted
  <2>. QED
    BY <2>1, <2>2
<1>5. ASSUME NEW n \in 0..MaxSize, o \in COO, ResizeCOO(o, n) PROVE Accounted
  <2>1. o \in alive /\ n \in Nat /\ alive \cup {o} = alive
    BY <1>1, <1>5 DEF ResizeCOO, Usable
  <2>2. CASE n > 0 /\ ptr[o] # NULL
    BY <1>5, <2>1, <2>2, RenewLoses DEF ResizeCOO, Owns, Accounted
  <2>3. CASE ~ (n > 0 /\ ptr[o] # NULL)
    <3>1. /\ alive' = alive
          /\ \/ n = 0 /\ Acquire(o, n, mem)
             \/ n > 0 /\ \E c \in Arrays : mem[c] = Free /\ Acquire(o, n, [mem EXCEPT ![c] = n])
      BY <1>5, <2>3 DEF ResizeCOO
    <3>2. CASE n = 0 /\ Acquire(o, n, mem)
      BY <1>1, <1>5, <2>1, <3>1, <3>2, NewLoses DEF Accounted, MadeEmpty
    <3>3. ASSUME NEW c \in Arrays, mem[c] = Free, Acquire(o, n, [mem EXCEPT ![c] = n]), n > 0
          PROVE  Accounted
      <4>1. Cardinality(Lost' \ Lost) = 1
        BY <2>1, <2>3, <3>1, <3>3, SecondIsLost
      <4>2. n \in 1..MaxSize
        BY <3>3
      <4>. QED
        BY <1>5, <2>3, <4>1, <4>2 DEF Accounted, MadeTwo
    <3>. QED
      BY <3>1, <3>2, <3>3
  <2>. QED
    BY <2>2, <2>3
<1>. QED
  BY <1>2, <1>3, <1>4, <1>5

LEMMA NextLoses == IInv /\ [Next]_vars => Accounted \/ UNCHANGED vars
<1>. SUFFICES ASSUME IInv, Next PROVE Accounted \/ UNCHANGED vars
  OBVIOUS
<1>1. ASSUME NEW o \in Objects, Crash(o) PROVE Accounted
  BY <1>1, SameLoses DEF Crash, Deletes, Accounted
<1>2. ASSUME NEW o \in Objects, Destroy(o) PROVE Accounted
  <2>1. o \in unset => Deleted(o) = mem
    BY DEF IInv, BlankHoldNothing, Deletes, Deleted, TypeOK
  <2>2. mem' = Deleted(o) /\ o \in alive
    BY <1>2, <2>1 DEF Destroy
  <2>. QED
    BY <1>2, <2>2, ReleaseLoses DEF Destroy, Accounted
<1>3. COO \subseteq Matrices
  BY DEF Matrices
<1>. QED
  BY <1>1, <1>2, <1>3, ConstructLoses, VectorLoses, MatrixLoses DEF Next, Ended

(* Only these calls lose arrays, and no more than this: a load or get_data *)
(* over a matrix what it had, an object made or resized empty its empty    *)
(* arrays, resize from nothing one more (matrixcoo_cpu.cpp:242,            *)
(* cpu_vector.cpp:312), get_data from an ELL matrix nothing was written to *)
(* what the matrix had and what it gets.                                   *)
THEOREM LossesOfTheHost == Spec => OnlyTheseLose
<1>1. IInv /\ [Next]_vars =>
        [\/ Lost' \subseteq Lost
         \/ \E o \in COO \cup ELL :
              size'[o] = 0 /\ ptr'[o] # NULL /\ Lost' \subseteq Lost \cup {ptr[o], ptr'[o]}
         \/ \E o \in Matrices : /\ size[o] > 0 /\ Lost' \subseteq Lost \cup {ptr[o]}
                                /\ \E n \in 0..MaxSize, w \in Matrices : Load(o, n) \/ GetData(o, w, n)
         \/ \E o \in COO, n \in 1..MaxSize :
              ptr[o] = NULL /\ ResizeCOO(o, n) /\ Cardinality(Lost' \ Lost) = 1
         \/ \E v \in Vectors, n \in 1..MaxSize :
              size[v] = 0 /\ Resize(v, n) /\ Lost' \subseteq Lost \cup {ptr[v]}
         \/ \E o \in CSR, w \in ELL \cap unset :
              GetData(o, w, 0) /\ Lost' \subseteq Lost \cup {ptr[o], ptr'[o]}]_vars
  BY NextLoses DEF Accounted, MadeEmpty, FilledOver, MadeTwo, LeftBehind, FilledFromNothing
<1>. QED
  BY InitArrays, NextArrays, <1>1, PTL DEF Spec, OnlyTheseLose

=============================================================================
