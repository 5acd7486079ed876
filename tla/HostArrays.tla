----------------------------- MODULE HostArrays -----------------------------
(***************************************************************************)
(* The arrays of vectors and matrices of the host: the constructors,       *)
(* operator=, resize, load, clear, get_data and the destructors of         *)
(* Vector<scalar,CPU>, MatrixCOO, MatrixCSR, MatrixELL and MatrixHYB       *)
(* (vector/cpu_vector.cpp, matrix/matrix*_cpu.cpp).                        *)
(*                                                                         *)
(* Every class decides for itself when it has something to delete, what it *)
(* overwrites and how much it copies.  All arrays of a matrix are made,    *)
(* replaced and deleted together and as long as its nnz says, so one array *)
(* stands for them.  An address that is free may be handed out again.      *)
(* What the arrays hold is in Formats; vectors that point into a matrix    *)
(* for the length of a function (set_pointerData, release_pointerData) are *)
(* in SpMM.                                                                *)
(***************************************************************************)
EXTENDS Integers, FiniteSets

CONSTANTS
  COO, CSR, ELL, HYB, Vectors,   (* The objects of each class.             *)
  Arrays,                        (* The addresses that new returns.        *)
  NULL,                          (* No array.                              *)
  MaxSize                        (* Bound: elements of an array.           *)

Matrices == COO \cup CSR \cup ELL \cup HYB
Objects  == Matrices \cup Vectors

ASSUME ArraysAssumption ==
  /\ NULL \notin Arrays /\ MaxSize \in Nat
  /\ Matrices \cap Vectors = {} /\ COO \cap (CSR \cup ELL \cup HYB) = {}
  /\ CSR \cap (ELL \cup HYB) = {} /\ ELL \cap HYB = {}

Free == -1

VARIABLES
  alive,     (* The objects that have been constructed.                    *)
  unset,     (* Those of them whose nnz no constructor or call has set.    *)
  size,      (* Per object: its size or nnz.                               *)
  ptr,       (* Per object: its array, or NULL.                            *)
  mem,       (* Per array: its length, or Free.                            *)
  status     (* "ok"; "outside": an access past the end of an array;       *)
             (* "crashed": a pointer no one has set was deleted.           *)

vars == <<alive, unset, size, ptr, mem, status>>

Init ==
  /\ alive = {} /\ unset = {}
  /\ size = [o \in Objects |-> 0]
  /\ ptr = [o \in Objects |-> NULL]
  /\ mem = [b \in Arrays |-> Free]
  /\ status = "ok"

(* What the destructor of o will delete: a matrix asks nnz, a vector       *)
(* deletes whatever it has.                                                *)
Deletes(o) == ptr[o] # NULL /\ (o \in Vectors \/ size[o] > 0)

Deleted(o) == [b \in Arrays |-> IF Deletes(o) /\ b = ptr[o] THEN Free ELSE mem[b]]

(* new for o, of n elements, on a heap m.                                  *)
Acquire(o, n, m) ==
  \E b \in Arrays :
    /\ m[b] = Free
    /\ ptr' = [ptr EXCEPT ![o] = b]
    /\ mem' = [m EXCEPT ![b] = n]
    /\ size' = [size EXCEPT ![o] = n]

(* The array of o has n elements.                                          *)
Within(o, n) == n = 0 \/ (ptr[o] # NULL /\ n <= mem[ptr[o]])

Overrun  == status' = "outside" /\ UNCHANGED <<alive, unset, size, ptr, mem>>
Usable(o) == status = "ok" /\ o \in alive \ unset
(* Its pointers are set, though perhaps not its nnz.                       *)
HasPointers(o) == status = "ok" /\ o \in alive \ (unset \ ELL)

-----------------------------------------------------------------------------
(* Constructors and destructors.                                           *)

(* An ELL matrix gets no arrays, but its nnz is what memory holds.         *)
ConstructDefault(o) ==
  /\ status = "ok" /\ o \notin alive
  /\ alive' = alive \cup {o}
  /\ ptr' = [ptr EXCEPT ![o] = NULL]
  /\ \E n \in IF o \in ELL THEN 0..MaxSize ELSE {0} : size' = [size EXCEPT ![o] = n]
  /\ unset' = unset \cup ({o} \cap ELL)
  /\ UNCHANGED <<mem, status>>

(* Of a size, from arrays or from the GPU.  The arrays of a COO or ELL     *)
(* matrix without entries are made all the same; CSR and HYB make none and *)
(* leave their members as they are.                                        *)
Construct(o) ==
  /\ status = "ok" /\ o \notin alive
  /\ alive' = alive \cup {o}
  /\ \E n \in 0..MaxSize :
       IF n = 0 /\ o \in CSR \cup HYB
       THEN unset' = unset \cup {o} /\ UNCHANGED <<size, ptr, mem>>
       ELSE Acquire(o, n, mem) /\ UNCHANGED unset
  /\ UNCHANGED status

(* MatrixCSR(nnz, nrow, ncol) clears members it has not set, and clear of  *)
(* an object that was never set, or its destructor, may delete anything;   *)
(* not of an ELL matrix, whose pointers are NULL.                          *)
Crash(o) ==
  /\ status = "ok" /\ (o \in unset \ ELL \/ o \in CSR \ alive)
  /\ status' = "crashed"
  /\ UNCHANGED <<alive, unset, size, ptr, mem>>

Destroy(o) ==
  /\ status = "ok" /\ o \in alive
  /\ alive' = alive \ {o}
  /\ unset' = unset \ {o}
  /\ mem' = IF o \in unset THEN mem ELSE Deleted(o)
  /\ size' = [size EXCEPT ![o] = 0]
  /\ ptr' = [ptr EXCEPT ![o] = NULL]
  /\ UNCHANGED status

-----------------------------------------------------------------------------
(* Vectors.                                                                *)

(* The constructor that copies, and the operators that return a vector.    *)
Copy(v, w) ==
  /\ Usable(w) /\ v \notin alive
  /\ IF Within(w, size[w])
     THEN /\ alive' = alive \cup {v}
          /\ Acquire(v, size[w], mem)
          /\ UNCHANGED <<unset, status>>
     ELSE Overrun

(* Fault: the old array is kept.                                           *)
AssignOver(v, w) ==
  /\ Usable(v) /\ Usable(w) /\ size[v] # size[w]
  /\ Acquire(v, size[w], mem)
  /\ UNCHANGED <<alive, unset, status>>
(* Fault: the size is set after the new array is made.                     *)
AssignLate(v, w) ==
  /\ Usable(v) /\ Usable(w) /\ size[v] # size[w]
  /\ \E b \in Arrays :
       /\ Deleted(v)[b] = Free
       /\ ptr' = [ptr EXCEPT ![v] = b]
       /\ mem' = [Deleted(v) EXCEPT ![b] = size[v]]
       /\ size' = [size EXCEPT ![v] = size[w]]
  /\ UNCHANGED <<alive, unset, status>>

(* operator=.  Between equal sizes only the elements change.               *)
Assign(v, w) ==
  /\ Usable(v) /\ Usable(w) /\ size[v] # size[w]
  /\ IF Within(w, size[w])
     THEN Acquire(v, size[w], Deleted(v)) /\ UNCHANGED <<alive, unset, status>>
     ELSE Overrun

(* A new array, into which as much is copied as it holds, whatever the old *)
(* one held; that is then deleted.                                         *)
Renew(o, n) ==
  IF Within(o, n)
  THEN \E b \in Arrays :
         /\ mem[b] = Free
         /\ ptr' = [ptr EXCEPT ![o] = b]
         /\ mem' = [mem EXCEPT ![b] = n, ![ptr[o]] = Free]
         /\ size' = [size EXCEPT ![o] = n]
         /\ UNCHANGED <<alive, unset, status>>
  ELSE Overrun

(* Vector::resize: an array of a vector of size zero is left behind.       *)
Resize(v, n) ==
  /\ Usable(v) /\ n # size[v]
  /\ IF size[v] # 0 THEN Renew(v, n)
     ELSE Acquire(v, n, mem) /\ UNCHANGED <<alive, unset, status>>

(* Vector::load: the size becomes that of the file, the array stays.       *)
LoadVector(v, n) ==
  /\ Usable(v)
  /\ IF Within(v, n)
     THEN size' = [size EXCEPT ![v] = n] /\ UNCHANGED <<alive, unset, ptr, mem, status>>
     ELSE Overrun

-----------------------------------------------------------------------------
(* Matrices.                                                               *)

(* Fault: nnz is kept.                                                     *)
ClearKept(o) ==
  /\ HasPointers(o) /\ size[o] > 0
  /\ mem' = Deleted(o)
  /\ ptr' = IF o \in HYB THEN ptr ELSE [ptr EXCEPT ![o] = NULL]
  /\ UNCHANGED <<alive, unset, size, status>>

(* clear: a HYB matrix keeps its pointers.  An ELL matrix without arrays   *)
(* gets its nnz set, if what memory held is positive.                      *)
Clear(o) ==
  /\ HasPointers(o) /\ size[o] > 0
  /\ mem' = Deleted(o)
  /\ ptr' = IF o \in HYB THEN ptr ELSE [ptr EXCEPT ![o] = NULL]
  /\ size' = [size EXCEPT ![o] = 0]
  /\ unset' = unset \ {o}
  /\ UNCHANGED <<alive, status>>

(* allocate and get_data make new arrays, whatever the object has.         *)
Fill(o, n) ==
  /\ Acquire(o, n, mem)
  /\ unset' = unset \ {o}
  /\ UNCHANGED <<alive, status>>

(* load; only a COO matrix may be without entries.                         *)
Load(o, n) ==
  /\ status = "ok" /\ o \in alive /\ (o \in COO \/ n > 0)
  /\ Fill(o, n)

(* Which lengths get_data gives a matrix made from w: its nnz between COO  *)
(* and CSR, otherwise with padding, or without.  Of an ELL matrix without  *)
(* arrays it counts none, on top of what memory held.                      *)
Converted(o, w) ==
  CASE w \in unset -> IF o \in CSR THEN 0..MaxSize ELSE {}
    [] w \notin unset /\ <<o, w>> \in (COO \X CSR) \cup (CSR \X COO) -> {size[w]}
    [] w \notin unset /\ <<o, w>> \in CSR \X (ELL \cup HYB) -> 1..size[w]
    [] w \notin unset /\ <<o, w>> \in (ELL \cup HYB) \X CSR -> 1..MaxSize
    [] OTHER -> {}

(* It goes as far as nnz or max_row says, which is set when nnz is not.    *)
GetData(o, w, n) ==
  /\ HasPointers(w) /\ o \in alive /\ size[w] > 0 /\ n \in Converted(o, w)
  /\ IF w \in unset \/ Within(w, size[w]) THEN Fill(o, n) ELSE Overrun

(* MatrixCOO::resize.  It asks the new nnz whether there is an old array;  *)
(* one that is made where there was none is overwritten at once.           *)
ResizeCOO(o, n) ==
  /\ Usable(o) /\ n # size[o]
  /\ IF n > 0 /\ ptr[o] # NULL THEN Renew(o, n)
     ELSE /\ \/ n = 0 /\ Acquire(o, n, mem)
             \/ n > 0 /\ \E c \in Arrays : mem[c] = Free /\ Acquire(o, n, [mem EXCEPT ![c] = n])
          /\ UNCHANGED <<alive, unset, status>>

-----------------------------------------------------------------------------
Ended == status # "ok" /\ UNCHANGED vars

Next ==
  \/ \E o \in Objects : ConstructDefault(o) \/ Construct(o) \/ Destroy(o) \/ Crash(o)
  \/ \E v, w \in Vectors : Copy(v, w) \/ Assign(v, w)
  \/ \E v \in Vectors, n \in 0..MaxSize : Resize(v, n) \/ LoadVector(v, n)
  \/ \E o \in Matrices : Clear(o)
  \/ \E o \in Matrices, n \in 0..MaxSize : Load(o, n)
  \/ \E o, w \in Matrices : \E n \in 0..MaxSize : GetData(o, w, n)
  \/ \E o \in COO, n \in 0..MaxSize : ResizeCOO(o, n)
  \/ Ended

Spec == Init /\ [][Next]_vars

-----------------------------------------------------------------------------
(* Properties.                                                             *)

TypeOK ==
  /\ alive \subseteq Objects
  /\ unset \subseteq alive \cap (CSR \cup ELL \cup HYB)
  /\ size \in [Objects -> Nat]
  /\ ptr \in [Objects -> Arrays \cup {NULL}]
  /\ mem \in [Arrays -> Nat \cup {Free}]
  /\ status \in {"ok", "outside", "crashed"}

(* Nothing is deleted twice: what an object will delete is in use and no   *)
(* other object's, although clear of a HYB matrix keeps pointers to arrays *)
(* that are gone and may be others' by now (matrixhyb_cpu.cpp:46).         *)
DeletedOnce ==
  \A o \in alive :
    Deletes(o) => /\ mem[ptr[o]] # Free
                  /\ \A q \in alive : Deletes(q) /\ ptr[q] = ptr[o] => q = o

(* No object whose size or nnz a constructor or a call has set claims more *)
(* elements than its array has.  multiply, dot, norm, sum, set, save,      *)
(* every operator, get_data and copies to the GPU go as far as size or nnz *)
(* says, so they stay inside whatever calls there were, and so does a      *)
(* resize to less: only a resize to more and the load of a vector may      *)
(* reach past an array (cpu_vector.cpp:314 and 449,                        *)
(* matrixcoo_cpu.cpp:249).  What is left out: CSR and HYB matrices of size *)
(* 0, and an ELL matrix fresh from its default constructor, that claims    *)
(* any number of elements and has no array (matrixell_cpu.cpp:4).          *)
InBounds == \A o \in alive \ unset : Within(o, size[o])

(* Arrays in use that no object will delete.                               *)
Lost == {b \in Arrays : mem[b] # Free /\ \A o \in alive : Deletes(o) => ptr[o] # b}

(* Which calls lose arrays, and how many: a load or get_data over a matrix *)
(* those it had; a COO or ELL matrix without entries those it is given,    *)
(* and a COO matrix resized to that also those it had; resize from nothing *)
(* one more, and of a vector without elements the one it had               *)
(* (matrixcoo_cpu.cpp:242, cpu_vector.cpp:312); a CSR matrix filled from   *)
(* an ELL matrix nothing was written to, what it had and what it gets.     *)
OnlyTheseLose ==
  [][\/ Lost' \subseteq Lost
     \/ \E o \in COO \cup ELL :
          size'[o] = 0 /\ ptr'[o] # NULL /\ Lost' \subseteq Lost \cup {ptr[o], ptr'[o]}
     \/ \E o \in Matrices : /\ size[o] > 0 /\ Lost' \subseteq Lost \cup {ptr[o]}
                            /\ \E n \in 0..MaxSize, w \in Matrices : Load(o, n) \/ GetData(o, w, n)
     \/ \E o \in COO, n \in 1..MaxSize :
          ptr[o] = NULL /\ ResizeCOO(o, n) /\ Cardinality(Lost' \ Lost) = 1
     \/ \E v \in Vectors, n \in 1..MaxSize :
          size[v] = 0 /\ Resize(v, n) /\ Lost' \subseteq Lost \cup {ptr[v]}
     \/ \E o \in CSR, w \in ELL \cap unset :
          GetData(o, w, 0) /\ Lost' \subseteq Lost \cup {ptr[o], ptr'[o]}]_vars

=============================================================================
