--------------------------- MODULE DeviceBuffers ----------------------------
(***************************************************************************)
(* Who owns which memory on the GPU: the constructors, load, clear,        *)
(* allocate, operator= and the destructors of MatrixCOO, MatrixCSR,        *)
(* MatrixELL, MatrixHYB and Vector<scalar,GPU> (matrix/matrix*_gpu.cpp,    *)
(* vector/ocl_vector.cpp), over OpenCL::allocate and OpenCL::free          *)
(* (ocl.cpp).                                                              *)
(*                                                                         *)
(* The classes share no base: each has its own idea of when there is       *)
(* something to release, and OpenCL::free leaves the pointer it was given  *)
(* as it is.  An allocation may fail at any time; that is logged and the   *)
(* call goes on.  A released handle may be handed out again at once.  What *)
(* the arrays hold is in modules Formats and SpMV, what the kernels do     *)
(* with them in CooFlat, CsrSpMV, HybMultiply and VectorReduce.            *)
(***************************************************************************)
EXTENDS Integers, FiniteSets

CONSTANTS
  COO, CSR, ELL, HYB, Vectors,   (* The objects of each class.             *)
  MaxBuffers,                    (* Bound: buffers that fit on the device. *)
  MaxNNZ,                        (* Bound: entries of a matrix.            *)
  MaxSize,                       (* Bound: elements of a vector.           *)
  NRow                           (* Rows of every matrix.                  *)

Matrices == COO \cup CSR \cup ELL \cup HYB
Objects  == Matrices \cup Vectors

ASSUME BuffersAssumption ==
  /\ MaxBuffers \in Nat /\ MaxNNZ \in Nat /\ MaxSize \in Nat /\ NRow \in Nat \ {0}
  /\ Matrices \cap Vectors = {} /\ (COO \cup ELL) \cap (CSR \cup HYB) = {}
  /\ COO \cap ELL = {} /\ CSR \cap HYB = {}

Buffers == 1..MaxBuffers       (* The handles that clCreateBuffer returns. *)
NoBuffer == 0

Fields == {"row", "col", "val", "row_offset", "ellCol", "ellVal", "data"}

VARIABLES
  built,     (* The objects that have been constructed.                    *)
  unset,     (* Those of them whose members no constructor has set.        *)
  size,      (* Per object and field: the length its nnz, nrow etc. imply. *)
  ptr,       (* Per object and field: a handle or NoBuffer.              *)
  mem,       (* The length of each buffer; 0 if it is not in use.          *)
  status     (* "ok", or "crashed": a pointer no one has set was released. *)

dvars == <<built, unset, size, ptr, mem, status>>

-----------------------------------------------------------------------------
(* Lengths of the arrays, by class.  The length of each array is positive  *)
(* for some field exactly if nnz (size, for a vector) is.                  *)

Length(n, S) == [f \in Fields |-> IF f \in S THEN n ELSE 0]
Empty == Length(0, {})

CsrLength(n) ==
  [f \in Fields |-> IF f \in {"col", "val"} THEN n
                    ELSE IF f = "row_offset" /\ n > 0 THEN NRow + 1 ELSE 0]

HybLength(e, c) ==
  [f \in Fields |-> IF f \in {"ellCol", "ellVal"} THEN e
                    ELSE IF f \in {"row", "col", "val"} THEN c ELSE 0]

Lengths(o) ==
  IF o \in COO THEN {Length(n, {"row", "col", "val"}) : n \in 0..MaxNNZ}
  ELSE IF o \in ELL THEN {Length(n, {"col", "val"}) : n \in 0..MaxNNZ}
  ELSE IF o \in CSR THEN {CsrLength(n) : n \in 0..MaxNNZ}
  ELSE IF o \in HYB THEN {HybLength(e, c) : e \in 0..MaxNNZ, c \in 0..MaxNNZ}
  ELSE {Length(n, {"data"}) : n \in 0..MaxSize}

None == [f \in Fields |-> NoBuffer]

Held(o)  == {ptr[o][f] : f \in Fields} \ {NoBuffer}
Owned    == UNION {Held(o) : o \in built}
InUse(m) == {b \in Buffers : m[b] > 0}

(* Fault: row_offset is forgotten.                                         *)
ReleasedButOffsets(o) ==
  [b \in Buffers |-> IF b \in {ptr[o][f] : f \in Fields \ {"row_offset"}} THEN 0 ELSE mem[b]]
(* clReleaseMemObject on every array of an object.                         *)
Freed(o) == [b \in Buffers |-> IF b \in Held(o) THEN 0 ELSE mem[b]]

(* Handles for the arrays of got, NoBuffer for the others: clCreateBuffer  *)
(* returns handles that are not in use.  The lowest such handles.          *)
Fresh(p, got, m) ==
  /\ p \in [Fields -> Buffers \cup {NoBuffer}]
  /\ \A f \in Fields \ got : p[f] = NoBuffer
  /\ \A f \in got : /\ p[f] \in Buffers /\ m[p[f]] = 0
                    /\ \A g \in got : p[f] = p[g] => f = g

Order == [f \in Fields |->
            CASE f = "data" -> 1 [] f = "val" -> 2 [] f = "col" -> 3 [] f = "row" -> 4
              [] f = "row_offset" -> 5 [] f = "ellVal" -> 6 [] f = "ellCol" -> 7]

Lowest(got, m) ==
  LET free == {b \in Buffers : m[b] = 0}
      Fits(f, b) == Cardinality({c \in free : c < b})
                      = Cardinality({g \in got : Order[g] < Order[f]})
  IN  [f \in Fields |-> IF f \in got /\ \E b \in free : Fits(f, b)
                        THEN CHOOSE b \in free : Fits(f, b) ELSE NoBuffer]

(* The arrays of o are allocated while the device holds m.  This fails for *)
(* a length of zero, and may fail for any other.                           *)
Allocate(o, s, m) ==
  \E got \in SUBSET {f \in Fields : s[f] > 0} :
    LET p == Lowest(got, m)
    IN  /\ Fresh(p, got, m)
        /\ ptr' = [ptr EXCEPT ![o] = p]
        /\ mem' = [b \in Buffers |-> IF \E f \in got : p[f] = b
                                     THEN s[CHOOSE f \in got : p[f] = b] ELSE m[b]]
        /\ size' = [size EXCEPT ![o] = s]

(* CSR and HYB do nothing for a matrix without entries.                    *)
Ignores(o, s) == o \in CSR \cup HYB /\ s = Empty

DInit ==
  /\ built = {}
  /\ unset = {}
  /\ size = [o \in Objects |-> Empty]
  /\ ptr = [o \in Objects |-> None]
  /\ mem = [b \in Buffers |-> 0]
  /\ status = "ok"

-----------------------------------------------------------------------------
(* Constructors.                                                           *)

ConstructDefault(o) ==
  /\ status = "ok" /\ o \notin built
  /\ built' = built \cup {o}
  /\ size' = [size EXCEPT ![o] = Empty]
  /\ ptr' = [ptr EXCEPT ![o] = None]
  /\ UNCHANGED <<unset, mem, status>>

(* From arrays, from a matrix or vector of the host, or, for vectors, with *)
(* a size and from another vector of the GPU.                              *)
ConstructFrom(o) ==
  /\ status = "ok" /\ o \notin built
  /\ built' = built \cup {o}
  /\ \E s \in Lengths(o) :
       IF Ignores(o, s)
       THEN /\ unset' = unset \cup {o}
            /\ UNCHANGED <<size, ptr, mem>>
       ELSE /\ Allocate(o, s, mem)
            /\ UNCHANGED unset
  /\ UNCHANGED status

-----------------------------------------------------------------------------
(* Matrices.                                                               *)

(* What clear finds in an object that was never set may be released.       *)
Crash(o) ==
  /\ status = "ok" /\ o \in unset
  /\ status' = "crashed"
  /\ UNCHANGED <<built, unset, size, ptr, mem>>

(* Fault: the members are not reset.                                       *)
ClearKept(o) ==
  /\ status = "ok" /\ o \in (Matrices \cap built) \ unset
  /\ mem' = Freed(o)
  /\ UNCHANGED <<built, unset, size, ptr, status>>

(* clear; nothing happens to an object that holds nothing.                 *)
Clear(o) ==
  /\ status = "ok" /\ o \in (Matrices \cap built) \ unset
  /\ size' = [size EXCEPT ![o] = Empty]
  /\ ptr' = [ptr EXCEPT ![o] = None]
  /\ mem' = Freed(o)
  /\ UNCHANGED <<built, unset, status>>

(* MatrixCOO, MatrixCSR and MatrixELL::load: clear, then allocate.         *)
Load(o) ==
  /\ status = "ok" /\ o \in (Matrices \cap built) \ HYB
  /\ \E s \in Lengths(o) :
       IF Ignores(o, s)
       THEN /\ size' = [size EXCEPT ![o] = Empty]
            /\ ptr' = [ptr EXCEPT ![o] = None]
            /\ mem' = Freed(o)
            /\ UNCHANGED unset
       ELSE /\ Allocate(o, s, Freed(o))
            /\ unset' = unset \ {o}
  /\ UNCHANGED <<built, status>>

(* MatrixHYB::load only allocates.                                         *)
LoadHyb(o) ==
  /\ status = "ok" /\ o \in HYB \cap built
  /\ \E s \in Lengths(o) \ {Empty} : Allocate(o, s, mem)
  /\ unset' = unset \ {o}
  /\ UNCHANGED <<built, status>>

(* MatrixCOO::multiply allocates temp_rows and temp_vals, of one element   *)
(* or more, and never releases them; multiply of a HYB matrix and the      *)
(* reductions of vectors, which release theirs before they return, change  *)
(* nothing.  Matrices with entries stand for those of more than a warp.    *)
MultiplyCOO(o) ==
  /\ status = "ok" /\ o \in COO \cap built /\ size[o]["row"] > 0
  /\ \E temps \in SUBSET {b \in Buffers : mem[b] = 0} :
       /\ Cardinality(temps) <= 2
       /\ mem' = [b \in Buffers |-> IF b \in temps THEN 1 ELSE mem[b]]
  /\ UNCHANGED <<built, unset, size, ptr, status>>

-----------------------------------------------------------------------------
(* Vectors.                                                                *)

(* Fault: the size is set after allocating.                                *)
AssignLate(v) ==
  /\ status = "ok" /\ v \in Vectors \cap built
  /\ \E s \in Lengths(v) \ {size[v]} :
       LET got == {f \in {"data"} : size[v][f] > 0}
           p == Lowest(got, Freed(v))
       IN  /\ Fresh(p, got, Freed(v))
           /\ ptr' = [ptr EXCEPT ![v] = p]
           /\ mem' = [b \in Buffers |-> IF b = p["data"] THEN size[v]["data"] ELSE Freed(v)[b]]
           /\ size' = [size EXCEPT ![v] = s]
  /\ UNCHANGED <<built, unset, status>>

(* operator= to a vector of another size.  A vector of the same size is    *)
(* only copied, into whatever buffer there is.                             *)
Assign(v) ==
  /\ status = "ok" /\ v \in Vectors \cap built
  /\ \E s \in Lengths(v) \ {size[v]} : Allocate(v, s, Freed(v))
  /\ UNCHANGED <<built, unset, status>>

(* load: the size becomes that of the file, the buffer stays.              *)
LoadVector(v) ==
  /\ status = "ok" /\ v \in Vectors \cap built
  /\ \E s \in Lengths(v) : size' = [size EXCEPT ![v] = s]
  /\ UNCHANGED <<built, unset, ptr, mem, status>>

-----------------------------------------------------------------------------
(* Destructors.  Of an object that was never set, nothing may be released. *)
Destroy(o) ==
  /\ status = "ok" /\ o \in built
  /\ built' = built \ {o}
  /\ unset' = unset \ {o}
  /\ mem' = Freed(o)
  /\ size' = [size EXCEPT ![o] = Empty]
  /\ ptr' = [ptr EXCEPT ![o] = None]
  /\ UNCHANGED status

Crashed == status = "crashed" /\ UNCHANGED dvars

DNext ==
  \/ \E o \in Objects : ConstructDefault(o) \/ ConstructFrom(o) \/ Destroy(o)
  \/ \E o \in Matrices : Clear(o) \/ Load(o) \/ LoadHyb(o) \/ MultiplyCOO(o) \/ Crash(o)
  \/ \E v \in Vectors : Assign(v) \/ LoadVector(v)
  \/ Crashed

DSpec == DInit /\ [][DNext]_dvars

-----------------------------------------------------------------------------
(* Properties.                                                             *)

(* Every variable holds a value of its type.                               *)
DTypeOK ==
  /\ built \subseteq Objects
  /\ unset \subseteq built \cap (CSR \cup HYB)
  /\ size \in [Objects -> [Fields -> Nat]]
  /\ ptr \in [Objects -> [Fields -> Buffers \cup {NoBuffer}]]
  /\ mem \in [Buffers -> Nat]
  /\ status \in {"ok", "crashed"}

(* Every handle in an object is one that is in use, and no other field of  *)
(* any object has it, although free does not reset pointers, allocations   *)
(* fail half-way and handles are handed out again.  So nothing is released *)
(* twice, and no kernel is given an array that is gone or someone else's.  *)
OwnedOnce ==
  \A o \in built, f \in Fields :
    ptr[o][f] # NoBuffer =>
      /\ mem[ptr[o][f]] > 0
      /\ \A q \in built, g \in Fields :
           ptr[q][g] = ptr[o][f] => q = o /\ g = f

(* Fields agree with buffers: an array that was allocated is as long as    *)
(* the members of its object say.                                          *)
Agrees(o) == \A f \in Fields : ptr[o][f] # NoBuffer => mem[ptr[o][f]] = size[o][f]

(* Vector::load is the only call after which an object claims to be larger *)
(* or smaller than its buffer is; kernels take the claim for a bound.  An  *)
(* assignment may keep the mismatch but never makes one.                   *)
OnlyLoadDisagrees ==
  [][\A o \in Objects : Agrees(o) => Agrees(o)' \/ LoadVector(o)]_dvars

(* Two calls lose buffers, that is, leave some in use that no object holds *)
(* and nothing will release: MatrixHYB::load those the object held before, *)
(* and MatrixCOO::multiply its temporaries.  All others, and every other   *)
(* buffer, are accounted for.                                              *)
OnlyTwoLose ==
  [][LET lost == InUse(mem) \ Owned IN
       \/ lost' \subseteq lost
       \/ \E h \in HYB : LoadHyb(h) /\ lost' \subseteq lost \cup Held(h)
       \/ \E m \in COO : MultiplyCOO(m) /\ Cardinality(lost' \ lost) <= 2]_dvars

=============================================================================
