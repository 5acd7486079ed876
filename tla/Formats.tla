------------------------------ MODULE Formats -------------------------------
(***************************************************************************)
(* The matrices on the host: reading a matrix market file, the conversions *)
(* COO -> CSR -> ELL, HYB -> CSR -> COO, and the products on the CPU       *)
(* (matrix/matrix{coo,csr,ell,hyb}_cpu.cpp), with the ELL kernel of the    *)
(* GPU, which reads the same arrays (ell_kernels/ell_matrix_krenels.cl).   *)
(*                                                                         *)
(* One object of each format; a call converts one into another, reads into *)
(* it or multiplies by it, and is one action: this code is sequential.     *)
(* The hazards are in what memory holds when new int[] returns, in padding *)
(* and empty rows, in objects that are used a second time, and in chains   *)
(* of conversions.                                                         *)
(*                                                                         *)
(* The value of a stored entry is the position it has in the file, so that *)
(* a value can be told from any other and from padding.                    *)
(***************************************************************************)
EXTENDS FormalSums, Primitives

CONSTANTS
  NRow, NCol,    (* Size of the matrix.                                    *)
  MaxNNZ,        (* Bound: entries of a file.                              *)
  Symmetric,     (* Whether the files are marked symmetric: {FALSE} etc.   *)
  Reused,        (* What ELL.max_row of the HYB object may be left at.     *)
  FreshOffsets,  (* What new int[] may hold: in row_offset ...             *)
  FreshCounts    (* ... and in nnzcoo.                                     *)

ASSUME FormatsAssumption ==
  /\ NRow \in Nat \ {0} /\ NCol \in Nat \ {0} /\ MaxNNZ \in Nat \ {0}
  /\ Symmetric \subseteq BOOLEAN /\ (TRUE \in Symmetric => NRow = NCol)
  /\ Reused \subseteq Nat /\ FreshOffsets \subseteq Nat /\ FreshCounts \subseteq Nat

Rows      == 0..NRow-1
Cols      == 0..NCol-1
Positions == Rows \X Cols
Padding   == <<-1, -1>>          (* The value 0 of a slot without entry.   *)
Terms     == Positions \X Cols   (* A value times an element of x.         *)

Element(r, c, v) == [row |-> r, col |-> c, val |-> v]

(* The numbers of S in ascending order.                                    *)
Ascending(S) == Sorted(S, LAMBDA m, n : m < n)

VARIABLES
  file,       (* The entries of the file, as positions.  Never changes.    *)
  symmetric,  (* Whether its banner says symmetric.  Never changes.        *)
  coo,        (* nnz, and elements by index.                               *)
  csr,        (* nnz, offset, and col and val together, by index.          *)
  ell,        (* nnz, max_row, and col and val together, by index.         *)
  hyb,        (* max_row, nnz, ell and coo.                                *)
  product,    (* The output vector of the last one.                        *)
  status      (* "ok", or how the program ended: "aborted", "overflow".    *)

matrices == <<coo, csr, ell, hyb>>
fvars == <<file, symmetric, matrices, product, status>>

(* What the constructors leave; the HYB object may have been used before,  *)
(* as clear does not reset max_row.                                        *)
FInit ==
  /\ symmetric \in Symmetric
  /\ file \in {S \in SUBSET Positions : /\ Cardinality(S) \in 1..MaxNNZ
                                        /\ symmetric => \A p \in S : p[1] >= p[2]}
  /\ coo = [nnz |-> 0, ent |-> <<>>]
  /\ csr = [nnz |-> 0, offset |-> <<>>, ent |-> <<>>]
  /\ ell = [nnz |-> 0, max_row |-> 0, ent |-> <<>>]
  /\ \E m \in Reused : hyb = [nnz |-> 0, max_row |-> m, ell |-> <<>>, coo |-> <<>>]
  /\ product = <<>>
  /\ status = "ok"

Unchanged(objects) == UNCHANGED <<file, symmetric, objects>>

-----------------------------------------------------------------------------
(* MatrixCOO::load, and the constructor from arrays.                       *)

Stored   == {Element(p[1], p[2], p) : p \in file}
Mirrored == {Element(p[2], p[1], p) : p \in {q \in file : q[1] # q[2]}}

Earlier(a, b) == a.row < b.row \/ (a.row = b.row /\ a.col < b.col)
Expansion == Stored \cup (IF symmetric THEN Mirrored ELSE {})

(* The matrix keeps as many entries as the file has.                       *)
LoadCOO ==
  /\ status = "ok" /\ coo.nnz = 0
  /\ LET sorted == Sorted(Expansion, Earlier)
     IN  coo' = [nnz |-> Cardinality(file),
                 ent |-> [i \in 0..Cardinality(file)-1 |-> sorted[i]]]
  /\ Unchanged(<<csr, ell, hyb, product, status>>)

ConstructCOO ==
  /\ status = "ok" /\ coo.nnz = 0 /\ ~symmetric
  /\ \E s \in [0..Cardinality(file)-1 -> Stored] :
       /\ \A i, j \in DOMAIN s : s[i] = s[j] => i = j
       /\ coo' = [nnz |-> Cardinality(file), ent |-> s]
  /\ Unchanged(<<csr, ell, hyb, product, status>>)

-----------------------------------------------------------------------------
(* COO <-> CSR.                                                            *)

InRow(ent, r) == {i \in DOMAIN ent : ent[i].row = r}
Fresh(S) == [0..NRow -> S]

(* The running sum of the counts of the rows before r.                     *)
Starts(count) == ExclusiveScan([r \in 0..NRow |-> IF r < NRow THEN count[r] ELSE 0])

(* Where the k-th entry of a COO matrix is written to.                     *)
Dest(ent, starts, k) ==
  starts[ent[k].row] + Cardinality({i \in InRow(ent, ent[k].row) : i < k})

(* The arrays, and the offsets moved back to where the rows begin.         *)
ColVal(e) == [col |-> e.col, val |-> e.val]
CsrOf(ent, nnz, starts) ==
  [nnz    |-> nnz,
   offset |-> [r \in 0..NRow |-> IF r = 0 THEN 0
                                 ELSE starts[r - 1] + Cardinality(InRow(ent, r - 1))],
   ent    |-> [d \in 0..nnz-1 |-> ColVal(ent[CHOOSE k \in 0..nnz-1 : Dest(ent, starts, k) = d])]]

(* The counts of the rows are added to what row_offset held.               *)
CooStarts(ent, fresh) == Starts([r \in Rows |-> fresh[r] + Cardinality(InRow(ent, r))])

(* MatrixCSR::get_data(COO).                                               *)
CooToCsr ==
  /\ status = "ok" /\ coo.nnz > 0
  /\ \E fresh \in Fresh(FreshOffsets) :
       LET starts == CooStarts(coo.ent, fresh)
       IN  IF \A k \in 0..coo.nnz-1 : Dest(coo.ent, starts, k) \in 0..coo.nnz-1
           THEN csr' = CsrOf(coo.ent, coo.nnz, starts) /\ UNCHANGED status
           ELSE status' = "overflow" /\ UNCHANGED csr
  /\ Unchanged(<<coo, ell, hyb, product>>)

(* The indices of row r.                                                   *)
CsrRow(r) == csr.offset[r] .. csr.offset[r + 1] - 1
RowLength(r) == csr.offset[r + 1] - csr.offset[r]

CsrRowOf(i) == CHOOSE r \in Rows : i \in CsrRow(r)

(* If the offsets do not add up to nnz, reading the matrix means reading   *)
(* beyond its arrays; this is not followed any further.                    *)
CsrReadable == status = "ok" /\ csr.nnz > 0 /\ csr.offset[NRow] = csr.nnz

(* MatrixCOO::get_data(CSR).                                               *)
CsrToCoo ==
  /\ CsrReadable
  /\ coo' = [nnz |-> csr.nnz,
             ent |-> [i \in 0..csr.nnz-1 |->
                        Element(CsrRowOf(i), csr.ent[i].col, csr.ent[i].val)]]
  /\ Unchanged(<<csr, ell, hyb, product, status>>)

-----------------------------------------------------------------------------
(* CSR <-> ELL.                                                            *)

EllInd(r, n) == n * NRow + r
(* The row and the place in the row of a slot.                             *)
SlotRow(s) == s % NRow
SlotNth(s) == s \div NRow

(* A slot of an ELL part: an entry of its row, or padding.                 *)
SlotOf(s, padding) ==
  IF SlotNth(s) < RowLength(SlotRow(s))
  THEN csr.ent[csr.offset[SlotRow(s)] + SlotNth(s)]
  ELSE [col |-> padding, val |-> Padding]

LongestRow ==
  CHOOSE n \in {RowLength(r) : r \in Rows} : \A r \in Rows : RowLength(r) <= n

EllOf(width) ==
  [nnz |-> width * NRow, max_row |-> width,
   ent |-> [s \in 0..width*NRow-1 |-> SlotOf(s, -999)]]

(* MatrixELL::get_data(CSR).                                               *)
CsrToEll ==
  /\ CsrReadable
  /\ ell' = EllOf(LongestRow)
  /\ Unchanged(<<coo, csr, hyb, product, status>>)

(* The slots of row r that hold an entry: those with a valid column.       *)
Used(slots, max_row, r) ==
  {n \in 0..max_row-1 : slots[EllInd(r, n)].col \in Cols}

(* The entries of row r of an ELL part, in the order of their slots.       *)
EllRow(slots, max_row, r) ==
  LET places == Ascending(Used(slots, max_row, r))
  IN  [n \in DOMAIN places |-> slots[EllInd(r, places[n])]]

(* A CSR matrix with the given rows, each from where it starts.  Where that *)
(* leaves room that no row fills, the arrays hold anything; one value      *)
(* stands for it.                                                          *)
Holder(row, starts, d) == {r \in Rows : starts[r] <= d /\ d < starts[r] + Size(row[r])}
Laid(row, starts) ==
  [nnz |-> starts[NRow], offset |-> starts,
   ent |-> [d \in 0..starts[NRow]-1 |->
              IF Holder(row, starts, d) = {} THEN [col |-> 0, val |-> Padding]
              ELSE LET r == CHOOSE r \in Holder(row, starts, d) : TRUE
                   IN  row[r][d - starts[r]]]]

(* The offsets are built on fresh memory.                                  *)
FromRows(row, fresh) == Laid(row, Starts([r \in Rows |-> fresh[r] + Size(row[r])]))

(* MatrixCSR::get_data(ELL).                                               *)
EllToCsr ==
  /\ status = "ok" /\ ell.nnz > 0
  /\ \E fresh \in Fresh(FreshOffsets) :
       csr' = FromRows([r \in Rows |-> EllRow(ell.ent, ell.max_row, r)], fresh)
  /\ Unchanged(<<coo, ell, hyb, product, status>>)

-----------------------------------------------------------------------------
(* CSR <-> HYB.                                                            *)

Smaller(a, b) == IF a < b THEN a ELSE b

(* The entries of row r that are put into the ELL part, the number that    *)
(* nnzcoo has for it (it is not set for an empty row), and the ELL entries *)
(* of the rows up to r.                                                    *)
InEll(r, width)            == Smaller(RowLength(r), width)
RestOf(r, width, fresh)    == IF RowLength(r) = 0 THEN fresh[r]
                              ELSE RowLength(r) - InEll(r, width)
EllUpTo(r, width)          == Starts([k \in Rows |-> InEll(k, width)])[r + 1]
CooNnz(width)              == Starts([r \in Rows |-> RowLength(r) - InEll(r, width)])[NRow]

(* Where the copy of the rest of row r reads and writes.                   *)
Copies(width, fresh) ==
  UNION {{r} \X (csr.offset[r + 1] - RestOf(r, width, fresh) .. csr.offset[r + 1] - 1) : r \in Rows}
CopyDest(c, width) == c[2] - EllUpTo(c[1], width)

CopiesTo(d, width, fresh) == {c \in Copies(width, fresh) : CopyDest(c, width) = d}
(* A later row writes over an earlier one.                                 *)
LastTo(d, width, fresh) ==
  CHOOSE c \in CopiesTo(d, width, fresh) : \A b \in CopiesTo(d, width, fresh) : b[1] <= c[1]

Copied(c) == Element(c[1], csr.ent[c[2]].col, csr.ent[c[2]].val)
HybOf(width, fresh) ==
  [nnz |-> CooNnz(width) + width * NRow, max_row |-> width,
   ell |-> [s \in 0..width*NRow-1 |-> SlotOf(s, -1)],
   coo |-> [d \in 0..CooNnz(width)-1 |-> Copied(LastTo(d, width, fresh))]]

(* MatrixHYB::get_data(CSR).                                               *)
CsrToHyb ==
  /\ CsrReadable
  /\ LET width  == IF hyb.max_row = 0 THEN csr.nnz \div NRow ELSE hyb.max_row
         aborts == width = 0 \/ CooNnz(width) = 0
     IN  \E fresh \in Fresh(FreshCounts) :
           LET inside == \A c \in Copies(width, fresh) :
                           c[2] >= 0 /\ CopyDest(c, width) \in 0..CooNnz(width)-1
           IN  /\ status' = IF aborts THEN "aborted" ELSE IF inside THEN "ok" ELSE "overflow"
               /\ hyb' = IF aborts \/ ~inside THEN hyb ELSE HybOf(width, fresh)
  /\ Unchanged(<<coo, csr, ell, product>>)

(* Fault: the scan for a row starts one entry late.                        *)
HybRestLate(r) ==
  {i \in DOMAIN hyb.coo : hyb.coo[i].row = r /\ (r = 0 \/ \E j \in 0..i-1 : hyb.coo[j].row = r)}
(* The entries of row r in the COO part, which is ordered by row.          *)
HybRest(r) == {i \in DOMAIN hyb.coo : hyb.coo[i].row = r}

HybRow(r) ==
  LET first == EllRow(hyb.ell, hyb.max_row, r)
      rest  == Ascending(HybRest(r))
  IN  [n \in 0..Size(first)+Size(rest)-1 |->
         IF n < Size(first) THEN first[n] ELSE ColVal(hyb.coo[rest[n - Size(first)]])]

(* MatrixCSR::get_data(HYB).                                               *)
HybToCsr ==
  /\ status = "ok" /\ hyb.nnz > 0
  /\ \E fresh \in Fresh(FreshOffsets) :
       csr' = FromRows([r \in Rows |-> HybRow(r)], fresh)
  /\ Unchanged(<<coo, ell, hyb, product, status>>)

-----------------------------------------------------------------------------
(* The products.  A row of the result counts, for every value and element  *)
(* of x, how often their product was added.                                *)

Count(ent, S) ==     (* ent[i] for the indices i of S.                     *)
  [t \in Terms |-> Cardinality({i \in S : <<ent[i].val, ent[i].col>> = t})]

Computes(value) ==
  status = "ok" /\ product' = value /\ Unchanged(<<matrices, status>>)

MultiplyCOO == coo.nnz > 0 /\ Computes([r \in Rows |-> Count(coo.ent, InRow(coo.ent, r))])

MultiplyCSR == CsrReadable /\ Computes([r \in Rows |-> Count(csr.ent, CsrRow(r))])

Slots(r, S) == {EllInd(r, n) : n \in S}

MultiplyELL ==
  ell.nnz > 0 /\ Computes([r \in Rows |->
    Count(ell.ent, Slots(r, Used(ell.ent, ell.max_row, r)))])

(* Fault: the kernel stops one slot early.                                 *)
EllPrefixShort(r) ==
  {n \in 0..ell.max_row-2 : \A m \in 0..n : ell.ent[EllInd(r, m)].col >= 0}
(* s_kernel_ell_spmv: stops at the first slot without an entry.            *)
EllPrefix(r) ==
  {n \in 0..ell.max_row-1 : \A m \in 0..n : ell.ent[EllInd(r, m)].col >= 0}

MultiplyEllKernel ==
  ell.nnz > 0 /\ Computes([r \in Rows |-> Count(ell.ent, Slots(r, EllPrefix(r)))])

MultiplyHYB ==
  hyb.nnz > 0 /\ Computes([r \in Rows |->
    Count(hyb.ell, Slots(r, Used(hyb.ell, hyb.max_row, r))) ++ Count(hyb.coo, HybRest(r))])

Ended == status # "ok" /\ UNCHANGED fvars

Convert == CooToCsr \/ CsrToCoo \/ CsrToEll \/ EllToCsr \/ CsrToHyb \/ HybToCsr

FNext ==
  \/ LoadCOO \/ ConstructCOO \/ Convert \/ Ended
  \/ MultiplyCOO \/ MultiplyCSR \/ MultiplyELL \/ MultiplyEllKernel \/ MultiplyHYB

FSpec == FInit /\ [][FNext]_fvars

-----------------------------------------------------------------------------
(* Properties.                                                             *)

(* Every variable holds a value of its type: no array is longer or shorter *)
(* than its object says, and the COO part of a HYB matrix is ordered.      *)
FTypeOK ==
  /\ file \subseteq Positions /\ symmetric \in BOOLEAN
  /\ DOMAIN coo.ent = 0..coo.nnz-1
  /\ \A i \in DOMAIN coo.ent : coo.ent[i].row \in Rows /\ coo.ent[i].col \in Cols
  /\ csr.nnz > 0 => /\ csr.offset \in [0..NRow -> 0..csr.nnz]
                    /\ DOMAIN csr.ent = 0..csr.nnz-1
  /\ ell.nnz > 0 => DOMAIN ell.ent = 0..ell.nnz-1 /\ ell.nnz = ell.max_row * NRow
  /\ hyb.nnz > 0 => /\ hyb.nnz = Size(hyb.coo) + hyb.max_row * NRow
                    /\ \A m, n \in DOMAIN hyb.coo : m < n => hyb.coo[m].row <= hyb.coo[n].row
  /\ product # <<>> => product \in [Rows -> Sums(Terms)]
  /\ status \in {"ok", "aborted", "overflow"}

(* Whatever chain of conversions has produced a CSR matrix, converting     *)
(* back to CSR from any format, also from a HYB object that was used for   *)
(* another matrix before, gives the same arrays: no entry is lost, moved   *)
(* to another row or reordered within its row.                             *)
RoundTrip == [][csr.nnz > 0 => csr' = csr]_fvars

(* The entries a COO matrix stands for, as elements.                       *)
CooElements == {coo.ent[i] : i \in DOMAIN coo.ent}

(* Every product, of any format, on the CPU or by the ELL kernel, is that  *)
(* of the matrix in the file.                                              *)
ProductsAgree ==
  (product # <<>> /\ ~symmetric) =>
    \A r \in Rows : product[r] = Each(Terms, {<<p, p[2]>> : p \in {q \in file : q[1] = r}})

(* "Expand symmetrix matrix if necessary": a loaded matrix holds, besides  *)
(* each entry of a symmetric file, its mirror image.  It does not, since    *)
(* load copies as many triples as the file has (matrixcoo_cpu.cpp:383).    *)
Expanded == (symmetric /\ coo.nnz > 0) => CooElements = Stored \cup Mirrored

=============================================================================
