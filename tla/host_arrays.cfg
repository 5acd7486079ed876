\* A matrix of each class whose rules differ and two vectors; three arrays, so that
\* an address is soon handed out again and lost arrays soon leave none.
CONSTANTS
  COO = {coo}
  CSR = {csr}
  ELL = {ell}
  HYB = {hyb}
  Vectors = {v, w}
  Arrays = {a1, a2, a3}
  NULL = NULL
  MaxSize = 2
SPECIFICATION Spec
INVARIANTS DeletedOnce InBounds
PROPERTIES OnlyTheseLose
SYMMETRY Alike
