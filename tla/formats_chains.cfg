\* Files of up to 4 entries in a matrix of 3 x 3, symmetric or not, loaded or
\* constructed in any order; new HYB objects and ones used before; fresh memory
\* is zero.
CONSTANTS
  NRow = 3
  NCol = 3
  MaxNNZ = 4
  Symmetric = {FALSE, TRUE}
  Reused = {0, 1, 2}
  FreshOffsets = {0}
  FreshCounts = {0}
SPECIFICATION FSpec
INVARIANTS ProductsAgree
PROPERTIES RoundTrip
