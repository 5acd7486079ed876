\* A COO, a CSR and a HYB matrix and a vector on a device that has room for three
\* buffers, so that handles are soon handed out again.  ELL differs from COO in
\* that it has two arrays, not three.
CONSTANTS
  COO = {coo}
  CSR = {csr}
  ELL = {}
  HYB = {hyb}
  Vectors = {v}
  MaxBuffers = 3
  MaxNNZ = 1
  MaxSize = 2
  NRow = 1
SPECIFICATION DSpec
INVARIANTS OwnedOnce
PROPERTIES OnlyLoadDisagrees OnlyTwoLose
