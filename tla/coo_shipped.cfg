\* The kernel numbers the warps for groups twice as large as the host starts,
\* and there are two groups.
CONSTANTS
  WarpSize = 2
  KernelWarps = 2
  HostWarps = 1
  MaxBlocks = 2
  NNZ = 5
  NRow = 2
SPECIFICATION Spec
INVARIANTS FlatHandlesAllButTail
