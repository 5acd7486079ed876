\* A group of two warps of 4 lanes: the upper lanes of the first warp read what
\* the second one is writing, those of the second one the padding.
CONSTANTS
  WarpSize = 4
  HostWarps = 2
  Blocks = 1
  LocalSize = 2
  NNZ = 5
  NRow = 3
SPECIFICATION Spec
INVARIANTS FoldIsClean
PROPERTIES ImplementsSpMV
