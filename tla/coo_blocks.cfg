\* Groups of one warp of two lanes, five chunks over four warps, so that one
\* warp is idle and the carries are reduced in two blocks; a tail of one entry.
CONSTANTS
  WarpSize = 2
  KernelWarps = 1
  HostWarps = 1
  MaxBlocks = 4
  NNZ = 11
  NRow = 3
SPECIFICATION Spec
INVARIANTS TypeOK NoWriteRace CarryFits CarriesWritten NoCarryRace FlatHandlesAllButTail
PROPERTIES ImplementsSpMV
