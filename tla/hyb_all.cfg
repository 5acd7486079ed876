\* Two warps of four lanes, of two chunks and of one, a tail of one entry, block
\* sizes in the ratio of the code: the kernel numbers warps for groups twice as
\* large as the host starts, but one group holds them all.
CONSTANTS
  WarpSize = 4
  KernelWarps = 4
  HostWarps = 2
  MaxBlocks = 1
  NNZ = 13
  NRow = 3
  EllBlock = 2
SPECIFICATION HybSpec
INVARIANTS HybProduct NoLaneRace
