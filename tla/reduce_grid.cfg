\* Two groups of 4 warps, one tree step with a barrier and two without.  The
\* lengths: one element and exactly a block, which the kernels are launched for
\* with fewer work-items; one more than a block, and one more than a round of the
\* grid.
CONSTANTS
  BlockSize = 8
  SyncWidth = 2
  Lockstep = 2
  MaxBlocks = 2
  Sizes = {1, 8, 9, 33}
SPECIFICATION Spec
INVARIANTS NoLocalRace SumOnReturn
