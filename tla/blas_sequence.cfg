CONSTANTS
  Problems <- Calls
  Alignment = 3
  Prime = 11
  Tile = 3
  Threshold = 4
  AllocationStep = 3
  EventsBefore = {0, 2}
SPECIFICATION SSpec
INVARIANTS PartsTile ResultRight EventMeansDone NoConflict NothingEarly
PROPERTY KernelsEnd
CHECK_DEADLOCK FALSE
