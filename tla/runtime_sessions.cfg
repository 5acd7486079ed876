SPECIFICATION Spec
CONSTANTS
  Worlds <- Machines
  Requests <- AnyRequest
  KernelNames = {k1, k2}
  MaxSessions = 3
INVARIANTS RequestedDevice HandlesAlive ReleasedOnce NothingLeft
