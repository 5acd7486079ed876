SPECIFICATION Spec
CONSTANTS
  NRowA = 2
  NColA = 3
  NColB = 2
  Capacity = 8
INVARIANTS
  WorkspaceExact
  ResultExact
