SPECIFICATION Spec
CONSTANTS
  A = A
  B = B
  C = C
  NoVar = NoVar
  Structs <- MCStructs
  Programs <- MCPrograms
  MaxDepth = 4
INVARIANT
  WalkEnds
