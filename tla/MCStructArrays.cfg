SPECIFICATION Spec
CONSTANTS
  A = A
  B = B
  C = C
  NoVar = NoVar
  Structs <- MCStructs
  Programs <- MCArrays
  MaxDepth = 4
INVARIANT
  CyclesDetected
