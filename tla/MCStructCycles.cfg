SPECIFICATION Spec
CONSTANTS
  A = A
  B = B
  C = C
  NoVar = NoVar
  Structs <- MCStructs
  Programs <- MCSound
  MaxDepth = 4
INVARIANTS
  TypeOK
  SearchInv
  NoCycleLeft
  ReportsJustified
  DoubleFound
PROPERTY
  RunReturns
