SPECIFICATION Spec
CONSTANTS
  Shaders <- MCShaders
  VNames <- MCVNames
  LayoutNames <- MCLayoutNames
  Base <- MCBase
  MaxVaryings = 7
  MaxWidth = 4
INVARIANTS
  TypeOK
  LocationsDisjoint
  InterfaceAsReserved
  BindingsApart
  UniformsApart
  PackedInOrder
  RowRuns
