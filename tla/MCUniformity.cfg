SPECIFICATION Spec
CONSTANTS
  x = x
  y = y
  v = v
  Lanes = {l1, l2}
  Locals <- MCLocals
  PerLane <- MCPerLane
  Shaders <- MCShaders
INVARIANTS
  TypeOK
  UniformLocals
  UniformLoopsConverge
  ScalarSlotsWrittenByAll
  LeastSolution
PROPERTY
  AnalysisReturns
