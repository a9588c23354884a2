SPECIFICATION Spec
CONSTANTS
  Lanes = {l1, l2}
  MaxDepth = 5
  ExitsBeforeLoop = TRUE
SYMMETRY LaneSymmetry
INVARIANTS
  ExitedLanesIdle

