SPECIFICATION Spec
CONSTANTS
  Lanes = {l1, l2}
  MaxDepth = 5
  ExitsBeforeLoop = FALSE
SYMMETRY LaneSymmetry
INVARIANTS
  TypeOK
  MaskInv
  ExitedLanesIdle
  IdleArmStaysIdle
PROPERTY
  ImplementsScalar

