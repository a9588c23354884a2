SPECIFICATION Spec
CONSTANTS
  Shaders <- MCDigits
  VNames <- MCVNames
  LayoutNames <- MCLayoutNames
  Base <- MCBase
  MaxVaryings = 7
  MaxWidth = 4
INVARIANT ShadowsAreParams
