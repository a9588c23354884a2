SPECIFICATION Spec
CONSTANTS
  W = 3
  H = 3
  TILE = 2
  PACKET_W = 3
  NumThreads = 2
  Draws <- MCDraws
  ZFar = 9
INVARIANTS
  TypeOK
  NoSharedPixel
  ReadsShaded
  FinalImage
PROPERTIES
  ImplementsInOrder
  DrawsFinish
