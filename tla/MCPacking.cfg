SPECIFICATION Spec
CONSTANTS
  Shapes <- MCShapes
  MaxPacks = 3
INVARIANTS
  TypeOK
  CopyInBounds
  EachOffsetOnce
  NoTraceOfOldB
  HoldsB
