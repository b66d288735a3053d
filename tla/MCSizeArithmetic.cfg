SPECIFICATION FairSpec
CONSTANTS
  Width = 8
  ElementSize = 4
  MicroRows = 4
  MicroCols = 8
  Sizes <- MCSizes
  Blocks <- MCBlocks
INVARIANTS
  SizesExact
  TileLoopsDoNotWrap
PROPERTIES
  Terminates
CHECK_DEADLOCK FALSE
