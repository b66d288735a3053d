SPECIFICATION FairSpec
CONSTANTS
  MicroRows = 2
  MicroCols = 2
  Calls <- MCCalls
INVARIANTS
  TypeOK
  AscendingSums
  RegisterKernelsStoreOnce
  AccessesInside
PROPERTIES
  KeepsContract
  Terminates
CHECK_DEADLOCK FALSE
