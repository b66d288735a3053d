SPECIFICATION FairSpec
CONSTANTS
  MicroRows = 2
  MicroCols = 2
  Calls <- MCCalls
INVARIANTS
  TypeOK
  IInv
  NoDataRace
  StoresInOwnRange
  CompleteOnReturn
  QuietAtExit
  BalancedPartition
  SamePathAsSerial
PROPERTIES
  KeepsContract
  Terminates
CHECK_DEADLOCK FALSE
