SPECIFICATION Spec
CONSTANTS
  IntMax = 7
  Commands <- MCCommands
  Clocks <- MCClocks
INVARIANTS
  RunsComputeProduct
  RowsTellTheTruth
  SuccessMeansAllPassed
  MediansOfOwnRuns
  StatusExplained
PROPERTIES
  CsvTouchedLast
CHECK_DEADLOCK FALSE
