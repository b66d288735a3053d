SPECIFICATION Spec
CONSTANTS
  IntMax = 7
  Commands <- MCCommands
  Clocks <- MCClocks
INVARIANTS
  CsvComplete
CHECK_DEADLOCK FALSE
