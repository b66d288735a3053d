SPECIFICATION Spec
CONSTANTS
  Size = 3
  Cells <- MCCells
  AbsoluteTol = 1
  RelativeDen = 4
INVARIANTS
  PassedIffNoExcess
  DiagnosticsBoundErrors
CHECK_DEADLOCK FALSE
