SPECIFICATION Spec
CONSTANTS
  Experiments <- MCExperiments
  Selections <- MCSelections
  MaxEdits = 3
  MaxCommits = 3
  EditsDuringRun = TRUE
INVARIANTS
  TypeOK
  MeasuredAfterItsTests
  FinishedMeansVerified
  RecordIdentifiesSource
  OneBinaryPerComparison
CHECK_DEADLOCK FALSE
