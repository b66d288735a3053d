SPECIFICATION Spec
CONSTANTS
  Experiments <- MCExperiments
  Selections <- MCSelections
  MaxEdits = 3
  MaxCommits = 3
  EditsDuringRun = FALSE
INVARIANTS
  ResultsIdentifyOneRevision
CHECK_DEADLOCK FALSE
