SPECIFICATION ParseSpec
CONSTANTS
  IntMax = 2047
  SizeMax = 4095
  Texts <- MCTexts
  Arguments <- MCArguments
  Written <- MCWritten
  Fields <- MCFields
INVARIANTS
  AcceptedIsAdmissible
  ShapesFromOneMode
CHECK_DEADLOCK FALSE
