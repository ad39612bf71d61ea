SPECIFICATION Spec
CONSTANTS
  Fields <- MCFields
  Writers = {"pushing", "popping"}
  Writer <- MCWriter
  Collectors = {"stat"}
  MaxCount = 3
  MaxReports = 2
INVARIANTS
  OnlyLoses
CHECK_DEADLOCK FALSE
