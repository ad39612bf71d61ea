SPECIFICATION Spec
CONSTANTS
  Fields <- MCFields
  Writers = {"pushing", "popping"}
  Writer <- MCWriter
  Collectors = {"stat"}
  MaxCount = 1
  MaxReports = 1
INVARIANTS
  JsonTotalIsTotal
CHECK_DEADLOCK FALSE
