SPECIFICATION Spec
CONSTANTS
  Fields <- MCFields
  Writers = {"pushing", "popping"}
  Writer <- MCWriter
  Collectors = {"stat", "handler"}
  MaxCount = 2
  MaxReports = 1
INVARIANTS
  ExactUnlessOverlapped
  TotalIsSumOfReports
CHECK_DEADLOCK FALSE
