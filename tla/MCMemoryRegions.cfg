SPECIFICATION Spec
CONSTANTS
  MaxDescriptors = 3
  PageCounts = {1, 2}
  Gaps = {0, 1}
  Types = {"CONVENTIONAL", "LOADER_DATA", "OTHER"}
  Inputs <- AllInputs
  Addresses <- HalfPages
CHECK_DEADLOCK FALSE
INVARIANTS
  TypeOK
  NeverPanics
  ReportIsExact
