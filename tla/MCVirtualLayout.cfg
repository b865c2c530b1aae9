SPECIFICATION Spec
CONSTANTS
  NumEntries = 8
  LEVEL_4_SIZE = 4
  Executables <- FixedKernels
  SharedObjects <- SegmentSets
  Sizes = {1, 4, 5, 9}
  SegmentAddresses = {0, 3, 4, 10}
  SegmentSizes = {1, 5, 6}
CHECK_DEADLOCK FALSE
INVARIANTS
  TypeOK
  PlacesDisjoint
  NoEntryWasted
