SPECIFICATION FairSpec
CONSTANTS
  MaxDescriptors = 3
  PageCounts = {1, 2}
  Gaps = {0, 1}
  Types = {"CONVENTIONAL", "LOADER_DATA"}
  MemoryMaps <- Maps
INVARIANTS
  TypeOK
  NextFrameSeparates
  IteratorInv
PROPERTIES
  ImplementsFrameSupply
  CallReturns
