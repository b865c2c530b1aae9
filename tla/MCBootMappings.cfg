SPECIFICATION Spec
CONSTANTS
  NumEntries = 10
  LEVEL_4_SIZE = 256
  PAGE_SIZE = 4
  FANOUT = 4
  STACK_SIZE = 8
  BOOT_INFO_SIZE = 2
  REGION_SIZE = 1
  HEAP_START = 2312
  HEAP_SIZE = 10
  None = None
  Machines <- SomeMachines
  usable_after <- UsableAfter
  CodeFrames = {1, 21, 57, 65}
  DescriptorCounts = {2, 3}
CHECK_DEADLOCK FALSE
INVARIANTS
  TypeOK
  FramesExclusive
  AddressSpaceTrue
  FailuresExplained
PROPERTIES
  ImplementsLayout
