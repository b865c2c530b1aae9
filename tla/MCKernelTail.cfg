SPECIFICATION Spec
CONSTANTS
  MaxDescriptors = 3
  PageCounts = {1, 4}
  Gaps = {0}
  Types = {"CONVENTIONAL", "LOADER_DATA", "OTHER"}
  LoaderFrames = 3
  HeapPages = 2
  Boots <- AllBoots
  Addresses <- HalfPages
CHECK_DEADLOCK FALSE
INVARIANT
  KernelImageKept
