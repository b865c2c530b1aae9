SPECIFICATION Spec
CONSTANTS
  PAGE_SIZE = 4
  WORD_SIZE = 2
  RELA_SIZE = 3
  U64 = 64
  FREE_ADDRESS = 32
  DataOffsets = {7, 8, 9}
  DataSizes = {0, 1, 5}
  BssSizes = {0, 2, 6}
  FreeFrames = {8}
  Kernels <- AllKernels
CHECK_DEADLOCK FALSE
INVARIANTS
  TypeOK
  FileUntouched
  FramesOwned
  ImageCorrect
  ProtectionCorrect
  CopiedOnce
  LoadSucceeds
