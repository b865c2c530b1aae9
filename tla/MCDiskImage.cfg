SPECIFICATION Spec
CONSTANTS
  None = None
  Destinations <- SomeDestinations
  KERNEL_FILE_NAME <- Kernel
  BOOTLOADER_FILE_NAME <- Bootloader
  RAMDISK_FILE_NAME <- Ramdisk
  nukleus = nukleus
  initium = initium
  OtherFiles = {other}
  Lengths <- SomeLengths
  Contents = {0}
  Overheads = {57344, 81920}
  CLUSTER = 2048
  MaxFiles = 2
  MaxRuns = 2
  MaxRebuilds = 1
CHECK_DEADLOCK FALSE
INVARIANTS
  TypeOK
  BootsWholeImage
  NoSpaceExplained
PROPERTIES
  FailsCleanly
