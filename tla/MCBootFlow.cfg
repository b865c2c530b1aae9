SPECIFICATION Spec
CONSTANTS
  PAGE_SIZE = 2
  UsizeRange = 16
  Pages = {0, 1, 2, 3}
  config <- Resolution
  None = None
  Firmwares <- SomeFirmwares
  Widths = {1, 2, 3}
  Heights = {1, 2, 3}
  FileSizes = {0, 1, 2, 3, 5}
  MaxModes = 3
CHECK_DEADLOCK FALSE
INVARIANTS
  TypeOK
  HandedOverIntact
  SystemInfoTrue
  ModeChosen
