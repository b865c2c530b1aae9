SPECIFICATION FairSpec
CONSTANTS
  USIZE = 64
  None = None
  Screens <- SomeScreens
  Scenes <- SomeScenes
  QUAD_X = 2
  QUAD_Y = 1
  CIRCLE_R = 2
  LINE_X = 2
  LINE_Y = 5
  DISK_R = 1
  Widths = {1, 4, 5}
  Heights = {1, 2, 4}
  Paddings = {0, 2}
  Radii = {0, 1, 2, 3, 5}
CHECK_DEADLOCK FALSE
INVARIANTS
  TypeOK
  PictureCorrect
  PanicsExplained
PROPERTIES
  DrawingEnds
