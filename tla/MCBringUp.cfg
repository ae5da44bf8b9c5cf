SPECIFICATION Spec
CHECK_DEADLOCK FALSE
CONSTANTS
  DISPLAY_WIDTH = 240
  DISPLAY_HEIGHT = 240
  SCREEN_WIDTH = 192
  SCREEN_HEIGHT = 96
  BACKGROUND = 48
  COPIES = 5
  RING_BUFFER_SIZE = 100
INVARIANTS
  Heard
  LastColumnMissing
  TaskFindsPanel
