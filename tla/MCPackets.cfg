SPECIFICATION Spec
CHECK_DEADLOCK FALSE
CONSTANTS
  FRAME_WIDTH = 320
  FRAME_HEIGHT = 200
  WIDTH = 48
  HEIGHT = 48
  COL_PER_PACKET = 4
  OFFSETS <- Windows
  PAL_INDICES = {0, 13}
  PACKET_SIZE = 196
  COLUMN_SIZE = 49
  COLUMN_HEIGHT = 48
INVARIANTS
  ColumnsOfWindow
