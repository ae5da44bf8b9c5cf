SPECIFICATION LutSpec
CHECK_DEADLOCK FALSE
CONSTANTS
  COLORS = 4
  HEIGHT = 2
  COMPONENTS = {31, 242}
INVARIANTS
  TypeOK
  PixelsDoubled
