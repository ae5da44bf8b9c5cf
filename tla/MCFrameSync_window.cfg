SPECIFICATION Spec
CHECK_DEADLOCK FALSE
CONSTANTS
  FRAMES = 3
  PALETTES = 2
  PALETTE_LIMIT = 2
  OFFSETS = {0, 1}
INVARIANTS
  WindowOfFrame
