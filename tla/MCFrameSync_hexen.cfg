SPECIFICATION Spec
CHECK_DEADLOCK FALSE
CONSTANTS
  FRAMES = 3
  PALETTES = 4
  PALETTE_LIMIT = 2
  OFFSETS = {0}
INVARIANTS
  PalettesAccepted
