SPECIFICATION FairSpec
CHECK_DEADLOCK FALSE
CONSTANTS
  FRAMES = 3
  PALETTES = 2
  PALETTE_LIMIT = 2
  OFFSETS = {0}
INVARIANTS
  TypeOK
  NoOverwrite
  ReadBeforeReturn
PROPERTIES
  ImplementsRendezvous
  FramesInOrder
  FarewellHeard
  ClientFollowsGame
  GameFollowsClient
  SigintEndsGame
