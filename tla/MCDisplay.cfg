SPECIFICATION FairSpec
CONSTANTS
  RING_BUFFER_SIZE = 3
  ORIGINAL_SCREEN_WIDTH = 3
  REPEAT = 2
  SCREEN_WIDTH = 6
  COL_PER_PACKET = 2
  PAL_SIZE = 3
  PAL_WRITES = {2}
INVARIANTS
  TypeOK
  TokensConserved
  SlotStable
  DcMatches
  NoAssert
  RightPlace
PROPERTIES
  HostReturns
  ImplementsColumnStream
