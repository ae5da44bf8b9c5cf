SPECIFICATION FairSpec
CHECK_DEADLOCK FALSE
CONSTANTS
  PEERS = {p1, p2}
  PAL_SIZE = 4
  UPLOADS = {2, 4}
  PIECE = 3
  SESSIONS = 2
  SOCKET = 1
  QUEUE = 2
INVARIANTS
  TypeOK
  OneClient
  Findable
  UploadLands
  RightPalettes
PROPERTIES
  UploadEnds
