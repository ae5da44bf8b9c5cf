SPECIFICATION FairSpec
CHECK_DEADLOCK FALSE
CONSTANTS
  FRAMES = 4
  MAX_STACK = 3
  PACKETS = 3
INVARIANTS
  TypeOK
  StopHeard
PROPERTIES
  WholeFrames
  ImplementsRegister
  TimeoutMeansNoFrame
  BothEnd
