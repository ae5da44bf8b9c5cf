SPECIFICATION Spec
CONSTANTS
  SP = 1
  KP <- Kp
  KI <- Ki
  KD <- Kd
  OUT_MIN = 2
  OUT_MAX = 6
  SCALE = 6
  SECOND = 2
  LATE = 3
  SILENCE = 4
  QMAX = 3
INVARIANTS
  TypeOK
  TimeAccounted
PROPERTIES
  NoWindUp
