SPECIFICATION Spec
CHECK_DEADLOCK FALSE
CONSTANTS
  CLIENTS = {c1, c2}
  GAMES = 3
  IMPATIENT = FALSE
INVARIANTS
  ClientCanCome
