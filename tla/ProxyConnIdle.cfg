SPECIFICATION Spec
CONSTANTS
  Conns = {"c1"}
  MaxConns = 1
  DoneCap = 2
  Idle = 2
  Chunks <- MCTwoChunks
PROPERTY OnlyIdleCut
CHECK_DEADLOCK FALSE
