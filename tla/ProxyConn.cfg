SPECIFICATION FairSpec
CONSTANTS
  Conns = {"c1", "c2"}
  MaxConns = 1
  DoneCap = 2
  Idle = 1
  Chunks <- MCChunks
INVARIANTS
  SlotsExact
  EndedWhole
PROPERTY GoroutinesEnd
CHECK_DEADLOCK FALSE
