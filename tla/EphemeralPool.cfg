SPECIFICATION PoolFairSpec
CONSTANTS
  Proxies = {"c1", "c2"}
  Random <- MCRandom
  Sticky = {7}
  Reserved = {0, 1}
  Base = 2
  Faults = {"crash", "add", "del", "flap"}
INVARIANTS
  NoLeak
  OwnAddress
  GraceKept
PROPERTY GraceIsFinite
