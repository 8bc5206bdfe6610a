SPECIFICATION PoolSpec
CONSTANTS
  Proxies = {"c1", "c2"}
  Random <- MCRandomSticky
  Sticky = {7}
  Reserved = {0, 1}
  Base = 2
  Faults = {}
INVARIANT AvoidsSticky
