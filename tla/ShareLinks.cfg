SPECIFICATION Spec
CONSTANTS
  Requests = {r1, r2}
  Tags = {"a", "b", "c"}
  Ports = {1, 2, 3}
  MaxCreds = 4
  Starts <- MCStarts
  Changes = {"socks", "clone", "batch", "port", "delete", "toggle"}
  Habits = {"apart", "fresh", "own", "wary"}
  Faults = {"check", "restart"}
  NoTag = "none"
  NoReq = "nobody"
SYMMETRY Symmetry
INVARIANTS
  TypeOK
  NodesLinked
  NoOrphanLinks
  LinksOpen
CHECK_DEADLOCK FALSE
