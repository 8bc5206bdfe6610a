SPECIFICATION Spec
CONSTANTS
  Requests = {r1}
  Tags = {"a", "b", "c"}
  Ports = {1, 2, 3}
  MaxCreds = 4
  Starts <- MCOne
  Changes = {"clone", "batch", "port"}
  Habits = {"apart", "fresh"}
  Faults = {}
  NoTag = "none"
  NoReq = "nobody"
INVARIANT NodesLinked
CHECK_DEADLOCK FALSE
