SPECIFICATION Spec
CONSTANTS
  Requests = {r1, r2}
  Tags = {"a", "b", "c"}
  Ports = {1, 2, 3}
  MaxCreds = 4
  Starts <- MCStarts
  Changes = {"batch", "delete"}
  Habits = {"fresh", "own"}
  Faults = {}
  NoTag = "none"
  NoReq = "nobody"
INVARIANT NodesLinked
CHECK_DEADLOCK FALSE
