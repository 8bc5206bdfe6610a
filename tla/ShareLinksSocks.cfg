SPECIFICATION Spec
CONSTANTS
  Requests = {r1}
  Tags = {"a", "b", "c"}
  Ports = {1, 2, 3}
  MaxCreds = 4
  Starts <- MCOne
  Changes = {"socks", "port"}
  Habits = {"apart", "fresh"}
  Faults = {}
  NoTag = "none"
  NoReq = "nobody"
INVARIANT LinksOpen
CHECK_DEADLOCK FALSE
