SPECIFICATION Spec
CONSTANTS
  Requests = {r1}
  Tags = {"a", "b", "c"}
  Ports = {1, 2, 3}
  MaxCreds = 4
  Starts <- MCStarts
  Changes = {"socks"}
  Habits = {"apart", "fresh", "own"}
  Faults = {"check"}
  NoTag = "none"
  NoReq = "nobody"
INVARIANT NoOrphansEver
CHECK_DEADLOCK FALSE
