SPECIFICATION Spec
CONSTANTS
  Requests = {"r1", "r2"}
  Tags = {"a", "b"}
  Tunnels = {"x"}
  Users = {"u"}
  Ports = {1}
  StartPort = 1
  Starts <- MCBound
  DefaultTunnel = "x"
  Changes = {"bind", "unbind", "delete", "batch"}
  Habits = {}
  Faults = {"check", "restart", "write", "kill"}
  MaxInbounds = 3
  NoTag = "noTag"
  NoTun = "noTun"
  NoUser = "noUser"
  NoReq = "noReq"
INVARIANT NoDangling
