SPECIFICATION Spec
CONSTANTS
  Requests = {"r1"}
  Tags = {"a", "b"}
  Tunnels = {"x", "y"}
  Users = {"u", "v"}
  Ports = {1, 2}
  StartPort = 1
  Starts <- MCBound
  DefaultTunnel = "y"
  Changes = {"disable"}
  Habits = {"turns", "restarts"}
  Faults = {}
  MaxInbounds = 3
  NoTag = "noTag"
  NoTun = "noTun"
  NoUser = "noUser"
  NoReq = "noReq"
INVARIANT AlwaysProtected
