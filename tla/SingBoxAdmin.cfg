SPECIFICATION Spec
CONSTANTS
  Requests = {"r1"}
  Tags = {"a", "b"}
  Tunnels = {"x", "y"}
  Users = {"u", "v"}
  Ports = {1, 2}
  StartPort = 1
  Starts <- MCStarts
  DefaultTunnel = "y"
  Changes = {"disable", "enable", "bind", "unbind", "delete", "add", "clone", "strip", "batch", "sync"}
  Habits = {"turns", "restarts"}
  Faults = {}
  MaxInbounds = 3
  NoTag = "noTag"
  NoTun = "noTun"
  NoUser = "noUser"
  NoReq = "noReq"
INVARIANTS
  TypeOK
  UsersFirst
  UsersFollow
  OutboundsFresh
  EntriesProtected
PROPERTY NeverLost
