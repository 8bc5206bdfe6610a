SPECIFICATION Spec
CONSTANTS
  Users = {"d", "x"}
  Tunnels <- MCTunnels
  Configs <- MCConfigs
  Wanted <- MCWanted
  NoTunnel = ""
  Seeds <- MCSeeds
  OldFiles <- MCOldFiles
  IIDCount = 8
  IIDBound = 3
  NoRec = NoRec
  NoAddr = NoAddr
  Faults = {}
  Changes = {"default"}
  Quiet = FALSE
INVARIANT EgressAlways
