SPECIFICATION Spec
CONSTANTS
  Users = {"d", "x"}
  Tunnels <- MCTunnels
  Configs <- MCConfigs
  Wanted <- MCWanted
  NoTunnel = ""
  Seeds <- MCSeeds
  OldFiles <- MCOldFiles
  IIDCount = 8
  IIDBound = 2
  NoRec = NoRec
  NoAddr = NoAddr
  Faults = {"crash", "save"}
  Changes = {"delete", "unregister", "default", "prefix"}
  Quiet = TRUE
INVARIANTS
  NoGhosts
  EgressInTunnel
  AnswersOnDisk
PROPERTY StickyForever
