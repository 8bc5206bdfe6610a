SPECIFICATION FairSpec
CONSTANTS
  Users = {"u", "e"}
  Tunnels <- MCTunnels
  Seeds <- MCNoSeeds
  Home <- MCHome
  Entries = {"e"}
  Handlers = {"h1"}
  OldFiles <- MCOldFiles
  IIDCount = 8
  IIDBound = 4
  NoRec = NoRec
  NoAddr = NoAddr
  Faults = {"crash", "add", "flap"}
PROPERTIES
  SetupEnds
  IdleReaped
  ReapedLeavesIface
