SPECIFICATION FairSpec
CONSTANTS
  Users = {"u"}
  Tunnels <- MCTunnels
  Seeds <- MCNoSeeds
  Home <- MCHome
  Entries = {}
  Handlers = {"h1"}
  OldFiles <- MCOldFiles
  IIDCount = 8
  IIDBound = 3
  NoRec = NoRec
  NoAddr = NoAddr
  Faults = {"save"}
PROPERTY ReapRetried
