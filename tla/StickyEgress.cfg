SPECIFICATION Spec
CONSTANTS
  Users = {"u", "e", "s"}
  Tunnels <- MCTunnels
  Seeds <- MCSeeds
  Home <- MCHome
  Entries = {"e"}
  Handlers = {"h1", "h2"}
  OldFiles <- MCLegacyFiles
  IIDCount = 8
  IIDBound = 3
  NoRec = NoRec
  NoAddr = NoAddr
  Faults = {"crash", "save", "add"}
INVARIANTS
  BindSucceeds
  OneOwner
  GrantsDurable
  NoStrayAddr
PROPERTIES
  ProtectedKept
  UsesStore
  ImplementsService
