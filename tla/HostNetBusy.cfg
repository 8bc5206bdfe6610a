SPECIFICATION Spec
CONSTANTS
  Requests = {"r1"}
  Names = {"a", "b", "c"}
  Files <- MCFiles
  Changes = {"add", "put", "delete", "default"}
  Habits = {"turns", "careful"}
  MaxTunnels = 3
  MaxNumber = 66
  NoName = "none"
  NftName <- MCNftName
  SeedMarks <- MCSeeds
  Adopted = {"a"}
  ManageWG = TRUE
  Events = {"flush", "flap", "fail", "error", "kill", "reboot"}
  Failing = {{"wg"}, {"nft"}, {"rule"}, {"wg", "nft", "rule"}}
  MaxMishaps = 1
INVARIANTS
  StartsAgain
  TunnelsApart
  MemoryIsFile
  EgressRouted
  StickyUntouched
  NothingLeft
CHECK_DEADLOCK FALSE
