SPECIFICATION Spec
CONSTANTS
  Requests = {"r1"}
  Names = {"a", "b", "c"}
  Files <- MCFiles
  Changes = {"add", "put", "delete", "default"}
  Habits = {"turns", "restarts", "careful"}
  MaxTunnels = 3
  MaxNumber = 66
  NoName = "none"
  NftName <- MCNftName
  SeedMarks <- MCSeeds
  Adopted = {"a"}
  ManageWG = TRUE
  Events = {"flap", "fail", "error", "kill", "reboot"}
  Failing = {{"wg"}, {"nft"}, {"rule"}, {"wg", "nft", "rule"}}
  MaxMishaps = 2
INVARIANTS
  MemoryIsFile
  EgressRouted
  StickyUntouched
  NothingLeft
PROPERTIES
  ServesAgain
CHECK_DEADLOCK FALSE
