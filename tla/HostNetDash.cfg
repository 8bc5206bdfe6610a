SPECIFICATION Spec
CONSTANTS
  Requests = {"r1"}
  Names = {"a", "b", "c", "d"}
  Files <- MCGiven
  Changes = {"add"}
  Habits = {"turns", "restarts", "careful"}
  MaxTunnels = 4
  MaxNumber = 68
  NoName = "none"
  NftName <- MCSameNft
  SeedMarks <- MCSeeds
  Adopted = {}
  ManageWG = TRUE
  Events = {}
  Failing = {}
  MaxMishaps = 0
INVARIANT StickyUntouched
CHECK_DEADLOCK FALSE
