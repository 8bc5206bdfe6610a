SPECIFICATION Spec
CONSTANTS
  Requests = {"r1", "r2"}
  Names = {"a", "b", "c", "d"}
  Files <- MCGiven
  Changes = {"add"}
  Habits = {"restarts", "careful"}
  MaxTunnels = 4
  MaxNumber = 68
  NoName = "none"
  NftName <- MCNftName
  SeedMarks <- MCSeeds
  Adopted = {}
  ManageWG = TRUE
  Events = {}
  Failing = {}
  MaxMishaps = 0
INVARIANT TunnelsApart
CHECK_DEADLOCK FALSE
