SPECIFICATION Spec
CONSTANTS
  Requests = {"r1"}
  Names = {"a", "b", "c", "d"}
  Files <- MCGiven
  Changes = {"default"}
  Habits = {"turns", "careful"}
  MaxTunnels = 4
  MaxNumber = 68
  NoName = "none"
  NftName <- MCNftName
  SeedMarks <- MCSeeds
  Adopted = {}
  ManageWG = TRUE
  Events = {"kill", "write"}
  Failing = {}
  MaxMishaps = 1
INVARIANT StartsAgain
CHECK_DEADLOCK FALSE
