SPECIFICATION Spec
CONSTANTS
  Requests = {"r1"}
  Names = {"a", "b", "c", "d"}
  Files <- MCLeftOut
  Changes = {"delete"}
  Habits = {"turns", "restarts", "careful"}
  MaxTunnels = 4
  MaxNumber = 68
  NoName = "none"
  NftName <- MCNftName
  SeedMarks <- MCSeeds
  Adopted = {}
  ManageWG = TRUE
  Events = {}
  Failing = {}
  MaxMishaps = 0
INVARIANT EgressRouted
CHECK_DEADLOCK FALSE
