SPECIFICATION FairSpec
CONSTANTS
  Landings = {"a", "c"}
  Procs = {"board", "cli"}
  ProcsOf <- MCProcsOf
  NoTests = {}
  Budget <- MCBudget
  MaxOutside = 2
INVARIANTS
  LandingsAreTrue
PROPERTIES
  TrunkAdvances
  EveryLandingIsAnswered
CHECK_DEADLOCK FALSE
