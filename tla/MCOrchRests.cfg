SPECIFICATION FairSpec
ACTION_CONSTRAINT OneTrouble
CONSTANTS
  Pipelines <- OneOrThree
  MaxLandAttempts = 2
  Drivers = {"board", "cli"}
  Board = "board"
  HumanAt = "cli"
  AgentVerdicts = {"completed", "limit"}
  Faults = {"driver", "host", "supervisor", "refuse", "unkillable"}
  FaultBudget = 2
  HumanBudget = 1
  MaxRuns = 5
INVARIANTS
  NothingTwice
PROPERTIES
  Rests
CHECK_DEADLOCK FALSE
