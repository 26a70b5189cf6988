SPECIFICATION Spec
CONSTANTS
  Pipelines <- BuildTest
  MaxLandAttempts = 2
  Drivers = {"board"}
  Board = "board"
  HumanAt = "board"
  AgentVerdicts = {"completed", "limit", "auth_failed"}
  Faults = {}
  FaultBudget = 0
  HumanBudget = 2
  MaxRuns = 5
INVARIANTS
  VerdictsAreJust
  HumanDecisionStands
PROPERTIES
  CardFollowsChain
CHECK_DEADLOCK FALSE
