SPECIFICATION FairSpec
CONSTANTS
  Pipelines <- MCPipelines
  MaxLandAttempts = 3
INVARIANTS
  IInv
  DoneIsEarned
  ExhaustedTriedEveryLeg
PROPERTIES
  DriverStepsDecrease
  ComesToRest
