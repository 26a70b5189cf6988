SPECIFICATION Spec
CONSTANTS
  Procs = {"board", "run", "sched"}
  Drivers = {"run", "sched"}
  Attempts = 1
  Tries = 2
  MaxDeaths = 1
  MaxStalls = 1
INVARIANTS
  OneDriver
  LogFollowsCard
PROPERTIES
  CardIsAtomic
CHECK_DEADLOCK FALSE
