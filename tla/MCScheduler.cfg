SPECIFICATION FairSpec
CONSTANTS
  Cards = {"a", "b", "c", "d"}
  Created <- MCCreated
  Conflicts <- TwoClash
  Repo <- OneRepo
  Landers = {"a"}
  Adopted = {"b"}
  Scheds = {"board"}
  Board = "board"
  Runners = {"run"}
  Max = 2
  MaxLegs <- OneLeg
  MaxActs = 1
  MaxDeaths = 1
INVARIANTS
  StartsAreSound
PROPERTIES
  QueuedStarts
CHECK_DEADLOCK FALSE
