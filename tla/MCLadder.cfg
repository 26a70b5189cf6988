SPECIFICATION LadderSpec
CONSTANTS
  Names <- MCNames
  Closed = {"claude"}
  Models = {"fable", "opus"}
  DefaultLadder <- MCDefaultLadder
  FirstFiles <- MCFiles
  Saves <- MCSaves
  Types <- MCTypes
  Orders <- MCOrders
  Rungs <- MCRungs
  Default <- MCDefault
  Installed = {"claude", "codex", "grok"}
  Metered = {"grok"}
  Credits <- MCCredits
  Learns = {"claude"}
  First <- MCFirst
  Readings <- MCReadings
  WallEnds = {0}
  DefaultLimit = 1
  MaxClock = 2
  MaxEvents = 3
INVARIANTS
  WalkIsGiven
PROPERTIES
  LegsAreAllowed
CHECK_DEADLOCK FALSE
