SPECIFICATION PartSpec
CONSTANTS
  Logins = {"claude", "codex"}
  Claude = {"claude"}
  Absent = {}
  Refused = {"codex"}
  First = "codex"
  MaxLegs = 2
  MaxActs = 2
  Sessions = {"a", "b"}
  NoTests = FALSE
  MaxWork = 1
  Budget <- Once
  MaxOutside = 3
INVARIANTS
  CardIsOwn
  LandingsAreSafe
PROPERTIES
  FinalStays
  TerminalAnswers
  TrunkKeeps
  LandingIsAnswered
CHECK_DEADLOCK FALSE
