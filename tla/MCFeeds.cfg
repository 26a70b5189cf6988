SPECIFICATION FeedsSpec
CONSTANTS
  Sharers = {t1, t2}
  MaxWork = 2
  MaxHandOffs = 2
  MaxBoards = 1
  Tapped = {t1, t2}
  Threads = {l1, l2}
  TapSlack = 0
  MaxLines = 2
  MaxTapClock = 2
  MaxLegs = 3
  MaxTapFaults = 1
  Tools = {a}
  Subs = {t1, t2}
  MaxEvents = 5
  MaxDeaths = 1
  PollLogins = {l1, l2}
  PollTerms = {t1, t2}
  Interval = 1
  MaxDelay = 4
  StaleAge = 2
  Grace = 1
  Errors = {"refused", "logged out"}
  MaxPollClock = 6
  MaxTurns = 4
  Logins = {l}
  Models = {"fable"}
  Readings <- AllReadings
  WallEnds = {0, 4}
  DefaultLimit = 3
  HistoryMax = 2
  FlatGap = 2
  MinGap = 1
  WindowLength <- Kinds
  MaxClock = 5
  MaxSeen = 3
INVARIANTS
  TapIsTrue
PROPERTIES
  CarriedIsTrue
  UsageTells
SYMMETRY FeedsSym
CHECK_DEADLOCK FALSE
