SPECIFICATION SurroundingsSpec
CONSTANTS
  Cmds = {1, 2, 3}
  MaxMishaps = 1
  Launches = {l1, l2}
  Dirs = {"repo", "sub"}
  RootOf <- Sub
  ImportsOut = {"sub"}
  MaxAnswers = 2
  Names = {"ann", "bob"}
  Me = "ann"
  Shells = {s1, s2, s3}
  Pages = {p1, p2}
  Local = {p2}
  MaxStreams = 1
  TrialDays = 2
  Keys <- AllKeys
  Forged <- ForgedKeys
  MaxDay = 5
  MaxDecisions = 3
INVARIANTS
  BoardIsKept
  AnswersStand
  LinksHold
  LicenceIsFair
SYMMETRY Sym
CHECK_DEADLOCK FALSE
