SPECIFICATION RecordsSpec
CONSTANTS
  Legs = {a, b}
  Policies = {"warn", "strict"}
  MaxSource = 2
  Itemless = {2}
  Wider = {2}
  MaxEdits = 2
  StoreOrder <- TheOrder
  Kind <- TheKind
  Transcripts = {"t1", "t2", "t3"}
  Old = {"t1", "t2"}
  Convs = {"c1", "c2"}
  StoreOf <- TheStoreOf
  ConvOf <- TheConvOf
  Refreshers = {a, b}
  MaxTerms = 2
  MaxHappens = 4
  MaxOutside = 1
  CellConvs = {"a", "b", "c"}
  Matching = {"a", "c"}
  PageSize = 1
  MaxAsks = 4
  MaxWire = 2
  MaxMoves = 1
  MaxLoadFaults = 1
  Sessions = {a, b}
  Jobs = {c1}
  MaxOdd = 1
  Queries = {"plain", "status"}
  Repos <- TheRepos
  Paths <- ThePaths
  Records = 3
  Concurrency = 2
  MaxNews = 3
  MaxFanOuts = 3
INVARIANTS
  CellHolds
PROPERTIES
  HarnessHolds
  HistoryHolds
  TreesHold
SYMMETRY Sym
CHECK_DEADLOCK FALSE
