SPECIFICATION FairSpec
CONSTANTS
  Terminals = {"s", "t"}
  Cards = {"c"}
  Ladders = {0, 1, 2}
  Settings <- MCSettings
  MaxWire = 2
INVARIANTS
  DrawerIsOwn
PROPERTIES
  PageCatchesUp
  ReaderIsLeft
CHECK_DEADLOCK FALSE
