SPECIFICATION MCSpec
CONSTANTS
  Names = {"accounts"}
  MaxItems = 1
  MaxId = 2
  Vals = {"a", "b"}
  NoItem = NoItem
  SeedLists <- MCSeedLists
  Requests = {p1, p2}
  Clients = {client}
  MaxSteps = 3
INVARIANTS
  TypeOK
  RollbackRestores
CHECK_DEADLOCK FALSE
SYMMETRY Symmetry
