SPECIFICATION MCSpec
CONSTANTS
  Names = {"accounts"}
  MaxItems = 1
  MaxId = 2
  Vals = {"a", "b"}
  NoItem = NoItem
  SeedLists <- MCSeedLists
  Requests = {p1}
  Clients = {client}
  MaxSteps = 2
INVARIANT
  WithinCapacity
CHECK_DEADLOCK FALSE
