SPECIFICATION MCSpec
CONSTANTS
  Names = {"accounts"}
  MaxItems = 1
  MaxId = 2
  Vals = {"a", "b"}
  NoItem = NoItem
  SeedLists <- MCSeedLists
  Requests = {p1}
  Clients = {}
  MaxSteps = 3
INVARIANT
  FailureLeavesNoTrace
CHECK_DEADLOCK FALSE
