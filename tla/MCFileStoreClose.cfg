SPECIFICATION MCSpec
CONSTANTS
  Stores = {s1}
  IDs = {m1}
  Types = {http}
  Callbacks = {c1}
  Forcers = {}
  Loop = Loop
  Inodes = {n1, n2}
  NoMock = NoMock
  NoFile = NoFile
  Torn = Torn
  MaxRevs = 2
  MaxFailures = 0
  MaxCrashes = 0
INVARIANTS
  CloseSavesPending
CHECK_DEADLOCK FALSE
