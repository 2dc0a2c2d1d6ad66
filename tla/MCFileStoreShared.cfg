SPECIFICATION MCSpec
CONSTANTS
  Stores = {admin, engine}
  IDs = {m1}
  Types = {http}
  Callbacks = {c1}
  Forcers = {}
  Loop = Loop
  Inodes = {n1, n2, n3}
  NoMock = NoMock
  NoFile = NoFile
  Torn = Torn
  MaxRevs = 2
  MaxFailures = 0
  MaxCrashes = 0
INVARIANTS
  DataFileComplete
CHECK_DEADLOCK FALSE
