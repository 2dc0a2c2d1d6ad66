SPECIFICATION MCFairSpec
CONSTANTS
  Stores = {s1}
  IDs = {m1}
  Types = {http}
  Callbacks = {c1, c2}
  Forcers = {f1}
  Loop = Loop
  Inodes = {n1, n2}
  NoMock = NoMock
  NoFile = NoFile
  Torn = Torn
  MaxRevs = 2
  MaxFailures = 1
  MaxCrashes = 1
INVARIANTS
  TypeOK
  SaversExclude
  DataFileComplete
  StaleOnlyIfRaced
PROPERTIES
  CloseReturns
  EventuallySaved
  ImplementsWriteBack
CHECK_DEADLOCK FALSE
