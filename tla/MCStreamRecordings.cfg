SPECIFICATION RsSpec
CONSTANTS
  RsHandlers = {"h1", "h2"}
  RsConns = {"c1"}
  RsProtos <- MCProtos
  RsIDs = {"i1", "i2"}
  RsMaxFrames = 1
  RsRequests = 4
INVARIANT
  RsNoDeadlock
CHECK_DEADLOCK FALSE
