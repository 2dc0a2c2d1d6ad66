SPECIFICATION MCFleetFairSpec
CONSTANTS
  NMocks = 2
  Ports = {}
  Routes = {}
  Plain = Plain
  NoMock = NoMock
  Reqs = {r1}
  Ops = {"create"}
  Vers = {1, 2}
  Workspace <- OneWorkspace
  Type <- OneType
  Siblings = {}
  MaxRequests = 1
  MaxFaults = 1
PROPERTIES
  HeartbeatCatchesUp
CHECK_DEADLOCK FALSE
