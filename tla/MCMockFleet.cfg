SPECIFICATION MCFleetSpec
CONSTANTS
  NMocks = 2
  Ports = {p}
  Routes = {w}
  Plain = Plain
  NoMock = NoMock
  Reqs = {r1, r2}
  Ops = {"create", "merge", "update", "toggle", "patch", "delete", "deleteAll", "bulk", "import", "importReplace", "convert"}
  Vers = {1, 2}
  Workspace <- OneWorkspace
  Type <- OneType
  Siblings = {}
  MaxRequests = 2
  MaxFaults = 1
SYMMETRY Symmetry
INVARIANTS
  FleetTypeOK
  LocalAgrees
  NoOrphanHandlers
  RemoteAgrees
CHECK_DEADLOCK FALSE
