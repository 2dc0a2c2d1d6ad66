SPECIFICATION LcSpec
CONSTANTS
  Names = {"accounts"}
  MaxItems = 2
  MaxId = 4
  Vals = {"seed", "v1"}
  NoItem = NoItem
  SeedLists <- MCSeedLists
  Configs <- MCConfigs
  MqPublishes <- MCPublishes
  MqResponses <- MCResponses
  MqTopicConfigs <- MCTopics
  MqLoops <- MCLoops
  MqUsers <- MCUsers
  MqMaxPublishes = 2
  MqMaxTasks = 2
  TpSessions = {s1, s2}
  TpChannels = {h1, h2}
  TpNotes = 2
  CpProcs = {1, 2}
  CpCmds = {"c1"}
  CpKinds = {"serve", "start", "up", "engine"}
  TnClients = 4
  TnDisturb = 1
  TnAttempts = 2
  TbKinds = {"http", "raw", "grpc", "mqtt", "other"}
  TaEngines = {"r"}
  TaSubs = {"", "s"}
  TaDoms = {"", "d"}
  TaExposes <- MCExposes
  TaMocks <- MCMocks
  TaReqs = {"q1", "q2"}
  TaRounds = 2
  EsStatic <- MCStatic
  EsDynamic <- MCDynamic
  EsReqs = {"r1", "r2"}
  EsFaults = 1
  EsLives = 2
INVARIANTS
  LcTypes
  GeneratedIDsTracked
  WithinCapacity
  LcReleased
  
PROPERTIES
  ResetRestoresSeed
  PassOnlyAfterOpenDuration
  ClosesOnlyRecovered
  TripsExactlyAfter
  LcMessages
  
  LcEnds
CHECK_DEADLOCK FALSE
