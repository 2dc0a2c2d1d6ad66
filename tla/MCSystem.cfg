SPECIFICATION SysSpec
CONSTANTS
  WsConns = {c1, c2}
  WsMax = 1
  WsGroups = {g}
  WsMaxGroups = 1
  WsEpochs = 2
  ScSteps <- MCScenario
  RpFrames <- MCFrames
  RpBuffer = 2
  SseClients = {k1, k2}
  SseConfigs <- MCEvents
  SseMax = 1
  SseRounds = 2
  WkIDs = {"w1", "w2"}
  WkNames <- MCNames
  WkBases <- MCBases
  WkMockIDs = {"m1", "m2"}
  WkPaths <- MCMockPaths
  WkReqs = {"r1", "r2"}
  WkRounds = 4
  FdIDs = {"f1", "f2", "f3"}
  FdWorkspaces = {"u", "v"}
  FdReqs = {"r1", "r2"}
  FdRounds = 4
  SvEngines = {"e1"}
  SvWs = {"w1", "w2"}
  SvPorts = {1, 2}
  SvExplicit = {0, 1}
  SvReqs = {"r1", "r2"}
  SvRounds = 3
  CmClients = {t1, t2}
  CmRoutes <- MCRoutes
  CmFlags <- MCFlags
  CmOps = {"o1", "o2"}
  CmIDs <- MCIDs
  CmPrefixes <- MCPrefixes
  CmFile <- MCFile
  CmRounds = 3
  CxClients = {t1, t2}
  CxNames = {"default", "a"}
  CxURLs = {"u0", "u1"}
  CxDefault = "default"
  CxDefaultURL = "u0"
  CxWorkspaces = {"w"}
  CxEnv = {""}
  CxConfigs = {"", "u1"}
  CxRounds = 3
  RsHandlers = {"h1", "h2"}
  RsConns = {"c1"}
  RsProtos <- MCProtos
  RsIDs = {"i1", "i2"}
  RsMaxFrames = 1
  RsRequests = 4
  LgMocks = {"m"}
  LgMax = 2
  LgDefault = 1
  LgPage = 2
  LgClients = {"c1"}
  LgSubs = {"s"}
  LgBuffer = 1
  LgRequests = 3
  LgInFlight = 2
  LfLines = 4
  LfTruncates = 1
  KpClients = {"a", "b"}
  KpOwn <- MCOwn
  KpItems = {"i", "j"}
  KpKeys = {"k"}
  KpConnIDs = {"x"}
  KpMocks = {"m"}
  KpProtos = {"sse", "ws", "mqtt", "grpc"}
  KpGroups <- MCGroups
  KpRequests = 3
  KpFaults = 1
  MpIDs = {"s1", "s2"}
  MpMaxSessions = 1
  MpQueue = 1
  MpCallers = {"c1", "c2"}
  MpContexts <- MCContexts
  MpFirst <- MCFirst
  MpMocks = {"m"}
  MpTools <- MCTools
  MpCalls = 1
  PxStarts = 2
  PxSess = 2
  PxReqs = 2
  PxConns = {p1}
  PxPaths = {"u1", "u2"}
  PxSmart <- MCSmart
  PxFilters <- MCFilters
  PxHosts = {"h1", "h2"}
  PxCache = 1
  PxAnswers = 1
  PxFoci = {"manager", "ca", "sessions", "convert"}
  RdProcs = {1, 2}
  RdNames <- MCSessions
  RdClock = 2
  RdRecs = 1
  RdClears = 1
  GrMax = 2
  GrTimes = 3
  GrKey <- MCKeys
  MtParams = {"{x}", "{y}"}
  MtPatterns <- MCPatterns
  MtPaths <- MCPaths
  HdMocks <- MCMocks
  HdRequests <- MCRequests
  HdReserved <- MCReserved
  HdHealth <- MCHealth
  HdChanges = 2
  OaClients <- MCOauthClients
  OaReqs = {"r1", "r2"}
  OaCodeLife = 1
  OaTokenLife = 1
  OaRefreshLife = 2
  OaRetention = 1
  OaMaxCodes = 1
  OaMaxRefresh = 1
  OaMaxRevoked = 2
  OaClock = 2
  OaMade = 3
  GsMethods <- MCMethods
  GsMessages = {{}, {"r", "md"}}
  GsMetadata = {"md"}
  GsCalls = {"c1"}
  GsMsgs = 1
  GsLives = 2
  GxRequests <- MCQueries
  GxResolvers <- MCResolvers
  GxTypes <- MCTypes
  GxIntrospection = TRUE
  GqConfigs <- MCSubscriptions
  GqIDs = {"1", "2"}
  GqReuse = FALSE
  GqTasks = 2
  RlIPs = {"i", "j"}
  RlCalls = {"c1", "c2"}
  RlUnit = 2
  RlRate = 1
  RlBurst = 1
  RlMax = 1
  RlTTL = 3
  RlLag = 1
  RlClock = 4
  RlObjects = 2
  CiConfigs <- MCChaos
  CiPaths = {"/a", "/b"}
  CiReqs = {"r1", "r2"}
  CiBodies <- MCBodies
  CiResetAfter = 2
  CiErrorAfter = 1
  CiRetryAfter = 1
  CiChunk = 2
  CiMaxBytes = 3
  CiInjectors = 1
  CiRequests = 3
  SaIDs = {"a", "b", "c"}
  SaRaced = {"b", "c"}
  SaWs = {""}
  SaParents = {"", "p"}
  SaFaces = {"rest", "operation", "soap"}
  SaBodies = {"ok", "lacking", "broken", "large"}
  SaEnvelopes <- MCEnvelopes
  SaOperations <- MCOperations
  SaMode = "permissive"
  SaPreserve = FALSE
  SaMaxItems = 3
  SaLimit = 1
  SaOrders = {"desc"}
  SaSeed <- MCSeed
  SaCallers = {1, 2}
  SaRequests = 2
  SaWrites = 1
  SaObjects = 2
  FmForms <- MCForms
INVARIANTS
  SysTypes
  
  
  
  
  
  

  
CHECK_DEADLOCK FALSE
