----------------------------- MODULE EngineServer -----------------------------
(***************************************************************************)
(* The engine process: Server.Start and Stop (pkg/engine/server.go) with   *)
(* the protocol manager (protocol_manager.go) and control requests in      *)
(* flight.  Start and Stop hold s.mu throughout; their parts are steps,    *)
(* because control and mock requests run meanwhile.                        *)
(***************************************************************************)
EXTENDS Naturals, Sequences, FiniteSets

CONSTANTS
  EsStatic,       \* protocols configured to start with the server, in order
  EsDynamic,      \* servers of mocks, [id, port]
  EsReqs,         \* control requests
  EsFaults,       \* bound: failures of parts
  EsLives         \* bound: calls of Start

Early == <<"chain", "limiter">>
Late == <<"http", "https", "control">>

VARIABLES
  esUp,           \* parts that run
  esOp,           \* the holder of s.mu: [op, k], k the part it is at
  esRunning,
  esErrs,         \* Stop has met an error
  esLast,         \* how the last call of Start or Stop ended
  esServers,      \* mock servers of the protocol manager that run
  esReq,          \* control request -> "idle", "status", "add", "remove"
  esSlow,         \* an HTTP request is in flight
  esFaults, esLives

esVars == <<esUp, esOp, esRunning, esErrs, esLast, esServers, esReq, esSlow, esFaults, esLives>>
esLoad == <<esServers, esReq, esSlow>>

EsInit ==
  /\ esUp = {} /\ esOp = [op |-> "none", k |-> 0] /\ esRunning = FALSE
  /\ esErrs = FALSE /\ esLast = "none" /\ esServers = {}
  /\ esReq = [r \in EsReqs |-> "idle"] /\ esSlow = FALSE /\ esFaults = EsFaults /\ esLives = EsLives

-----------------------------------------------------------------------------
(* Start *)

EsParts == Early \o EsStatic \o Late
EsProtocols == {EsStatic[i] : i \in DOMAIN EsStatic}
EsPart == EsParts[esOp.k]
EsFree == [op |-> "none", k |-> 0]

\* Start, or another try after one that failed: no caller starts a server that has run
EsStart ==
  /\ esOp.op = "none" /\ ~esRunning /\ esLast \in {"none", "startFailed", "tornDown"}
  /\ esLives > 0 /\ esLives' = esLives - 1
  /\ esOp' = [op |-> "start", k |-> 1] /\ esLast' = "none"
  /\ UNCHANGED <<esUp, esRunning, esErrs, esLoad, esFaults>>

\* A part starts; after the last one the server is running
EsPartStarts ==
  /\ esOp.op = "start" /\ ~(EsPart \in EsProtocols /\ EsPart \in esUp)
  /\ esUp' = esUp \cup {EsPart}
  /\ esOp' = IF esOp.k = Len(EsParts) THEN EsFree ELSE [esOp EXCEPT !.k = @ + 1]
  /\ esRunning' = (esOp.k = Len(EsParts))
  /\ UNCHANGED <<esErrs, esLast, esLoad, esFaults, esLives>>

\* Mutant: the protocol servers are forgotten
teardownHTTP == esUp' = esUp \ {"http", "https", "limiter", "chain"} /\ UNCHANGED esServers

\* The parts started so far are stopped: StopAll, then the listeners and the chain
teardownOnStartupFailure == esUp' = {} /\ esServers' = {}

\* HTTP, TLS, HTTPS or the control API fails
EsLateFails ==
  /\ esOp.op = "start" /\ EsPart \in {"http", "https", "control"} /\ esFaults > 0
  /\ teardownOnStartupFailure
  /\ esOp' = EsFree /\ esLast' = "tornDown" /\ esFaults' = esFaults - 1
  /\ UNCHANGED <<esRunning, esErrs, esReq, esSlow, esLives>>

\* The chain or a protocol of StartAll fails, also on the port of one left running:
\* Start returns as it stands
EsEarlyFails ==
  /\ esOp.op = "start" /\ EsPart \in EsProtocols \cup {"chain"}
  /\ EsPart \in esUp \/ esFaults > 0
  /\ esFaults' = IF EsPart \in esUp THEN esFaults ELSE esFaults - 1
  /\ esOp' = EsFree /\ esLast' = "startFailed"
  /\ UNCHANGED <<esUp, esRunning, esErrs, esLoad, esLives>>

-----------------------------------------------------------------------------
(* Stop *)

StopOrder == <<"limiter", "control", "protocols", "http", "https", "chain">>
EsStopping(part) == esOp.op = "stop" /\ StopOrder[esOp.k] = part
EsNextStop == esOp' = [esOp EXCEPT !.k = @ + 1]

EsBeginStop ==
  /\ esOp.op = "none" /\ esRunning
  /\ esOp' = [op |-> "stop", k |-> 1] /\ esErrs' = FALSE /\ esLast' = "none"
  /\ UNCHANGED <<esUp, esRunning, esLoad, esFaults, esLives>>

\* The limiter, and the listener of the control API: a Shutdown closes it first
EsStopLimiter ==
  /\ EsStopping("limiter") /\ EsNextStop /\ esUp' = esUp \ {"limiter", "control"}
  /\ UNCHANGED <<esRunning, esErrs, esLast, esLoad, esFaults, esLives>>

\* Mutant: requests in flight are not waited for
StopControlNow ==
  /\ EsStopping("control") /\ EsNextStop
  /\ UNCHANGED <<esUp, esRunning, esErrs, esLast, esLoad, esFaults, esLives>>

\* Mutant: the context has no deadline
StopControlPatient ==
  /\ EsStopping("control") /\ EsNextStop
  /\ \A r \in EsReqs : esReq[r] = "idle"
  /\ UNCHANGED <<esUp, esRunning, esErrs, esLast, esLoad, esFaults, esLives>>

\* The control listener is closed; Shutdown waits for requests, a status request
\* among them for s.mu, until the context ends
EsStopControl ==
  /\ EsStopping("control") /\ EsNextStop
  /\ \/ (\A r \in EsReqs : esReq[r] = "idle") /\ UNCHANGED esErrs
     \/ esErrs' = TRUE
  /\ UNCHANGED <<esUp, esRunning, esLast, esLoad, esFaults, esLives>>

\* StopAll: a broker or server may report an error, and is dropped all the same
StopAll ==
  /\ EsStopping("protocols") /\ EsNextStop
  /\ esUp' = esUp \ EsProtocols /\ esServers' = {}
  /\ \/ UNCHANGED <<esErrs, esFaults>>
     \/ esFaults > 0 /\ esFaults' = esFaults - 1 /\ esErrs' = TRUE
  /\ UNCHANGED <<esRunning, esLast, esReq, esSlow, esLives>>

\* Shutdown of the HTTP servers: the listener closes, a slow request is waited for
EsStopHTTP ==
  /\ EsStopping("http") \/ EsStopping("https")
  /\ EsNextStop /\ esUp' = esUp \ {StopOrder[esOp.k]}
  /\ \/ ~esSlow /\ UNCHANGED esErrs
     \/ esSlow /\ esErrs' = TRUE
  /\ UNCHANGED <<esRunning, esLast, esLoad, esFaults, esLives>>

EsStopChain ==
  /\ EsStopping("chain") /\ esOp' = EsFree
  /\ esUp' = esUp \ {"chain"} /\ esRunning' = FALSE
  /\ esLast' = IF esErrs THEN "stopErrors" ELSE "stopped"
  /\ UNCHANGED <<esErrs, esLoad, esFaults, esLives>>

-----------------------------------------------------------------------------
(* Requests meanwhile *)

EsControl(r) ==
  /\ "control" \in esUp /\ esReq[r] = "idle"
  /\ \E k \in {"status", "add", "remove"} : esReq' = [esReq EXCEPT ![r] = k]
  /\ UNCHANGED <<esUp, esOp, esRunning, esErrs, esLast, esServers, esSlow, esFaults, esLives>>

EsAnswered(r) == esReq' = [esReq EXCEPT ![r] = "idle"]

\* Uptime and IsRunning take s.mu
EsStatus(r) ==
  /\ esReq[r] = "status" /\ esOp.op = "none" /\ EsAnswered(r)
  /\ UNCHANGED <<esUp, esOp, esRunning, esErrs, esLast, esServers, esSlow, esFaults, esLives>>

\* Mutant: only the identifier is compared
StartAnyPort(d) == esServers \cup {d}

\* The servers after StartGRPCServer or StartMQTTBroker: one that runs is kept,
\* and a port another one of them uses is refused
StartServers(d) ==
  IF \E s \in esServers : s.id = d.id \/ s.port = d.port THEN esServers ELSE esServers \cup {d}

\* A mock that brings its own gRPC server or MQTT broker
StartMockServer(r) ==
  /\ esReq[r] = "add" /\ EsAnswered(r)
  /\ \E d \in EsDynamic : esServers' \in {esServers, StartServers(d)}
  /\ UNCHANGED <<esUp, esOp, esRunning, esErrs, esLast, esSlow, esFaults, esLives>>

EsDropped(d) == esServers \ {d}

\* StopGRPCServer and StopMQTTBroker: one that fails to stop stays in the list
StopMockServer(r) ==
  /\ esReq[r] = "remove" /\ EsAnswered(r)
  /\ \E d \in EsDynamic : \/ esServers' = EsDropped(d) /\ UNCHANGED esFaults
                          \/ esFaults > 0 /\ esFaults' = esFaults - 1 /\ UNCHANGED esServers
  /\ UNCHANGED <<esUp, esOp, esRunning, esErrs, esLast, esSlow, esLives>>

EsTraffic ==
  /\ esSlow \/ "http" \in esUp
  /\ esSlow' = ~esSlow
  /\ UNCHANGED <<esUp, esOp, esRunning, esErrs, esLast, esServers, esReq, esFaults, esLives>>

EsStopStep == EsStopLimiter \/ EsStopControl \/ StopAll \/ EsStopHTTP \/ EsStopChain

EsNext ==
  \/ EsStart \/ EsPartStarts \/ EsLateFails \/ EsEarlyFails \/ EsBeginStop
  \/ EsStopStep \/ EsTraffic
  \/ \E r \in EsReqs : EsControl(r) \/ EsStatus(r) \/ StartMockServer(r) \/ StopMockServer(r)

EsTypeOK ==
  /\ esUp \subseteq {EsParts[i] : i \in DOMAIN EsParts}
  /\ esOp \in [op : {"none", "start", "stop"}, k : 0 .. Len(EsParts)]
  /\ esRunning \in BOOLEAN /\ esErrs \in BOOLEAN /\ esSlow \in BOOLEAN
  /\ esLast \in {"none", "startFailed", "tornDown", "stopErrors", "stopped"}
  /\ esServers \subseteq EsDynamic /\ esReq \in [EsReqs -> {"idle", "status", "add", "remove"}]
  /\ esFaults \in 0 .. EsFaults /\ esLives \in 0 .. EsLives

\* Stop that reports no error, and a start that failed after StartAll, have released
\* everything: no part runs, and no control request started a mock server behind StopAll.
\* Mock servers never share a port.
EsStopReleases ==
  /\ esLast \in {"stopped", "tornDown"} => esUp = {} /\ esServers = {} /\ (esOp.op = "none" => ~esRunning)
  /\ \A s, t \in esServers : s # t => s.port # t.port

\* A call of Stop returns, although a status request in flight waits for the lock Stop holds.
EsStopEnds == esOp.op = "stop" ~> esOp.op = "none"

=============================================================================
