----------------------------- MODULE ControlPlane -----------------------------
(***************************************************************************)
(* The control plane of an engine: a command of the CLI becomes a request  *)
(* of cli.adminClient to the admin API, whose handler calls the engine     *)
(* through engineclient.Client; the engine's control API answers from      *)
(* ControlAPIAdapter.  The module has one operator per layer and group of  *)
(* operations; a request passes through all of them.                       *)
(*                                                                         *)
(* The adapter yields the engine after the call and an error ("" if none), *)
(* the control API a status, engineclient an error again, the admin a      *)
(* status and the CLI's client a result.  The engine may be unreachable,   *)
(* and its answer may be lost after it acted (a timeout): engineclient     *)
(* then returns an error of its own, "down".                               *)
(***************************************************************************)
EXTENDS Integers, FiniteSets

CONSTANTS
  KpClients,    \* clients, one request each at a time
  KpOwn,        \* client -> the tables and operations it works on
  KpItems,      \* IDs of items
  KpKeys,       \* keys of circuit breakers in a chaos configuration
  KpConnIDs,    \* IDs of connections
  KpMocks,      \* IDs of mocks
  KpProtos,     \* protocols with connections, of {"sse", "ws", "mqtt", "grpc"}
  KpGroups,     \* sets of groups of operations, one of which the clients use
  KpRequests,   \* bound: requests
  KpFaults      \* bound: calls lost, failed saves and restarts

VARIABLES
  kpFocus,      \* the groups of operations the clients use
  kpEngine,     \* the engine's memory
  kpStore,      \* the admin's data store: tables and operations
  kpReq,        \* client -> its request
  kpCount,      \* requests so far and faults so far
  kpDoubt,      \* aux: names with an answer lost or a save failed since the last start
  kpOpened      \* aux: connections opened so far

kpVars == <<kpFocus, kpEngine, kpStore, kpReq, kpCount, kpDoubt, kpOpened>>

KpNames == UNION {KpOwn[c] : c \in KpClients}
KpChaosOff == [on |-> FALSE, tripped |-> {}]

KpOp(g, v, x, y) == [group |-> g, verb |-> v, obj |-> x, arg |-> y]
KpNoOp == KpOp("", "", "", "")

\* at: idle; engine; store, restore (between two writes of the store); closing; answered
\* said: the admin's status; acted, missing: what the engine really did; ids: what is
\* left to close; listed: the mock's connections when they were listed
KpIdle == [at |-> "idle", op |-> KpNoOp, said |-> 0, acted |-> FALSE, missing |-> FALSE,
           ids |-> {}, listed |-> {}]

KpInit ==
  /\ kpFocus \in KpGroups
  /\ kpEngine = [chaos |-> KpChaosOff, tables |-> {}, items |-> {}, ops |-> {}, conns |-> {}]
  /\ kpStore = [tables |-> {}, ops |-> {}]
  /\ kpReq = [c \in KpClients |-> KpIdle]
  /\ kpCount = [requests |-> 0, faults |-> 0] /\ kpDoubt = {} /\ kpOpened = {}

-----------------------------------------------------------------------------
(* engine/control_api.go: the adapter *)

KpDo(err, e) == [err |-> err, e |-> e]

\* A nil or disabled configuration removes the injector, a valid one replaces it: the
\* new one's breakers are closed
SetChaosConfig(e, cfg) ==
  IF cfg = "disabled" THEN KpDo("", [e EXCEPT !.chaos = KpChaosOff])
  ELSE IF cfg = "invalid" THEN KpDo("invalid", e)
  ELSE KpDo("", [e EXCEPT !.chaos = [on |-> TRUE, tripped |-> {}]])

KpBreaker(e, verb, key) ==
  IF ~e.chaos.on \/ key \notin KpKeys THEN KpDo("not_found", e)
  ELSE KpDo("", [e EXCEPT !.chaos.tripped = IF verb = "trip" THEN @ \cup {key} ELSE @ \ {key}])

\* Configuration, statistics and breaker states are read without a change
KpChaosRead(e) == KpDo("", e)

\* Mutant: the items stay when the table goes
KpTablesKeep(e, verb, n) ==
  CASE verb = "overview" -> KpDo("", e)
    [] verb = "create" /\ n \in e.tables -> KpDo("conflict", e)
    [] verb = "create" /\ n \notin e.tables -> KpDo("", [e EXCEPT !.tables = @ \cup {n}])
    [] verb \notin {"overview", "create"} /\ n \notin e.tables -> KpDo("not_found", e)
    [] verb = "delete" /\ n \in e.tables -> KpDo("", [e EXCEPT !.tables = @ \ {n}])
    [] verb \in {"get", "clear", "reset"} /\ n \in e.tables -> KpDo("", e)

KpTables(e, verb, n) ==
  LET kept == {x \in e.items : x[1] # n} IN
  CASE verb = "overview" -> KpDo("", e)
    [] verb = "create" /\ n \in e.tables -> KpDo("conflict", e)
    [] verb = "create" /\ n \notin e.tables -> KpDo("", [e EXCEPT !.tables = @ \cup {n}])
    [] verb \notin {"overview", "create"} /\ n \notin e.tables -> KpDo("not_found", e)
    [] verb = "delete" /\ n \in e.tables ->
         KpDo("", [e EXCEPT !.tables = @ \ {n}, !.items = kept])
    [] verb \in {"clear", "reset"} /\ n \in e.tables -> KpDo("", [e EXCEPT !.items = kept])
    [] verb = "get" /\ n \in e.tables -> KpDo("", e)

\* KpItems holds one item more than a table does
KpItem(e, verb, n, i) ==
  LET mine == {x \in e.items : x[1] = n} IN
  CASE n \notin e.tables -> KpDo("not_found", e)
    [] n \in e.tables /\ verb = "items" -> KpDo("", e)
    [] n \in e.tables /\ verb = "item" -> KpDo(IF <<n, i>> \in e.items THEN "" ELSE "not_found", e)
    [] n \in e.tables /\ verb = "add" ->
         IF <<n, i>> \in e.items THEN KpDo("conflict", e)
         ELSE IF Cardinality(mine) + 1 >= Cardinality(KpItems) THEN KpDo("capacity", e)
         ELSE KpDo("", [e EXCEPT !.items = @ \cup {<<n, i>>}])

\* Executing adds an item through the operation's table, which may be missing
KpCustom(e, verb, n, i) ==
  CASE verb = "list" -> KpDo("", e)
    [] verb = "register" -> KpDo("", [e EXCEPT !.ops = @ \cup {n}])
    [] verb \in {"get", "delete", "run"} /\ n \notin e.ops -> KpDo("not_found", e)
    [] verb = "get" /\ n \in e.ops -> KpDo("", e)
    [] verb = "delete" /\ n \in e.ops -> KpDo("", [e EXCEPT !.ops = @ \ {n}])
    [] verb = "run" /\ n \in e.ops -> KpItem(e, "add", n, i)

\* What the four protocols' managers have in common
KpConn(e, verb, p, id) ==
  LET hit == {x \in e.conns : x.proto = p /\ x.id = id} IN
  CASE verb \in {"list", "stats"} -> KpDo("", e)
    [] verb \in {"get", "send"} -> KpDo(IF hit = {} THEN "not_found" ELSE "", e)
    [] verb = "close" -> IF hit = {} THEN KpDo("not_found", e)
                         ELSE KpDo("", [e EXCEPT !.conns = @ \ hit])

KpSse(e, verb, id) == KpConn(e, verb, "sse", id)
KpWs(e, verb, id) == KpConn(e, verb, "ws", id)
KpMqtt(e, verb, id) == KpConn(e, verb, "mqtt", id)
KpGrpc(e, verb, id) == KpConn(e, verb, "grpc", id)

\* Mutant: the mock is left empty, as for WebSocket
ListSSEUnnamed(e) == {[id |-> x.id, mock |-> ""] : x \in {y \in e.conns : y.proto = "sse"}}

\* The lists name an SSE connection's mock; a WebSocket connection's is left empty
ListSSEConnections(e) == {[id |-> x.id, mock |-> x.mock] : x \in {y \in e.conns : y.proto = "sse"}}

ListWebSocketConnections(e) == {[id |-> x.id, mock |-> ""] : x \in {y \in e.conns : y.proto = "ws"}}

KpAct(e, op) ==
  CASE op.group = "chaos" /\ op.verb = "set" -> SetChaosConfig(e, op.obj)
    [] op.group = "chaos" /\ op.verb \in {"trip", "untrip"} -> KpBreaker(e, op.verb, op.obj)
    [] op.group = "chaos" /\ op.verb = "read" -> KpChaosRead(e)
    [] op.group = "tables" -> KpTables(e, op.verb, op.obj)
    [] op.group = "items" -> KpItem(e, op.verb, op.obj, op.arg)
    [] op.group = "custom" -> KpCustom(e, op.verb, op.obj, op.arg)
    [] op.group = "sse" -> KpSse(e, op.verb, op.obj)
    [] op.group = "ws" -> KpWs(e, op.verb, op.obj)
    [] op.group = "mqtt" -> KpMqtt(e, op.verb, op.obj)
    [] op.group = "grpc" -> KpGrpc(e, op.verb, op.obj)

-----------------------------------------------------------------------------
(* engine/api/handlers.go: the status of an adapter's error *)

mapStatefulLookupError(err) ==
  CASE err = "not_found" -> 404 [] err = "conflict" -> 409 [] err = "capacity" -> 507
    [] err = "invalid" -> 400 [] err \notin {"not_found", "conflict", "capacity", "invalid"} -> 500

\* Creating an item: whatever is not classified is the client's fault
KpItemStatus(err) ==
  CASE err = "not_found" -> 404 [] err = "conflict" -> 409 [] err = "capacity" -> 507
    [] err \notin {"not_found", "conflict", "capacity"} -> 400

\* Setting a configuration fails with 500, a breaker's action with 404
KpApiChaos(verb, err) == IF err = "" THEN 200 ELSE IF verb = "set" THEN 500 ELSE 404

KpApiTables(err) == IF err = "" THEN 200 ELSE mapStatefulLookupError(err)

KpApiRegister(err) == IF err = "" THEN 201 ELSE IF err = "conflict" THEN 409 ELSE 400

KpApiItems(verb, err) ==
  IF err = "" THEN (IF verb = "add" THEN 201 ELSE 200)
  ELSE IF verb = "add" THEN KpItemStatus(err) ELSE mapStatefulLookupError(err)

\* Reading and deleting an operation fail with 404 only
KpApiCustom(verb, err) ==
  IF err = "" THEN (IF verb = "register" THEN 201 ELSE 200)
  ELSE IF verb \in {"get", "delete"} THEN 404 ELSE mapStatefulLookupError(err)

KpApiSse(err) == IF err = "" THEN 200 ELSE 404
KpApiWs(err) == IF err = "" THEN 200 ELSE 404
KpApiMqtt(err) == IF err = "" THEN 200 ELSE 404
KpApiGrpc(err) == IF err = "" THEN 200 ELSE 404

KpApi(op, err) ==
  CASE op.group = "chaos" -> KpApiChaos(op.verb, err)
    [] op.group = "tables" -> IF op.verb = "create" THEN KpApiRegister(err) ELSE KpApiTables(err)
    [] op.group = "items" -> KpApiItems(op.verb, err)
    [] op.group = "custom" -> KpApiCustom(op.verb, err)
    [] op.group = "sse" -> KpApiSse(err) [] op.group = "ws" -> KpApiWs(err)
    [] op.group = "mqtt" -> KpApiMqtt(err) [] op.group = "grpc" -> KpApiGrpc(err)

-----------------------------------------------------------------------------
(* admin/engineclient/client.go: the error of a status *)

KpDown == 0     \* no answer: do failed

\* parseError, for any status the method does not know
KpEcOther(s) == IF s \in {200, 201, 204} THEN "" ELSE IF s = KpDown THEN "down" ELSE "other"

KpEcFound(s) == IF s = 404 THEN "not_found" ELSE KpEcOther(s)

KpEcChaos(s) == KpEcOther(s)
KpEcTables(verb, s) == IF verb = "overview" THEN KpEcOther(s) ELSE KpEcFound(s)
KpEcRegister(s) == IF s = 409 THEN "conflict" ELSE KpEcOther(s)
KpEcItems(verb, s) ==
  IF verb = "add" /\ s \in {409, 507} THEN (IF s = 409 THEN "conflict" ELSE "capacity")
  ELSE KpEcFound(s)
KpEcCustom(verb, s) == IF verb \in {"list", "register"} THEN KpEcOther(s) ELSE KpEcFound(s)
KpEcSse(verb, s) == IF verb \in {"list", "stats"} THEN KpEcOther(s) ELSE KpEcFound(s)
KpEcWs(verb, s) == IF verb \in {"list", "stats"} THEN KpEcOther(s) ELSE KpEcFound(s)
KpEcMqtt(verb, s) == IF verb \in {"list", "stats"} THEN KpEcOther(s) ELSE KpEcFound(s)
KpEcGrpc(verb, s) == IF verb \in {"list", "stats"} THEN KpEcOther(s) ELSE KpEcFound(s)

KpEc(op, s) ==
  CASE op.group = "chaos" -> KpEcChaos(s)
    [] op.group = "tables" -> IF op.verb = "create" THEN KpEcRegister(s) ELSE KpEcTables(op.verb, s)
    [] op.group = "items" -> KpEcItems(op.verb, s)
    [] op.group = "custom" -> KpEcCustom(op.verb, s)
    [] op.group = "sse" -> KpEcSse(op.verb, s) [] op.group = "ws" -> KpEcWs(op.verb, s)
    [] op.group = "mqtt" -> KpEcMqtt(op.verb, s) [] op.group = "grpc" -> KpEcGrpc(op.verb, s)

-----------------------------------------------------------------------------
(* admin/*_handlers.go: the status of engineclient's error *)

\* Mutant: an engine that cannot be asked has no such table
mapResourceGone(err) == IF err \in {"not_found", "down"} THEN 404 ELSE 503

mapStatefulResourceError(err) == IF err = "not_found" THEN 404 ELSE 503

\* A configuration the engine refused is recognised by the wording of its error
KpAdmChaos(verb, cfg, err) ==
  IF err = "" THEN 200
  ELSE IF verb = "set" /\ cfg = "invalid" /\ err = "other" THEN 400 ELSE 503

\* A breaker's action that fails in any way is "not found"
KpAdmBreaker(err) == IF err = "" THEN 200 ELSE 404

KpAdmTables(verb, err) ==
  IF err = "" THEN 200 ELSE IF verb = "overview" THEN 503 ELSE mapStatefulResourceError(err)

handleCreateStateResource(err) ==
  IF err = "" THEN 201 ELSE IF err = "conflict" THEN 409 ELSE 400

KpAdmDelete(err) == IF err = "" THEN 200 ELSE mapStatefulResourceError(err)

KpAdmItems(verb, err) ==
  CASE err = "" -> IF verb = "add" THEN 201 ELSE 200
    [] err # "" /\ verb # "add" -> mapStatefulResourceError(err)
    [] err # "" /\ verb = "add" ->
         CASE err = "not_found" -> 404 [] err = "conflict" -> 409 [] err = "capacity" -> 507
           [] err \in {"other", "down"} -> 400

KpAdmCustom(verb, err) ==
  CASE err = "" -> 200
    [] err # "" /\ verb = "list" -> 503
    [] err # "" /\ verb = "get" -> IF err = "not_found" THEN 404 ELSE 503

handleDeleteCustomOperation(err) ==
  IF err = "" THEN 200 ELSE IF err = "not_found" THEN 404 ELSE 503

KpAdmRegister(err) == IF err = "" THEN 201 ELSE 400

handleExecuteCustomOperation(err) ==
  IF err = "" THEN 200 ELSE IF err = "not_found" THEN 404 ELSE 400

KpAdmSse(verb, err) ==
  IF err = "" THEN 200 ELSE IF verb \in {"get", "close"} /\ err = "not_found" THEN 404 ELSE 503
KpAdmWs(verb, err) ==
  IF err = "" THEN 200 ELSE IF verb \in {"get", "close"} /\ err = "not_found" THEN 404 ELSE 503
handleSendToWebSocketConnection(err) ==
  IF err = "" THEN 200 ELSE IF err = "not_found" THEN 404 ELSE 503
KpAdmMqtt(verb, err) ==
  IF err = "" THEN 200 ELSE IF verb \in {"get", "close"} /\ err = "not_found" THEN 404 ELSE 503
KpAdmGrpc(verb, err) ==
  IF err = "" THEN 200 ELSE IF verb \in {"get", "close"} /\ err = "not_found" THEN 404 ELSE 503

KpAdm(op, err) ==
  CASE op.group = "chaos" -> IF op.verb \in {"trip", "untrip"} THEN KpAdmBreaker(err)
                             ELSE KpAdmChaos(op.verb, op.obj, err)
    [] op.group = "tables" -> IF op.verb = "create" THEN handleCreateStateResource(err)
                              ELSE IF op.verb = "delete" THEN KpAdmDelete(err)
                              ELSE KpAdmTables(op.verb, err)
    [] op.group = "items" -> KpAdmItems(op.verb, err)
    [] op.group = "custom" -> IF op.verb = "register" THEN KpAdmRegister(err)
                              ELSE IF op.verb = "run" THEN handleExecuteCustomOperation(err)
                              ELSE IF op.verb = "delete" THEN handleDeleteCustomOperation(err)
                              ELSE KpAdmCustom(op.verb, err)
    [] op.group = "sse" -> KpAdmSse(op.verb, err)
    [] op.group = "ws" -> IF op.verb = "send" THEN handleSendToWebSocketConnection(err)
                          ELSE KpAdmWs(op.verb, err)
    [] op.group = "mqtt" -> KpAdmMqtt(op.verb, err)
    [] op.group = "grpc" -> KpAdmGrpc(op.verb, err)

-----------------------------------------------------------------------------
(* cli/client.go: what the client makes of the admin's status *)

KpCliOther(s) == IF s \in {200, 201, 204} THEN "ok" ELSE "error"
KpCliFound(s) == IF s = 404 THEN "not_found" ELSE KpCliOther(s)

KpCliChaos(verb, s) == IF verb \in {"trip", "untrip"} THEN KpCliFound(s) ELSE KpCliOther(s)
KpCliTables(verb, s) ==
  CASE verb = "create" -> IF s = 409 THEN "conflict" ELSE KpCliOther(s)
    [] verb = "overview" -> KpCliOther(s)
    [] verb \notin {"create", "overview"} -> KpCliFound(s)
KpCliItems(s) == KpCliFound(s)
KpCliCustom(verb, s) == IF verb \in {"list", "register"} THEN KpCliOther(s) ELSE KpCliFound(s)
KpCliWs(verb, s) == IF verb \in {"list", "stats"} THEN KpCliOther(s) ELSE KpCliFound(s)
KpCliSse(verb, s) == IF verb \in {"list", "stats"} THEN KpCliOther(s) ELSE KpCliFound(s)
KpCliMqtt(verb, s) == IF verb \in {"list", "stats"} THEN KpCliOther(s) ELSE KpCliFound(s)
KpCliGrpc(verb, s) == IF verb \in {"list", "stats"} THEN KpCliOther(s) ELSE KpCliFound(s)

KpCli(op, s) ==
  CASE op.group = "chaos" -> KpCliChaos(op.verb, s)
    [] op.group = "tables" -> KpCliTables(op.verb, s)
    [] op.group = "items" -> KpCliItems(s)
    [] op.group = "custom" -> KpCliCustom(op.verb, s)
    [] op.group = "ws" -> KpCliWs(op.verb, s) [] op.group = "sse" -> KpCliSse(op.verb, s)
    [] op.group = "mqtt" -> KpCliMqtt(op.verb, s) [] op.group = "grpc" -> KpCliGrpc(op.verb, s)

-----------------------------------------------------------------------------
(* cli/*.go: the requests the commands make *)

runChaosEnable == {KpOp("chaos", "set", "valid", ""), KpOp("chaos", "set", "invalid", "")}
runChaosDisable == {KpOp("chaos", "set", "disabled", "")}
runChaosApply == {KpOp("chaos", "set", "profile", "")}
runChaosStatus == {KpOp("chaos", "read", "", "")}
KpBreakerOps == {KpOp("chaos", v, k, "") : v \in {"trip", "untrip"}, k \in KpKeys \cup {"?"}}

runStatefulAdd(n) == {KpOp("tables", "create", n, "")}
runStatefulList == {KpOp("tables", "overview", "", "")}
runStatefulReset(n) == {KpOp("tables", "reset", n, "")}
runStatefulDelete(n) == {KpOp("tables", "delete", n, "")}
KpTableOps(n) == {KpOp("tables", v, n, "") : v \in {"get", "clear"}}
runStatefulItems(n) == {KpOp("items", "items", n, "")}
KpItemOps(n) == {KpOp("items", v, n, i) : v \in {"item", "add"}, i \in KpItems}

runCustomList == {KpOp("custom", "list", "", "")}
runCustomGet(n) == {KpOp("custom", "get", n, "")}
runCustomAdd(n) == {KpOp("custom", "register", n, "")}
runCustomRun(n) == {KpOp("custom", "run", n, i) : i \in KpItems}
runCustomDelete(n) == {KpOp("custom", "delete", n, "")}

KpConnOps(p, verbs) ==
  {KpOp(p, v, i, "") : v \in verbs, i \in KpConnIDs} \cup {KpOp(p, v, "", "") : v \in {"list", "stats"}}
sseCommands == KpConnOps("sse", {"get", "close"})
wsCommands == KpConnOps("ws", {"get", "close", "send"})
mqttCommands == KpConnOps("mqtt", {"get", "close"})
grpcCommands == KpConnOps("grpc", {"get", "close"})
\* The admin API closes a mock's connections too
KpMockOps == {KpOp(p, "closeMock", m, "") : p \in {"sse", "ws"}, m \in KpMocks}

KpOps(n) ==
  {op \in runChaosEnable \cup runChaosDisable \cup runChaosApply \cup runChaosStatus \cup KpBreakerOps
     \cup runStatefulAdd(n) \cup runStatefulList \cup runStatefulReset(n) \cup runStatefulDelete(n)
     \cup KpTableOps(n) \cup runStatefulItems(n) \cup KpItemOps(n)
     \cup runCustomList \cup runCustomGet(n) \cup runCustomAdd(n) \cup runCustomRun(n)
     \cup runCustomDelete(n)
     \cup sseCommands \cup wsCommands \cup mqttCommands \cup grpcCommands \cup KpMockOps :
   op.group \in kpFocus}

-----------------------------------------------------------------------------
(* A request, step by step *)

KpSend(c, op) ==
  /\ kpReq[c].at = "idle" /\ kpCount.requests < KpRequests
  /\ kpCount' = [kpCount EXCEPT !.requests = @ + 1]
  /\ kpReq' = [kpReq EXCEPT ![c] = [KpIdle EXCEPT !.at = "engine", !.op = op]]
  /\ UNCHANGED <<kpEngine, kpStore, kpDoubt, kpOpened>>

KpFault == kpCount.faults < KpFaults /\ kpCount' = [kpCount EXCEPT !.faults = @ + 1]

\* No engine is registered: the middleware answers
requireEngine(c) ==
  /\ kpReq[c].at = "engine" /\ KpFault
  /\ kpReq' = [kpReq EXCEPT ![c].at = "answered", ![c].said = 503]
  /\ UNCHANGED <<kpEngine, kpStore, kpDoubt, kpOpened>>

\* Which successful calls the handler goes on to record in the store
KpRecorded(op) ==
  \/ op.group = "tables" /\ op.verb \in {"create", "delete"}
  \/ op.group = "custom" /\ op.verb \in {"register", "delete"}

\* do: the call goes through ("ok"), does not ("unreachable"), or its answer is lost
KpCall(c, how) ==
  LET op == kpReq[c].op
      r == KpAct(kpEngine, op)
      err == KpEc(op, IF how = "ok" THEN KpApi(op, r.err) ELSE KpDown) IN
  /\ kpReq[c].at = "engine" /\ op.verb # "closeMock"
  /\ IF how = "ok" THEN UNCHANGED kpCount ELSE KpFault
  /\ kpEngine' = IF how = "unreachable" THEN kpEngine ELSE r.e
  /\ kpDoubt' = IF how = "lost" /\ KpRecorded(op) THEN kpDoubt \cup {op.obj} ELSE kpDoubt
  /\ kpReq' = [kpReq EXCEPT ![c].at = IF err = "" /\ KpRecorded(op) THEN "store" ELSE "answered",
                             ![c].said = KpAdm(op, err),
                             ![c].acted = how # "unreachable" /\ r.err = "",
                             ![c].missing = how = "ok" /\ r.err = "not_found"]
  /\ UNCHANGED <<kpStore, kpOpened>>

\* The connections the list shows for the mock
KpListMock(e, op) ==
  {x.id : x \in {y \in IF op.group = "sse" THEN ListSSEConnections(e)
                       ELSE ListWebSocketConnections(e) : y.mock = op.obj}}

\* handleCloseMock...Connections of a mock that is in the store: the list ...
KpListForClose(c, how) ==
  LET op == kpReq[c].op IN
  /\ kpReq[c].at = "engine" /\ op.verb = "closeMock"
  /\ IF how = "ok" THEN UNCHANGED kpCount ELSE KpFault
  /\ kpReq' =
       IF how = "ok"
         THEN [kpReq EXCEPT ![c].at = "closing", ![c].acted = TRUE,
                 ![c].ids = KpListMock(kpEngine, op),
                 ![c].listed = {x.id : x \in {y \in kpEngine.conns : y.proto = op.group /\ y.mock = op.obj}}]
         ELSE [kpReq EXCEPT ![c].at = "answered", ![c].said = 503]
  /\ UNCHANGED <<kpEngine, kpStore, kpDoubt, kpOpened>>

\* ... then one call per connection, whose errors are only counted
KpCloseOne(c, how) ==
  /\ kpReq[c].at = "closing"
  /\ \E i \in kpReq[c].ids :
       /\ IF how = "unreachable" THEN KpFault /\ UNCHANGED kpEngine
          ELSE /\ IF how = "ok" THEN UNCHANGED kpCount ELSE KpFault
               /\ kpEngine' = KpAct(kpEngine, KpOp(kpReq[c].op.group, "close", i, "")).e
       /\ kpReq' = [kpReq EXCEPT ![c].ids = @ \ {i},
                      ![c].listed = IF how = "unreachable" THEN @ \ {i} ELSE @]
  /\ UNCHANGED <<kpStore, kpDoubt, kpOpened>>

KpClosedAll(c) ==
  /\ kpReq[c].at = "closing" /\ kpReq[c].ids = {}
  /\ kpReq' = [kpReq EXCEPT ![c].at = "answered", ![c].said = 200]
  /\ UNCHANGED <<kpEngine, kpStore, kpCount, kpDoubt, kpOpened>>

\* A write of the store that fails is only a warning
KpSaveFails(c) ==
  /\ kpReq[c].at \in {"store", "restore"} /\ KpFault
  /\ kpDoubt' = kpDoubt \cup {kpReq[c].op.obj}
  /\ kpReq' = [kpReq EXCEPT ![c].at = "answered"]
  /\ UNCHANGED <<kpEngine, kpStore, kpOpened>>

\* An entry that exists already is good enough
persistTable(c) ==
  LET op == kpReq[c].op IN
  /\ kpReq[c].at = "store" /\ op.group = "tables"
  /\ kpStore' = [kpStore EXCEPT !.tables = IF op.verb = "create" THEN @ \cup {op.obj} ELSE @ \ {op.obj}]
  /\ kpReq' = [kpReq EXCEPT ![c].at = "answered"]
  /\ UNCHANGED <<kpEngine, kpCount, kpDoubt, kpOpened>>

\* Mutant: an operation registered again stays deleted
persistOnce(c) ==
  LET op == kpReq[c].op IN
  /\ kpReq[c].at = "store" /\ op.group = "custom"
  /\ kpStore' = [kpStore EXCEPT !.ops = IF op.verb = "register" /\ op.obj \notin @
                                          THEN @ \cup {op.obj} ELSE @ \ {op.obj}]
  /\ kpReq' = [kpReq EXCEPT ![c].at = "answered"]
  /\ UNCHANGED <<kpEngine, kpCount, kpDoubt, kpOpened>>

\* Registering replaces the entry: Create, and if there is one Delete and Create
persistOperation(c) ==
  LET op == kpReq[c].op
      again == op.verb = "register" /\ op.obj \in kpStore.ops IN
  /\ kpReq[c].at = "store" /\ op.group = "custom"
  /\ kpStore' = [kpStore EXCEPT !.ops = IF op.verb = "register" /\ ~again
                                          THEN @ \cup {op.obj} ELSE @ \ {op.obj}]
  /\ kpReq' = [kpReq EXCEPT ![c].at = IF again THEN "restore" ELSE "answered"]
  /\ UNCHANGED <<kpEngine, kpCount, kpDoubt, kpOpened>>

persistReplaced(c) ==
  /\ kpReq[c].at = "restore"
  /\ kpStore' = [kpStore EXCEPT !.ops = @ \cup {kpReq[c].op.obj}]
  /\ kpReq' = [kpReq EXCEPT ![c].at = "answered"]
  /\ UNCHANGED <<kpEngine, kpCount, kpDoubt, kpOpened>>

\* The command prints its result
KpDone(c) ==
  /\ kpReq[c].at = "answered"
  /\ kpReq' = [kpReq EXCEPT ![c] = KpIdle]
  /\ UNCHANGED <<kpEngine, kpStore, kpCount, kpDoubt, kpOpened>>

\* A client of the mock server connects
KpOpenConn(p, i, m) ==
  /\ i \notin kpOpened
  /\ kpOpened' = kpOpened \cup {i}
  /\ kpEngine' = [kpEngine EXCEPT !.conns = @ \cup {[proto |-> p, id |-> i, mock |-> m]}]
  /\ UNCHANGED <<kpStore, kpReq, kpCount, kpDoubt>>

\* The server restarts: the engine loads what the store has
KpRestart ==
  /\ KpFault
  /\ kpEngine' = [chaos |-> KpChaosOff, tables |-> kpStore.tables, items |-> {},
                  ops |-> kpStore.ops, conns |-> {}]
  /\ kpReq' = [c \in KpClients |-> KpIdle] /\ kpDoubt' = {}
  /\ UNCHANGED <<kpStore, kpOpened>>

KpStep ==
  \/ \E c \in KpClients :
       \/ \E n \in KpOwn[c] : \E op \in KpOps(n) : KpSend(c, op)
       \/ requireEngine(c)
       \/ \E how \in {"ok", "unreachable", "lost"} :
            KpCall(c, how) \/ KpListForClose(c, how) \/ KpCloseOne(c, how)
       \/ KpClosedAll(c) \/ KpSaveFails(c)
       \/ persistTable(c) \/ persistOperation(c) \/ persistReplaced(c) \/ KpDone(c)
  \/ \E p \in KpProtos \cap kpFocus, i \in KpConnIDs, m \in KpMocks : KpOpenConn(p, i, m)
  \/ KpRestart

KpNext == KpStep /\ UNCHANGED kpFocus

KpSpec == KpInit /\ [][KpNext]_kpVars

-----------------------------------------------------------------------------
(* Properties *)

KpSaid(c) == KpCli(kpReq[c].op, kpReq[c].said)

\* The engine's tables, items and connections fit together: an item belongs to a
\* registered table, a tripped breaker to a configuration that is on.
KpTypeOK ==
  /\ kpEngine.tables \subseteq KpNames /\ kpEngine.ops \subseteq KpNames
  /\ \A x \in kpEngine.items : x[1] \in kpEngine.tables /\ x[2] \in KpItems
  /\ kpEngine.chaos.tripped # {} => kpEngine.chaos.on
  /\ {x.id : x \in kpEngine.conns} \subseteq kpOpened
  /\ kpStore.tables \cup kpStore.ops \subseteq KpNames

\* Four layers turn an error into a status and back.  Whatever is lost on the way, the
\* command reports success only if the engine did what was asked, and reports that
\* the object does not exist only if the engine said so (but for breakers, where the
\* admin API answers any failure with 404).
KpReportsTruly ==
  \A c \in KpClients : kpReq[c].at = "answered" =>
    /\ KpSaid(c) = "ok" => kpReq[c].acted
    /\ KpSaid(c) = "not_found" /\ kpReq[c].op.verb \notin {"trip", "untrip"} => kpReq[c].missing

\* A table or operation is registered in the engine if and only if the data store has
\* it, so that a restart brings it back, once the requests on it are done: unless a
\* save failed or the engine's answer was lost, both of which the code only logs.
KpStoreAgrees ==
  \A c \in KpClients, n \in KpNames :
    n \in KpOwn[c] /\ kpReq[c].at \in {"idle", "answered"} /\ n \notin kpDoubt =>
      /\ n \in kpEngine.tables <=> n \in kpStore.tables
      /\ n \in kpEngine.ops <=> n \in kpStore.ops

\* Closing a mock's connections leaves none of those that were open when it asked,
\* although they may close, and others open, while it goes through the list.
KpMockClosed ==
  \A c \in KpClients :
    LET op == kpReq[c].op IN
    kpReq[c].at = "answered" /\ op.verb = "closeMock" /\ op.group = "sse" /\ kpReq[c].said = 200 =>
      kpReq[c].listed \cap {x.id : x \in kpEngine.conns} = {}

=============================================================================
