------------------------------- MODULE McpServer -------------------------------
(***************************************************************************)
(* The MCP server (pkg/mcp): sessions over HTTP with their notification    *)
(* channels, one session over stdio, the tools and resources, which call   *)
(* an admin server, and the broadcast that follows a change of the mocks.  *)
(*                                                                         *)
(* A session ID is fresh.  A tool is its name; what a call of the admin    *)
(* server brings back is its outcome: "ok", "missing" (404), "refused" (any *)
(* other status) or "down".  Requests that the middleware or the parser    *)
(* turns away change nothing and are left out.                             *)
(***************************************************************************)
EXTENDS Integers, FiniteSets

CONSTANTS
  MpIDs,        \* IDs of sessions over HTTP
  MpMaxSessions,
  MpQueue,      \* capacity of a session's channel
  MpCallers,    \* concurrent HTTP requests
  MpContexts,   \* contexts of the contexts file, the first is the server's
  MpFirst,      \* the initial context, [url, ws]
  MpMocks,      \* IDs of mocks
  MpTools,      \* tools in use over HTTP, and over stdio: [http, stdio]
  MpCalls       \* bound: tool calls

VARIABLES
  mpFocus,      \* the transport of this server, "http" or "stdio"
  mpSession,    \* session ID or "stdio" -> its session
  mpTable,      \* SessionManager.sessions
  mpStream,     \* sessions with an open SSE stream
  mpCall,       \* caller -> its request
  mpMocks,      \* admin URL -> the mocks there
  mpCount,      \* tool calls so far
  mpStopped,    \* "no", "stopping", "timeout" (Stop gave up), "yes"
  mpStale,      \* aux: sessions whose list changed since they last heard of it
  mpPanic       \* aux: a send on a closed channel

mpVars == <<mpFocus, mpSession, mpTable, mpStream, mpCall, mpMocks, mpCount, mpStopped, mpStale, mpPanic>>

MpStdin == "stdin"
MpAllIDs == MpIDs \cup {"stdio"}
MpAllCallers == MpCallers \cup {MpStdin}
MpUrls == {x.url : x \in MpContexts}

MpNone == [state |-> "none", queue |-> 0, closed |-> FALSE, idle |-> FALSE, ctx |-> MpFirst]
MpNoCall == [at |-> "idle", sid |-> "stdio", tool |-> "", mock |-> "", url |-> MpFirst.url,
             out |-> "", res |-> "", rest |-> {}]

MpInit ==
  /\ mpFocus \in DOMAIN MpTools
  /\ mpSession = [s \in MpAllIDs |-> MpNone] /\ mpTable = {} /\ mpStream = {}
  /\ mpCall = [c \in MpAllCallers |-> MpNoCall]
  /\ mpMocks \in [MpUrls -> {{}, MpMocks}] /\ mpCount = 0
  /\ mpStopped = "no" /\ mpStale = {} /\ mpPanic = FALSE

-----------------------------------------------------------------------------
(* Session and SessionManager *)

\* NewSession, its context set by initSession
NewSession == [MpNone EXCEPT !.state = "new", !.ctx = MpFirst]

MpClosed(x) == [x EXCEPT !.state = "expired", !.closed = TRUE]

\* No Broadcast holds the manager's lock for reading
MpWritable == \A c \in MpAllCallers : mpCall[c].at # "sending"

cleanupLocked == {s \in mpTable : mpSession[s].idle}

MpCloseAll(gone) == [s \in MpAllIDs |-> IF s \in gone THEN MpClosed(mpSession[s]) ELSE mpSession[s]]

\* Mutant: the limit is checked before the expired sessions are removed only
CreateNoRecheck(s, version) ==
  LET gone == IF Cardinality(mpTable) >= MpMaxSessions THEN cleanupLocked ELSE {} IN
  /\ mpTable' = (mpTable \ gone) \cup {s} /\ mpStale' = mpStale \ gone
  /\ mpSession' = [MpCloseAll(gone) EXCEPT ![s] =
       [NewSession EXCEPT !.state = IF version = "known" THEN "initialized" ELSE "new"]]

\* initialize: at the limit the expired sessions go first.  A session whose protocol
\* version is refused stays in the table, uninitialised
Create(s, version) ==
  LET gone == IF Cardinality(mpTable) >= MpMaxSessions THEN cleanupLocked ELSE {} IN
  /\ mpStale' = mpStale \ gone
  /\ IF Cardinality(mpTable \ gone) >= MpMaxSessions
       THEN mpTable' = mpTable \ gone /\ mpSession' = MpCloseAll(gone)
       ELSE /\ mpTable' = (mpTable \ gone) \cup {s}
            /\ mpSession' = [MpCloseAll(gone) EXCEPT ![s] =
                 [NewSession EXCEPT !.state = IF version = "known" THEN "initialized" ELSE "new"]]

handleInitialize(s, version) ==
  /\ mpStopped = "no" /\ MpWritable /\ mpSession[s].state = "none"
  /\ Create(s, version)
  /\ UNCHANGED <<mpStream, mpCall, mpMocks, mpCount, mpStopped, mpPanic>>

\* Mutant: the channel is closed, and the lock taken for the table only
DeleteUnlocked(s) ==
  /\ s \in mpTable
  /\ mpSession' = [mpSession EXCEPT ![s].closed = TRUE]
  /\ mpTable' = mpTable \ {s} /\ mpStale' = mpStale \ {s}

\* SessionManager.Delete
Delete(s) ==
  /\ s \in mpTable /\ MpWritable
  /\ mpSession' = [mpSession EXCEPT ![s] = MpClosed(@)]
  /\ mpTable' = mpTable \ {s} /\ mpStale' = mpStale \ {s}

handleSessionDelete(s) ==
  /\ mpStopped = "no" /\ Delete(s)
  /\ UNCHANGED <<mpStream, mpCall, mpMocks, mpCount, mpStopped, mpPanic>>

\* The ticker's Cleanup, once per minute until Stop
Cleanup ==
  /\ mpStopped = "no" /\ MpWritable /\ cleanupLocked # {}
  /\ mpSession' = MpCloseAll(cleanupLocked)
  /\ mpTable' = mpTable \ cleanupLocked /\ mpStale' = mpStale \ cleanupLocked
  /\ UNCHANGED <<mpStream, mpCall, mpMocks, mpCount, mpStopped, mpPanic>>

\* The session timeout passes without a request
MpExpire(s) ==
  /\ s \in mpTable /\ ~mpSession[s].idle
  /\ \A c \in MpAllCallers : mpCall[c].sid = s => mpCall[c].at = "idle"
  /\ mpSession' = [mpSession EXCEPT ![s].idle = TRUE]
  /\ UNCHANGED <<mpTable, mpStream, mpCall, mpMocks, mpCount, mpStopped, mpStale, mpPanic>>

-----------------------------------------------------------------------------
(* Requests *)

\* The session a request finds: over stdio the only one, else the table's
MpFinds(c, s) == IF c = MpStdin THEN s = "stdio" ELSE s \in mpTable /\ mpStopped = "no"

\* stdio: each initialize starts a session of its own, outside the table
handleMessage(version) ==
  /\ mpCall[MpStdin].at = "idle" /\ mpSession["stdio"].state \in {"none", "new"}
  /\ mpSession' = [mpSession EXCEPT !["stdio"] =
       [NewSession EXCEPT !.state = IF version = "known" THEN "initialized" ELSE "new"]]
  /\ UNCHANGED <<mpTable, mpStream, mpCall, mpMocks, mpCount, mpStopped, mpStale, mpPanic>>

\* notifications/initialized reads the state ...
handleInitialized(c, s) ==
  /\ mpCall[c].at = "idle" /\ MpFinds(c, s) /\ mpSession[s].state = "initialized"
  /\ mpSession' = [mpSession EXCEPT ![s].idle = FALSE]
  /\ mpCall' = [mpCall EXCEPT ![c] = [MpNoCall EXCEPT !.at = "readying", !.sid = s]]
  /\ UNCHANGED <<mpTable, mpStream, mpMocks, mpCount, mpStopped, mpStale, mpPanic>>

\* ... and sets it, although the session may be closed by then
SetState(c) ==
  /\ mpCall[c].at = "readying"
  /\ mpSession' = [mpSession EXCEPT ![mpCall[c].sid].state = "ready"]
  /\ mpStale' = mpStale \ {mpCall[c].sid}
  /\ mpCall' = [mpCall EXCEPT ![c] = MpNoCall]
  /\ UNCHANGED <<mpTable, mpStream, mpMocks, mpCount, mpStopped, mpPanic>>

\* tools/call and resources/*: the session must be ready; its client is read first
dispatch(c, s, tool, m) ==
  /\ mpCall[c].at = "idle" /\ MpFinds(c, s) /\ mpSession[s].state = "ready"
  /\ mpCount < MpCalls /\ mpCount' = mpCount + 1
  /\ mpSession' = [mpSession EXCEPT ![s].idle = FALSE]
  /\ mpCall' = [mpCall EXCEPT ![c] = [MpNoCall EXCEPT !.at = "tool", !.sid = s, !.tool = tool,
                                        !.mock = m, !.url = mpSession[s].ctx.url]]
  /\ UNCHANGED <<mpTable, mpStream, mpMocks, mpStopped, mpStale, mpPanic>>

-----------------------------------------------------------------------------
(* What each tool says of an outcome.  Most name the error; some take every error of *)
(* a server that can be reached for a missing object.                                *)

\* Mutant: a timeout is not recognised
isRefusedOnly(out) == FALSE

isConnectionError(out) == out = "down"

adminError(out) == IF isConnectionError(out) THEN "unreachable" ELSE "error"

MpSays(out) == IF out = "ok" THEN "ok" ELSE adminError(out)

MpSaysFound(out) ==
  IF out = "ok" THEN "ok" ELSE IF isConnectionError(out) THEN adminError(out) ELSE "not_found"

handleListMocks(out) == MpSays(out)
handleGetMock(out) == MpSaysFound(out)
handleCreateMock(out) == MpSays(out)
handleDeleteMock(out) == MpSays(out)
handleToggleMock(out) == MpSays(out)
handleListWorkspaces(out) == MpSays(out)
handleCreateWorkspace(out) == MpSays(out)
handleImportMocks(out) == MpSays(out)
handleExportMocks(out) == MpSays(out)
\* An unreachable server is a result too
handleGetServerStatus(out) == "ok"
handleGetRequestLogs(out) == MpSays(out)
handleClearRequestLogs(out) == MpSays(out)
handleGetChaosConfig(out) == MpSays(out)
handleSetChaosConfig(out) == MpSays(out)
handleResetChaosStats(out) == MpSays(out)
handleGetStatefulFaults(out) == MpSays(out)
handleManageCircuitBreaker(out) == MpSays(out)
MpVerifyMock(out) == MpSaysFound(out)
handleGetMockInvocations(out) == MpSaysFound(out)
handleResetVerification(out) == MpSaysFound(out)
handleAddStatefulResource(out) == MpSays(out)
handleListStatefulItems(out) == MpSays(out)
\* Any error at all
handleGetStatefulItem(out) == IF out = "ok" THEN "ok" ELSE "not_found"
handleCreateStatefulItem(out) == MpSays(out)
handleGetStateOverview(out) == MpSays(out)
handleDeleteStatefulResource(out) == MpSays(out)
handleResetStatefulData(out) == MpSays(out)
handleManageCustomOperation(action, out) ==
  IF action \in {"list_ops", "register_op"} THEN MpSays(out) ELSE MpSaysFound(out)

\* Resources: what cannot be read of an overview is left out
MpResourceList(out) == "ok"
readMockResource(out) == IF out = "ok" THEN "ok" ELSE IF out = "missing" THEN "not_found" ELSE "error"
readStatefulResource(out) == IF out = "ok" THEN "ok" ELSE IF out = "missing" THEN "not_found" ELSE "error"
readChaosResource(out) == IF out = "ok" THEN "ok" ELSE "error"
\* Any error at all
readVerificationResource(out) == IF out = "ok" THEN "ok" ELSE "not_found"
readLogsResource(out) == IF out = "ok" THEN "ok" ELSE "error"
readConfigResource(out) == "ok"
readContextResource(out) == "ok"

MpManageMock == {"list_mocks", "get_mock", "create_mock", "update_mock", "delete_mock", "toggle_mock"}
MpManageState == {"add_resource", "list_items", "get_item", "create_item", "overview",
                  "delete_resource", "reset"}

handleManageMock(tool, out) ==
  CASE tool = "list_mocks" -> handleListMocks(out) [] tool = "get_mock" -> handleGetMock(out)
    [] tool = "create_mock" -> handleCreateMock(out) [] tool = "delete_mock" -> handleDeleteMock(out)
    [] tool = "toggle_mock" -> handleToggleMock(out)
    [] tool = "update_mock" -> handleGetMock(out)      \* its first call

handleManageState(tool, out) ==
  CASE tool = "add_resource" -> handleAddStatefulResource(out)
    [] tool = "list_items" -> handleListStatefulItems(out)
    [] tool = "get_item" -> handleGetStatefulItem(out)
    [] tool = "create_item" -> handleCreateStatefulItem(out)
    [] tool = "overview" -> handleGetStateOverview(out)
    [] tool = "delete_resource" -> handleDeleteStatefulResource(out)
    [] tool = "reset" -> handleResetStatefulData(out)

\* ResourceProvider.Read
MpRead(tool, out) ==
  CASE tool = "resources" -> MpResourceList(out)
    [] tool = "mock://mock" -> readMockResource(out)
    [] tool = "mock://stateful" -> readStatefulResource(out)
    [] tool = "mock://chaos" -> readChaosResource(out)
    [] tool = "mock://verification" -> readVerificationResource(out)
    [] tool = "mock://logs" -> readLogsResource(out)
    [] tool = "mock://config" -> readConfigResource(out)
    [] tool = "mock://context" -> readContextResource(out)

\* ToolRegistry.Execute
Execute(tool, out) ==
  CASE tool \in MpManageMock -> handleManageMock(tool, out)
    [] tool \in MpManageState -> handleManageState(tool, out)
    [] tool = "list_workspaces" -> handleListWorkspaces(out)
    [] tool = "create_workspace" -> handleCreateWorkspace(out)
    [] tool = "import" -> handleImportMocks(out) [] tool = "export" -> handleExportMocks(out)
    [] tool = "status" -> handleGetServerStatus(out) [] tool = "logs" -> handleGetRequestLogs(out)
    [] tool = "clear_logs" -> handleClearRequestLogs(out)
    [] tool = "get_chaos" -> handleGetChaosConfig(out) [] tool = "set_chaos" -> handleSetChaosConfig(out)
    [] tool = "reset_chaos" -> handleResetChaosStats(out)
    [] tool = "faults" -> handleGetStatefulFaults(out)
    [] tool = "breaker" -> handleManageCircuitBreaker(out)
    [] tool = "verify" -> MpVerifyMock(out)
    [] tool = "invocations" -> handleGetMockInvocations(out)
    [] tool = "reset_verification" -> handleResetVerification(out)
    [] tool \in {"list_ops", "get_op", "register_op", "delete_op", "run_op"} ->
         handleManageCustomOperation(tool, out)
    [] OTHER -> MpRead(tool, out)

-----------------------------------------------------------------------------
(* A tool call, step by step *)

MpNeedsMock == {"get_mock", "update_mock", "delete_mock", "toggle_mock", "verify", "invocations",
                "mock://mock", "mock://verification"}

\* What the admin server may answer
MpOutcomes(x) ==
  {"refused", "down",
   IF x.tool \in MpNeedsMock /\ x.mock \notin mpMocks[x.url] THEN "missing" ELSE "ok"}

\* The tools that change the list of resources and say so
MpNotifies == {"create_mock", "update_mock", "delete_mock", "toggle_mock", "import"}

\* The mocks of the call's server changed: its ready sessions have an old list
MpChange(c, mocks) ==
  LET x == mpCall[c] IN
  /\ mpMocks' = [mpMocks EXCEPT ![x.url] = mocks]
  /\ mpStale' = mpStale \cup
       {s \in mpTable : mpSession[s].state = "ready" /\ mpSession[s].ctx.url = x.url}

MpToolCall(c, out) ==
  LET x == mpCall[c]
      second == x.tool = "update_mock" /\ out = "ok"
      changes == x.tool \in MpNotifies \ {"update_mock"} /\ out = "ok" IN
  /\ x.at = "tool" /\ x.tool \notin {"switch_context", "switch_workspace"} /\ out \in MpOutcomes(x)
  /\ IF changes
       THEN MpChange(c, IF x.tool = "delete_mock" THEN mpMocks[x.url] \ {x.mock}
                        ELSE mpMocks[x.url] \cup {x.mock})
       ELSE UNCHANGED <<mpMocks, mpStale>>
  /\ mpCall' = [mpCall EXCEPT ![c].at = IF second THEN "update" ELSE IF changes THEN "notify" ELSE "done",
                              ![c].out = out, ![c].res = Execute(x.tool, out)]
  /\ UNCHANGED <<mpSession, mpTable, mpStream, mpCount, mpStopped, mpPanic>>

\* The mock was read, changed here and is written back whole; it may be gone by now
handleUpdateMock(c, out) ==
  LET x == mpCall[c] IN
  /\ x.at = "update" /\ out \in MpOutcomes(x)
  /\ IF out = "ok" THEN MpChange(c, mpMocks[x.url]) ELSE UNCHANGED <<mpMocks, mpStale>>
  /\ mpCall' = [mpCall EXCEPT ![c].at = IF out = "ok" THEN "notify" ELSE "done",
                              ![c].out = out, ![c].res = MpSays(out)]
  /\ UNCHANGED <<mpSession, mpTable, mpStream, mpCount, mpStopped, mpPanic>>

\* A context of the file replaces URL, workspace and client together; its list is new
handleSwitchContext(c, ctx) ==
  LET x == mpCall[c] IN
  /\ x.at = "tool" /\ x.tool = "switch_context"
  /\ mpSession' = [mpSession EXCEPT ![x.sid].ctx = ctx]
  /\ mpStale' = mpStale \ {x.sid}
  /\ mpCall' = [mpCall EXCEPT ![c].at = "done", ![c].res = "ok", ![c].out = "ok"]
  /\ UNCHANGED <<mpTable, mpStream, mpMocks, mpCount, mpStopped, mpPanic>>

\* The workspace is looked up, unless the server cannot be asked
handleSwitchWorkspace(c, w, out) ==
  LET x == mpCall[c]
      there == [url |-> x.url, ws |-> w] \in MpContexts IN
  /\ x.at = "tool" /\ x.tool = "switch_workspace" /\ out \in {"ok", "down"}
  /\ mpSession' = IF out = "ok" /\ ~there THEN mpSession
                  ELSE [mpSession EXCEPT ![x.sid].ctx.ws = w]
  /\ mpCall' = [mpCall EXCEPT ![c].at = "done", ![c].out = IF there THEN out ELSE "missing",
                              ![c].res = IF out = "ok" /\ ~there THEN "not_found" ELSE "ok"]
  /\ UNCHANGED <<mpTable, mpStream, mpMocks, mpCount, mpStopped, mpStale, mpPanic>>

\* NotifyResourceListChanged: Broadcast under the manager's lock, held for reading
NotifyResourceListChanged(c) ==
  /\ mpCall[c].at = "notify"
  /\ mpCall' = [mpCall EXCEPT ![c].at = "sending", ![c].rest = mpTable]
  /\ UNCHANGED <<mpSession, mpTable, mpStream, mpMocks, mpCount, mpStopped, mpStale, mpPanic>>

\* Mutant: only sessions with an open stream are told
BroadcastStreams(c, s) ==
  /\ mpCall[c].at = "sending" /\ s \in mpCall[c].rest
  /\ mpSession' = IF mpSession[s].state = "ready" /\ s \in mpStream /\ mpSession[s].queue < MpQueue
                    THEN [mpSession EXCEPT ![s].queue = @ + 1] ELSE mpSession
  /\ mpPanic' = mpPanic
  /\ mpCall' = [mpCall EXCEPT ![c].rest = @ \ {s}]
  /\ UNCHANGED <<mpTable, mpStream, mpMocks, mpCount, mpStopped, mpStale>>

\* SendNotification to one session, dropped when its channel is full
Broadcast(c, s) ==
  /\ mpCall[c].at = "sending" /\ s \in mpCall[c].rest
  /\ mpPanic' = (mpPanic \/ (mpSession[s].state = "ready" /\ mpSession[s].closed))
  /\ mpSession' = IF mpSession[s].state = "ready" /\ mpSession[s].queue < MpQueue
                    THEN [mpSession EXCEPT ![s].queue = @ + 1] ELSE mpSession
  /\ mpCall' = [mpCall EXCEPT ![c].rest = @ \ {s}]
  /\ UNCHANGED <<mpTable, mpStream, mpMocks, mpCount, mpStopped, mpStale>>

MpBroadcastDone(c) ==
  /\ mpCall[c].at = "sending" /\ mpCall[c].rest = {}
  /\ mpCall' = [mpCall EXCEPT ![c].at = "done"]
  /\ UNCHANGED <<mpSession, mpTable, mpStream, mpMocks, mpCount, mpStopped, mpStale, mpPanic>>

\* The response is written
writeSuccess(c) ==
  /\ mpCall[c].at = "done"
  /\ mpCall' = [mpCall EXCEPT ![c] = MpNoCall]
  /\ UNCHANGED <<mpSession, mpTable, mpStream, mpMocks, mpCount, mpStopped, mpStale, mpPanic>>

-----------------------------------------------------------------------------
(* The SSE stream of a session, and Stop *)

handleSSE(s) ==
  /\ mpStopped = "no" /\ s \in mpTable \ mpStream /\ mpSession[s].state = "ready"
  /\ mpStream' = mpStream \cup {s}
  /\ UNCHANGED <<mpSession, mpTable, mpCall, mpMocks, mpCount, mpStopped, mpStale, mpPanic>>

MpReceive(s) ==
  /\ s \in mpStream /\ mpSession[s].queue > 0
  /\ mpSession' = [mpSession EXCEPT ![s].queue = @ - 1]
  /\ mpStale' = mpStale \ {s}
  /\ UNCHANGED <<mpTable, mpStream, mpCall, mpMocks, mpCount, mpStopped, mpPanic>>

\* The client went away, or the channel was closed and is drained
MpStreamEnd(s) ==
  /\ s \in mpStream
  /\ mpStream' = mpStream \ {s}
  /\ UNCHANGED <<mpSession, mpTable, mpCall, mpMocks, mpCount, mpStopped, mpStale, mpPanic>>

\* Stop closes the listener, then waits for the handlers, streams included
Stop ==
  /\ mpStopped \in {"no", "timeout"} /\ mpStopped' = "stopping"
  /\ UNCHANGED <<mpSession, mpTable, mpStream, mpCall, mpMocks, mpCount, mpStale, mpPanic>>

MpServing == mpStream # {} \/ \E c \in MpCallers : mpCall[c].at # "idle"

\* Stop gives up after 5 s and leaves the sessions as they are
MpStopTimeout ==
  /\ mpStopped = "stopping" /\ MpServing /\ mpStopped' = "timeout"
  /\ UNCHANGED <<mpSession, mpTable, mpStream, mpCall, mpMocks, mpCount, mpStale, mpPanic>>

MpStopCloses ==
  /\ mpStopped = "stopping" /\ ~MpServing /\ MpWritable /\ mpStopped' = "yes"
  /\ mpSession' = MpCloseAll(mpTable) /\ mpTable' = {} /\ mpStale' = {}
  /\ UNCHANGED <<mpStream, mpCall, mpMocks, mpCount, mpPanic>>

\* The server over stdio has one client, which sends one request at a time
MpUsers == IF mpFocus = "stdio" THEN {MpStdin} ELSE MpCallers

MpStep ==
  \/ \E v \in {"known", "unknown"} :
       \/ mpFocus = "stdio" /\ handleMessage(v)
       \/ mpFocus = "http" /\ \E s \in MpIDs : handleInitialize(s, v)
  \/ \E s \in MpIDs : \/ handleSessionDelete(s) \/ MpExpire(s) \/ handleSSE(s) \/ MpReceive(s)
                      \/ MpStreamEnd(s)
  \/ \E c \in MpUsers :
       \/ \E s \in MpAllIDs : \/ handleInitialized(c, s)
                              \/ \E t \in MpTools[mpFocus], m \in MpMocks : dispatch(c, s, t, m)
                              \/ Broadcast(c, s)
       \/ SetState(c) \/ NotifyResourceListChanged(c) \/ MpBroadcastDone(c) \/ writeSuccess(c)
       \/ \E out \in {"ok", "missing", "refused", "down"} : MpToolCall(c, out) \/ handleUpdateMock(c, out)
       \/ \E x \in MpContexts : \/ handleSwitchContext(c, x)
                                \/ \E out \in {"ok", "down"} : handleSwitchWorkspace(c, x.ws, out)
  \/ Cleanup \/ (mpFocus = "http" /\ Stop) \/ MpStopTimeout \/ MpStopCloses

MpNext == MpStep /\ UNCHANGED mpFocus

MpSpec == MpInit /\ [][MpNext]_mpVars

-----------------------------------------------------------------------------
(* Properties *)

\* The table never holds more sessions than MaxSessions, nor one that was closed: a
\* request finds a session that can be used.
MpTypeOK ==
  /\ Cardinality(mpTable) <= MpMaxSessions
  /\ \A s \in mpTable : ~mpSession[s].closed /\ mpSession[s].state \in {"new", "initialized", "ready"}
  /\ \A s \in MpAllIDs : mpSession[s].queue \in 0 .. MpQueue

\* A broadcast never sends to a channel that a concurrent delete, cleanup or shutdown
\* closed, which would bring the process down.
MpNoSendOnClosed == ~mpPanic

\* A ready session whose list of resources changed has a notification waiting or under
\* way, although a full channel drops notifications and sessions come and go.
MpNotified ==
  \A s \in mpStale \cap mpTable :
    mpSession[s].state = "ready" =>
      \/ mpSession[s].queue > 0
      \/ \E c \in MpAllCallers :
           mpCall[c].at = "notify" \/ (mpCall[c].at = "sending" /\ s \in mpCall[c].rest)

\* A tool reports success only if the admin server did what was asked, and never takes
\* an unreachable server for a missing object.  Three readers are not as careful:
\* get_item, the verification resource, and those that report what they could read.
MpReportsTruly ==
  \A c \in MpAllCallers :
    LET x == mpCall[c] IN
    x.at = "done" /\ x.tool \notin {"get_item", "mock://verification", "status", "resources",
                                    "mock://config", "mock://context", "switch_workspace"} =>
      /\ x.res = "ok" => x.out = "ok"
      /\ x.res = "not_found" => x.out # "down"

=============================================================================
