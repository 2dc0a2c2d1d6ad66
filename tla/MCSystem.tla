------------------------------- MODULE MCSystem -------------------------------
(* Instances, for TLC, of the components whose safety is checked: traffic and    *)
(* its streams, the admin and control APIs, recordings, and the command line.    *)
(* They share no state here, so a behaviour is one component's alone.            *)
EXTENDS WebSocketHub, WsScenario, StreamReplay, SseStreams, AdminWorkspaces, WorkspaceServers,
        CliMocks, CliContexts, StreamRecordings, RequestLog, ControlPlane, McpServer,
        ProxyRecorder, RecordingFiles, RequestDispatch, OauthProvider, GrpcServer,
        GraphqlEndpoint, RateLimiter, ChaosInjection, StatefulApi

VARIABLE sysActive   \* the component this behaviour is about

-----------------------------------------------------------------------------
(* Streams *)

MCStep(type) == [type |-> type, optional |-> FALSE]
MCScenario == <<MCStep("send"), MCStep("expect"), MCStep("expect"), MCStep("send"), MCStep("wait")>>

MCFrames == <<"server", "client", "server", "server">>

MCPlainEvents ==
  [events |-> 3, ids |-> TRUE, generator |-> FALSE, resume |-> TRUE, maxEvents |-> 0,
   disconnect |-> FALSE, disconnectAfter |-> 0, timeout |-> FALSE, keepalive |-> FALSE,
   limit |-> "wait", final |-> FALSE]
MCEvents ==
  {[MCPlainEvents EXCEPT !.disconnect = TRUE, !.disconnectAfter = 1, !.timeout = TRUE],
   [MCPlainEvents EXCEPT !.events = 1, !.generator = TRUE, !.maxEvents = 2, !.limit = "drop",
                         !.final = TRUE, !.keepalive = TRUE]}

\* gRPC: a variant matches on conditions and answers, streams or fails
MCVariant(m, e, n, b) == [match |-> m, error |-> e, responses |-> n, builds |-> b]
MCDetails == {[code |-> "NOT_FOUND", details |-> [error_info |-> {"reason"}, help |-> {}]]}
MCMethods ==
  "c1" :> {[kind |-> "unary", variants |-> <<MCVariant({"r"}, {}, 1, FALSE), MCVariant({}, MCDetails, 1, TRUE)>>],
           [kind |-> "server", variants |-> <<MCVariant({}, {}, 2, TRUE), MCVariant({"r"}, MCDetails, 2, TRUE)>>],
           [kind |-> "client", variants |-> <<MCVariant({"r"}, {}, 1, TRUE)>>],
           [kind |-> "bidi", variants |-> <<MCVariant({"md"}, {}, 1, TRUE), MCVariant({}, {}, 0, TRUE)>>],
           [kind |-> "unknown", variants |-> <<>>]}

\* GraphQL: selections of up to three levels, with aliases, fragments and @skip
MCField(n, a, sub) == [k |-> "field", name |-> n, alias |-> a, type |-> "", skip |-> FALSE, sub |-> sub]
MCFragment(t, sub) == [k |-> "frag", name |-> "", alias |-> "", type |-> t, skip |-> FALSE, sub |-> sub]
MCLeaves == {MCField("x", "x", <<>>), MCField("x", "y", <<>>), MCField("z", "z", <<>>),
             [MCField("x", "x", <<>>) EXCEPT !.skip = TRUE], MCField("__typename", "t", <<>>)}
MCSubs == {<<a>> : a \in MCLeaves} \cup {<<a, b>> : a \in MCLeaves, b \in MCLeaves}
MCFragments ==
  {<<MCFragment("T", s)>> : s \in MCSubs} \cup {<<a, MCFragment("", <<b>>)>> : a \in MCLeaves, b \in MCLeaves}
MCTops ==
  {<<MCField("u", "u", s)>> : s \in MCSubs \cup MCFragments}
    \cup {<<MCField("l", "v", <<MCField("o", "o", s)>>), MCField("e", "e", <<>>)>> : s \in MCSubs}
    \cup {<<MCFragment("", <<MCField("u", "u", s)>>), MCField("u", "w", s)>> : s \in MCSubs}
    \cup {<<MCField("__schema", "s", <<>>)>>, <<>>}
MCObject == GxObj([x |-> GxLeaf, z |-> GxLeaf])
MCResolvers ==
  [u |-> <<[match |-> {"a"}, error |-> TRUE, value |-> GxLeaf], [match |-> {}, error |-> FALSE, value |-> MCObject]>>,
   l |-> <<[match |-> {}, error |-> FALSE,
            value |-> [t |-> "list", s |-> <<GxObj([o |-> MCObject]), GxObj([x |-> GxLeaf])>>]]>>,
   e |-> <<[match |-> {}, error |-> TRUE, value |-> GxLeaf]>>]
MCTypes == <<"Query", "u">> :> "T"
MCQuery(s, args) == [parses |-> TRUE, sels |-> s, args |-> args]
MCBadQuery == [parses |-> FALSE, sels |-> <<>>, args |-> {}]
MCInvalid == [body |-> "invalid", queries |-> <<MCBadQuery>>]
MCQueries ==
  {[body |-> "json", queries |-> <<MCQuery(s, a)>>] : s \in MCTops, a \in {{}, {"a"}}}
    \cup {[body |-> b, queries |-> <<MCQuery(<<MCField("u", "u", q)>>, {}), MCBadQuery>>] :
            b \in {"batch", "spacedBatch"}, q \in MCSubs}
    \cup {[body |-> b, queries |-> <<MCBadQuery>>] : b \in {"empty", "emptyBatch", "graphql"}}
    \cup {MCInvalid}
MCSubscriptions == {[events |-> 2, repeat |-> FALSE], [events |-> 1, repeat |-> TRUE]}

-----------------------------------------------------------------------------
(* HTTP requests *)

MCUpTo(A, n) == UNION {[1 .. k -> A] : k \in 0 .. n}

\* Patterns without a placeholder twice or one followed by more text in its segment
MCPatterns ==
  {p \in {<<"/">> \o q : q \in MCUpTo({"/", "a", "*", "{x}", "{y}"}, 3)} :
     /\ \A t \in MtParams : Cardinality({i \in DOMAIN p : p[i] = t}) <= 1
     /\ \A i \in DOMAIN MtSegments(p) :
          MtWholeParam(MtSegments(p)[i]) => Len(MtSegments(p)[i]) = 1}
MCPaths == {<<"/">> \o q : q \in MCUpTo({"/", "a", "b"}, 3)}

MCMock(id, method, path, checks, mtls, priority, serves, mode, file) ==
  [id |-> id, matcher |-> [method |-> method, path |-> path, checks |-> checks, mtls |-> mtls],
   priority |-> priority, serves |-> serves, mode |-> mode, file |-> file]
MCCheck(on, key, want) == [on |-> on, key |-> key, want |-> want]
MCMocks ==
  {MCMock("exact", "GET", <<"/", "a">>, {}, FALSE, 0, "response", "permissive", "missing"),
   MCMock("head", "GET", <<"/", "{x}">>, {MCCheck("header", "Accept", <<"t", "*">>)}, FALSE, 5, "stateful", "none", "none"),
   MCMock("json", "", <<"/", "*">>, {MCCheck("query", "id", <<"1">>)}, FALSE, 5, "stream", "strict", "none"),
   MCMock("cert", "", <<"/", "a">>, {MCCheck("cn", "", <<"c">>)}, TRUE, 0, "none", "warn", "none"),
   MCMock("strict", "POST", <<"/", "a">>, {}, FALSE, 0, "response", "strict", "none")}
MCRequest(path, method, upgrade, large, has, faults) ==
  [path |-> path, method |-> method, upgrade |-> upgrade, large |-> large, has |-> has, faults |-> faults]
MCHas(on, key, value) == [on |-> on, key |-> key, value |-> value]
MCRequests ==
  {MCRequest(<<"/", "r">>, "GET", FALSE, FALSE, {}, {}),
   MCRequest(<<"/", "h">>, "POST", FALSE, FALSE, {}, {}),
   MCRequest(<<"/", "a">>, "HEAD", FALSE, FALSE, {MCHas("header", "Accept", <<"t", "x">>)}, {}),
   MCRequest(<<"/", "a">>, "GET", FALSE, FALSE,
             {MCHas("header", "Accept", <<"x", "t">>), MCHas("query", "id", <<"1">>)}, {}),
   MCRequest(<<"/", "b">>, "GET", FALSE, FALSE,
             {MCHas("header", "Accept", <<"x", "t">>), MCHas("cn", "", <<"c">>)}, {}),
   MCRequest(<<"/", "a">>, "POST", FALSE, FALSE, {MCHas("jsonPath", "id", <<"2">>)}, {"other"}),
   MCRequest(<<"/", "a">>, "GET", FALSE, FALSE, {MCHas("cn", "", <<"c">>)}, {"required"}),
   MCRequest(<<"/", "a">>, "GET", TRUE, FALSE, {}, {}),
   MCRequest(<<"/", "a">>, "GET", FALSE, TRUE, {}, {})}
MCReserved == {<<"/", "r">>}
MCHealth == {<<"/", "h">>}

\* Chaos: faults in rules and on their own, on both paths
MCFault(t) == [type |-> t, prob |-> "some"]
MCSure(t) == [type |-> t, prob |-> "one"]
MCRule(path, prob, faults) == [paths |-> {path}, prob |-> prob, faults |-> faults]
MCChaos ==
  {[rules |-> <<MCRule("/a", "some", <<MCFault("slow_body"), MCFault("partial_response")>>),
                MCRule("/a", "some", <<MCSure("corrupt_body"), MCSure("partial_response"), MCFault("chunked_dribble")>>)>>,
    global |-> <<MCSure("latency"), MCFault("error"), MCFault("slow_body")>>],
   [rules |-> <<MCRule("/a", "one", <<MCFault("retry_after"), MCFault("error")>>),
                MCRule("/b", "one", <<MCFault("progressive_degradation")>>)>>,
    global |-> <<>>],
   [rules |-> <<MCRule("/a", "some", <<MCFault("latency"), MCFault("timeout"), MCFault("connection_reset")>>),
                MCRule("/a", "one", <<MCFault("circuit_breaker"), MCFault("empty_response"), MCSure("error")>>)>>,
    global |-> <<>>]}
MCBodies == {<<2, 2>>}

MCOauthClients ==
  {[id |-> "c1", grants |-> {"authorization_code", "client_credentials"}],
   [id |-> "c2", grants |-> {"authorization_code", "password", "refresh_token"}]}

\* Stateful tables over SOAP and forms
MCEnvelopes ==
  {[soapAction |-> "u", element |-> "Make", xpath |-> TRUE],
   [soapAction |-> "", element |-> "Drop", xpath |-> FALSE]}
MCOperations ==
  ("Make" :> [soapAction |-> "u", match |-> FALSE, fault |-> FALSE, act |-> "create"])
    @@ ("Drop" :> [soapAction |-> "", match |-> TRUE, fault |-> FALSE, act |-> "delete"])
MCSeed == <<"a", "b">>
MCForms ==
  {(<<"a", "b">> :> "1") @@ (<<"a", "c", "0">> :> "inf") @@ (<<"a", "c", "1">> :> "t") @@ (<<"d">> :> "x"),
   (<<"a">> :> "1") @@ (<<"a", "0">> :> "2") @@ (<<"b", "0", "x">> :> "3") @@ (<<"b", "0">> :> "4")}

-----------------------------------------------------------------------------
(* Administration and recordings *)

\* Two spellings of one slug
MCNames == {[slug |-> "a", spelling |-> 1], [slug |-> "a", spelling |-> 2]}
MCBases == {<<"a", "b">>}
MCMockPaths == {<<"x">>, <<"a", "x">>}

MCRoute(method) == [method |-> method, path |-> "/a", pattern |-> ""]
MCRoutes == {MCRoute("GET"), MCRoute("POST")}
MCFlags == {{}, {"table", "bind"}, {"table"}, {"sse", "body"}}
MCIDs == {<<1, 1>>, <<2>>}
MCPrefixes == {<<1>>, <<1, 1>>}
MCFile == <<1, 2>> :> [type |-> "http", route |-> MCRoute("GET"), serves |-> {"response"}]

MCProtos == "c1" :> "websocket"
MCOwn == ("a" :> {"n"}) @@ ("b" :> {"o"})
MCGroups == {{"chaos"}, {"tables", "items"}, {"custom", "tables"}, {"sse"}, {"ws"}, {"mqtt"}, {"grpc"}}

MCFirst == [url |-> "u", ws |-> "a"]
MCContexts == {MCFirst, [url |-> "v", ws |-> "b"]}
MCTools ==
  [http  |-> {"create_mock"},
   stdio |-> MpManageMock \cup MpManageState \cup
     {"list_workspaces", "create_workspace", "switch_context", "switch_workspace", "import", "export",
      "status", "logs", "clear_logs", "get_chaos", "set_chaos", "reset_chaos", "faults", "breaker",
      "verify", "invocations", "reset_verification", "list_ops", "get_op", "register_op", "delete_op",
      "run_op", "resources", "mock://mock", "mock://stateful", "mock://chaos", "mock://verification",
      "mock://logs", "mock://config", "mock://context"}]

MCSmart == ("u1" :> "u") @@ ("u2" :> "u")
MCFilters == {{"u1", "u2"}, {"u1"}}
MCSessions == {<<11>>, <<11, 12>>}
MCKeys == <<"a", "b", "a">>

-----------------------------------------------------------------------------
(* Specification *)

sysVars ==
  <<sysActive, wsVars, scVars, rpVars, sseVars, wkVars, fdVars, svVars, cmVars, cxVars, rsVars, lgVars,
    lfVars, kpVars, mpVars, pxVars, rdVars, grVars, mtVars, hdVars, oaVars, gsVars, gxVars, gqVars,
    rlVars, ciVars, saVars, fmVars>>

\* What a component is configured with varies in its own behaviours only
SysInit ==
  /\ sysActive \in {"sockets", "scenario", "replay", "events", "workspaces", "folders", "servers",
                    "mocks", "contexts", "streams", "log", "follow", "control", "mcp", "proxy",
                    "sessions", "recordings", "paths", "dispatch", "oauth", "grpc", "graphql",
                    "subscriptions", "rates", "chaos", "tables", "forms"}
  /\ WsInit /\ WkInit /\ FdInit /\ SvInit /\ CmInit /\ RsInit /\ LfInit
  /\ RdInit /\ OaInit /\ GsInit /\ GqInit /\ RlInit /\ CiInit
  /\ NewScenarioExecutor /\ (sysActive # "scenario" => scLoop)
  /\ RpInit  /\ (sysActive # "replay" => rp.kind = "session" /\ rp.mode = "pure" /\ ~rp.auto)
  /\ SseInit /\ (sysActive # "events" => sseCfg.disconnect)
  /\ CxInit  /\ (sysActive # "contexts" => cxSet.global = "" /\ cxSet.local = "")
  /\ LgInit  /\ (sysActive # "log" => lgReader = "stream")
  /\ KpInit  /\ (sysActive # "control" => kpFocus = {"ws"})
  /\ MpInit  /\ (sysActive # "mcp" => mpFocus = "http")
              /\ (mpFocus = "http" => \A u \in MpUrls : mpMocks[u] = {})
  /\ PxInit  /\ (sysActive # "proxy" => pxFocus = "ca")
  /\ GrInit  /\ (sysActive # "recordings" => grKind = "mqtt")
  /\ SaInit  /\ (sysActive # "tables" => saFocus = "race")
  /\ FmInit  /\ (sysActive # "forms" => <<"d">> \in DOMAIN fmForm)
  /\ HdInit  /\ (sysActive # "dispatch" => hdReq.large)
  /\ GxInit  /\ (sysActive # "graphql" => gxReq = MCInvalid)
  /\ MtInit  /\ (sysActive # "paths" => mtPattern = <<"/">> /\ mtPath = <<"/">>)

\* Only the active component takes steps
SysNext ==
  /\ UNCHANGED sysActive
  /\ sysActive # "sockets" => UNCHANGED wsVars
  /\ sysActive # "scenario" => UNCHANGED scVars
  /\ sysActive # "replay" => UNCHANGED rpVars
  /\ sysActive # "events" => UNCHANGED sseVars
  /\ sysActive # "workspaces" => UNCHANGED wkVars
  /\ sysActive # "folders" => UNCHANGED fdVars
  /\ sysActive # "servers" => UNCHANGED svVars
  /\ sysActive # "mocks" => UNCHANGED cmVars
  /\ sysActive # "contexts" => UNCHANGED cxVars
  /\ sysActive # "streams" => UNCHANGED rsVars
  /\ sysActive # "log" => UNCHANGED lgVars
  /\ sysActive # "follow" => UNCHANGED lfVars
  /\ sysActive # "control" => UNCHANGED kpVars
  /\ sysActive # "mcp" => UNCHANGED mpVars
  /\ sysActive # "proxy" => UNCHANGED pxVars
  /\ sysActive # "sessions" => UNCHANGED rdVars
  /\ sysActive # "recordings" => UNCHANGED grVars
  /\ sysActive # "paths" => UNCHANGED mtVars
  /\ sysActive # "dispatch" => UNCHANGED hdVars
  /\ sysActive # "oauth" => UNCHANGED oaVars
  /\ sysActive # "grpc" => UNCHANGED gsVars
  /\ sysActive # "graphql" => UNCHANGED gxVars
  /\ sysActive # "subscriptions" => UNCHANGED gqVars
  /\ sysActive # "rates" => UNCHANGED rlVars
  /\ sysActive # "chaos" => UNCHANGED ciVars
  /\ sysActive # "tables" => UNCHANGED saVars
  /\ sysActive # "forms" => UNCHANGED fmVars
  /\ \/ sysActive = "sockets" /\ WsNext
     \/ sysActive = "scenario" /\ ScNext
     \/ sysActive = "replay" /\ RpNext
     \/ sysActive = "events" /\ SseNext
     \/ sysActive = "workspaces" /\ WkNext
     \/ sysActive = "folders" /\ FdNext
     \/ sysActive = "servers" /\ SvNext
     \/ sysActive = "mocks" /\ CmNext
     \/ sysActive = "contexts" /\ CxNext
     \/ sysActive = "streams" /\ RsNext
     \/ sysActive = "log" /\ LgNext
     \/ sysActive = "follow" /\ LfNext
     \/ sysActive = "control" /\ KpNext
     \/ sysActive = "mcp" /\ MpNext
     \/ sysActive = "proxy" /\ PxNext
     \/ sysActive = "sessions" /\ RdNext
     \/ sysActive = "recordings" /\ GrNext
     \/ sysActive = "paths" /\ MtNext
     \/ sysActive = "dispatch" /\ HdNext
     \/ sysActive = "oauth" /\ OaNext
     \/ sysActive = "grpc" /\ GsNext
     \/ sysActive = "graphql" /\ GxNext
     \/ sysActive = "subscriptions" /\ GqNext
     \/ sysActive = "rates" /\ RlNext
     \/ sysActive = "chaos" /\ CiNext
     \/ sysActive = "tables" /\ SaNext
     \/ sysActive = "forms" /\ FmNext

SysSpec == SysInit /\ [][SysNext]_sysVars

-----------------------------------------------------------------------------
(* Properties: each is asked of a component where it is the active one *)

On(component, P) == sysActive = component => P

\* The state of every component has its type.
SysTypes ==
  /\ On("sockets", WsTypeOK) /\ On("scenario", ScTypeOK) /\ On("replay", RpTypeOK)
  /\ On("events", SseTypeOK) /\ On("workspaces", WkTypeOK) /\ On("servers", SvTypeOK)
  /\ On("mocks", CmTypeOK) /\ On("contexts", CxTypeOK) /\ On("streams", RsTypeOK)
  /\ On("log", LgTypeOK) /\ On("control", KpTypeOK) /\ On("mcp", MpTypeOK) /\ On("proxy", PxTypeOK)
  /\ On("sessions", RdTypeOK) /\ On("dispatch", HdTypeOK) /\ On("oauth", OaTypeOK)
  /\ On("grpc", GsTypeOK) /\ On("subscriptions", GqTypeOK) /\ On("rates", RlTypeOK)
  /\ On("chaos", CiTypeOK) /\ On("tables", SaTypeOK)








=============================================================================
