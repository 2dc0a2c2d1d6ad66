------------------------------- MODULE Tunnels -------------------------------
(***************************************************************************)
(* Tunnels, three machines.                                                *)
(*                                                                         *)
(* Tn: a TunnelManager (pkg/tunnel/manager.go) and the QUIC clients it     *)
(* makes (pkg/tunnel/quic/client.go): connecting, GOAWAY and the loop that *)
(* reconnects, relay disconnects, lost connections, Enable and Disable.    *)
(*                                                                         *)
(* Tb: one tunnelled stream of a client, from its header to the end of     *)
(* both copy directions, and the command `mockd tunnel` around it.         *)
(*                                                                         *)
(* Ta: the tunnel configurations the admin API keeps for its engines       *)
(* (pkg/admin/tunnel_handlers.go) and the CLI that asks for them.  The     *)
(* local engine's configuration is one object every request shares; a      *)
(* registered engine's is copied out of the registry.                      *)
(***************************************************************************)
EXTENDS Naturals, Sequences, FiniteSets

CONSTANTS
  TnClients,      \* bound: clients the manager makes
  TnDisturb,      \* bound: GOAWAYs and further Enables, together
  TnAttempts,     \* reconnection attempts (10)
  TbKinds,        \* stream types: "http", "raw", "grpc", "mqtt", "other"
  TaEngines,      \* registered engines
  TaSubs, TaDoms, \* subdomains and custom domains, "" among them
  TaExposes,      \* exposures [mode, include, types, exclude]; the last three are sets
  TaMocks,        \* mocks of the store [id, ws, folder, type]
  TaReqs, TaRounds

ASSUME TnAssumption == TnAttempts \in Nat \ {0} /\ "" \in TaSubs /\ "" \in TaDoms

VARIABLES
  tnMgr,          \* [client, running]; client 0 is nil
  tnClient,       \* client -> [at, closed, connected, conn, cancelled, loop]
  tnLoop,         \* goroutines of reconnectAfterGoaway: [at, attempt, client]
  tnStatus,       \* what OnStatusChange was told last
  tnLeft          \* disturbances left

tnVars == <<tnMgr, tnClient, tnLoop, tnStatus, tnLeft>>

TnNone == [at |-> "none", closed |-> FALSE, connected |-> FALSE, conn |-> FALSE,
           cancelled |-> FALSE, loop |-> 0]
TnIds == 1 .. TnClients

TnInit ==
  /\ tnMgr = [client |-> 0, running |-> FALSE] /\ tnClient = [c \in TnIds |-> TnNone]
  /\ tnLoop = <<>> /\ tnStatus = "disconnected" /\ tnLeft = TnDisturb

-----------------------------------------------------------------------------
(* The client *)

TnFree == CHOOSE c \in TnIds : tnClient[c].at = "none" /\ \A d \in 1 .. c - 1 : tnClient[d].at # "none"
TnRoom == \E c \in TnIds : tnClient[c].at = "none"

\* handleDisconnect tells the callback once
TnTold(c) == IF tnClient[c].connected THEN "disconnected" ELSE tnStatus

\* Close: before the dial has set c.conn there is nothing to close
TnClosed(x) == IF x.closed THEN x
               ELSE [x EXCEPT !.closed = TRUE, !.connected = FALSE, !.conn = FALSE]

\* connectAndRun is over, with or without an error to tell; a loop goes on
TnEnd(c, x, told) ==
  /\ tnClient' = [tnClient EXCEPT ![c] = [x EXCEPT !.at = "ended"]]
  /\ tnStatus' = told
  /\ tnLoop' = IF x.loop = 0 THEN tnLoop ELSE [tnLoop EXCEPT ![x.loop].at = "ran"]
  /\ UNCHANGED <<tnMgr, tnLeft>>

TnConnectFails(c) ==
  TnEnd(c, [tnClient[c] EXCEPT !.conn = FALSE], IF tnClient[c].cancelled THEN tnStatus ELSE "error")

TnGo(c, x) == tnClient' = [tnClient EXCEPT ![c] = x] /\ UNCHANGED <<tnMgr, tnLoop, tnStatus, tnLeft>>

TnDial(c) ==
  /\ tnClient[c].at = "dial"
  /\ \/ TnConnectFails(c)
     \/ TnGo(c, [tnClient[c] EXCEPT !.at = "open", !.conn = TRUE])

\* OpenStreamSync heeds the context
TnOpen(c) ==
  /\ tnClient[c].at = "open"
  /\ IF tnClient[c].cancelled \/ ~tnClient[c].conn THEN TnConnectFails(c)
     ELSE TnGo(c, [tnClient[c] EXCEPT !.at = "auth"])

TnAuth(c) ==
  /\ tnClient[c].at = "auth"
  /\ \/ TnConnectFails(c)
     \/ tnClient[c].conn /\ TnGo(c, [tnClient[c] EXCEPT !.at = "accepted"])

TnConnected(c) ==
  /\ tnClient[c].at = "accepted"
  /\ tnClient' = [tnClient EXCEPT ![c] = [@ EXCEPT !.at = "run", !.connected = TRUE]]
  /\ tnStatus' = "connected"
  /\ UNCHANGED <<tnMgr, tnLoop, tnLeft>>

\* Run leaves its loop: the context, a closed client, or a lost connection
TnRunEnds(c) ==
  LET x == tnClient[c] IN
  /\ x.at = "run"
  /\ \/ x.cancelled /\ TnEnd(c, x, tnStatus)
     \/ ~x.conn /\ x.closed /\ TnEnd(c, x, tnStatus)
     \/ ~x.closed /\ TnEnd(c, [x EXCEPT !.connected = FALSE, !.conn = FALSE], "error")

\* readControlStream
TnListens(c) == tnClient[c].at = "run" /\ tnClient[c].conn /\ tnClient[c].connected

handleGoaway(c) ==
  /\ TnListens(c) /\ tnLeft > 0 /\ tnLeft' = tnLeft - 1
  /\ tnLoop' = Append(tnLoop, [at |-> "begin", attempt |-> 1, client |-> 0])
  /\ UNCHANGED <<tnMgr, tnClient, tnStatus>>

\* The relay's disconnect message: the connection stays, and Run goes on
handleDisconnect(c) ==
  /\ TnListens(c)
  /\ tnClient' = [tnClient EXCEPT ![c].connected = FALSE]
  /\ tnStatus' = "disconnected"
  /\ UNCHANGED <<tnMgr, tnLoop, tnLeft>>

-----------------------------------------------------------------------------
(* The manager *)

\* Mutant: the client is closed, its context is not cancelled
stopCloses(f) == [f EXCEPT ![tnMgr.client] = TnClosed(@)]

\* stopLocked, of the clients
stopLocked(f) == [f EXCEPT ![tnMgr.client] = [TnClosed(@) EXCEPT !.cancelled = TRUE]]

TnStopped == IF tnMgr.client = 0 THEN tnClient ELSE stopLocked(tnClient)

TnFirst == \A c \in TnIds : tnClient[c].at = "none"
TnNew(loop) == [TnNone EXCEPT !.at = "dial", !.loop = loop]

Enable ==
  /\ TnRoom /\ (TnFirst \/ tnLeft > 0)
  /\ tnLeft' = IF TnFirst THEN tnLeft ELSE tnLeft - 1
  /\ tnClient' = [TnStopped EXCEPT ![TnFree] = TnNew(0)]
  /\ tnMgr' = [client |-> TnFree, running |-> TRUE]
  /\ tnStatus' = "connecting" /\ UNCHANGED tnLoop

\* Enable of a disabled configuration, Disable and Close
Disable ==
  /\ tnMgr.running
  /\ tnClient' = TnStopped
  /\ tnMgr' = [client |-> 0, running |-> FALSE]
  /\ tnStatus' = "disconnected" /\ UNCHANGED <<tnLoop, tnLeft>>

TnLoopTo(l, at) == tnLoop' = [tnLoop EXCEPT ![l].at = at]

reconnectAfterGoaway(l) ==
  /\ tnLoop[l].at = "begin"
  /\ TnLoopTo(l, IF tnMgr.running THEN "sleep" ELSE "done")
  /\ UNCHANGED <<tnMgr, tnClient, tnStatus, tnLeft>>

\* The manager's client is closed and replaced; the context of the old one is forgotten
TnReplace(l) ==
  /\ tnLoop[l].at = "sleep"
  /\ IF ~tnMgr.running
       THEN TnLoopTo(l, "done") /\ UNCHANGED <<tnMgr, tnClient, tnStatus>>
       ELSE /\ TnRoom
            /\ tnClient' = [tnClient EXCEPT ![tnMgr.client] = TnClosed(@),
                                            ![TnFree] = [TnNew(l) EXCEPT !.at = "wait"]]
            /\ tnStatus' = TnTold(tnMgr.client)
            /\ tnMgr' = [tnMgr EXCEPT !.client = TnFree]
            /\ tnLoop' = [tnLoop EXCEPT ![l].at = "notify", ![l].client = TnFree]
  /\ UNCHANGED tnLeft

TnReconnect(l) ==
  /\ tnLoop[l].at = "notify"
  /\ tnStatus' = "connecting" /\ TnLoopTo(l, "run")
  /\ tnClient' = [tnClient EXCEPT ![tnLoop[l].client].at = "dial"]
  /\ UNCHANGED <<tnMgr, tnLeft>>

TnRetry(l) ==
  /\ tnLoop[l].at = "ran"
  /\ IF tnMgr.running /\ tnLoop[l].attempt < TnAttempts
       THEN tnLoop' = [tnLoop EXCEPT ![l].at = "sleep", ![l].attempt = @ + 1]
       ELSE TnLoopTo(l, "done")
  /\ tnStatus' = IF tnMgr.running /\ tnLoop[l].attempt = TnAttempts THEN "error" ELSE tnStatus
  /\ UNCHANGED <<tnMgr, tnClient, tnLeft>>

TnNext ==
  \/ Enable \/ Disable
  \/ \E c \in TnIds : \/ TnDial(c) \/ TnOpen(c) \/ TnAuth(c) \/ TnConnected(c) \/ TnRunEnds(c)
                      \/ handleGoaway(c) \/ handleDisconnect(c)
  \/ \E l \in DOMAIN tnLoop : reconnectAfterGoaway(l) \/ TnReplace(l) \/ TnReconnect(l) \/ TnRetry(l)

-----------------------------------------------------------------------------
(* Properties of the manager *)

\* A client that accepts streams of the relay
TnServes(c) == tnClient[c].at = "run" /\ tnClient[c].conn /\ ~tnClient[c].cancelled

\* No client but the manager's own, while it is running, accepts streams, whatever was
\* connecting when stopLocked or a reconnection replaced it.
TnOnlyItsClient == \A c \in TnIds : TnServes(c) => tnMgr.running /\ tnMgr.client = c

-----------------------------------------------------------------------------
(* A stream and the command around it *)

VARIABLES
  tbCmd,      \* `mockd tunnel`: [at, server, admin, client]
  tbS,        \* the stream: [kind, at, write]; write is our side of it
  tbRelay,    \* the relay's side of the stream: "open", "fin", "reset"
  tbConn,     \* our connection to the local service: "none", "open", "half", "closed"
  tbLocal,    \* the local service's side of it: "open", "closed"
  tbCopies,   \* copy directions that ended
  tbCount     \* requests counted

tbVars == <<tbCmd, tbS, tbRelay, tbConn, tbLocal, tbCopies, tbCount>>

TbInit ==
  /\ tbCmd = [at |-> "check", server |-> FALSE, admin |-> FALSE, client |-> FALSE]
  /\ tbS = [kind |-> "none", at |-> "idle", write |-> "open"] /\ tbRelay = "open"
  /\ tbConn = "none" /\ tbLocal = "open" /\ tbCopies = {} /\ tbCount = 0

tbIO == <<tbRelay, tbConn, tbLocal, tbCopies, tbCount>>
TbTo(at) == tbS' = [tbS EXCEPT !.at = at] /\ UNCHANGED <<tbCmd, tbIO>>

\* The stream's write side is closed, our local connection with it if there is one
TbFinish(counted) ==
  /\ tbS' = [tbS EXCEPT !.at = "done", !.write = "closed"]
  /\ tbConn' = IF tbConn = "none" THEN "none" ELSE "closed"
  /\ tbCount' = IF counted THEN tbCount + 1 ELSE tbCount
  /\ UNCHANGED <<tbCmd, tbRelay, tbLocal, tbCopies>>

TbAccept ==
  /\ tbCmd.client /\ tbS.at = "idle"
  /\ \E k \in TbKinds : tbS' = [tbS EXCEPT !.kind = k, !.at = "header"]
  /\ UNCHANGED <<tbCmd, tbIO>>

\* A header or metadata that does not decode, and a half-duplex stream that is not HTTP
handleStream ==
  /\ tbS.at = "header"
  /\ \/ TbFinish(FALSE)
     \/ tbS.kind = "http" /\ TbTo("serve")
     \/ tbS.kind \in {"raw", "grpc", "mqtt"} /\ TbTo("bidir")

\* The handler answers in the stream, also when it wrote no header
TbServe == tbS.at = "serve" /\ TbFinish(TRUE)

handleBidirectionalStream ==
  /\ tbS.at = "bidir"
  /\ TbFinish(FALSE) \/ TbTo(IF tbS.kind = "grpc" THEN "call" ELSE "dial")

\* An MQTT stream needs a port for its broker, or the default one
TbDial ==
  /\ tbS.at = "dial"
  /\ \/ TbFinish(FALSE)
     \/ /\ tbConn' = "open"
        /\ tbS' = [tbS EXCEPT !.at = IF @ = "dial" /\ tbS.kind = "mqtt" THEN "meta" ELSE "request"]
        /\ UNCHANGED <<tbCmd, tbRelay, tbLocal, tbCopies, tbCount>>

\* The request is written raw, and the response head read
handleRawBidirectionalStream ==
  /\ tbS.at = "request"
  /\ TbFinish(FALSE) \/ (tbLocal = "open" /\ TbTo("meta"))

\* Mutant: only the stream is closed
MetaLeaks ==
  /\ tbS.at = "meta"
  /\ \/ /\ tbS' = [tbS EXCEPT !.at = "done", !.write = "closed"] /\ UNCHANGED <<tbCmd, tbIO>>
     \/ TbTo("bridge")

sendBidirResponseMeta ==
  /\ tbS.at = "meta"
  /\ TbFinish(FALSE) \/ TbTo("bridge")

\* Mutant: the local service is not told
CopyInOpen ==
  /\ tbS.at = "bridge" /\ "in" \notin tbCopies /\ (tbRelay # "open" \/ tbLocal = "closed")
  /\ tbCopies' = tbCopies \cup {"in"}
  /\ UNCHANGED <<tbCmd, tbS, tbRelay, tbLocal, tbCount, tbConn>>

\* bridgeRawBidir: relay to local, then CloseWrite
TbCopyIn ==
  /\ tbS.at = "bridge" /\ "in" \notin tbCopies /\ (tbRelay # "open" \/ tbLocal = "closed")
  /\ tbCopies' = tbCopies \cup {"in"} /\ tbConn' = "half"
  /\ UNCHANGED <<tbCmd, tbS, tbRelay, tbLocal, tbCount>>

\* local to relay, then the stream's write side is closed
TbCopyOut ==
  /\ tbS.at = "bridge" /\ "out" \notin tbCopies /\ (tbLocal = "closed" \/ tbRelay = "reset")
  /\ tbCopies' = tbCopies \cup {"out"} /\ tbS' = [tbS EXCEPT !.write = "closed"]
  /\ UNCHANGED <<tbCmd, tbRelay, tbConn, tbLocal, tbCount>>

bridgeRawBidir == tbS.at = "bridge" /\ tbCopies = {"in", "out"} /\ TbFinish(TRUE)

\* The call of the local gRPC service; then header, chunks, sentinel and trailers
handleGRPCStream ==
  \/ tbS.at = "call" /\ (TbFinish(FALSE) \/ TbTo("chunks"))
  \/ tbS.at = "chunks" /\ (TbFinish(FALSE) \/ TbFinish(TRUE))

\* The peers: the relay ends or resets the stream, the local service closes,
\* as it does when it reads our end of the connection
TbPeers ==
  /\ \/ /\ tbS.at # "idle" /\ tbRelay = "open" /\ tbRelay' \in {"fin", "reset"} /\ UNCHANGED tbLocal
     \/ /\ tbConn \in {"open", "half"} /\ tbLocal' = "closed" /\ UNCHANGED tbRelay
  /\ UNCHANGED <<tbCmd, tbS, tbConn, tbCopies, tbCount>>

TbCmd(c) == tbCmd' = c /\ UNCHANGED <<tbS, tbIO>>
TbExit(c) == TbCmd([c EXCEPT !.at = "exit"])

\* Ports, configuration file and the server
TbStart ==
  /\ tbCmd.at = "check"
  /\ TbExit(tbCmd) \/ TbCmd([tbCmd EXCEPT !.at = "admin", !.server = TRUE])

TbAdmin ==
  /\ tbCmd.at = "admin"
  /\ \/ TbExit([tbCmd EXCEPT !.server = FALSE])
     \/ TbCmd([tbCmd EXCEPT !.at = "token", !.admin = TRUE])

\* Mutant: the admin API is forgotten
TokenLeaks ==
  /\ tbCmd.at = "token"
  /\ \/ TbExit([tbCmd EXCEPT !.server = FALSE])
     \/ TbCmd([tbCmd EXCEPT !.at = "connect"])

\* The anonymous token and the --auth flags
TbToken ==
  /\ tbCmd.at = "token"
  /\ \/ TbExit([tbCmd EXCEPT !.server = FALSE, !.admin = FALSE])
     \/ TbCmd([tbCmd EXCEPT !.at = "connect"])

TbConnect ==
  /\ tbCmd.at = "connect"
  /\ \/ TbExit([tbCmd EXCEPT !.server = FALSE, !.admin = FALSE])
     \/ TbCmd([tbCmd EXCEPT !.at = "wait", !.client = TRUE])

\* A signal, or the end of Run; everything is stopped in turn
TbShutdown ==
  \/ tbCmd.at = "wait" /\ TbCmd([tbCmd EXCEPT !.at = "stop", !.client = FALSE])
  \/ tbCmd.at = "stop" /\ TbExit([tbCmd EXCEPT !.server = FALSE, !.admin = FALSE])

\* A step of the stream's own goroutine
TbHandler ==
  \/ handleStream \/ TbServe \/ handleBidirectionalStream \/ TbDial \/ handleRawBidirectionalStream
  \/ sendBidirResponseMeta \/ bridgeRawBidir \/ handleGRPCStream

TbNext ==
  \/ TbAccept \/ TbHandler \/ TbCopyIn \/ TbCopyOut \/ TbPeers
  \/ TbStart \/ TbAdmin \/ TbToken \/ TbConnect \/ TbShutdown

\* Every way out of a stream handler and of `mockd tunnel` releases what it had opened:
\* the stream and the connection to the local service, the admin API and the server.
TbReleased ==
  /\ tbS.at = "done" => tbS.write = "closed" /\ tbConn \in {"none", "closed"}
  /\ tbCmd.at = "exit" => ~tbCmd.server /\ ~tbCmd.admin /\ ~tbCmd.client

\* A stream the relay has ended is given up: bridgeRawBidir waits for both directions,
\* and CloseWrite is what ends the second one.
TbEnds == tbRelay # "open" ~> tbS.at = "done"

-----------------------------------------------------------------------------
(* The admin API's tunnel configurations *)

VARIABLES
  taObj,      \* configuration objects of the local engine
  taLocal,    \* the one localTunnel points to, 0 for nil
  taReg,      \* the registry: engine -> configuration, "nil" or "absent"
  taReq,      \* request -> [at, engine, cfg, obj]
  taSeen,     \* mocks reported by the last status or preview
  taLeft      \* requests left

taVars == <<taObj, taLocal, taReg, taReq, taSeen, taLeft>>

TaIdle == [at |-> "idle"]

TaInit ==
  /\ taObj = <<>> /\ taLocal = 0 /\ taReg = [e \in TaEngines |-> [kind |-> "nil"]]
  /\ taReq = [r \in TaReqs |-> TaIdle] /\ taSeen = {} /\ taLeft = TaRounds

TaUrl(sub, dom) == IF dom # "" THEN dom ELSE sub

previewExposedMocks(e) ==
  {m \in TaMocks : /\ e.mode # "none"
                   /\ e.mode = "selected" => ({m.ws, m.folder, m.id} \cap e.include # {} \/ m.type \in e.types)
                   /\ {m.ws, m.folder, m.id} \cap e.exclude = {}}

\* The engine a command names; without a name every outcome of the listing comes
\* to the local one
resolveEngineID(named) == IF named # "" THEN named ELSE "local"

TaAsk == taLeft > 0 /\ taLeft' = taLeft - 1
TaStore(e, x) == taReg' = [taReg EXCEPT ![e] = x] /\ UNCHANGED <<taObj, taLocal>>

\* The generated subdomain stands in for two empty names
TaConfig(e, sub, dom, expose) ==
  LET s == IF sub = "" /\ dom = "" THEN "gen" ELSE sub IN
  [kind |-> "config", sub |-> s, dom |-> dom, url |-> TaUrl(s, dom), expose |-> expose]

handleEnableTunnel(e) ==
  \E sub \in TaSubs, dom \in TaDoms, expose \in TaExposes :
    LET cfg == TaConfig(e, sub, dom, expose) IN
    /\ IF e = "local"
         THEN taObj' = Append(taObj, cfg) /\ taLocal' = Len(taObj) + 1 /\ UNCHANGED taReg
         ELSE taReg[e].kind # "absent" /\ TaStore(e, cfg)
    /\ TaAsk /\ UNCHANGED <<taReq, taSeen>>

handleDisableTunnel(e) ==
  /\ IF e = "local" THEN taLocal' = 0 /\ UNCHANGED <<taObj, taReg>>
     ELSE taReg[e].kind # "absent" /\ TaStore(e, [kind |-> "nil"])
  /\ TaAsk /\ UNCHANGED <<taReq, taSeen>>

\* `mockd tunnel enable` and `disable` (or `stop`)
tunnelEnableCmd == \E n \in TaEngines \cup {""} : handleEnableTunnel(resolveEngineID(n))
tunnelDisableCmd == \E n \in TaEngines \cup {""} : handleDisableTunnel(resolveEngineID(n))

\* handleUpdateTunnelConfig reads the object, or a copy, before its body
handleUpdateTunnelConfig(r, e) ==
  /\ taReq[r].at = "idle"
  /\ IF e = "local" THEN taLocal # 0 ELSE taReg[e].kind = "config"
  /\ taReq' = [taReq EXCEPT ![r] = [at |-> "read", engine |-> e,
                  obj |-> IF e = "local" THEN taLocal ELSE 0,
                  cfg |-> IF e = "local" THEN taObj[taLocal] ELSE taReg[e]]]
  /\ TaAsk /\ UNCHANGED <<taObj, taLocal, taReg, taSeen>>

\* The fields of a request: "-" is a field that is not given
TaBodies == [sub : TaSubs \cup {"-"}, dom : TaDoms \cup {"-"}]


\* The updated configuration, and whether the update is accepted; what was
\* assigned before a refusal stays assigned
TaApplied(cfg, b) ==
  LET refuse == b.sub = "" /\ cfg.dom = "" /\ b.dom \in {"-", ""}
      c1 == IF b.sub = "-" \/ refuse THEN cfg
            ELSE [cfg EXCEPT !.sub = b.sub, !.url = IF cfg.dom = "" /\ b.sub # "" THEN b.sub ELSE @]
      c2 == IF b.dom = "-" \/ refuse THEN c1
            ELSE [c1 EXCEPT !.dom = b.dom, !.url = IF b.dom # "" THEN b.dom ELSE IF c1.sub # "" THEN c1.sub ELSE @] IN
  [ok |-> ~refuse /\ ~(b.dom = "" /\ c1.sub = ""), cfg |-> c2]

\* The local engine's object is changed in place, under nobody's lock
TaUpdate(r) ==
  /\ taReq[r].at = "read"
  /\ \E b \in TaBodies :
       LET old == IF taReq[r].obj = 0 THEN taReq[r].cfg ELSE taObj[taReq[r].obj]
           u == TaApplied(old, b) IN
       /\ taObj' = IF taReq[r].obj = 0 THEN taObj ELSE [taObj EXCEPT ![taReq[r].obj] = u.cfg]
       /\ taReq' = [taReq EXCEPT ![r] = IF u.ok THEN [@ EXCEPT !.at = "store", !.cfg = u.cfg] ELSE TaIdle]
  /\ UNCHANGED <<taLocal, taReg, taSeen, taLeft>>

\* The configuration is stored even if the tunnel was disabled meanwhile
TaSave(r) ==
  /\ taReq[r].at = "store"
  /\ \/ taReq[r].obj # 0 /\ taLocal' = taReq[r].obj /\ UNCHANGED <<taObj, taReg>>
     \/ taReq[r].obj = 0 /\ taReg[taReq[r].engine].kind = "absent" /\ UNCHANGED <<taObj, taLocal, taReg>>
     \/ taReq[r].obj = 0 /\ taReg[taReq[r].engine].kind # "absent" /\ TaStore(taReq[r].engine, taReq[r].cfg)
  /\ taReq' = [taReq EXCEPT ![r] = TaIdle] /\ UNCHANGED <<taSeen, taLeft>>

TaCurrent(e) == IF e = "local" THEN (IF taLocal = 0 THEN [kind |-> "nil"] ELSE taObj[taLocal]) ELSE taReg[e]

handleGetTunnelStatus(e) ==
  /\ TaCurrent(e).kind # "absent"
  /\ taSeen' = IF TaCurrent(e).kind = "nil" THEN {} ELSE previewExposedMocks(TaCurrent(e).expose)
  /\ UNCHANGED <<taObj, taLocal, taReg, taReq, taLeft>>

handleTunnelPreview ==
  /\ \E e \in TaExposes : taSeen' = previewExposedMocks(e)
  /\ UNCHANGED <<taObj, taLocal, taReg, taReq, taLeft>>

tunnelStatusCmd == \E n \in TaEngines \cup {""} : handleGetTunnelStatus(resolveEngineID(n))
tunnelPreviewCmd == handleTunnelPreview

\* The engine is deregistered
TaGone(e) ==
  /\ taReg[e].kind # "absent" /\ TaStore(e, [kind |-> "absent"])
  /\ UNCHANGED <<taReq, taSeen, taLeft>>

TaNext ==
  \/ tunnelEnableCmd \/ tunnelDisableCmd \/ tunnelStatusCmd \/ tunnelPreviewCmd
  \/ \E r \in TaReqs : TaUpdate(r) \/ TaSave(r)
  \/ \E r \in TaReqs, e \in TaEngines \cup {"local"} : handleUpdateTunnelConfig(r, e)
  \/ \E e \in TaEngines : TaGone(e)

\* The public URL of a registered engine's tunnel is the one its names say: the custom
\* domain or, without one, the subdomain, and never neither, however updates interleave.
TaUrlTrue ==
  \A e \in TaEngines : taReg[e].kind = "config" =>
    /\ taReg[e].url = TaUrl(taReg[e].sub, taReg[e].dom)
    /\ taReg[e].url # ""

\* Types; the manager has a client exactly while it runs.
TnTypeOK ==
  /\ tnMgr.running <=> tnMgr.client # 0
  /\ \A c \in TnIds : tnClient[c].at = "none" => tnClient[c] = TnNone
  /\ \A l \in DOMAIN tnLoop : tnLoop[l].attempt \in 1 .. TnAttempts
  /\ tnStatus \in {"disconnected", "connecting", "connected", "error"}
  /\ tbConn \in {"none", "open", "half", "closed"} /\ tbCopies \subseteq {"in", "out"} /\ tbCount \in {0, 1}
  /\ taLocal \in 0 .. Len(taObj) /\ taSeen \subseteq TaMocks

=============================================================================
