---------------------------- MODULE WebSocketHub ----------------------------
(***************************************************************************)
(* WebSocket connections of one path (pkg/websocket): the upgrade, the     *)
(* goroutine of each connection, the endpoint's and the manager's tables,  *)
(* groups, closes by heartbeat, idle timeout and the admin API, and the    *)
(* exchange of the endpoint when its mock is updated or deleted.           *)
(*                                                                         *)
(* The manager's, the endpoint's and a connection's mutex are separate     *)
(* locks: an operation that takes two of them takes two steps.  Messages   *)
(* have no contents; the recording hook of a connection is what shows in   *)
(* which order frames and the close arrive.                                *)
(***************************************************************************)
EXTENDS Naturals, FiniteSets

CONSTANTS
  WsConns,       \* connections clients may open
  WsMax,         \* maxConnections of the endpoint, 0 = unlimited
  WsGroups,      \* group names
  WsMaxGroups,   \* MaxGroupsPerConnection
  WsEpochs       \* bound: endpoints registered on the path, one after the other

VARIABLES
  wsConn,          \* connection -> its state
  wsEndpoint,      \* m.endpoints[path]: the number of the endpoint, 0 = none
  wsAccepted,      \* endpoint -> its connections
  wsConnections,   \* m.connections
  wsByEndpoint,    \* m.byEndpoint[path]
  wsByGroup,       \* m.byGroup
  wsCall,          \* a group operation between its two locks
  wsAdmin          \* an update or delete of the mock, and whom it still has to close

wsTables == <<wsEndpoint, wsAccepted, wsConnections, wsByEndpoint>>
wsVars == <<wsConn, wsTables, wsByGroup, wsCall, wsAdmin>>

WsNew == [pc |-> "new", ep |-> 0, closed |-> FALSE, groups |-> {}, hook |-> "none",
          sending |-> FALSE, late |-> FALSE]
WsIdle == [op |-> "none", conn |-> {}, group |-> {}]

WsInit ==
  /\ wsConn = [c \in WsConns |-> WsNew]
  /\ wsEndpoint = 1 /\ wsAccepted = [e \in 1 .. WsEpochs |-> {}]
  /\ wsConnections = {} /\ wsByEndpoint = {}
  /\ wsByGroup = [g \in WsGroups |-> {}]
  /\ wsCall = WsIdle /\ wsAdmin = [pc |-> "idle", ids |-> {}]

-----------------------------------------------------------------------------
(* Upgrade *)

\* WebSocketHandler finds the endpoint, HandleUpgrade negotiates and accepts
WsServeHTTP(c) ==
  /\ wsConn[c].pc = "new" /\ wsEndpoint # 0
  /\ wsConn' = [wsConn EXCEPT ![c].pc = "upgrade", ![c].ep = wsEndpoint]
  /\ UNCHANGED <<wsTables, wsByGroup, wsCall, wsAdmin>>

WsTryAccept(c) ==
  LET e == wsConn[c].ep IN
  /\ wsConn[c].pc = "upgrade"
  /\ IF WsMax > 0 /\ Cardinality(wsAccepted[e]) >= WsMax
       THEN wsConn' = [wsConn EXCEPT ![c].pc = "gone", ![c].closed = TRUE] /\ UNCHANGED wsAccepted
       ELSE /\ wsConn' = [wsConn EXCEPT ![c].pc = "accepted"]
            /\ wsAccepted' = [wsAccepted EXCEPT ![e] = @ \cup {c}]
  /\ UNCHANGED <<wsEndpoint, wsConnections, wsByEndpoint, wsByGroup, wsCall, wsAdmin>>

\* manager.Add, then the recording hook is attached and the goroutine started
WsAdd(c) ==
  /\ wsConn[c].pc = "accepted"
  /\ wsConn' = [wsConn EXCEPT ![c].pc = "live", ![c].hook = "on"]
  /\ wsConnections' = wsConnections \cup {c} /\ wsByEndpoint' = wsByEndpoint \cup {c}
  /\ UNCHANGED <<wsEndpoint, wsAccepted, wsByGroup, wsCall, wsAdmin>>

-----------------------------------------------------------------------------
(* A connection *)

\* Mutant: Close does not wait for the senders
WsCloseUnlocked(c) ==
  /\ ~wsConn[c].closed
  /\ wsConn' = [wsConn EXCEPT ![c].closed = TRUE,
                              ![c].hook = IF @ = "on" THEN "complete" ELSE @]

\* Close: under sendMu, which the senders share; the context is cancelled and the
\* recording completed
WsClose(c) ==
  /\ ~wsConn[c].closed /\ ~wsConn[c].sending
  /\ wsConn' = [wsConn EXCEPT ![c].closed = TRUE,
                              ![c].hook = IF @ = "on" THEN "complete" ELSE @]

\* Send takes sendMu for reading and looks whether the connection is closed ...
WsSend(c) ==
  /\ c \in wsConnections /\ ~wsConn[c].closed /\ ~wsConn[c].sending
  /\ wsConn' = [wsConn EXCEPT ![c].sending = TRUE]
  /\ UNCHANGED <<wsTables, wsByGroup, wsCall, wsAdmin>>

\* ... writes, and shows the frame to the hook
WsSent(c) ==
  /\ wsConn[c].sending
  /\ wsConn' = [wsConn EXCEPT ![c].sending = FALSE,
                              ![c].late = @ \/ wsConn[c].hook = "complete"]
  /\ UNCHANGED <<wsTables, wsByGroup, wsCall, wsAdmin>>

\* Read fails: the client is gone, or the context is cancelled
WsReadFails(c) ==
  /\ wsConn[c].pc = "live"
  /\ wsConn' = [wsConn EXCEPT ![c].pc = "leaving"]
  /\ UNCHANGED <<wsTables, wsByGroup, wsCall, wsAdmin>>

\* The deferred function of handleConnection: the endpoint forgets the connection ...
WsRemoveConnection(c) ==
  /\ wsConn[c].pc = "leaving"
  /\ wsConn' = [wsConn EXCEPT ![c].pc = "left"]
  /\ wsAccepted' = [wsAccepted EXCEPT ![wsConn[c].ep] = @ \ {c}]
  /\ UNCHANGED <<wsEndpoint, wsConnections, wsByEndpoint, wsByGroup, wsCall, wsAdmin>>

\* Mutant: the path keeps the connection
WsRemoveKeepsPath(c) ==
  /\ wsConn[c].pc = "left"
  /\ wsConn' = [wsConn EXCEPT ![c].pc = "closing"]
  /\ wsByGroup' = [g \in WsGroups |-> IF c \in wsConnections /\ g \in wsConn[c].groups
                                        THEN wsByGroup[g] \ {c} ELSE wsByGroup[g]]
  /\ wsConnections' = wsConnections \ {c} /\ UNCHANGED wsByEndpoint
  /\ UNCHANGED <<wsEndpoint, wsAccepted, wsCall, wsAdmin>>

\* ... the manager, from the groups that the connection says it is in ...
WsRemove(c) ==
  /\ wsConn[c].pc = "left"
  /\ wsConn' = [wsConn EXCEPT ![c].pc = "closing"]
  /\ wsByGroup' = [g \in WsGroups |-> IF c \in wsConnections /\ g \in wsConn[c].groups
                                        THEN wsByGroup[g] \ {c} ELSE wsByGroup[g]]
  /\ wsConnections' = wsConnections \ {c} /\ wsByEndpoint' = wsByEndpoint \ {c}
  /\ UNCHANGED <<wsEndpoint, wsAccepted, wsCall, wsAdmin>>

\* ... and CloseNormal ends it, unless it is closed already
WsCloseNormal(c) ==
  /\ wsConn[c].pc = "closing" /\ ~wsConn[c].sending
  /\ wsConn' = [wsConn EXCEPT ![c].pc = "gone", ![c].closed = TRUE,
                              ![c].hook = IF @ = "on" THEN "complete" ELSE @]
  /\ UNCHANGED <<wsTables, wsByGroup, wsCall, wsAdmin>>

\* runHeartbeat: no pong in time
WsPingTimeout(c) ==
  wsConn[c].pc = "live" /\ WsClose(c) /\ UNCHANGED <<wsTables, wsByGroup, wsCall, wsAdmin>>

\* DisconnectByID: the admin API closes a connection that the manager has
WsDisconnectByID(c) ==
  c \in wsConnections /\ WsClose(c) /\ UNCHANGED <<wsTables, wsByGroup, wsCall, wsAdmin>>

-----------------------------------------------------------------------------
(* Groups *)

WsPend(op, c, g) == wsCall' = [op |-> op, conn |-> {c}, group |-> {g}]
WsPending(op, c, g) == wsCall = [op |-> op, conn |-> {c}, group |-> {g}]

\* Through the manager: its table first, the connection's set second, unlimited
WsManagerJoin(c, g) ==
  /\ wsCall = WsIdle /\ c \in wsConnections /\ c \notin wsByGroup[g]
  /\ wsByGroup' = [wsByGroup EXCEPT ![g] = @ \cup {c}]
  /\ WsPend("join", c, g)
  /\ UNCHANGED <<wsConn, wsTables, wsAdmin>>

WsManagerLeave(c, g) ==
  /\ wsCall = WsIdle /\ c \in wsConnections /\ c \in wsByGroup[g]
  /\ wsByGroup' = [wsByGroup EXCEPT ![g] = @ \ {c}]
  /\ WsPend("leave", c, g)
  /\ UNCHANGED <<wsConn, wsTables, wsAdmin>>

WsManagerSecond(c, g) ==
  /\ \/ WsPending("join", c, g) /\ wsConn' = [wsConn EXCEPT ![c].groups = @ \cup {g}]
     \/ WsPending("leave", c, g) /\ wsConn' = [wsConn EXCEPT ![c].groups = @ \ {g}]
  /\ wsCall' = WsIdle
  /\ UNCHANGED <<wsTables, wsByGroup, wsAdmin>>

\* Through the connection: its set first, the manager's table second
WsConnJoin(c, g) ==
  /\ wsCall = WsIdle /\ wsConn[c].pc = "live" /\ g \notin wsConn[c].groups
  /\ Cardinality(wsConn[c].groups) < WsMaxGroups
  /\ wsConn' = [wsConn EXCEPT ![c].groups = @ \cup {g}]
  /\ WsPend("addToGroup", c, g)
  /\ UNCHANGED <<wsTables, wsByGroup, wsAdmin>>

WsConnLeave(c, g) ==
  /\ wsCall = WsIdle /\ wsConn[c].pc = "live" /\ g \in wsConn[c].groups
  /\ wsConn' = [wsConn EXCEPT ![c].groups = @ \ {g}]
  /\ WsPend("removeFromGroup", c, g)
  /\ UNCHANGED <<wsTables, wsByGroup, wsAdmin>>

WsAddToGroup(c, g) ==
  /\ WsPending("addToGroup", c, g)
  /\ wsByGroup' = [wsByGroup EXCEPT ![g] = @ \cup {c}]
  /\ wsCall' = WsIdle
  /\ UNCHANGED <<wsConn, wsTables, wsAdmin>>

WsRemoveFromGroup(c, g) ==
  /\ WsPending("removeFromGroup", c, g)
  /\ wsByGroup' = [wsByGroup EXCEPT ![g] = @ \ {c}]
  /\ wsCall' = WsIdle
  /\ UNCHANGED <<wsConn, wsTables, wsAdmin>>

-----------------------------------------------------------------------------
(* Exchange of the endpoint *)

\* DisconnectByEndpoint: the connections are listed, then closed one by one
WsDisconnectByEndpoint ==
  /\ wsAdmin.pc = "idle" /\ wsEndpoint # 0
  /\ wsAdmin' = [pc |-> "close", ids |-> wsByEndpoint]
  /\ UNCHANGED <<wsConn, wsTables, wsByGroup, wsCall>>

WsDisconnectNext ==
  \E c \in wsAdmin.ids :
    /\ wsAdmin.pc = "close"
    /\ \/ c \in wsConnections /\ WsClose(c)
       \/ (c \notin wsConnections \/ wsConn[c].closed) /\ UNCHANGED wsConn
    /\ wsAdmin' = [wsAdmin EXCEPT !.ids = @ \ {c}]
    /\ UNCHANGED <<wsTables, wsByGroup, wsCall>>

\* The path keeps its set of connections
WsUnregisterEndpoint ==
  /\ wsAdmin.pc = "close" /\ wsAdmin.ids = {}
  /\ wsAdmin' = [wsAdmin EXCEPT !.pc = "unregistered"] /\ wsEndpoint' = 0
  /\ UNCHANGED <<wsConn, wsAccepted, wsConnections, wsByEndpoint, wsByGroup, wsCall>>

\* An update registers a new endpoint, with no connections of its own
WsRegisterEndpoint ==
  \E e \in 1 .. WsEpochs :
    /\ wsAdmin.pc = "unregistered" /\ \A d \in e .. WsEpochs : \A c \in WsConns : wsConn[c].ep # d
    /\ wsEndpoint' = e /\ wsAdmin' = [wsAdmin EXCEPT !.pc = "idle"]
    /\ UNCHANGED <<wsConn, wsAccepted, wsConnections, wsByEndpoint, wsByGroup, wsCall>>

WsNext ==
  \/ \E c \in WsConns :
       \/ WsServeHTTP(c) \/ WsTryAccept(c) \/ WsAdd(c) \/ WsSend(c) \/ WsSent(c)
       \/ WsReadFails(c) \/ WsRemoveConnection(c) \/ WsRemove(c) \/ WsCloseNormal(c)
       \/ WsPingTimeout(c) \/ WsDisconnectByID(c)
       \/ \E g \in WsGroups :
            \/ WsManagerJoin(c, g) \/ WsManagerLeave(c, g) \/ WsManagerSecond(c, g)
            \/ WsConnJoin(c, g) \/ WsConnLeave(c, g) \/ WsAddToGroup(c, g) \/ WsRemoveFromGroup(c, g)
  \/ WsDisconnectByEndpoint \/ WsDisconnectNext \/ WsUnregisterEndpoint \/ WsRegisterEndpoint

-----------------------------------------------------------------------------
(* Properties *)

\* Connections and tables have their types.
WsTypeOK ==
  /\ \A c \in WsConns :
       /\ wsConn[c].pc \in {"new", "upgrade", "accepted", "live", "leaving", "left", "closing", "gone"}
       /\ wsConn[c].groups \subseteq WsGroups /\ wsConn[c].hook \in {"none", "on", "complete"}
  /\ wsEndpoint \in 0 .. WsEpochs
  /\ \A e \in 1 .. WsEpochs : wsAccepted[e] \subseteq WsConns
  /\ wsConnections \subseteq WsConns /\ wsByEndpoint \subseteq WsConns
  /\ \A g \in WsGroups : wsByGroup[g] \subseteq WsConns

\* A frame that was sent is in the recording before the recording is completed,
\* however a Send races the Close of its connection.
WsFramesBeforeClose == \A c \in WsConns : ~wsConn[c].late

\* A connection whose goroutine has ended is in no table, whoever closed it and
\* whatever happened to its endpoint: the endpoint's limit counts live ones only.
WsGoneForgotten ==
  \A c \in WsConns : wsConn[c].pc = "gone" =>
    /\ c \notin wsConnections \cup wsByEndpoint
    /\ \A e \in 1 .. WsEpochs : c \notin wsAccepted[e]

=============================================================================
