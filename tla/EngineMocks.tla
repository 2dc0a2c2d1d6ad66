----------------------------- MODULE EngineMocks -----------------------------
(***************************************************************************)
(* The mocks of one engine: the mock manager (pkg/engine/mock_manager.go)  *)
(* with the protocol servers and route handlers it starts and stops, and   *)
(* the engine API's handlers on top of it (pkg/engine/api/handlers.go).    *)
(* Every operation is one critical section of mm.mu, or a check followed   *)
(* by one that repeats it, so it is an operator on the engine's state.     *)
(*                                                                         *)
(* A configuration is [ver, on, at]: who wrote it, its enabled flag, and   *)
(* the address it needs: nothing (plain HTTP, found through the store), a  *)
(* port of its own (gRPC, MQTT), or a route (WebSocket, GraphQL, SOAP,     *)
(* OAuth).  An operation yields the engine and the answer.                 *)
(***************************************************************************)
EXTENDS Naturals

CONSTANTS
  NMocks,     \* bound: mock IDs
  Ports,      \* ports of gRPC servers and MQTT brokers
  Routes,     \* paths of WebSocket, GraphQL, SOAP and OAuth handlers
  Vers,       \* versions of a configuration
  Plain,      \* no address: a plain HTTP mock
  NoMock      \* no mock under this ID

MockIDs == 1 .. NMocks

Addresses == Ports \cup Routes \cup {Plain}

FleetConfig == [ver : Vers, on : BOOLEAN, at : Addresses]

ASSUME EngineMocksAssumption ==
  /\ NMocks \in Nat
  /\ Ports \cap Routes = {} /\ Plain \notin Ports \cup Routes
  /\ NoMock \notin MockIDs /\ NoMock \notin FleetConfig

\* mocks: ID -> configuration; serving: address -> ID whose server or handler is there
EmptyEngine == [mocks |-> [id \in MockIDs |-> NoMock],
                serving |-> [a \in Ports \cup Routes |-> NoMock]]

Answer(E, err) == [engine |-> E, err |-> err]

-----------------------------------------------------------------------------
(* Mock manager *)

\* Starting a server on a port that somebody has fails
StartServer(E, id, port, free) ==
  IF E.serving[port] = NoMock /\ port \in free
    THEN Answer([E EXCEPT !.serving[port] = id], "none") ELSE Answer(E, "port")

\* A route handler replaces the one that is there
RegisterRoute(E, id, route) == Answer([E EXCEPT !.serving[route] = id], "none")

\* free: the ports that no other process has
registerHandlerLocked(E, id, cfg, free) ==
  CASE ~cfg.on \/ cfg.at = Plain      -> Answer(E, "none")
    [] cfg.on /\ cfg.at \in Ports     -> StartServer(E, id, cfg.at, free)
    [] cfg.on /\ cfg.at \in Routes    -> RegisterRoute(E, id, cfg.at)

\* Mutant: the server of a disabled mock is taken to be stopped already
unregisterEnabledOnly(E, id) ==
  LET cfg == E.mocks[id] IN
  [E EXCEPT !.serving = [a \in DOMAIN @ |->
     IF (a \in Ports /\ @[a] = id /\ cfg.on) \/ (a \in Routes /\ cfg.at = a) THEN NoMock ELSE @[a]]]

\* A server is stopped by the mock's ID, a route handler is removed by its path,
\* whichever mock registered it
unregisterHandlerLocked(E, id) ==
  LET cfg == E.mocks[id] IN
  [E EXCEPT !.serving = [a \in DOMAIN @ |->
     IF (a \in Ports /\ @[a] = id) \/ (a \in Routes /\ cfg.at = a) THEN NoMock ELSE @[a]]]

Add(E, id, cfg, free) ==
  LET started == registerHandlerLocked([E EXCEPT !.mocks[id] = cfg], id, cfg, free) IN
  IF E.mocks[id] # NoMock THEN Answer(E, "exists")
  ELSE IF started.err # "none" THEN Answer(E, started.err)   \* rolled back
  ELSE started

\* A handler that cannot be started again does not fail the update
UpdateMock(E, id, cfg, free) ==
  IF E.mocks[id] = NoMock THEN Answer(E, "notFound")
  ELSE Answer(registerHandlerLocked([unregisterHandlerLocked(E, id) EXCEPT !.mocks[id] = cfg],
                                    id, cfg, free).engine, "none")

DeleteMock(E, id) ==
  IF E.mocks[id] = NoMock THEN Answer(E, "notFound")
  ELSE Answer([unregisterHandlerLocked(E, id) EXCEPT !.mocks[id] = NoMock], "none")

\* Clear: every handler is unregistered, then the store is emptied
ClearMocks(E) == EmptyEngine

-----------------------------------------------------------------------------
(* Engine API *)

handleCreateMock(E, id, cfg, free) == Add(E, id, cfg, free)

handleUpdateMock(E, id, cfg, free) == UpdateMock(E, id, cfg, free)

Toggled(cfg, on) == [cfg EXCEPT !.on = on]

\* The flag is flipped in the stored configuration, which is then stored again
handleToggleMock(E, id, on, free) ==
  IF E.mocks[id] = NoMock THEN Answer(E, "notFound")
  ELSE UpdateMock([E EXCEPT !.mocks[id].on = on], id, Toggled(E.mocks[id], on), free)

handleDeleteMock(E, id) == DeleteMock(E, id)

\* Mutant: what is imported is added to what is there
importAdds(E, cfgs, replace, free) ==
  LET add[n \in 0 .. NMocks] ==
        IF n = 0 THEN E
        ELSE IF cfgs[n] = NoMock THEN add[n - 1]
        ELSE Add(add[n - 1], n, cfgs[n], free).engine
  IN  Answer(add[NMocks], "none")

\* cfgs: ID -> configuration of the collection, added one by one after everything
\* was cleared, the mocks of all workspaces; a mock that cannot be added is reported
handleImportConfig(E, cfgs, replace, free) ==
  LET add[n \in 0 .. NMocks] ==
        IF n = 0 THEN IF replace THEN ClearMocks(E) ELSE E
        ELSE IF cfgs[n] = NoMock THEN add[n - 1]
        ELSE Add(add[n - 1], n, cfgs[n], free).engine
  IN  Answer(add[NMocks], "none")

-----------------------------------------------------------------------------
(* The states of an engine *)

Table == [MockIDs -> FleetConfig \cup {NoMock}]

EngineStates == [mocks : Table, serving : [Ports \cup Routes -> MockIDs \cup {NoMock}]]

\* Whatever runs at a belongs to a mock configured for a, enabled unless it is x
Belongs(E, a, x) ==
  E.serving[a] # NoMock =>
    LET c == E.mocks[E.serving[a]] IN c # NoMock /\ c.at = a /\ (E.serving[a] # x => c.on)

SoundBut(E, x) == E \in EngineStates /\ \A a \in Ports \cup Routes : Belongs(E, a, x)

\* 0 is the ID of no mock
Sound(E) == SoundBut(E, 0)

\* The result of an operation that stores c under id, or fails and changes nothing
Stores(E, id, c, res) ==
  /\ Sound(res.engine)
  /\ res.err = "none" => res.engine.mocks = [E.mocks EXCEPT ![id] = c]
  /\ res.err # "none" => res.engine = E

=============================================================================
