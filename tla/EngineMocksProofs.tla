-------------------------- MODULE EngineMocksProofs --------------------------
(***************************************************************************)
(* What the operations on one engine do, for any mocks, addresses and      *)
(* versions: each leaves only servers and handlers that belong to a mock   *)
(* the engine has, enabled, and configured for their address (Sound), and  *)
(* stores what it is to store or changes nothing (Stores).                 *)
(***************************************************************************)
EXTENDS EngineMocks, IndexInduction

\* Nothing runs for the mock
Unserved(E, id) == \A a \in Ports \cup Routes : E.serving[a] # id

\* The mocks stay as they are, or nothing changes
Starts(E, res) ==
  /\ Sound(res.engine) /\ res.engine.mocks = E.mocks
  /\ res.err # "none" => res.engine = E

\* Everything that runs may belong to any mock.
LEMMA SoundForAll ==
  ASSUME NEW E, Sound(E), NEW id PROVE SoundBut(E, id)
<1>1. \A a \in Ports \cup Routes : E.serving[a] \in MockIDs \cup {NoMock} /\ Belongs(E, a, 0)
  BY DEF Sound, SoundBut, EngineStates
<1>2. 0 \notin MockIDs
  BY EngineMocksAssumption DEF MockIDs
<1> QED
  BY <1>1, <1>2 DEF Sound, SoundBut, Belongs

\* An engine without mocks has nothing running.
LEMMA EmptySound == Sound(EmptyEngine)
  BY DEF Sound, SoundBut, Belongs, EmptyEngine, EngineStates, Table

\* A mock for which nothing runs can be changed.
LEMMA SetMock ==
  ASSUME NEW E, Sound(E), NEW id \in MockIDs, Unserved(E, id),
         NEW c \in FleetConfig \cup {NoMock}
  PROVE  LET F == [E EXCEPT !.mocks[id] = c] IN
         Sound(F) /\ F.mocks = [E.mocks EXCEPT ![id] = c] /\ F.serving = E.serving
<1> DEFINE F == [E EXCEPT !.mocks[id] = c]
<1>1. E \in EngineStates
  BY DEF Sound, SoundBut
<1>2. F \in EngineStates /\ F.mocks = [E.mocks EXCEPT ![id] = c] /\ F.serving = E.serving
  BY <1>1 DEF EngineStates, Table
<1> HIDE DEF F
<1>3. ASSUME NEW a \in Ports \cup Routes, F.serving[a] # NoMock PROVE Belongs(F, a, 0)
  <2>1. /\ E.serving[a] \in MockIDs /\ E.serving[a] # id /\ E.serving[a] = F.serving[a]
        /\ F.mocks[E.serving[a]] = E.mocks[E.serving[a]] /\ Belongs(E, a, 0)
    BY <1>1, <1>2, <1>3 DEF Sound, SoundBut, EngineStates, Unserved, Table
  <2> QED
    BY <2>1, <1>3 DEF Belongs
<1>4. \A a \in Ports \cup Routes : Belongs(F, a, 0)
  BY <1>3 DEF Belongs
<1> QED
  BY <1>2, <1>4 DEF F, Sound, SoundBut

\* unregisterHandlerLocked leaves nothing running for the mock, and no mock with a
\* server or handler that is not its own.
LEMMA Unregistered ==
  ASSUME NEW E, NEW id \in MockIDs, SoundBut(E, id), E.mocks[id] # NoMock
  PROVE  LET F == unregisterHandlerLocked(E, id) IN
         Sound(F) /\ F.mocks = E.mocks /\ Unserved(F, id)
<1> DEFINE F == unregisterHandlerLocked(E, id)
<1>1. E \in EngineStates /\ id # NoMock
  BY EngineMocksAssumption DEF SoundBut, MockIDs
<1>2. /\ F \in EngineStates /\ F.mocks = E.mocks
      /\ \A a \in Ports \cup Routes :
           F.serving[a] = IF (a \in Ports /\ E.serving[a] = id) \/ (a \in Routes /\ E.mocks[id].at = a)
                            THEN NoMock ELSE E.serving[a]
  BY <1>1 DEF EngineStates, unregisterHandlerLocked
<1> HIDE DEF F
<1>3. ASSUME NEW a \in Ports \cup Routes PROVE F.serving[a] # id /\ Belongs(F, a, 0)
  <2>1. CASE E.serving[a] = id
    <3>1. E.mocks[id].at = a
      BY <2>1, <1>1 DEF SoundBut, Belongs
    <3>2. F.serving[a] = NoMock
      BY <3>1, <2>1, <1>2
    <3> QED
      BY <3>2, <1>1 DEF Belongs
  <2>2. CASE E.serving[a] # id
    <3>1. Belongs(E, a, id)
      BY DEF SoundBut
    <3>2. F.serving[a] \in {NoMock, E.serving[a]}
      BY <1>2
    <3> QED
      BY <2>2, <3>1, <3>2, <1>1, <1>2 DEF Belongs
  <2> QED
    BY <2>1, <2>2
<1> QED
  BY <1>2, <1>3 DEF F, Sound, SoundBut, Unserved

\* registerHandlerLocked starts the mock's own server or handler, or fails and changes
\* nothing.
LEMMA Registered ==
  ASSUME NEW E, Sound(E), NEW id \in MockIDs, NEW c \in FleetConfig, E.mocks[id] = c, NEW free
  PROVE  Starts(E, registerHandlerLocked(E, id, c, free))
<1> DEFINE res == registerHandlerLocked(E, id, c, free)
<1>1. E \in EngineStates /\ c # NoMock /\ c.on \in BOOLEAN /\ c.at \in Addresses /\ id # NoMock
  BY EngineMocksAssumption DEF Sound, SoundBut, FleetConfig, MockIDs
<1>2. CASE res = Answer(E, "none") \/ res = Answer(E, "port")
  BY <1>2 DEF Answer, Starts
<1>3. CASE c.on /\ c.at \in Ports \cup Routes /\ res = Answer([E EXCEPT !.serving[c.at] = id], "none")
  <2> DEFINE F == [E EXCEPT !.serving[c.at] = id]
  <2>1. /\ F \in EngineStates /\ F.mocks = E.mocks /\ F.serving[c.at] = id
        /\ \A a \in Ports \cup Routes : a # c.at => F.serving[a] = E.serving[a]
    BY <1>1, <1>3 DEF EngineStates
  <2>2. res.engine = F /\ res.err = "none"
    BY <1>3 DEF Answer
  <2> HIDE DEF F, res
  <2>3. ASSUME NEW a \in Ports \cup Routes PROVE Belongs(F, a, 0)
    <3>1. CASE a = c.at
      BY <3>1, <2>1, <1>1, <1>3 DEF Belongs
    <3>2. CASE a # c.at
      BY <3>2, <2>1 DEF Belongs, Sound, SoundBut
    <3> QED
      BY <3>1, <3>2
  <2> QED
    BY <2>1, <2>2, <2>3 DEF Sound, SoundBut, res, Starts
<1>4. CASE ~c.on \/ c.at = Plain
  <2>1. res = Answer(E, "none")
    BY <1>4, <1>1, EngineMocksAssumption DEF registerHandlerLocked
  <2> QED
    BY <2>1, <1>2
<1>5. CASE c.on /\ c.at \in Ports
  <2>1. res = StartServer(E, id, c.at, free)
    BY <1>5, EngineMocksAssumption DEF registerHandlerLocked
  <2> QED
    BY <2>1, <1>2, <1>3, <1>5 DEF StartServer
<1>6. CASE c.on /\ c.at \in Routes
  <2>1. res = RegisterRoute(E, id, c.at)
    BY <1>6, EngineMocksAssumption DEF registerHandlerLocked
  <2> QED
    BY <2>1, <1>3, <1>6 DEF RegisterRoute
<1> QED
  BY <1>1, <1>4, <1>5, <1>6 DEF Addresses

\* Add stores the mock and starts what it needs, or changes nothing.
LEMMA Added ==
  ASSUME NEW E, Sound(E), NEW id \in MockIDs, NEW c \in FleetConfig, NEW free
  PROVE  Stores(E, id, c, Add(E, id, c, free))
<1>1. CASE E.mocks[id] # NoMock
  BY <1>1 DEF Add, Answer, Stores
<1>2. CASE E.mocks[id] = NoMock
  <2> DEFINE F == [E EXCEPT !.mocks[id] = c]
             started == registerHandlerLocked(F, id, c, free)
  <2>1. Unserved(E, id)
    BY <1>2, EngineMocksAssumption DEF Unserved, Sound, SoundBut, Belongs, MockIDs
  <2>2. Sound(F) /\ F.mocks = [E.mocks EXCEPT ![id] = c]
    BY <2>1, SetMock
  <2>3. F.mocks[id] = c
    BY <2>2 DEF Sound, SoundBut, EngineStates, Table
  <2> HIDE DEF F
  <2>4. Starts(F, started)
    BY <2>2, <2>3, Registered
  <2>5. Add(E, id, c, free) = IF started.err # "none" THEN Answer(E, started.err) ELSE started
    BY <1>2 DEF Add, F
  <2> HIDE DEF started
  <2>6. CASE started.err # "none"
    BY <2>6, <2>5 DEF Stores, Answer
  <2>7. CASE started.err = "none"
    BY <2>7, <2>5, <2>4, <2>2 DEF Stores, Starts
  <2> QED
    BY <2>6, <2>7
<1> QED
  BY <1>1, <1>2

\* Update stops what ran for the mock, stores it and starts what it needs now; when
\* that fails the mock is stored all the same.  The flag of the stored mock may have
\* been flipped before, as a toggle does.
LEMMA Updated ==
  ASSUME NEW E, NEW id \in MockIDs, SoundBut(E, id), NEW c \in FleetConfig, NEW free,
         E.mocks[id] # NoMock
  PROVE  LET res == UpdateMock(E, id, c, free) IN
         Sound(res.engine) /\ res.err = "none" /\ res.engine.mocks = [E.mocks EXCEPT ![id] = c]
<1> DEFINE U == unregisterHandlerLocked(E, id)
           F == [U EXCEPT !.mocks[id] = c]
           started == registerHandlerLocked(F, id, c, free)
<1>1. Sound(U) /\ U.mocks = E.mocks /\ Unserved(U, id)
  BY Unregistered
<1> HIDE DEF U
<1>2. Sound(F) /\ F.mocks = [E.mocks EXCEPT ![id] = c]
  BY <1>1, SetMock
<1>3. F.mocks[id] = c
  BY <1>2, <1>1 DEF SoundBut, EngineStates, Table
<1> HIDE DEF F
<1>4. Starts(F, started)
  BY <1>2, <1>3, Registered
<1>5. UpdateMock(E, id, c, free) = Answer(started.engine, "none")
  BY DEF UpdateMock, U, F
<1> HIDE DEF started
<1> QED
  BY <1>2, <1>4, <1>5 DEF Answer, Starts

\* Update through the engine API stores the mock or changes nothing.
LEMMA UpdateStores ==
  ASSUME NEW E, Sound(E), NEW id \in MockIDs, NEW c \in FleetConfig, NEW free
  PROVE  Stores(E, id, c, UpdateMock(E, id, c, free))
<1>1. CASE E.mocks[id] = NoMock
  BY <1>1 DEF UpdateMock, Answer, Stores
<1>2. CASE E.mocks[id] # NoMock
  <2>1. SoundBut(E, id)
    BY SoundForAll
  <2> HIDE DEF UpdateMock
  <2> QED
    BY <2>1, <1>2, Updated DEF Stores
<1> QED
  BY <1>1, <1>2

\* Delete stops what runs for the mock and removes it.
LEMMA DeleteStores ==
  ASSUME NEW E, Sound(E), NEW id \in MockIDs
  PROVE  /\ Stores(E, id, NoMock, DeleteMock(E, id))
         /\ DeleteMock(E, id).err = "none" <=> E.mocks[id] # NoMock
<1>1. CASE E.mocks[id] = NoMock
  BY <1>1 DEF DeleteMock, Answer, Stores
<1>2. CASE E.mocks[id] # NoMock
  <2> DEFINE U == unregisterHandlerLocked(E, id)
             F == [U EXCEPT !.mocks[id] = NoMock]
  <2>1. SoundBut(E, id)
    BY SoundForAll
  <2>2. Sound(U) /\ U.mocks = E.mocks /\ Unserved(U, id)
    BY <2>1, <1>2, Unregistered
  <2> HIDE DEF U
  <2>3. Sound(F) /\ F.mocks = [E.mocks EXCEPT ![id] = NoMock]
    BY <2>2, SetMock
  <2> HIDE DEF F
  <2>4. DeleteMock(E, id) = Answer(F, "none")
    BY <1>2 DEF DeleteMock, U, F
  <2> QED
    BY <2>3, <2>4, <1>2 DEF Stores, Answer
<1> QED
  BY <1>1, <1>2

\* A toggle flips the flag and stores the mock again, or changes nothing.
LEMMA ToggleStores ==
  ASSUME NEW E, Sound(E), NEW id \in MockIDs, NEW on \in BOOLEAN, NEW free
  PROVE  /\ Stores(E, id, Toggled(E.mocks[id], on), handleToggleMock(E, id, on, free))
         /\ handleToggleMock(E, id, on, free).err = "none" <=> E.mocks[id] # NoMock
<1>1. CASE E.mocks[id] = NoMock
  BY <1>1 DEF handleToggleMock, Answer, Stores
<1>2. CASE E.mocks[id] # NoMock
  <2> DEFINE c == Toggled(E.mocks[id], on)
             F == [E EXCEPT !.mocks[id].on = on]
             res == UpdateMock(F, id, c, free)
  <2>1. E \in EngineStates /\ E.mocks[id] \in FleetConfig
    BY <1>2 DEF Sound, SoundBut, EngineStates, Table
  <2>2. c \in FleetConfig /\ c.at = E.mocks[id].at
    BY <2>1 DEF FleetConfig, Toggled
  <2>3. F.mocks = [E.mocks EXCEPT ![id] = c] /\ F.serving = E.serving
    BY <2>1 DEF EngineStates, Table, Toggled
  <2>4. F \in EngineStates
    BY <2>1, <2>2 DEF EngineStates, Table, Toggled
  <2>5. handleToggleMock(E, id, on, free) = res
    BY <1>2 DEF handleToggleMock, Toggled
  <2> HIDE DEF F, c
  <2>6. F.mocks[id] = c /\ \A i \in MockIDs : i # id => F.mocks[i] = E.mocks[i]
    BY <2>1, <2>3 DEF EngineStates, Table
  <2>7. F.mocks[id] # NoMock /\ c # NoMock
    BY <2>6, <2>2, EngineMocksAssumption
  <2>8. ASSUME NEW a \in Ports \cup Routes PROVE Belongs(F, a, id)
    <3>1. Belongs(E, a, 0) /\ E.serving[a] \in MockIDs \cup {NoMock} /\ F.serving[a] = E.serving[a]
      BY <2>1, <2>3 DEF Sound, SoundBut, EngineStates
    <3>2. CASE E.serving[a] = id
      BY <3>1, <3>2, <2>2, <2>6, <2>7 DEF Belongs
    <3>3. CASE E.serving[a] # id
      <4>1. 0 \notin MockIDs
        BY EngineMocksAssumption DEF MockIDs
      <4> QED
        BY <4>1, <3>1, <3>3, <2>6 DEF Belongs
    <3> QED
      BY <3>2, <3>3
  <2>9. SoundBut(F, id)
    BY <2>4, <2>8 DEF SoundBut
  <2>10. Sound(res.engine) /\ res.err = "none" /\ res.engine.mocks = [F.mocks EXCEPT ![id] = c]
    BY <2>2, <2>7, <2>9, Updated
  <2>11. [F.mocks EXCEPT ![id] = c] = [E.mocks EXCEPT ![id] = c]
    BY <2>1, <2>3 DEF EngineStates, Table
  <2> HIDE DEF res
  <2> QED
    BY <2>5, <2>10, <2>11, <1>2 DEF Stores, c
<1> QED
  BY <1>1, <1>2

SoundStates == {E \in EngineStates : Sound(E)}

\* One iteration of the import
Imported(E, n, cfgs, free) == IF cfgs[n] = NoMock THEN E ELSE Add(E, n, cfgs[n], free).engine

\* g goes through the states of the import
Imports(g, base, cfgs, free) ==
  /\ g \in [0 .. NMocks -> SoundStates] /\ g[0] = base
  /\ \A n \in 1 .. NMocks : g[n] = Imported(g[n - 1], n, cfgs, free)

\* The import goes mock by mock from an engine that was cleared or not, and leaves no
\* server or handler over after any of them.
LEMMA ImportRuns ==
  ASSUME NEW E, Sound(E), NEW cfgs \in Table, NEW replace \in BOOLEAN, NEW free
  PROVE  \E g : /\ Imports(g, IF replace THEN EmptyEngine ELSE E, cfgs, free)
                /\ handleImportConfig(E, cfgs, replace, free) = Answer(g[NMocks], "none")
<1> DEFINE base == IF replace THEN EmptyEngine ELSE E
           h == [p \in SoundStates \X (1 .. NMocks) |-> Imported(p[1], p[2], cfgs, free)]
           Body(f) == [n \in 0 .. NMocks |->
                         IF n = 0 THEN IF replace THEN ClearMocks(E) ELSE E
                         ELSE IF cfgs[n] = NoMock THEN f[n - 1]
                         ELSE Add(f[n - 1], n, cfgs[n], free).engine]
           add == CHOOSE f : f = Body(f)
<1>1. NMocks \in Nat /\ MockIDs = 1 .. NMocks
  BY EngineMocksAssumption DEF MockIDs
<1>2. base \in SoundStates
  BY EmptySound DEF Sound, SoundBut, SoundStates
<1>3. ASSUME NEW F \in SoundStates, NEW n \in 1 .. NMocks PROVE Imported(F, n, cfgs, free) \in SoundStates
  <2>1. CASE cfgs[n] = NoMock
    BY <2>1 DEF Imported
  <2>2. CASE cfgs[n] # NoMock
    <3>1. cfgs[n] \in FleetConfig /\ n \in MockIDs /\ Sound(F)
      BY <2>2, <1>1 DEF Table, SoundStates
    <3>2. Stores(F, n, cfgs[n], Add(F, n, cfgs[n], free))
      BY <3>1, Added
    <3> QED
      BY <3>2, <2>2 DEF Imported, Stores, SoundStates, Sound, SoundBut
  <2> QED
    BY <2>1, <2>2
<1>4. h \in [SoundStates \X (1 .. NMocks) -> SoundStates]
  BY <1>3
<1>5. \A F \in SoundStates, n \in 1 .. NMocks : h[<<F, n>>] = Imported(F, n, cfgs, free)
  OBVIOUS
<1> HIDE DEF base, h
<1>6. Solvable(NMocks, SoundStates, base, h)
  BY <1>1, <1>2, <1>4, Recursion
<1>7. PICK g \in [0 .. NMocks -> SoundStates] : Solves(g, NMocks, base, h)
  BY <1>6 DEF Solvable
<1>8. g[0] = base /\ \A n \in 1 .. NMocks : g[n] = Imported(g[n - 1], n, cfgs, free)
  <2>1. \A n \in 1 .. NMocks : g[n - 1] \in SoundStates
    BY <1>1
  <2> QED
    BY <2>1, <1>5, <1>7 DEF Solves
<1>9. g = Body(g)
  BY <1>1, <1>8 DEF Imported, base, ClearMocks
<1>10. add = Body(add)
  BY <1>9
<1>11. handleImportConfig(E, cfgs, replace, free) = Answer(add[NMocks], "none")
  BY DEF handleImportConfig
<1> HIDE DEF add
<1>12. add[0] = base /\ \A n \in 1 .. NMocks : add[n] = Imported(add[n - 1], n, cfgs, free)
  <2>1. \A n \in 0 .. NMocks : add[n] = Body(add)[n]
    BY <1>10
  <2>2. Body(add)[0] = base
    BY <1>1 DEF base, ClearMocks
  <2>3. \A n \in 1 .. NMocks : Body(add)[n] = Imported(add[n - 1], n, cfgs, free)
    BY <1>1 DEF Imported
  <2> HIDE DEF Body
  <2> QED
    BY <1>1, <2>1, <2>2, <2>3
<1>13. DOMAIN add = 0 .. NMocks /\ add = [n \in 0 .. NMocks |-> add[n]]
  BY <1>10
<1> DEFINE T == {n \in 0 .. NMocks : add[n] \in SoundStates}
<1>14. 0 \in T /\ \A n \in 1 .. NMocks : n - 1 \in T => n \in T
  BY <1>1, <1>2, <1>3, <1>12
<1>15. \A n \in 0 .. NMocks : n \in T
  <2> HIDE DEF T
  <2> QED
    BY <1>1, <1>14, UpTo
<1>16. add \in [0 .. NMocks -> SoundStates]
  BY <1>13, <1>15
<1>17. Imports(add, base, cfgs, free)
  BY <1>12, <1>16 DEF Imports
<1> QED
  BY <1>11, <1>17 DEF base

\* An import leaves no server or handler over.
LEMMA ImportSound ==
  ASSUME NEW E, Sound(E), NEW cfgs \in Table, NEW replace \in BOOLEAN, NEW free
  PROVE  Sound(handleImportConfig(E, cfgs, replace, free).engine)
<1>1. PICK g : /\ Imports(g, IF replace THEN EmptyEngine ELSE E, cfgs, free)
               /\ handleImportConfig(E, cfgs, replace, free) = Answer(g[NMocks], "none")
  BY ImportRuns
<1>2. g[NMocks] \in SoundStates
  BY <1>1, EngineMocksAssumption DEF Imports
<1> QED
  BY <1>1, <1>2 DEF Answer, SoundStates

\* An import that does not replace leaves the mocks alone that it does not bring.
LEMMA ImportSpares ==
  ASSUME NEW E, Sound(E), NEW replace \in BOOLEAN, ~replace, NEW cfgs \in Table, NEW free, NEW i \in MockIDs, cfgs[i] = NoMock
  PROVE  handleImportConfig(E, cfgs, replace, free).engine.mocks[i] = E.mocks[i]
<1>1. NMocks \in Nat /\ MockIDs = 1 .. NMocks
  BY EngineMocksAssumption DEF MockIDs
<1>2. PICK g : /\ Imports(g, IF replace THEN EmptyEngine ELSE E, cfgs, free)
               /\ handleImportConfig(E, cfgs, replace, free) = Answer(g[NMocks], "none")
  BY ImportRuns
<1>3. /\ g \in [0 .. NMocks -> SoundStates] /\ g[0] = E
      /\ \A n \in 1 .. NMocks : g[n] = Imported(g[n - 1], n, cfgs, free)
  BY <1>2 DEF Imports
<1> DEFINE T == {n \in 0 .. NMocks : g[n].mocks[i] = E.mocks[i]}
<1>4. 0 \in T
  BY <1>1, <1>3
<1>5. ASSUME NEW n \in 1 .. NMocks, n - 1 \in T PROVE n \in T
  <2> PICK F : F = g[n - 1]
    OBVIOUS
  <2>1. F \in SoundStates /\ F.mocks[i] = E.mocks[i] /\ g[n] = Imported(F, n, cfgs, free)
    BY <1>1, <1>3, <1>5
  <2>2. CASE cfgs[n] = NoMock
    BY <2>1, <2>2 DEF Imported
  <2>3. CASE cfgs[n] # NoMock
    <3> PICK res : res = Add(F, n, cfgs[n], free)
      OBVIOUS
    <3>1. cfgs[n] \in FleetConfig /\ n \in MockIDs /\ Sound(F) /\ n # i /\ F.mocks \in Table
      BY <2>1, <2>3, <1>1 DEF Table, SoundStates, EngineStates
    <3>2. Stores(F, n, cfgs[n], res)
      BY <3>1, Added
    <3>3. res.engine.mocks[i] = F.mocks[i]
      BY <3>1, <3>2 DEF Stores, Table
    <3>4. g[n] = res.engine
      BY <2>1, <2>3 DEF Imported
    <3> QED
      BY <3>3, <3>4, <2>1
  <2> QED
    BY <2>2, <2>3
<1>6. \A n \in 0 .. NMocks : n \in T
  <2> HIDE DEF T
  <2> QED
    BY <1>1, <1>4, <1>5, UpTo
<1>7. g[NMocks].mocks[i] = E.mocks[i]
  BY <1>1, <1>6
<1> QED
  BY <1>2, <1>7 DEF Answer

\* Add succeeds on a new mock whose port is free.
LEMMA AddSucceeds ==
  ASSUME NEW E, Sound(E), NEW id \in MockIDs, E.mocks[id] = NoMock, NEW c \in FleetConfig, NEW free,
         c.on /\ c.at \in Ports => E.serving[c.at] = NoMock /\ c.at \in free
  PROVE  Add(E, id, c, free).err = "none"
<1> DEFINE F == [E EXCEPT !.mocks[id] = c]
<1>1. F.serving = E.serving /\ c.on \in BOOLEAN /\ c.at \in Addresses
  BY DEF Sound, SoundBut, EngineStates, FleetConfig
<1> HIDE DEF F
<1>2. registerHandlerLocked(F, id, c, free).err = "none"
  <2>1. CASE ~c.on \/ c.at = Plain
    BY <2>1, <1>1, EngineMocksAssumption DEF registerHandlerLocked, Answer
  <2>2. CASE c.on /\ c.at \in Ports
    BY <2>2, <1>1, EngineMocksAssumption DEF registerHandlerLocked, StartServer, Answer
  <2>3. CASE c.on /\ c.at \in Routes
    BY <2>3, <1>1, EngineMocksAssumption DEF registerHandlerLocked, RegisterRoute, Answer
  <2> QED
    BY <2>1, <2>2, <2>3, <1>1 DEF Addresses
<1> QED
  BY <1>2 DEF Add, F

\* No two enabled mocks of the collection want the same port
Compatible(cfgs) == \A i, j \in MockIDs :
  i # j /\ cfgs[i] # NoMock /\ cfgs[j] # NoMock /\ cfgs[i].on /\ cfgs[j].on
    => cfgs[i].at \notin Ports \/ cfgs[i].at # cfgs[j].at

\* An import that replaces leaves exactly the collection
Exact(E, cfgs, replace, free) ==
  replace => \A i \in MockIDs : handleImportConfig(E, cfgs, replace, free).engine.mocks[i] = cfgs[i]

\* After a replacing import of a collection whose ports are free and not shared the
\* engine has exactly the collection.
LEMMA ImportExact ==
  ASSUME NEW E, Sound(E), NEW cfgs \in Table, Compatible(cfgs), NEW replace \in BOOLEAN,
         NEW free, free = Ports
  PROVE  Exact(E, cfgs, replace, free)
<1>1. NMocks \in Nat /\ MockIDs = 1 .. NMocks
  BY EngineMocksAssumption DEF MockIDs
<1>2. PICK g : /\ Imports(g, IF replace THEN EmptyEngine ELSE E, cfgs, free)
               /\ handleImportConfig(E, cfgs, replace, free) = Answer(g[NMocks], "none")
  BY ImportRuns
<1> DEFINE base == IF replace THEN EmptyEngine ELSE E
<1>0. SUFFICES ASSUME base = EmptyEngine, NEW i \in MockIDs PROVE g[NMocks].mocks[i] = cfgs[i]
  BY <1>2 DEF Answer, Exact
<1>3. /\ g \in [0 .. NMocks -> SoundStates] /\ g[0] = EmptyEngine
      /\ \A n \in 1 .. NMocks : g[n] = Imported(g[n - 1], n, cfgs, free)
  BY <1>0, <1>2 DEF Imports
<1> DEFINE T == {n \in 0 .. NMocks : \A k \in MockIDs : g[n].mocks[k] = IF k <= n THEN cfgs[k] ELSE NoMock}
<1>4. 0 \in T
  BY <1>1, <1>3 DEF EmptyEngine
<1>5. ASSUME NEW n \in 1 .. NMocks, n - 1 \in T PROVE n \in T
  <2> PICK F : F = g[n - 1]
    OBVIOUS
  <2>1. F \in SoundStates /\ g[n] = Imported(F, n, cfgs, free)
    BY <1>1, <1>3
  <2>2. \A k \in MockIDs : F.mocks[k] = IF k < n THEN cfgs[k] ELSE NoMock
    <3>1. \A k \in MockIDs : k <= n - 1 <=> k < n
      BY <1>1
    <3> QED
      BY <1>5, <3>1
  <2>3. CASE cfgs[n] = NoMock
    <3>1. \A k \in MockIDs : F.mocks[k] = IF k <= n THEN cfgs[k] ELSE NoMock
      BY <2>2, <2>3, <1>1
    <3> QED
      BY <2>1, <2>3, <3>1 DEF Imported
  <2>4. CASE cfgs[n] # NoMock
    <3> PICK c : c = cfgs[n]
      OBVIOUS
    <3> PICK res : res = Add(F, n, c, free)
      OBVIOUS
    <3>1. c \in FleetConfig /\ n \in MockIDs /\ Sound(F) /\ F.mocks \in Table /\ F.mocks[n] = NoMock
      BY <2>1, <2>2, <2>4, <1>1 DEF Table, SoundStates, EngineStates
    <3>2. ASSUME c.on, c.at \in Ports, F.serving[c.at] # NoMock PROVE FALSE
      <4> PICK k : k = F.serving[c.at]
        OBVIOUS
      <4>1. k \in MockIDs /\ k # 0
        BY <3>1, <3>2, <1>1 DEF Sound, SoundBut, EngineStates
      <4>2. Belongs(F, c.at, 0)
        BY <3>1, <3>2 DEF Sound, SoundBut
      <4>3. F.mocks[k] # NoMock /\ F.mocks[k].at = c.at /\ F.mocks[k].on
        BY <4>1, <4>2, <3>2 DEF Belongs
      <4>4. k # n /\ F.mocks[k] = cfgs[k]
        BY <4>1, <4>3, <3>1, <2>2
      <4> QED
        BY <4>1, <4>3, <4>4, <3>1, <3>2, <2>4 DEF Compatible
    <3>3. res.err = "none"
      BY <3>1, <3>2, AddSucceeds
    <3>4. res.engine.mocks = [F.mocks EXCEPT ![n] = c]
      <4>1. Stores(F, n, c, res)
        BY <3>1, Added
      <4> QED
        BY <4>1, <3>3 DEF Stores
    <3>5. \A k \in MockIDs : res.engine.mocks[k] = IF k <= n THEN cfgs[k] ELSE NoMock
      <4>1. \A k \in MockIDs : k <= n <=> k < n \/ k = n
        BY <1>1
      <4> QED
        BY <3>1, <3>4, <2>2, <4>1 DEF Table
    <3>6. g[n] = res.engine
      BY <2>1, <2>4 DEF Imported
    <3> QED
      BY <3>5, <3>6
  <2> QED
    BY <2>3, <2>4
<1>6. \A n \in 0 .. NMocks : n \in T
  <2> HIDE DEF T
  <2> QED
    BY <1>1, <1>4, <1>5, UpTo
<1>7. NMocks \in T /\ i <= NMocks
  BY <1>1, <1>6
<1> QED
  BY <1>7

=============================================================================
