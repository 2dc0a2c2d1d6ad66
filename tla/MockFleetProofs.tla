--------------------------- MODULE MockFleetProofs ---------------------------
(***************************************************************************)
(* FleetInv is an invariant of the fleet, for any mocks, addresses,        *)
(* versions, workspaces, requests and faults: the calls to the engines and *)
(* the registry keep it too.  With it, the safety properties.              *)
(***************************************************************************)
EXTENDS MockFleetHandlers, EngineMocksProofs, FiniteSetTheorems, TLAPS

-----------------------------------------------------------------------------
(* The calls to the engines *)

\* A call about one mock stores its result or changes nothing.
LEMMA CallStores ==
  ASSUME FleetInv, NEW r \in Reqs, req[r].pc \in {"push", "predelete"}, req[r].op \notin ImportOps,
         NEW id \in req[r].ids, NEW E, Sound(E), NEW free
  PROVE  Stores(E, id, Result(req[r], E, id, heap), CallResult(r, E, id, free))
<1> PICK q : q = req[r]
  OBVIOUS
<1> PICK res : res = CallResult(r, E, id, free)
  OBVIOUS
<1>1. id \in MockIDs /\ ActivationOK(q)
  BY WriteFacts
<1>2. q.op \in (One \cup {"bulk", "deleteAll"}) /\ (q.pc = "predelete" => q.op = "bulk")
  BY <1>1 DEF ActivationOK, Activations
<1>3. CASE q.pc = "predelete" \/ q.op \in {"delete", "deleteAll"}
  <2>1. res = DeleteMock(E, id)
    BY <1>2, <1>3 DEF CallResult, pushDeleteToEngines, handleDeleteMock
  <2>2. Result(q, E, id, heap) = NoMock
    BY <1>3 DEF Result
  <2> QED
    BY <2>1, <2>2, <1>1, DeleteStores
<1>4. ASSUME q.pc = "push", q.op \in One \cup {"bulk"}, q.op # "delete"
      PROVE  heap[q.obj[id]] \in FleetConfig /\ heap[q.obj[id]].on \in BOOLEAN
  <2>1. q.op \in Sends
    BY <1>4 DEF One, Sends
  <2>2. heap[q.obj[id]] \in FleetConfig
    BY <2>1, SentIsConfig
  <2> QED
    BY <2>2 DEF FleetConfig
<1>5. CASE q.pc = "push" /\ q.op \in {"create", "convert", "bulk"}
  <2>1. res = Add(E, id, heap[q.obj[id]], free)
    BY <1>5 DEF CallResult, pushCreateToEngines, handleCreateMock
  <2>2. Result(q, E, id, heap) = heap[q.obj[id]] /\ heap[q.obj[id]] \in FleetConfig
    BY <1>4, <1>5 DEF Result, One
  <2> QED
    BY <2>1, <2>2, <1>1, Added
<1>6. CASE q.pc = "push" /\ q.op \in {"update", "patch", "merge"}
  <2>1. res = UpdateMock(E, id, heap[q.obj[id]], free)
    BY <1>6 DEF CallResult, pushUpdateToEngines, handleUpdateMock
  <2>2. Result(q, E, id, heap) = heap[q.obj[id]] /\ heap[q.obj[id]] \in FleetConfig
    BY <1>4, <1>6 DEF Result, One
  <2> QED
    BY <2>1, <2>2, <1>1, UpdateStores
<1>7. CASE q.pc = "push" /\ q.op = "toggle"
  <2>1. res = handleToggleMock(E, id, heap[q.obj[id]].on, free)
    BY <1>7 DEF CallResult, pushToggleToEngines
  <2>2. Result(q, E, id, heap) = Toggled(E.mocks[id], heap[q.obj[id]].on) /\ heap[q.obj[id]].on \in BOOLEAN
    BY <1>4, <1>7 DEF Result, One
  <2>3. Stores(E, id, Toggled(E.mocks[id], heap[q.obj[id]].on), handleToggleMock(E, id, heap[q.obj[id]].on, free))
    BY <2>2, <1>1, ToggleStores, Zenon
  <2> QED
    BY <2>1, <2>2, <2>3, Zenon
<1> QED
  BY <1>2, <1>3, <1>5, <1>6, <1>7 DEF One

\* The import is answered, or it or its answer is lost.
LEMMA CallImportKeeps ==
  ASSUME FleetInv, NEW r \in Reqs, NEW e \in Engines, NEW id, <<e, id>> \in req[r].calls,
         NEW free, NEW lost, NEW after, NEW err \in BOOLEAN, Outcome(r, e, id, free, lost, after, err),
         NEW a, a = [req[r] EXCEPT !.calls = @ \ {<<e, id>>}, !.failed = Failed(r, e, id, err)],
         req' = [req EXCEPT ![r] = a], UNCHANGED <<heap, store, status, sync>>,
         req[r].op \in ImportOps
  PROVE  FleetInv'
<1> PICK q : q = req[r]
  OBVIOUS
<1> PICK E : E = engine[e]
  OBVIOUS
<1> PICK replace \in BOOLEAN : replace <=> q.op = "importReplace"
  OBVIOUS
<1> DEFINE cfgs == [i \in MockIDs |-> IF i \in q.ids THEN heap[q.obj[i]] ELSE NoMock]
<1>1. /\ ActivationOK(q) /\ DOMAIN engine = Engines /\ Sound(E) /\ q.ids \subseteq MockIDs
      /\ q.pc \in {"push", "predelete"} /\ e = "local" /\ (q.op \in ImportOps => q.pc = "push")
  BY WriteFacts DEF FleetInv, BaseInv, ActivationOK, ImportOps
<1>2. cfgs \in Table
  <2>1. q.op \in Sends
    BY DEF Sends
  <2>2. \A i \in q.ids : heap[q.obj[i]] \in FleetConfig
    BY <2>1, SentIsConfig
  <2> QED
    BY <2>2 DEF Table
<1>3. CallResult(r, E, id, free) = handleImportConfig(E, cfgs, replace, free)
  <2>1. CallResult(r, E, id, free) = pushImportToEngines(r, E, free)
    BY <1>1 DEF CallResult, ImportOps
  <2>2. replace = (req[r].op = "importReplace")
    OBVIOUS
  <2> QED
    BY <2>1, <2>2 DEF pushImportToEngines
<1> HIDE DEF cfgs
<1> PICK F : F = handleImportConfig(E, cfgs, replace, free).engine
  OBVIOUS
<1>4. after = (IF lost = "call" THEN E ELSE F) /\ engine' = [engine EXCEPT ![e] = after]
  BY <1>3 DEF Outcome
<1>5. Sound(after)
  BY <1>1, <1>2, <1>4, ImportSound
<1>6. TouchedBy(q) = IF replace THEN MockIDs ELSE q.ids
  BY <1>1 DEF TouchedBy, Touches
<1>7. ASSUME NEW i \in MockIDs, i \notin TouchedBy(q) PROVE after.mocks[i] = E.mocks[i]
  <2>1. ~replace /\ cfgs[i] = NoMock
    BY <1>6, <1>7 DEF cfgs
  <2>2. F.mocks[i] = E.mocks[i]
    BY <2>1, <1>1, <1>2, ImportSpares
  <2> QED
    BY <2>2, <1>4
<1>8. a.pc = "push" /\ a.op = q.op
  BY <1>1 DEF ActivationOK, Activations
<1>9. ASSUME NEW i \in TouchedBy(q) \ soiled', NEW x \in Engines, x = "remote" => current'
      PROVE  Expect(a, i, x, store[i], heap, engine'[x].mocks[i])
  <2>1. x = "local"
    BY <1>1, <1>9 DEF Engines, Outcome, FleetInv, Agreement
  <2>2. i \notin ImportMissed(r, after)
    BY <1>9 DEF Outcome
  <2>3. after.mocks[i] = Stored(i)
    BY <2>2, <1>1, <1>9 DEF ImportMissed, ImportOps, Touched, TouchedBy, Active
  <2>4. engine'[x].mocks[i] = Config(store[i], heap)
    BY <2>1, <2>3, <1>1, <1>4 DEF Stored, Config
  <2> QED
    BY <2>4, <1>8 DEF Expect
<1>10. Fits(r, e, a, after)
  BY <1>5, <1>7, <1>9 DEF Fits
<1> QED
  BY <1>10, CallKeeps

\* A call to an engine.
LEMMA AnyCallKeeps ==
  ASSUME FleetInv, NEW r \in Reqs, NEW e \in Engines, NEW id, Call(r, e, id) PROVE FleetInv'
<1>1. <<e, id>> \in req[r].calls /\ UNCHANGED <<heap, store, status, sync>>
  BY DEF Call
<1>2. PICK free \in {Ports, {}}, lost \in {"nothing", "call", "answer"} :
       LET res == CallResult(r, engine[e], id, free)
           after == IF lost = "call" THEN engine[e] ELSE res.engine
           err == lost # "nothing" \/ res.err # "none"
       IN
       /\ lost # "nothing" => faults < MaxFaults
       /\ faults' = IF lost = "nothing" THEN faults ELSE faults + 1
       /\ engine' = [engine EXCEPT ![e] = after]
       /\ req' = [req EXCEPT ![r].calls = @ \ {<<e, id>>},
                             ![r].failed = IF e = "local" /\ err /\ ~BestEffort(r) THEN @ \cup {id} ELSE @]
       /\ soiled' = soiled \cup
            (IF e = "local" /\ (lost = "answer" \/ (err /\ BestEffort(r))) THEN req[r].ids ELSE {})
            \cup ImportMissed(r, after)
       /\ current' = (current /\ ~(e = "remote" /\ err))
  BY DEF Call
<1> PICK res : res = CallResult(r, engine[e], id, free)
  OBVIOUS
<1> PICK after : after = IF lost = "call" THEN engine[e] ELSE res.engine
  OBVIOUS
<1> PICK err \in BOOLEAN : err <=> lost # "nothing" \/ res.err # "none"
  OBVIOUS
<1> PICK a : a = [req[r] EXCEPT !.calls = @ \ {<<e, id>>}, !.failed = Failed(r, e, id, err)]
  OBVIOUS
<1>3. Outcome(r, e, id, free, lost, after, err)
  BY <1>2 DEF Outcome
<1>4. req' = [req EXCEPT ![r] = a]
  <2>1. DOMAIN req = Reqs /\ req[r] \in Activations
    BY DEF FleetInv, BaseInv, ActivationOK
  <2>2. req' = [req EXCEPT ![r].calls = @ \ {<<e, id>>}, ![r].failed = Failed(r, e, id, err)]
    BY <1>2 DEF Failed
  <2> QED
    BY <2>1, <2>2 DEF Activations
<1> HIDE <1>2
<1>5. CASE req[r].op \in ImportOps
  BY <1>1, <1>3, <1>4, <1>5, CallImportKeeps
<1>6. CASE req[r].op \notin ImportOps
  <2>1. id \in req[r].ids /\ req[r].pc \in {"push", "predelete"} /\ Sound(engine[e])
    BY <1>1, <1>6, WriteFacts DEF ActivationOK, FleetInv, BaseInv
  <2>2. Stores(engine[e], id, Result(req[r], engine[e], id, heap), CallResult(r, engine[e], id, free))
    BY <2>1, <1>6, CallStores
  <2> QED
    BY <2>2, <1>1, <1>3, <1>4, <1>6, CallOneKeeps
<1> QED
  BY <1>5, <1>6

\* Any step of a handler keeps the invariant.
LEMMA HandleKeeps ==
  ASSUME FleetInv, NEW r \in Reqs, Handle(r) PROVE FleetInv'
<1>1. CASE Begin(r)
  BY <1>1, BeginKeeps
<1>2. CASE WriteOne(r)
  BY <1>2, WriteOneKeeps
<1>3. CASE WriteDeleteAll(r)
  BY <1>3, WriteDeleteAllKeeps
<1>4. CASE WriteReplace(r)
  BY <1>4, WriteReplaceKeeps
<1>5. CASE WriteBulk(r)
  BY <1>5, WriteBulkKeeps
<1>6. CASE WriteImport(r)
  BY <1>6, WriteImportKeeps
<1>7. CASE \E e \in Engines, id \in MockIDs \cup {0} : Call(r, e, id)
  BY <1>7, AnyCallKeeps
<1>8. CASE Replaced(r)
  BY <1>8, ReplacedKeeps
<1>9. CASE Answered(r)
  BY <1>9, AnsweredKeeps
<1>10. CASE Undo(r)
  BY <1>10, UndoKeeps
<1> QED
  BY <1>1, <1>2, <1>3, <1>4, <1>5, <1>6, <1>7, <1>8, <1>9, <1>10 DEF Handle

-----------------------------------------------------------------------------
(* The remote engine *)

SyncStates == [pc : {"idle", "running", "send"}, mocks : Table \cup {<<>>}]

SyncOK(s) == s \in SyncStates /\ (s.pc = "send" => s.mocks \in Table)

\* The remote engine changes, or what is known of it, and nothing else
RemoteOnly ==
  /\ UNCHANGED handlers
  /\ DOMAIN engine' = Engines /\ engine'["local"] = engine["local"] /\ Sound(engine'["remote"])
  /\ status' \in {"none", "online", "offline"} /\ SyncOK(sync') /\ faults' \in 0 .. MaxFaults
  /\ current' \in BOOLEAN

\* What is current is what was, or a mock for mock copy of the store between requests
StaysCurrent ==
  current' => \/ current /\ engine'["remote"] = engine["remote"]
              \/ Quiet /\ \A i \in MockIDs : engine'["remote"].mocks[i] = Config(store[i], heap)

\* A step of the registry keeps the invariant, if it says current only of such an engine.
LEMMA RegistryKeeps ==
  ASSUME FleetInv, RemoteOnly, StaysCurrent PROVE FleetInv'
<1>1. UNCHANGED <<heap, store, req, soiled>> /\ engine'["local"] = engine["local"]
  BY DEF RemoteOnly, handlers
<1>2. BaseInv'
  <2>1. \A e \in Engines : Sound(engine'[e])
    BY DEF RemoteOnly, Engines, FleetInv, BaseInv
  <2> QED
    BY <2>1, <1>1 DEF RemoteOnly, SyncOK, SyncStates, FleetInv, BaseInv
<1>3. Owners(req', soiled')
  BY <1>1 DEF FleetInv
<1>4. ASSUME NEW e \in Engines, NEW i \in MockIDs \ soiled, e = "remote" => current'
      PROVE  Agreed(e, i, engine'[e].mocks[i], store, heap, req)
  <2>1. CASE e = "local" \/ (current /\ engine'["remote"] = engine["remote"])
    <3>1. engine'[e] = engine[e] /\ (e = "remote" => current)
      BY <2>1, <1>1 DEF Engines
    <3> QED
      BY <3>1, <1>4 DEF FleetInv, Agreement
  <2>2. CASE e = "remote" /\ Quiet /\ \A x \in MockIDs : engine'["remote"].mocks[x] = Config(store[x], heap)
    <3>1. \A r \in Reqs : TouchedBy(req[r]) = {}
      BY <2>2 DEF Quiet, Active, TouchedBy
    <3> QED
      BY <3>1, <2>2 DEF Agreed
  <2> QED
    BY <1>4, <2>1, <2>2 DEF StaysCurrent, Engines
<1>5. ASSUME NEW r \in Reqs, req[r].pc = "push", req[r].op \in ImportOps PROVE ~current'
  BY <1>5 DEF StaysCurrent, Quiet, Active, FleetInv, Agreement
<1>6. Agreement(engine', store', heap', req', soiled', current')
  BY <1>1, <1>4, <1>5 DEF Agreement
<1> QED
  BY <1>2, <1>3, <1>6 DEF FleetInv

\* What the registry starts from.
LEMMA RegistryFacts ==
  ASSUME FleetInv
  PROVE  /\ DOMAIN engine = Engines /\ Sound(engine["remote"]) /\ status \in {"none", "online", "offline"}
         /\ SyncOK(sync) /\ faults \in 0 .. MaxFaults /\ current \in BOOLEAN /\ Contents \in Table
         /\ sync \in SyncStates
<1>1. Contents \in Table
  <2>1. ASSUME NEW i \in MockIDs, store[i] # Nil PROVE heap[store[i]] \in FleetConfig
    <3>1. store[i] \in Objects /\ Refers(store, req, store[i], i)
      BY <2>1 DEF FleetInv, BaseInv, StoreStates, Refers
    <3> QED
      BY <3>1 DEF FleetInv, BaseInv, HeapOK
  <2> QED
    BY <2>1 DEF Contents, Stored, Table
<1> QED
  BY <1>1 DEF FleetInv, BaseInv, SyncOK, SyncStates, Engines

\* A sync that starts, or does not because one runs.
LEMMA StartSyncOK ==
  ASSUME SyncOK(sync), sync \in SyncStates, StartSync PROVE SyncOK(sync')
<1>1. CASE sync.pc = "idle"
  BY <1>1 DEF StartSync, SyncOK, SyncStates
<1>2. CASE sync.pc # "idle"
  BY <1>2 DEF StartSync
<1> QED
  BY <1>1, <1>2

\* The end of a full sync.
LEMMA SyncImportKeeps ==
  ASSUME FleetInv, SyncImport PROVE FleetInv'
<1>1. PICK free \in {Ports, {}}, lost \in {"nothing", "call", "answer"} :
       /\ lost # "nothing" => faults < MaxFaults
       /\ faults' = IF lost = "nothing" THEN faults ELSE faults + 1
       /\ engine' = IF lost = "call" THEN engine
                    ELSE [engine EXCEPT !["remote"] = handleImportConfig(@, sync.mocks, TRUE, free).engine]
       /\ current' = \/ /\ lost = "nothing" /\ free = Ports /\ Servable /\ sync.mocks = Contents
                        /\ \A r \in Reqs : ~Active(r)
                     \/ current /\ lost = "call"
  BY DEF SyncImport
<1>2. sync.pc = "send" /\ sync' = [pc |-> "idle", mocks |-> <<>>] /\ UNCHANGED <<handlers, status>>
  BY DEF SyncImport
<1> PICK E : E = engine["remote"]
  OBVIOUS
<1> PICK cfgs : cfgs = sync.mocks
  OBVIOUS
<1>3. Sound(E) /\ cfgs \in Table /\ DOMAIN engine = Engines
  BY <1>2, RegistryFacts DEF SyncOK
<1>9. ASSUME free = Ports, Compatible(cfgs), NEW y \in BOOLEAN PROVE Exact(E, cfgs, y, free)
  BY <1>3, <1>9, ImportExact
<1> PICK replace \in BOOLEAN : replace <=> TRUE
  OBVIOUS
<1> DEFINE F == handleImportConfig(E, cfgs, replace, free).engine
<1>4. Sound(F)
  BY <1>3, ImportSound
<1>5. engine' = IF lost = "call" THEN engine ELSE [engine EXCEPT !["remote"] = F]
  BY <1>1
<1> HIDE DEF F
<1>6. SyncOK(sync')
  BY <1>2 DEF SyncOK, SyncStates
<1>7. RemoteOnly
  <2>1. faults' \in 0 .. MaxFaults
    BY <1>1, RegistryFacts, FleetAssumption
  <2>2. current' \in BOOLEAN
    BY <1>1, RegistryFacts
  <2>3. DOMAIN engine' = Engines /\ engine'["local"] = engine["local"] /\ Sound(engine'["remote"])
    BY <1>3, <1>4, <1>5 DEF Engines
  <2> QED
    BY <2>1, <2>2, <2>3, <1>2, <1>6, RegistryFacts DEF RemoteOnly
<1>8. StaysCurrent
  <2>1. CASE lost = "call"
    BY <2>1, <1>1, <1>5 DEF StaysCurrent
  <2>2. CASE lost # "call"
    <3> SUFFICES ASSUME current' PROVE Quiet /\ \A i \in MockIDs : engine'["remote"].mocks[i] = Config(store[i], heap)
      BY DEF StaysCurrent
    <3>1. free = Ports /\ Servable /\ cfgs = Contents /\ Quiet
      BY <2>2, <1>1 DEF Quiet
    <3>2. Compatible(cfgs)
      <4>1. \A i \in MockIDs : cfgs[i] = Stored(i) /\ (cfgs[i] # NoMock => store[i] # Nil)
        BY <3>1 DEF Contents, Stored
      <4> QED
        BY <3>1, <4>1 DEF Servable, Compatible
    <3>3. ASSUME NEW i \in MockIDs PROVE F.mocks[i] = cfgs[i]
      <4>1. Exact(E, cfgs, replace, free)
        BY <3>1, <3>2, <1>9
      <4> QED
        BY <4>1 DEF Exact, F
    <3>4. \A i \in MockIDs : cfgs[i] = Config(store[i], heap)
      BY <3>1 DEF Contents, Stored, Config
    <3>5. engine'["remote"] = F
      BY <2>2, <1>3, <1>5 DEF Engines
    <3> QED
      BY <3>1, <3>3, <3>4, <3>5
  <2> QED
    BY <2>1, <2>2
<1> QED
  BY <1>7, <1>8, RegistryKeeps

\* Registration, heartbeats, health checks, syncs and crashes keep the invariant.
LEMMA RegistryStepKeeps ==
  ASSUME FleetInv, Registry PROVE FleetInv'
<1>1. ASSUME UNCHANGED <<handlers, engine, faults, current>>, SyncOK(sync'), status' \in {"none", "online", "offline"}
      PROVE  FleetInv'
  <2>1. RemoteOnly
    BY <1>1, RegistryFacts DEF RemoteOnly
  <2>2. StaysCurrent
    BY <1>1 DEF StaysCurrent
  <2> QED
    BY <2>1, <2>2, RegistryKeeps
<1>2. CASE handleRegisterEngine
  BY <1>1, <1>2, RegistryFacts, StartSyncOK DEF handleRegisterEngine
<1>3. CASE handleUnregisterEngine
  <2>1. RemoteOnly
    BY <1>3, RegistryFacts DEF RemoteOnly, handleUnregisterEngine
  <2>2. StaysCurrent
    BY <1>3 DEF StaysCurrent, handleUnregisterEngine
  <2> QED
    BY <2>1, <2>2, RegistryKeeps
<1>4. CASE handleEngineHeartbeat
  <2>1. SyncOK(sync')
    BY <1>4, RegistryFacts, StartSyncOK DEF handleEngineHeartbeat
  <2> QED
    BY <2>1, <1>1, <1>4 DEF handleEngineHeartbeat
<1>5. CASE checkEngineHealth
  BY <1>1, <1>5, RegistryFacts DEF checkEngineHealth
<1>6. CASE SyncRead
  <2>1. sync' = [sync EXCEPT !.pc = "idle"] \/ sync' = [pc |-> "send", mocks |-> Contents]
    BY <1>6 DEF SyncRead
  <2>2. SyncOK(sync')
    BY <2>1, RegistryFacts DEF SyncOK, SyncStates
  <2> QED
    BY <2>2, <1>1, <1>6, RegistryFacts DEF SyncRead
<1>7. CASE SyncImport
  BY <1>7, SyncImportKeeps
<1>8. CASE Restart
  <2>1. faults' \in 0 .. MaxFaults
    BY <1>8, RegistryFacts, FleetAssumption DEF Restart
  <2>2. DOMAIN engine' = Engines /\ engine'["local"] = engine["local"] /\ engine'["remote"] = EmptyEngine
    BY <1>8, RegistryFacts DEF Restart, Engines
  <2>3. RemoteOnly
    BY <1>8, <2>1, <2>2, RegistryFacts, EmptySound DEF RemoteOnly, Restart
  <2>4. StaysCurrent
    BY <1>8 DEF StaysCurrent, Restart
  <2> QED
    BY <2>3, <2>4, RegistryKeeps
<1> QED
  BY <1>2, <1>3, <1>4, <1>5, <1>6, <1>7, <1>8 DEF Registry

-----------------------------------------------------------------------------
(* The theorems *)

\* The first mock, in store and local engine.
LEMMA InitInv == FleetInit => FleetInv
<1> SUFFICES ASSUME FleetInit PROVE FleetInv
  OBVIOUS
<1>1. 1 \in MockIDs /\ 1 \in Objects /\ 1 # Nil /\ \A i \in MockIDs : i # 0
  <2>1. Cardinality(Reqs) \in Nat
    BY FleetAssumption, FS_CardinalityType
  <2>2. NMocks \in Nat /\ NMocks > 0
    BY FleetAssumption, EngineMocksAssumption
  <2> PICK n \in Nat : n = Cardinality(Reqs) + 1
    BY <2>1
  <2>3. n >= 1
    BY <2>1
  <2>4. NMocks * n >= 1
    BY <2>2, <2>3
  <2>5. 1 \in 1 .. NMocks * n
    BY <2>2, <2>4
  <2> QED
    BY <2>2, <2>5 DEF MockIDs, Objects, Nil
<1>2. PICK at \in Addresses :
       LET first == [ver |-> CHOOSE v \in Vers : TRUE, on |-> TRUE, at |-> at] IN
       /\ heap = [o \in Objects |-> IF o = 1 THEN first ELSE NoMock]
       /\ engine = [e \in Engines |->
            IF e = "local" THEN Add(EmptyEngine, 1, first, Ports).engine ELSE EmptyEngine]
  BY DEF FleetInit
<1>3. /\ store = [id \in MockIDs |-> IF id = 1 THEN 1 ELSE Nil] /\ req = [r \in Reqs |-> NotSent]
      /\ status = "none" /\ sync = [pc |-> "idle", mocks |-> <<>>]
      /\ faults = 0 /\ soiled = {} /\ current = FALSE
  BY DEF FleetInit
<1> PICK first : first = [ver |-> CHOOSE v \in Vers : TRUE, on |-> TRUE, at |-> at]
  OBVIOUS
<1>4. first \in FleetConfig /\ (first.at \in Ports => EmptyEngine.serving[first.at] = NoMock)
  <2>1. (CHOOSE v \in Vers : TRUE) \in Vers
    BY FleetAssumption
  <2> QED
    BY <2>1 DEF FleetConfig, EmptyEngine
<1> PICK res : res = Add(EmptyEngine, 1, first, Ports)
  OBVIOUS
<1>5. res.err = "none" /\ Stores(EmptyEngine, 1, first, res)
  <2>1. EmptyEngine.mocks[1] = NoMock
    BY <1>1 DEF EmptyEngine
  <2> QED
    BY <2>1, <1>1, <1>4, EmptySound, AddSucceeds, Added
<1>6. Sound(res.engine) /\ \A i \in MockIDs : res.engine.mocks[i] = IF i = 1 THEN first ELSE NoMock
  <2>1. EmptyEngine.mocks = [i \in MockIDs |-> NoMock]
    BY DEF EmptyEngine
  <2>2. Sound(res.engine) /\ res.engine.mocks = [EmptyEngine.mocks EXCEPT ![1] = first]
    BY <1>5 DEF Stores
  <2> QED
    BY <1>1, <2>1, <2>2
<1>7. engine = [e \in Engines |-> IF e = "local" THEN res.engine ELSE EmptyEngine]
  BY <1>2
<1>8. \A r \in Reqs : req[r] = NotSent /\ ActivationOK(req[r]) /\ TouchedBy(req[r]) = {}
  <2>1. ActivationOK(NotSent) /\ TouchedBy(NotSent) = {}
    BY NotSentOK DEF ActivationOK, TouchedBy, NotSent, One, ImportOps, Sends
  <2> QED
    BY <2>1, <1>3
<1>9. heap \in Heaps /\ store \in StoreStates /\ heap[1] = first
  BY <1>1, <1>2, <1>3, <1>4 DEF Heaps, StoreStates
<1>10. ASSUME NEW o \in Objects, NEW i \in MockIDs, Refers(store, req, o, i) PROVE o = 1 /\ i = 1
  <2>1. o # Nil
    BY DEF Objects, Nil
  <2> QED
    BY <2>1, <1>3, <1>8, <1>10, NotSentOK DEF Refers
<1>11. HeapOK(heap, store, req)
  BY <1>4, <1>9, <1>10 DEF HeapOK
<1>12. BaseInv
  <2>1. DOMAIN engine = Engines /\ \A e \in Engines : Sound(engine[e])
    BY <1>6, <1>7, EmptySound
  <2>2. SyncOK(sync)
    BY <1>3 DEF SyncOK, SyncStates
  <2>3. faults \in 0 .. MaxFaults
    BY <1>3, FleetAssumption
  <2> QED
    BY <2>1, <2>2, <2>3, <1>3, <1>8, <1>9, <1>11 DEF BaseInv, SyncOK, SyncStates
<1>13. Owners(req, soiled)
  BY <1>8 DEF Owners
<1>14. \A i \in MockIDs : engine["local"].mocks[i] = Config(store[i], heap)
  BY <1>1, <1>3, <1>6, <1>7, <1>9 DEF Config, Engines
<1>15. Agreement(engine, store, heap, req, soiled, current)
  BY <1>3, <1>8, <1>14, NotSentOK DEF Agreement, Agreed, Engines, ImportOps
<1> QED
  BY <1>12, <1>13, <1>15 DEF FleetInv

\* FleetInv is an inductive invariant of the fleet.
THEOREM FleetInvariant == FleetSpec => []FleetInv
<1>1. FleetInit => FleetInv
  BY InitInv
<1>2. FleetInv /\ [FleetNext]_fleetVars => FleetInv'
  <2> SUFFICES ASSUME FleetInv, [FleetNext]_fleetVars PROVE FleetInv'
    OBVIOUS
  <2>1. CASE Registry
    BY <2>1, RegistryStepKeeps
  <2>2. CASE \E r \in Reqs : Handle(r)
    BY <2>2, HandleKeeps
  <2>3. CASE UNCHANGED fleetVars
    BY <2>3 DEF fleetVars, FleetInv, BaseInv
  <2> QED
    BY <2>1, <2>2, <2>3 DEF FleetNext
<1> QED
  BY <1>1, <1>2, PTL DEF FleetSpec

\* Store, engines, activations and the registry always have their types.
THEOREM FleetTypes == FleetSpec => []FleetTypeOK
<1>1. FleetInv => FleetTypeOK
  <2> SUFFICES ASSUME FleetInv PROVE FleetTypeOK
    OBVIOUS
  <2>1. /\ heap \in Heaps /\ store \in StoreStates /\ (\A e \in Engines : Sound(engine[e]))
        /\ (\A r \in Reqs : ActivationOK(req[r])) /\ status \in {"none", "online", "offline"}
        /\ sync \in SyncStates /\ (sync.pc = "send" => sync.mocks \in Table)
        /\ faults \in 0 .. MaxFaults /\ soiled \subseteq MockIDs /\ current \in BOOLEAN
    BY DEF FleetInv, BaseInv, SyncStates
  <2>2. \A e \in Engines : /\ engine[e].mocks \in Table
                           /\ engine[e].serving \in [Ports \cup Routes -> MockIDs \cup {NoMock}]
    BY <2>1 DEF Sound, SoundBut, EngineStates
  <2>3. \A r \in Reqs : req[r].calls \subseteq Engines \X (MockIDs \cup {0}) /\ req[r].failed \subseteq req[r].ids
    BY <2>1 DEF ActivationOK, Activations
  <2>4. sync.pc \in {"idle", "running", "send"}
    BY <2>1 DEF SyncStates
  <2> QED
    BY <2>1, <2>2, <2>3, <2>4 DEF FleetTypeOK, Heaps, StoreStates
<1> QED
  BY <1>1, FleetInvariant, PTL

\* Whatever updates, toggles, imports and failures there were, each server and handler
\* that an engine runs is that of a mock it has, enabled, and configured for that address.
THEOREM NoneOrphaned == FleetSpec => []NoOrphanHandlers
<1>1. FleetInv => NoOrphanHandlers
  <2> SUFFICES ASSUME FleetInv, NEW e \in Engines, NEW a \in Ports \cup Routes,
                      NEW id, id = engine[e].serving[a], id # NoMock
               PROVE  engine[e].mocks[id] # NoMock /\ engine[e].mocks[id].on /\ engine[e].mocks[id].at = a
    BY DEF NoOrphanHandlers
  <2>1. Sound(engine[e])
    BY DEF FleetInv, BaseInv
  <2>2. Belongs(engine[e], a, 0) /\ id \in MockIDs /\ id # 0
    BY <2>1, EngineMocksAssumption DEF Sound, SoundBut, EngineStates, MockIDs
  <2> QED
    BY <2>2 DEF Belongs
<1> QED
  BY <1>1, FleetInvariant, PTL

\* Between requests an engine that counts has the mocks of the store.
LEMMA QuietAgrees ==
  ASSUME FleetInv, Quiet, NEW e \in Engines, e = "remote" => current, NEW id \in MockIDs \ soiled
  PROVE  engine[e].mocks[id] = Stored(id)
<1>1. \A r \in Reqs : TouchedBy(req[r]) = {}
  BY DEF Quiet, Active, TouchedBy
<1>2. Agreed(e, id, engine[e].mocks[id], store, heap, req)
  BY DEF FleetInv, Agreement
<1> QED
  BY <1>1, <1>2 DEF Agreed, Config, Stored

\* Between requests the local engine has the mocks of the store, except those that
\* overlapping requests, lost answers or handlers that gave up have soiled.
THEOREM LocalAgreement == FleetSpec => []LocalAgrees
<1>1. FleetInv => LocalAgrees
  BY QuietAgrees DEF LocalAgrees, Engines
<1> QED
  BY <1>1, FleetInvariant, PTL

\* So does a remote engine that was synced between requests and sent every change since.
THEOREM RemoteAgreement == FleetSpec => []RemoteAgrees
<1>1. FleetInv => RemoteAgrees
  BY QuietAgrees DEF RemoteAgrees, Engines
<1> QED
  BY <1>1, FleetInvariant, PTL

=============================================================================
