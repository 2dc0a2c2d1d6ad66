------------------------------ MODULE MockFleet ------------------------------
(***************************************************************************)
(* The admin API's mock requests (pkg/admin/mocks_handlers.go), the store  *)
(* they write (pkg/store/file/mock_store.go), the fan-out of every change  *)
(* to the engines (pkg/admin/engine_fanout.go, engineclient/client.go),    *)
(* and the registration, heartbeats and full syncs of remote engines       *)
(* (pkg/admin/engine_handlers.go, pkg/store/engine_registry.go).           *)
(*                                                                         *)
(* A handler reads the store, checks, writes the store, calls every engine *)
(* in parallel and, when the local engine answers with an error, undoes    *)
(* its write; requests interleave between these steps, the store's mutex   *)
(* is held within one only.  The store hands out the very objects it       *)
(* holds, so mocks live in a heap.  A call may be lost, or its answer.     *)
(***************************************************************************)
EXTENDS EngineMocks, FiniteSets, Functions

CONSTANTS
  Reqs,        \* clients of the admin API, each with one request at a time
  Ops,         \* what a request may ask for
  Workspace,   \* mock ID -> its workspace
  Type,        \* mock ID -> its protocol type
  Siblings,    \* workspaces assigned to the registered engine
  MaxRequests, \* bound: requests sent
  MaxFaults    \* bound: lost calls and answers, crashes of the remote engine

Engines == {"local", "remote"}
Objects == 1 .. NMocks * (Cardinality(Reqs) + 1)
Nil == 0

ASSUME FleetAssumption ==
  /\ NMocks > 0 /\ Vers # {} /\ IsFiniteSet(Reqs)
  /\ MaxRequests \in Nat /\ MaxFaults \in Nat

VARIABLES
  heap,       \* object -> mock configuration
  store,      \* the admin store: ID -> the object under it, or Nil
  engine,     \* engine -> its state (EngineMocks)
  req,        \* request -> its handler's activation
  status,     \* the remote engine in the registry: "none", "online", "offline"
  sync,       \* the full sync of the remote engine, and the mocks it has read
  sent,       \* requests sent so far
  faults,     \* calls and answers lost so far, and crashes
  soiled,     \* auxiliary: IDs on which requests overlapped, or a call was lost
  current     \* auxiliary: the remote engine was synced and missed nothing since

fleetVars == <<heap, store, engine, req, sent, status, sync, faults, soiled, current>>

\* Handler locals: the mocks it is about, the objects it will store (obj) and the one
\* it would put back (old), the calls to make, the mocks whose local call failed, the
\* code answered; was is the enabled flag before a toggle
NotSent == [pc |-> "idle", op |-> "none", ids |-> {}, obj |-> [id \in MockIDs |-> Nil],
            old |-> Nil, calls |-> {}, failed |-> {}, code |-> "none", was |-> FALSE]

Stored(id) == IF store[id] = Nil THEN NoMock ELSE heap[store[id]]
Contents == [id \in MockIDs |-> Stored(id)]

Held == {store[id] : id \in MockIDs} \cup {req[r].old : r \in Reqs}
          \cup {req[r].obj[id] : r \in Reqs, id \in MockIDs}

\* The heap is h; objects that nobody holds any more are not told apart
Heap(h) == \E held \in {Held'} : heap' = [o \in Objects |-> IF o \in held THEN h[o] ELSE NoMock]

\* New objects for the mocks; bound: Objects must have room for them
Room(ids) == ~\A f \in [ids -> Objects \ Held] : ~IsInjective(f)
Alloc(ids) == CHOOSE f \in [ids -> Objects \ Held] : IsInjective(f)
At(ids, f) == [id \in MockIDs |-> IF id \in ids THEN f[id] ELSE Nil]

FleetInit ==
  /\ \E at \in Addresses :
       LET first == [ver |-> CHOOSE v \in Vers : TRUE, on |-> TRUE, at |-> at] IN
       /\ heap = [o \in Objects |-> IF o = 1 THEN first ELSE NoMock]
       /\ engine = [e \in Engines |->
            IF e = "local" THEN Add(EmptyEngine, 1, first, Ports).engine ELSE EmptyEngine]
  /\ store = [id \in MockIDs |-> IF id = 1 THEN 1 ELSE Nil]
  /\ req = [r \in Reqs |-> NotSent]
  /\ status = "none" /\ sync = [pc |-> "idle", mocks |-> <<>>]
  /\ sent = 0 /\ faults = 0 /\ soiled = {} /\ current = FALSE

-----------------------------------------------------------------------------
(* Handlers, up to the write of the store *)

Active(r) == req[r].pc \notin {"idle", "done"}

\* The mocks a request is working on: an import that replaces clears the engine
Touches(op, ids) == IF op = "importReplace" THEN MockIDs ELSE ids
Touched(r) == IF Active(r) THEN Touches(req[r].op, req[r].ids) ELSE {}

\* Mocks among ids that another request is working on
Overlap(r, ids) == {id \in ids : \E q \in Reqs \ {r} : id \in Touched(q)}

\* The handler has read and checked, and goes on to write the store
Enter(r, op, ids, obj, old, was, pc) ==
  /\ ~Active(r) /\ op \in Ops
  /\ sent' = sent + 1
  /\ req' = [req EXCEPT ![r] = [NotSent EXCEPT !.pc = pc, !.op = op, !.ids = ids, !.obj = obj,
                                               !.old = old, !.was = was]]
  /\ soiled' = soiled \cup Overlap(r, Touches(op, ids))
  /\ UNCHANGED <<store, engine, status, sync, faults, current>>

Done(r, code) == req' = [req EXCEPT ![r] = [NotSent EXCEPT !.pc = "done", !.code = code]]

\* Answered with an error before anything was written, or so it should be
Refuse(r) ==
  /\ ~Active(r)
  /\ sent' = sent + 1
  /\ Done(r, "refused")
  /\ UNCHANGED <<store, engine, status, sync, faults, current>>

Checked(ws) == IF ws \in Siblings THEN Siblings ELSE {ws}

\* checkPortAvailability: mocks with the port in the workspaces to check
PortUsers(id, at, exclude) ==
  {x \in MockIDs \ exclude : /\ at \in Ports /\ store[x] # Nil
                             /\ Workspace[x] \in Checked(Workspace[id]) /\ Stored(x).at = at}

Mergeable(id, x) == Type[id] = Type[x] /\ Workspace[id] = Workspace[x]

\* A configuration that can be told from the one that is stored
New(id, on, at) ==
  [ver : {v \in Vers : store[id] = Nil \/ Stored(id).ver # v}, on : {on}, at : {at}]

\* Same port, protocol and workspace: the mock is merged into the target, in the
\* store's own object; a conflict found half way leaves the first half in it
handleMergeMock(r, x) ==
  \E cfg \in New(x, Stored(x).on, Stored(x).at) :
    LET merged == [heap EXCEPT ![store[x]] = cfg] IN
    \/ Enter(r, "merge", {x}, At({x}, store), Nil, FALSE, "write") /\ Heap(merged)
    \/ "merge" \in Ops /\ Refuse(r) /\ soiled' = soiled \cup {x} /\ Heap(merged)

\* An invalid body, an ID that is taken or missing, a route collision, a port
\* conflict: every handler but PATCH and merge has changed nothing by then
RefuseEarly(r) == Refuse(r) /\ UNCHANGED <<heap, soiled>>

handleCreateUnifiedMock(r, id, at) ==
  /\ store[id] = Nil
  /\ \/ /\ PortUsers(id, at, {}) = {} /\ Room({id})
        /\ \E cfg \in New(id, TRUE, at) :
             LET new == Alloc({id}) IN
             Enter(r, "create", {id}, At({id}, new), Nil, FALSE, "write") /\ Heap([heap EXCEPT ![new[id]] = cfg])
     \/ \E x \in PortUsers(id, at, {}) : Mergeable(id, x) /\ handleMergeMock(r, x)

\* A mock converted from a recording, under a fresh ID
mockCreator(r, id) ==
  /\ store[id] = Nil /\ Room({id})
  /\ \E cfg \in New(id, TRUE, Plain) :
       LET new == Alloc({id}) IN
       Enter(r, "convert", {id}, At({id}, new), Nil, FALSE, "write") /\ Heap([heap EXCEPT ![new[id]] = cfg])

handleUpdateUnifiedMock(r, id, on, at) ==
  /\ store[id] # Nil /\ PortUsers(id, at, {id}) = {} /\ Room({id})
  /\ \E cfg \in New(id, on, at) :
       LET new == Alloc({id}) IN
       Enter(r, "update", {id}, At({id}, new), store[id], FALSE, "write") /\ Heap([heap EXCEPT ![new[id]] = cfg])

\* Mutant: the copy for the rollback is made after the patch
patchLateCopy(r, id, on, at) ==
  /\ store[id] # Nil /\ Room({id})
  /\ \E cfg \in New(id, on, at) :
       LET new == Alloc({id})
           patched == [heap EXCEPT ![store[id]] = cfg, ![new[id]] = cfg] IN
       \/ Enter(r, "patch", {id}, At({id}, store), new[id], FALSE, "write") /\ Heap(patched)
       \/ "patch" \in Ops /\ Refuse(r) /\ soiled' = soiled \cup {id} /\ Heap(patched)

\* The patch is applied to the store's own object, after a copy of it was made,
\* and only then validated and checked for a route collision
handlePatchUnifiedMock(r, id, on, at) ==
  /\ store[id] # Nil /\ Room({id})
  /\ \E cfg \in New(id, on, at) :
       LET new == Alloc({id})
           patched == [heap EXCEPT ![store[id]] = cfg, ![new[id]] = heap[store[id]]] IN
       \/ Enter(r, "patch", {id}, At({id}, store), new[id], FALSE, "write") /\ Heap(patched)
       \/ "patch" \in Ops /\ Refuse(r) /\ soiled' = soiled \cup {id} /\ Heap(patched)

handleToggleUnifiedMock(r, id) ==
  /\ store[id] # Nil
  /\ Enter(r, "toggle", {id}, At({id}, store), store[id], Stored(id).on, "write")
  /\ Heap([heap EXCEPT ![store[id]].on = ~@])

handleDeleteUnifiedMock(r, id) ==
  /\ store[id] # Nil
  /\ Enter(r, "delete", {id}, At({}, store), store[id], FALSE, "write")
  /\ UNCHANGED heap

handleDeleteAllUnifiedMocks(r) ==
  /\ Enter(r, "deleteAll", {id \in MockIDs : store[id] # Nil}, At({}, store), Nil, FALSE, "write")
  /\ UNCHANGED heap

\* The mocks of a batch or a collection become objects
Decoded(r, op, ids, at, pc) ==
  \E v \in Vers :
    LET new == Alloc(ids) IN
    /\ Room(ids)
    /\ Enter(r, op, ids, At(ids, new), Nil, FALSE, pc)
    /\ Heap([o \in Objects |-> IF o \in Range(new) THEN [ver |-> v, on |-> TRUE, at |-> at] ELSE heap[o]])

\* With replace=true, what has these IDs is deleted first, here and on the engines
handleBulkCreateUnifiedMocks(r, ids, at) ==
  \/ Decoded(r, "bulk", ids, at, "check")
  \/ Decoded(r, "bulk", ids, at, "replace")

\* An import into one workspace, of mocks of that workspace
adminImportConfig(r, ids, at) ==
  /\ \A i, j \in ids : Workspace[i] = Workspace[j]
  /\ Decoded(r, "import", ids, at, "write") \/ Decoded(r, "importReplace", ids, at, "write")

\* A request comes in; bound: MaxRequests
Begin(r) ==
  /\ sent < MaxRequests
  /\ \/ RefuseEarly(r)
     \/ \E id \in MockIDs, at \in Addresses : handleCreateUnifiedMock(r, id, at)
     \/ \E id \in MockIDs : mockCreator(r, id)
     \/ \E id \in MockIDs, on \in BOOLEAN, at \in Addresses : handleUpdateUnifiedMock(r, id, on, at)
     \/ \E id \in MockIDs, on \in BOOLEAN, at \in Addresses : handlePatchUnifiedMock(r, id, on, at)
     \/ \E id \in MockIDs : handleToggleUnifiedMock(r, id)
     \/ \E id \in MockIDs : handleDeleteUnifiedMock(r, id)
     \/ handleDeleteAllUnifiedMocks(r)
     \/ \E ids \in SUBSET MockIDs \ {{}}, at \in Addresses :
          handleBulkCreateUnifiedMocks(r, ids, at) \/ adminImportConfig(r, ids, at)

-----------------------------------------------------------------------------
(* The write of the store *)

\* allEngineTargets: the local engine, and the remote one while it is online
Targets == {"local"} \cup (IF status = "online" THEN {"remote"} ELSE {})

Goto(r, pc, calls) == req' = [req EXCEPT ![r].pc = pc, ![r].calls = calls]

Put(ids, ref(_)) == store' = [id \in MockIDs |-> IF id \in ids THEN ref(id) ELSE store[id]]

\* The change is not sent to an engine that is not online
Miss == current' = (current /\ status = "online")

\* mockStore.Create, Update and Delete, and what the handler does on their errors
WriteOne(r) ==
  LET op == req[r].op  id == CHOOSE x \in req[r].ids : TRUE IN
  /\ req[r].pc = "write"
  /\ op \in {"create", "convert", "update", "patch", "merge", "toggle", "delete"}
  /\ IF \/ op = "create" /\ store[id] # Nil
        \/ op \notin {"create", "convert"} /\ store[id] = Nil
       THEN Done(r, "refused") /\ UNCHANGED <<store, current>>
       ELSE /\ store' = [store EXCEPT ![id] = req[r].obj[id]]
            /\ Goto(r, "push", Targets \X {id})
            /\ Miss
  /\ UNCHANGED <<engine, sent, status, sync, faults, soiled>>
  /\ Heap(heap)

WriteDeleteAll(r) ==
  /\ req[r].pc = "write" /\ req[r].op = "deleteAll"
  /\ store' = [id \in MockIDs |-> Nil]
  /\ Goto(r, "push", Targets \X req[r].ids)
  /\ soiled' = soiled \cup ({id \in MockIDs : store[id] # Nil} \ req[r].ids)
  /\ Miss
  /\ UNCHANGED <<engine, sent, status, sync, faults>>
  /\ Heap(heap)

\* The deletions of a bulk create with replace=true, whose errors are ignored
WriteReplace(r) ==
  /\ req[r].pc = "replace"
  /\ Put(req[r].ids, LAMBDA id : Nil)
  /\ Goto(r, "predelete", Targets \X req[r].ids)
  /\ Miss
  /\ UNCHANGED <<engine, sent, status, sync, faults, soiled>>
  /\ Heap(heap)

\* checkBulkPortConflicts: no port sharing, within the batch or with what is there
BulkConflict(r) ==
  LET new(id) == heap[req[r].obj[id]] IN
  \E id \in req[r].ids :
    \/ PortUsers(id, new(id).at, {}) # {}
    \/ \E x \in req[r].ids \ {id} : new(x).at \in Ports /\ new(x).at = new(id).at
                                    /\ Workspace[x] = Workspace[id]

WriteBulk(r) ==
  /\ req[r].pc = "check"
  /\ IF BulkConflict(r) \/ \E id \in req[r].ids : store[id] # Nil
       THEN Done(r, "refused") /\ UNCHANGED <<store, current>>
       ELSE /\ Put(req[r].ids, LAMBDA id : req[r].obj[id])
            /\ Goto(r, "push", Targets \X req[r].ids)
            /\ Miss
  /\ UNCHANGED <<engine, sent, status, sync, faults, soiled>>
  /\ Heap(heap)

\* The store is rewritten before the mocks are validated; only the local engine is
\* sent the import.  A replacement deletes the mocks of this workspace only.
WriteImport(r) ==
  LET ids == req[r].ids
      ws == {Workspace[id] : id \in ids}
      gone == IF req[r].op = "importReplace" THEN {id \in MockIDs : Workspace[id] \in ws} ELSE {}
  IN
  /\ req[r].pc = "write" /\ req[r].op \in {"import", "importReplace"}
  /\ Put(ids \cup gone, LAMBDA id : req[r].obj[id])
  /\ current' = FALSE
  /\ \/ Goto(r, "push", {<<"local", 0>>}) /\ UNCHANGED soiled
     \/ Done(r, "refused") /\ soiled' = soiled \cup ids \cup gone
  /\ UNCHANGED <<engine, sent, status, sync, faults>>
  /\ Heap(heap)

-----------------------------------------------------------------------------
(* The calls to the engines *)

\* Each push encodes the mocks as they are now and yields what the engine does with them
pushCreateToEngines(r, E, id, free) == handleCreateMock(E, id, heap[req[r].obj[id]], free)

pushUpdateToEngines(r, E, id, free) == handleUpdateMock(E, id, heap[req[r].obj[id]], free)

pushDeleteToEngines(r, E, id) == handleDeleteMock(E, id)

pushToggleToEngines(r, E, id, free) == handleToggleMock(E, id, heap[req[r].obj[id]].on, free)

pushImportToEngines(r, E, free) ==
  handleImportConfig(E, [id \in MockIDs |-> IF id \in req[r].ids THEN heap[req[r].obj[id]] ELSE NoMock],
                     req[r].op = "importReplace", free)

CallResult(r, E, id, free) ==
  LET op == req[r].op IN
  CASE req[r].pc = "predelete" \/ op \in {"delete", "deleteAll"} -> pushDeleteToEngines(r, E, id)
    [] req[r].pc = "push" /\ op \in {"create", "convert", "bulk"} -> pushCreateToEngines(r, E, id, free)
    [] op \in {"update", "patch", "merge"} -> pushUpdateToEngines(r, E, id, free)
    [] op = "toggle" -> pushToggleToEngines(r, E, id, free)
    [] op \in {"import", "importReplace"} -> pushImportToEngines(r, E, free)

\* Mutant: an import is undone like the rest
undoneImports(r) == req[r].pc = "predelete" \/ req[r].op \in {"merge", "deleteAll"}

\* Nobody undoes the store when these fail
BestEffort(r) == req[r].pc = "predelete" \/ req[r].op \in {"merge", "deleteAll", "import", "importReplace"}

\* The mocks an answered import left the engine without, or with another version
ImportMissed(r, E) ==
  IF req[r].op \in {"import", "importReplace"} THEN {id \in Touched(r) : E.mocks[id] # Stored(id)} ELSE {}

\* A call is answered, or it is lost, or its answer is: both are errors
Call(r, e, id) ==
  /\ <<e, id>> \in req[r].calls
  /\ \E free \in {Ports, {}}, lost \in {"nothing", "call", "answer"} :
       LET res == CallResult(r, engine[e], id, free)
           after == IF lost = "call" THEN engine[e] ELSE res.engine
           err == lost # "nothing" \/ res.err # "none"
       IN
       /\ lost # "nothing" => faults < MaxFaults
       /\ faults' = IF lost = "nothing" THEN faults ELSE faults + 1
       /\ engine' = [engine EXCEPT ![e] = after]
       /\ req' = [req EXCEPT ![r].calls = @ \ {<<e, id>>},
                             ![r].failed = IF e = "local" /\ err /\ ~BestEffort(r) THEN @ \cup {id} ELSE @]
       /\ soiled' = soiled \cup
            (IF e = "local" /\ (lost = "answer" \/ (err /\ BestEffort(r))) THEN req[r].ids ELSE {})
            \cup ImportMissed(r, after)
       /\ current' = (current /\ ~(e = "remote" /\ err))
  /\ UNCHANGED <<heap, store, sent, status, sync>>

Replaced(r) ==
  /\ req[r].pc = "predelete" /\ req[r].calls = {}
  /\ Goto(r, "check", {})
  /\ UNCHANGED <<heap, store, engine, sent, status, sync, faults, soiled, current>>

Answered(r) ==
  /\ req[r].pc = "push" /\ req[r].calls = {} /\ req[r].failed = {}
  /\ Done(r, "ok")
  /\ UNCHANGED <<store, engine, sent, status, sync, faults, soiled, current>>
  /\ Heap(heap)

\* The local engine answered with an error: the write of the store is undone, with
\* what the handler remembers, whatever is there now
Undo(r) ==
  LET op == req[r].op  id == CHOOSE x \in req[r].ids : TRUE IN
  /\ req[r].pc = "push" /\ req[r].calls = {} /\ req[r].failed # {}
  /\ store' =
       CASE op \in {"create", "convert", "bulk"} ->
              [x \in MockIDs |-> IF x \in req[r].failed THEN Nil ELSE store[x]]
         [] op \in {"update", "patch", "toggle"} ->
              [store EXCEPT ![id] = IF @ = Nil THEN Nil ELSE req[r].old]
         [] op = "delete" -> [store EXCEPT ![id] = IF @ = Nil THEN req[r].old ELSE @]
  /\ Done(r, "undone")
  /\ current' = FALSE
  /\ UNCHANGED <<engine, sent, status, sync, faults, soiled>>
  /\ Heap(IF op = "toggle" THEN [heap EXCEPT ![req[r].obj[id]].on = req[r].was] ELSE heap)

Handle(r) ==
  \/ Begin(r) \/ WriteOne(r) \/ WriteDeleteAll(r) \/ WriteReplace(r) \/ WriteBulk(r) \/ WriteImport(r)
  \/ \E e \in Engines, id \in MockIDs \cup {0} : Call(r, e, id)
  \/ Replaced(r) \/ Answered(r) \/ Undo(r)

-----------------------------------------------------------------------------
(* The remote engine: registration, heartbeats, full syncs *)

handlers == <<heap, store, req, sent, soiled>>

\* go syncAdminStoreToEngine: skipped while another sync of this engine runs
StartSync == sync' = IF sync.pc = "idle" THEN [sync EXCEPT !.pc = "running"] ELSE sync

\* First registration, or again after a crash
handleRegisterEngine ==
  /\ status' = "online"
  /\ StartSync
  /\ UNCHANGED <<handlers, engine, faults, current>>

handleUnregisterEngine ==
  /\ status # "none" /\ status' = "none"
  /\ current' = FALSE
  /\ UNCHANGED <<handlers, engine, sync, faults>>

\* The registry notes the engine as online, a full sync follows if it was offline;
\* then the status that the engine may have sent is noted
handleEngineHeartbeat ==
  /\ status # "none"
  /\ IF status = "offline" THEN StartSync ELSE UNCHANGED sync
  /\ status' \in {"online", "offline"}
  /\ UNCHANGED <<handlers, engine, faults, current>>

\* No heartbeat for the timeout
checkEngineHealth ==
  /\ status = "online" /\ status' = "offline"
  /\ UNCHANGED <<handlers, engine, sync, faults, current>>

\* An empty store is not pushed
SyncRead ==
  /\ sync.pc = "running"
  /\ sync' = IF \A id \in MockIDs : store[id] = Nil
               THEN [sync EXCEPT !.pc = "idle"] ELSE [pc |-> "send", mocks |-> Contents]
  /\ UNCHANGED <<handlers, engine, status, faults, current>>

\* No two enabled mocks want the same port: the engine can serve them all
Servable == \A i, j \in MockIDs :
  i # j /\ store[i] # Nil /\ store[j] # Nil /\ Stored(i).on /\ Stored(j).on
    => Stored(i).at \notin Ports \/ Stored(i).at # Stored(j).at

SyncImport ==
  /\ sync.pc = "send"
  /\ \E free \in {Ports, {}}, lost \in {"nothing", "call", "answer"} :
       /\ lost # "nothing" => faults < MaxFaults
       /\ faults' = IF lost = "nothing" THEN faults ELSE faults + 1
       /\ engine' = IF lost = "call" THEN engine
                    ELSE [engine EXCEPT !["remote"] = handleImportConfig(@, sync.mocks, TRUE, free).engine]
       /\ current' = \/ /\ lost = "nothing" /\ free = Ports /\ Servable /\ sync.mocks = Contents
                        /\ \A r \in Reqs : ~Active(r)
                     \/ current /\ lost = "call"
  /\ sync' = [pc |-> "idle", mocks |-> <<>>]
  /\ UNCHANGED <<handlers, status>>

\* The remote engine crashes and loses its mocks
Restart ==
  /\ faults < MaxFaults /\ faults' = faults + 1
  /\ engine' = [engine EXCEPT !["remote"] = EmptyEngine]
  /\ current' = FALSE
  /\ UNCHANGED <<handlers, status, sync>>

Registry ==
  \/ handleRegisterEngine \/ handleUnregisterEngine \/ handleEngineHeartbeat
  \/ checkEngineHealth \/ SyncRead \/ SyncImport \/ Restart

FleetNext == Registry \/ \E r \in Reqs : Handle(r)

FleetSpec == FleetInit /\ [][FleetNext]_fleetVars

\* Engines send heartbeats for ever, goroutines run on
FleetFairness ==
  /\ WF_fleetVars(handleEngineHeartbeat /\ status' = "online")
  /\ WF_fleetVars(SyncRead) /\ WF_fleetVars(SyncImport)
  /\ \A r \in Reqs : WF_fleetVars(Active(r) /\ Handle(r))

-----------------------------------------------------------------------------
(* Properties *)

\* Store, engines, activations and the registry have their types.
FleetTypeOK ==
  /\ heap \in [Objects -> FleetConfig \cup {NoMock}]
  /\ store \in [MockIDs -> Objects \cup {Nil}]
  /\ \A e \in Engines : /\ engine[e].mocks \in Table
                        /\ engine[e].serving \in [Ports \cup Routes -> MockIDs \cup {NoMock}]
  /\ \A r \in Reqs : /\ req[r].calls \subseteq Engines \X (MockIDs \cup {0})
                     /\ req[r].failed \subseteq req[r].ids
  /\ status \in {"none", "online", "offline"}
  /\ sync.pc \in {"idle", "running", "send"} /\ (sync.pc = "send" => sync.mocks \in Table)
  /\ faults \in 0 .. MaxFaults /\ soiled \subseteq MockIDs /\ current \in BOOLEAN

Quiet == \A r \in Reqs : ~Active(r)

\* Once all requests are answered, the local engine has the mocks of the store
\* ("keeping both in sync"), whatever it refused in between; except for mocks on
\* which requests overlapped, an answer was lost, or a handler gave up without undoing.
LocalAgrees ==
  Quiet => \A id \in MockIDs \ soiled : engine["local"].mocks[id] = Stored(id)

\* A server or handler that runs belongs to a mock that the engine has, enabled, and
\* configured for that address: updates, toggles, imports and failures leave none over.
NoOrphanHandlers ==
  \A e \in Engines : \A a \in Ports \cup Routes :
    LET id == engine[e].serving[a] IN
    id # NoMock => /\ engine[e].mocks[id] # NoMock
                   /\ engine[e].mocks[id].on /\ engine[e].mocks[id].at = a

\* A remote engine that was fully synced while no request ran, and was sent every
\* change since then, has the mocks of the store.
RemoteAgrees ==
  Quiet /\ current => \A id \in MockIDs \ soiled : engine["remote"].mocks[id] = Stored(id)

\* "Validate the patched mock configuration before persisting": a refused request
\* leaves the store alone.
RefusedLeavesStore ==
  [][\A r \in Reqs : req'[r].code = "refused" /\ req'[r] # req[r] => Contents' = Contents]_fleetVars

\* "Remote engine failures are logged as warnings only (heartbeat sync will catch
\* up)": once requests end, an engine that stays online, sending heartbeats, gets the mocks.
HeartbeatCatchesUp ==
  <>[](Quiet /\ status = "online") =>
    []<>(\A id \in MockIDs : engine["remote"].mocks[id] = Stored(id))

=============================================================================
