--------------------------- MODULE WorkspaceServers ---------------------------
(***************************************************************************)
(* Workspaces on engines: the engine registry's list of workspaces with    *)
(* their ports (pkg/store/engine_registry.go), the workspace servers of    *)
(* the manager (pkg/engine/workspace_manager.go), and the admin handlers   *)
(* that keep the two in step (pkg/admin/engine_handlers.go and             *)
(* workspace_server_handlers.go).  Registry and manager have a lock each;  *)
(* a handler takes the one, then the other.                                *)
(*                                                                         *)
(* The registry hands out pointers into the Go slice that holds an         *)
(* engine's workspaces: the backing arrays are kept, a pointer is an array *)
(* and an index, appending to a full array moves the slice to one of twice *)
(* the size, and removing shifts the entries in place.                     *)
(***************************************************************************)
EXTENDS Naturals, Sequences, FiniteSets

CONSTANTS
  SvEngines,   \* registered engines
  SvWs,        \* workspaces
  SvPorts,     \* the port range, 1 .. n
  SvExplicit,  \* ports that clients choose themselves; 0 leaves it to the registry
  SvReqs,      \* concurrent requests
  SvRounds     \* bound: requests served

ASSUME SvAssumption == SvPorts = 1 .. Cardinality(SvPorts) /\ 0 \in SvExplicit

VARIABLES
  svHeap,      \* engine -> its backing arrays, the last one is in use
  svLen,       \* engine -> length of its slice of workspaces
  svTable,     \* the manager's map: workspace -> its server, or none
  svDropped,   \* servers no longer in the map whose listener is still open
  svReq,       \* request -> its progress
  svLeft,      \* requests still to come
  svChosen     \* auxiliary: a client chose a port itself

svVars == <<svHeap, svLen, svTable, svDropped, svReq, svLeft, svChosen>>

SvNone == [port |-> 0, status |-> "none", serve |-> "done"]
SvIdle == [pc |-> "idle"]

SvInit ==
  /\ svHeap = [e \in SvEngines |-> <<<<>>>>]
  /\ svLen = [e \in SvEngines |-> 0]
  /\ svTable = [w \in SvWs |-> SvNone]
  /\ svDropped = {}
  /\ svReq = [r \in SvReqs |-> SvIdle]
  /\ svLeft = SvRounds
  /\ svChosen = FALSE

-----------------------------------------------------------------------------
(* The registry *)

SvArr(e) == svHeap[e][Len(svHeap[e])]
SvList(e) == SubSeq(SvArr(e), 1, svLen[e])
SvIndex(e, w) == {i \in 1 .. svLen[e] : SvArr(e)[i].ws = w}

\* The capacity of the n-th array
SvCap(e) == 2 ^ (Len(svHeap[e]) - 1)

\* Mutant: the port of a stopped workspace counts as free
UsedByRunning(e) ==
  {SvList(e)[i].port : i \in {j \in 1 .. svLen[e] : SvList(e)[j].status = "running"}} \ {0}

GetUsedPorts(e) == {SvList(e)[i].port : i \in 1 .. svLen[e]} \ {0}

\* 0 when the range is exhausted
FindAvailablePort(e) ==
  LET free == SvPorts \ GetUsedPorts(e) IN
  IF free = {} THEN 0 ELSE CHOOSE p \in free : \A q \in free : p <= q

SvPut(e, i, entry) ==
  LET a == Len(svHeap[e]) IN
  IF i > SvCap(e)
    THEN [svHeap EXCEPT ![e] = Append(@, Append(@[a], entry))]
    ELSE [svHeap EXCEPT ![e][a] = SubSeq(@, 1, i - 1) \o <<entry>> \o SubSeq(@, i + 1, Len(@))]

\* The slice after the workspace is there, and the index of its entry
AddWorkspace(e, w, port) ==
  LET at == SvIndex(e, w) IN
  IF at # {}
    THEN LET i == CHOOSE j \in at : TRUE IN
         [heap |-> IF port > 0 THEN SvPut(e, i, [SvArr(e)[i] EXCEPT !.port = port]) ELSE svHeap,
          i |-> i]
    ELSE [heap |-> SvPut(e, svLen[e] + 1,
                         [ws |-> w, status |-> "stopped",
                          port |-> IF port = 0 THEN FindAvailablePort(e) ELSE port]),
          i |-> svLen[e] + 1]

\* Entries after the removed one move down; the last slot keeps its contents
RemoveWorkspaceFromEngine(e, w) ==
  IF SvIndex(e, w) = {} THEN UNCHANGED <<svHeap, svLen>>
  ELSE LET i == CHOOSE j \in SvIndex(e, w) : TRUE
           arr == SvArr(e) IN
       /\ svHeap' = [svHeap EXCEPT ![e][Len(svHeap[e])] =
            [k \in DOMAIN arr |-> IF k >= i /\ k < svLen[e] THEN arr[k + 1] ELSE arr[k]]]
       /\ svLen' = [svLen EXCEPT ![e] = @ - 1]

\* A heap after the entry of the workspace, if there is one, got the status
UpdateWorkspaceStatus(heap, e, w, status) ==
  [heap EXCEPT ![e][Len(heap[e])] = [k \in DOMAIN @ |->
     IF k <= svLen[e] /\ @[k].ws = w THEN [@[k] EXCEPT !.status = status] ELSE @[k]]]

-----------------------------------------------------------------------------
(* The manager *)

SvOpen(s) == s.serve \in {"pending", "serving"}

\* Shutdown closes a listener that is being served; one that is not yet, Serve closes
SvStopped(s, status) ==
  [s EXCEPT !.status = status, !.serve = IF @ = "serving" THEN "done" ELSE @]

\* The listener of a server that leaves the map stays open until Serve returns
SvDrop(s) == IF SvOpen(s) THEN svDropped \cup {s} ELSE svDropped

SvHeld == {svTable[w].port : w \in {v \in SvWs : SvOpen(svTable[v])}}
            \cup {s.port : s \in svDropped}

SvCanStart(w, port) == port > 0 /\ svTable[w].status # "running" /\ port \notin SvHeld

\* StartWorkspace succeeds: the former server is not running, and forgotten
StartWorkspace(w, port) ==
  /\ svDropped' = SvDrop(svTable[w])
  /\ svTable' = [svTable EXCEPT ![w] = [port |-> port, status |-> "running", serve |-> "pending"]]

\* Mutant: a running server is forgotten, not stopped
RemoveUnstopped(w) ==
  /\ svDropped' = SvDrop(svTable[w])
  /\ svTable' = [svTable EXCEPT ![w] = SvNone]

RemoveWorkspace(w) ==
  /\ svDropped' = SvDrop(IF svTable[w].status = "running"
                           THEN SvStopped(svTable[w], "stopped") ELSE svTable[w])
  /\ svTable' = [svTable EXCEPT ![w] = SvNone]

\* Mutant: Serve does not notice that the server was shut down before
SvServeAnyway(w) ==
  /\ svTable[w].serve = "pending"
  /\ svTable' = [svTable EXCEPT ![w].serve = "serving"]
  /\ UNCHANGED <<svHeap, svLen, svDropped, svReq, svLeft, svChosen>>

\* The goroutine of a server calls Serve, which returns at once after a Shutdown
SvServe(w) ==
  /\ svTable[w].serve = "pending"
  /\ svTable' = [svTable EXCEPT ![w].serve =
                   IF svTable[w].status = "running" THEN "serving" ELSE "done"]
  /\ UNCHANGED <<svHeap, svLen, svDropped, svReq, svLeft, svChosen>>

SvServeDropped ==
  /\ \E s \in svDropped : s.serve = "pending" /\ svDropped' = svDropped \ {s}
  /\ UNCHANGED <<svHeap, svLen, svTable, svReq, svLeft, svChosen>>

\* Accepting fails, and Serve closes the listener; then the goroutine says so
SvServeFails(w) ==
  /\ svTable[w].serve \in {"serving", "failed"}
  /\ svTable' = [svTable EXCEPT ![w] =
                   IF @.serve = "serving" THEN [@ EXCEPT !.serve = "failed"]
                   ELSE [@ EXCEPT !.serve = "done", !.status = "error"]]
  /\ UNCHANGED <<svHeap, svLen, svDropped, svReq, svLeft, svChosen>>

-----------------------------------------------------------------------------
(* The handlers *)

SvGoto(r, job) == svReq' = [svReq EXCEPT ![r] = job]

SvArrive(r, job) ==
  /\ svReq[r].pc = "idle" /\ svLeft > 0
  /\ svLeft' = svLeft - 1
  /\ SvGoto(r, job)

handleAddEngineWorkspace(r) ==
  \E e \in SvEngines, w \in SvWs, port \in SvExplicit, auto \in BOOLEAN :
    LET added == AddWorkspace(e, w, port) IN
    /\ SvArrive(r, IF auto THEN [pc |-> "autostart", e |-> e, w |-> w,
                                 a |-> Len(added.heap[e]), i |-> added.i]
                   ELSE SvIdle)
    /\ svHeap' = added.heap
    /\ svLen' = [svLen EXCEPT ![e] = IF added.i > @ THEN added.i ELSE @]
    /\ svChosen' = (svChosen \/ port > 0)
    /\ UNCHANGED <<svTable, svDropped>>

\* StartWorkspace reads workspace and port through the pointer
SvAutoStart(r) ==
  /\ svReq[r].pc = "autostart"
  /\ LET q == svReq[r]  ws == svHeap[q.e][q.a][q.i] IN
     \/ /\ SvCanStart(ws.ws, ws.port)
        /\ StartWorkspace(ws.ws, ws.port)
        /\ SvGoto(r, [q EXCEPT !.pc = "started"])
     \/ SvGoto(r, [q EXCEPT !.pc = "failed"]) /\ UNCHANGED <<svTable, svDropped>>
  /\ UNCHANGED <<svHeap, svLen, svLeft, svChosen>>

\* The status is written through the pointer, without a lock, then to the registry
SvAutoMark(r) ==
  /\ svReq[r].pc \in {"started", "failed"}
  /\ LET q == svReq[r]
         ok == q.pc = "started"
         heap == [svHeap EXCEPT ![q.e][q.a][q.i].status = IF ok THEN "running" ELSE "error"] IN
     svHeap' = IF ok THEN UpdateWorkspaceStatus(heap, q.e, heap[q.e][q.a][q.i].ws, "running") ELSE heap
  /\ SvGoto(r, SvIdle)
  /\ UNCHANGED <<svLen, svTable, svDropped, svLeft, svChosen>>

\* The server is stopped whether or not the workspace is on this engine
handleRemoveEngineWorkspace(r) ==
  \E e \in SvEngines, w \in SvWs :
    /\ SvArrive(r, [pc |-> "remove", e |-> e, w |-> w])
    /\ RemoveWorkspace(w)
    /\ UNCHANGED <<svHeap, svLen, svChosen>>

SvRemoveEntry(r) ==
  /\ svReq[r].pc = "remove"
  /\ RemoveWorkspaceFromEngine(svReq[r].e, svReq[r].w)
  /\ SvGoto(r, SvIdle)
  /\ UNCHANGED <<svTable, svDropped, svLeft, svChosen>>

handleUpdateEngineWorkspace(r) ==
  \E e \in SvEngines, w \in SvWs, port \in SvExplicit \ {0} :
    /\ \E i \in SvIndex(e, w) : svHeap' = SvPut(e, i, [SvArr(e)[i] EXCEPT !.port = port])
    /\ SvArrive(r, SvIdle)
    /\ svChosen' = TRUE
    /\ UNCHANGED <<svLen, svTable, svDropped>>

\* A copy of the entry is read, and the server must not be running
handleStartWorkspaceServer(r) ==
  \E e \in SvEngines, w \in SvWs :
    /\ svTable[w].status # "running"
    /\ \E i \in SvIndex(e, w) : SvArrive(r, [pc |-> "start", e |-> e, w |-> w, port |-> SvArr(e)[i].port])
    /\ UNCHANGED <<svHeap, svLen, svTable, svDropped, svChosen>>

SvStart(r) ==
  /\ svReq[r].pc = "start"
  /\ LET q == svReq[r] IN
     \/ /\ SvCanStart(q.w, q.port)
        /\ StartWorkspace(q.w, q.port)
        /\ SvGoto(r, [pc |-> "mark", e |-> q.e, w |-> q.w, status |-> "running"])
     \/ SvGoto(r, SvIdle) /\ UNCHANGED <<svTable, svDropped>>
  /\ UNCHANGED <<svHeap, svLen, svLeft, svChosen>>

\* A Shutdown that takes too long is an error, and the registry is not told
handleStopWorkspaceServer(r) ==
  \E e \in SvEngines, w \in SvWs, status \in {"stopped", "error"} :
    /\ SvIndex(e, w) # {} /\ svTable[w].status = "running"
    /\ svTable' = [svTable EXCEPT ![w] = SvStopped(@, status)]
    /\ SvArrive(r, IF status = "error" THEN SvIdle
                   ELSE [pc |-> "mark", e |-> e, w |-> w, status |-> "stopped"])
    /\ UNCHANGED <<svHeap, svLen, svDropped, svChosen>>

SvMark(r) ==
  /\ svReq[r].pc = "mark"
  /\ svHeap' = UpdateWorkspaceStatus(svHeap, svReq[r].e, svReq[r].w, svReq[r].status)
  /\ SvGoto(r, SvIdle)
  /\ UNCHANGED <<svLen, svTable, svDropped, svLeft, svChosen>>

\* On shutdown the admin API stops every server
SvStopAll ==
  /\ svLeft > 0 /\ svLeft' = 0
  /\ svTable' = [w \in SvWs |-> IF svTable[w].status = "running"
                                  THEN SvStopped(svTable[w], "stopped") ELSE svTable[w]]
  /\ UNCHANGED <<svHeap, svLen, svDropped, svReq, svChosen>>

SvNext ==
  \/ \E r \in SvReqs :
       \/ handleAddEngineWorkspace(r) \/ SvAutoStart(r) \/ SvAutoMark(r)
       \/ handleRemoveEngineWorkspace(r) \/ SvRemoveEntry(r)
       \/ handleUpdateEngineWorkspace(r)
       \/ handleStartWorkspaceServer(r) \/ SvStart(r)
       \/ handleStopWorkspaceServer(r) \/ SvMark(r)
  \/ SvStopAll \/ SvServeDropped
  \/ \E w \in SvWs : SvServe(w) \/ SvServeFails(w)

-----------------------------------------------------------------------------
(* Properties *)

SvTypeOK ==
  /\ \A e \in SvEngines : svLen[e] \in 0 .. Len(SvArr(e))
  /\ \A w \in SvWs : svTable[w].status \in {"none", "running", "stopped", "error"}
  /\ \A s \in svDropped : SvOpen(s)

\* No listener outlives its server: one that is being served belongs to a running
\* server of the manager's map, where StopWorkspace finds it, and no two servers
\* listen on one port.
SvListenersManaged ==
  /\ \A w \in SvWs : svTable[w].serve = "serving" => svTable[w].status = "running"
  /\ \A s \in svDropped : s.serve # "serving"
  /\ \A v, w \in SvWs : SvOpen(svTable[v]) /\ SvOpen(svTable[w]) /\ v # w =>
       svTable[v].port # svTable[w].port

\* Ports that the registry assigns itself are distinct on an engine and within its
\* range, however workspaces come and go; a port chosen by a client is not checked.
SvPortsDistinct ==
  svChosen \/ \A e \in SvEngines : \A i, j \in 1 .. svLen[e] :
    /\ SvList(e)[i].port \in SvPorts \cup {0}
    /\ i # j /\ SvList(e)[i].port # 0 => SvList(e)[i].port # SvList(e)[j].port

=============================================================================
