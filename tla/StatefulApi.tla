------------------------------ MODULE StatefulApi ------------------------------
(***************************************************************************)
(* The stateful tables as clients see them: HTTP mocks bound to a table    *)
(* (pkg/engine/handler_stateful.go), SOAP operations bound to one          *)
(* (pkg/soap/handler.go, pkg/soap/stateful.go and the engine's adapter),   *)
(* both through Bridge.Execute (pkg/stateful/bridge.go), and the paged     *)
(* lists (pkg/stateful/filter.go).                                         *)
(*                                                                         *)
(* Machine Sa: callers send single requests by either face while a walker  *)
(* pages through a list and the admin API removes and re-registers tables. *)
(* A request looks its table up, then works on what it found: the table    *)
(* may have been removed in between, which is why tables are objects.      *)
(* Machine Fm: a form body decoded key by key, in the arbitrary order of   *)
(* Go's map iteration.                                                     *)
(*                                                                         *)
(* An item is its creation time and its parent field; the other fields,    *)
(* response templates, field transforms, recording and logging are left    *)
(* out.  A body is what validation says of it: "ok", or lacking a required *)
(* field, or of a wrong type; or "broken" (unparsable) or "large".         *)
(***************************************************************************)
EXTENDS Naturals, Integers, FiniteSets, Sequences, SequencesExt

CONSTANTS
  SaIDs,         \* item IDs
  SaRaced,       \* the IDs callers race for
  SaWs,          \* workspaces; "" is the default one
  SaParents,     \* values of the parent field; "" is none
  SaFaces,       \* subset of {"rest", "operation", "soap"}
  SaBodies,      \* subset of {"ok", "lacking", "wrong", "broken", "large"}
  SaEnvelopes,   \* SOAP requests: [soapAction, element, xpath]
  SaOperations,  \* SOAP operations: name -> [soapAction, match, fault, act]
  SaMode,        \* validation mode: "strict", "permissive" or "warn"
  SaPreserve,    \* the binding's delete keeps the item
  SaMaxItems,    \* a table's capacity
  SaLimit,       \* page size
  SaOrders,      \* subset of {"asc", "desc"}
  SaSeed,        \* the default workspace's seed items, oldest first
  SaCallers,     \* callers: 1, 2, ...
  SaRequests,    \* bound: requests sent by racing callers
  SaWrites,      \* bound: requests sent while a client walks
  SaObjects      \* bound: tables ever registered

VARIABLES
  saFocus,  \* what a behaviour is about: "race" of all faces, or a "walk" and HTTP writers
  saReg,    \* StateStore: workspace -> its table, 0 if none
  saHeap,   \* table -> its items
  saClock,  \* creation times
  saReq,    \* caller -> its request
  saWalk,   \* the walker
  saLeft,   \* requests left
  saNet     \* auxiliary: creations minus deletions clients were told of

saVars == <<saFocus, saReg, saHeap, saClock, saReq, saWalk, saLeft, saNet>>

SaIdle == [pc |-> "idle"]

SaSeeded == [i \in ToSet(SaSeed) |->
             [born |-> (CHOOSE k \in DOMAIN SaSeed : SaSeed[k] = i) - 1, parent |-> ""]]

SaInit ==
  /\ saFocus \in {"race", "walk"}
  /\ saReg = [w \in SaWs |-> IF w = "" THEN 1 ELSE 0]
  /\ saHeap = [o \in 1 .. SaObjects |-> IF o = 1 THEN SaSeeded ELSE <<>>]
  /\ saClock = Len(SaSeed)
  /\ saReq = [c \in SaCallers |-> SaIdle]
  /\ saWalk = SaIdle
  /\ saLeft = IF saFocus = "walk" THEN SaWrites ELSE SaRequests
  /\ saNet = [o \in 1 .. SaObjects |->
              [i \in SaIDs |-> IF o = 1 /\ i \in ToSet(SaSeed) THEN 1 ELSE 0]]

-----------------------------------------------------------------------------
(* The bridge *)

\* GetErrorCode's kinds, as each face reports them
bridgeStatusToHTTP(s) ==
  CASE s = "not_found"        -> "404"
    [] s = "conflict"         -> "409"
    [] s = "validation_error" -> "400"
    [] s = "capacity"         -> "507"

handleCustomOperation(s) ==
  CASE s = "success"          -> "200"
    [] s = "not_found"        -> "404"
    [] s = "conflict"         -> "409"
    [] s = "validation_error" -> "400"
    [] s = "capacity"         -> "500"

errorToSOAPFault(s) ==
  IF s \in {"not_found", "conflict", "validation_error"} THEN "Client" ELSE "Server"

shouldRejectValidation(body) ==
  CASE SaMode = "warn"       -> FALSE
    [] SaMode = "permissive" -> body = "lacking"
    [] OTHER                 -> body \in {"lacking", "wrong"}

SaResult(s, items) == [status |-> s, items |-> items]

executeGet(items, q) ==
  SaResult(IF q.id = "" THEN "validation_error"
         ELSE IF q.id \in DOMAIN items THEN "success" ELSE "not_found", items)


\* Capacity is looked at before the ID; a create without an ID gets a fresh one
executeCreate(items, q) ==
  CASE shouldRejectValidation(q.body)         -> SaResult("validation_error", items)
    [] Cardinality(DOMAIN items) >= SaMaxItems -> SaResult("capacity", items)
    [] q.id \in DOMAIN items                   -> SaResult("conflict", items)
    [] OTHER -> SaResult("created", [i \in DOMAIN items \cup {q.id} |->
                  IF i = q.id THEN [born |-> saClock, parent |-> q.parent] ELSE items[i]])

\* Update replaces the fields, the parent field included; Patch keeps what it does
\* not name
SaMerged(item, q) ==
  IF q.act = "patch" /\ q.parent = "" THEN item ELSE [item EXCEPT !.parent = q.parent]

executeMutate(items, q) ==
  CASE q.id = ""                     -> SaResult("validation_error", items)
    [] shouldRejectValidation(q.body) -> SaResult("validation_error", items)
    [] q.id \notin DOMAIN items       -> SaResult("not_found", items)
    [] OTHER -> SaResult("success", [items EXCEPT ![q.id] = SaMerged(@, q)])

\* Mutant: deleting what is not there succeeds
deleteIdempotent(items, q) ==
  IF q.id = "" THEN SaResult("validation_error", items)
  ELSE SaResult("success", [i \in DOMAIN items \ {q.id} |-> items[i]])

executeDelete(items, q) ==
  CASE q.id = ""               -> SaResult("validation_error", items)
    [] q.id \notin DOMAIN items -> SaResult("not_found", items)
    [] OTHER -> SaResult("success", [i \in DOMAIN items \ {q.id} |-> items[i]])

\* A custom operation that creates the item in one step: the executor asks no validator
executeCustom(items, q) ==
  LET result == executeCreate(items, [q EXCEPT !.body = "ok"]) IN
  IF result.status = "created" THEN SaResult("success", result.items) ELSE result

\* The binding's Preserve turns its delete into a get
SaExecute(items, q) ==
  CASE q.act = "get"    -> executeGet(items, q)
    [] q.act = "create" -> executeCreate(items, q)
    [] q.act = "custom" -> executeCustom(items, q)
    [] q.act = "delete" -> IF q.face = "rest" /\ SaPreserve
                             THEN executeGet(items, q) ELSE executeDelete(items, q)
    [] OTHER            -> executeMutate(items, q)

-----------------------------------------------------------------------------
(* Answers *)

handleBindingGet(s) == IF s = "success" THEN "200" ELSE bridgeStatusToHTTP(s)

\* Create, update, patch and delete, with the default statuses
handleBindingWrite(act, s) ==
  CASE s = "created" -> "201"
    [] s = "success" -> IF act = "delete" THEN "204" ELSE "200"
    [] OTHER         -> bridgeStatusToHTTP(s)

handleStatefulOperation(s) ==
  IF s \in {"success", "created"} THEN "xml" ELSE errorToSOAPFault(s)

SaStatus(face, act, s) ==
  CASE face = "operation"             -> handleCustomOperation(s)
    [] face = "soap"                  -> handleStatefulOperation(s)
    [] face = "rest" /\ act = "get"   -> handleBindingGet(s)
    [] face = "rest" /\ act # "get"   -> handleBindingWrite(act, s)

SaAnswered(c) == saReq' = [saReq EXCEPT ![c] = SaIdle]

\* What a client concludes from an answer of its own request
SaTold(q, status) ==
  CASE status \in {"200", "201", "204", "xml"} /\ q.act \in {"create", "custom"} -> 1
    [] status \in {"200", "201", "204", "xml"} /\ q.act = "delete"
         /\ ~(q.face = "rest" /\ SaPreserve)                       -> -1
    [] OTHER                                                       -> 0

-----------------------------------------------------------------------------
(* A request arrives *)

SaTargets == IF saFocus = "walk" THEN SaIDs ELSE SaRaced

SaMayAsk(c) == saReq[c].pc = "idle" /\ saLeft > 0

SaAsked(c, q) ==
  /\ saLeft' = saLeft - 1
  /\ saReq' = [saReq EXCEPT ![c] = q]
  /\ UNCHANGED <<saFocus, saReg, saHeap, saClock, saWalk, saNet>>

SaRequest(face, act, ws, id, parent, body) ==
  [pc |-> "lookup", face |-> face, act |-> act, ws |-> ws, id |-> id,
   parent |-> parent, body |-> body]

\* Answered without asking the bridge: nothing but a request has been used up
SaRefused(face, status) == SaIdle

\* JSON or a form (machine Fm)
parseStatefulBody(body) == body # "broken"

\* The body is checked before the bridge is asked
handleStatefulBinding(c) ==
  /\ SaMayAsk(c)
  /\ "rest" \in SaFaces
  /\ \E act \in {"get", "create", "update", "patch", "delete"}, ws \in SaWs,
        id \in SaTargets, parent \in SaParents, body \in SaBodies :
       /\ IF saFocus = "walk" THEN c = 1 /\ act \notin {"get", "patch"} /\ body = "ok"
                             ELSE parent = ""
       /\ act \in {"get", "delete"} => body = "ok" /\ parent = ""
       /\ SaAsked(c, CASE body = "large" -> SaRefused("rest", "413")
                     [] ~parseStatefulBody(body) -> SaRefused("rest", "400")
                     [] OTHER -> SaRequest("rest", act, ws, id, parent, body))

\* The last path parameter is the item's ID; a binding whose path has none is refused,
\* unless it lists, creates or is custom
extractLastPathParam(c) ==
  /\ SaMayAsk(c) /\ saFocus = "race" /\ "rest" \in SaFaces
  /\ SaAsked(c, SaRefused("rest", "400"))

\* A custom operation, by a binding or by a mock of its own
handleBindingCustom(c) ==
  /\ SaMayAsk(c) /\ saFocus = "race"
  /\ \E face \in SaFaces \ {"soap"}, ws \in SaWs, id \in SaTargets, body \in SaBodies \ {"lacking", "wrong"} :
       SaAsked(c, CASE body = "large" /\ face = "operation" -> SaRefused(face, "413")
                    [] ~parseStatefulBody(body) -> SaRefused(face, "400")
                    [] OTHER -> SaRequest(face, "custom", ws, id, "", "ok"))

\* The operations a SOAPAction header or else the body's first element names; of
\* several with the same SOAPAction Go's map iteration takes any
extractOperation(e) ==
  LET named == {n \in DOMAIN SaOperations :
                  e.soapAction # "" /\ SaOperations[n].soapAction = e.soapAction} IN
  IF named = {} THEN {e.element} ELSE named

matchOperation(n, e) ==
  n \in DOMAIN SaOperations /\ (SaOperations[n].match => e.xpath)

\* The element's id is the item's; SOAP has no workspace, its operations work on the
\* default workspace's tables
buildStatefulRequest(op, id, body) == SaRequest("soap", op.act, "", id, "", body)

parseEnvelope(body) == body # "broken"

SaServeSoap(c) ==
  /\ SaMayAsk(c)
  /\ saFocus = "race" /\ "soap" \in SaFaces
  /\ \E e \in SaEnvelopes, id \in SaTargets \cup {""}, body \in SaBodies \ {"large"} :
     \E n \in extractOperation(e) :
       LET op == SaOperations[n] IN
       /\ id = "" => matchOperation(n, e) /\ op.act # "create"
       /\ matchOperation(n, e) /\ op.act \in {"get", "delete", "static"} => body = "ok"
       /\ SaAsked(c, CASE ~parseEnvelope(body)     -> SaRefused("soap", "Client")
                     [] ~matchOperation(n, e)   -> SaRefused("soap", "Client")
                     [] op.fault                -> SaRefused("soap", "Server")
                     [] op.act = "static"       -> SaRefused("soap", "xml")
                     [] OTHER                   -> buildStatefulRequest(op, id, body))

\* Execute finds the table, or not
SaLookup(c) ==
  /\ saReq[c].pc = "lookup"
  /\ LET o == saReg[saReq[c].ws] IN
       IF o = 0 THEN SaAnswered(c)
       ELSE saReq' = [saReq EXCEPT ![c] = [pc |-> "run", q |-> @, obj |-> o]]
  /\ UNCHANGED <<saFocus, saReg, saHeap, saClock, saWalk, saLeft, saNet>>

\* What the walker can rely on after the items of its table became "items"
SaDisturbed(o, items) ==
  saWalk' =
    IF saWalk.pc \in {"ask", "list"} /\ saWalk.obj = o
      THEN [saWalk EXCEPT
              !.must = {i \in @ : i \in DOMAIN items /\ saWalk.parent \in {"", items[i].parent}},
              !.lost = @ \/ (saWalk.kind = "offset" /\ items # saHeap[o])
                         \/ (saWalk.cursor # "" /\ (saWalk.cursor \notin DOMAIN items
                               \/ saWalk.parent \notin {"", items[saWalk.cursor].parent}))]
      ELSE saWalk

SaRun(c) ==
  /\ saReq[c].pc = "run"
  /\ LET q == saReq[c].q
         o == saReq[c].obj
         result == SaExecute(saHeap[o], q)
         status == SaStatus(q.face, q.act, result.status) IN
     /\ saHeap' = [saHeap EXCEPT ![o] = result.items]
     /\ saClock' = IF DOMAIN result.items \ DOMAIN saHeap[o] # {} THEN saClock + 1 ELSE saClock
     /\ SaDisturbed(o, result.items)
     /\ saNet' = IF q.id = "" THEN saNet
                 ELSE [saNet EXCEPT ![o][q.id] = @ + SaTold(q, status)]
     /\ SaAnswered(c)
  /\ UNCHANGED <<saFocus, saReg, saLeft>>

-----------------------------------------------------------------------------
(* Tables come and go through the admin API *)

SaUnregister(w) ==
  /\ saReg[w] # 0
  /\ saReg' = [saReg EXCEPT ![w] = 0]
  /\ UNCHANGED <<saFocus, saHeap, saClock, saReq, saWalk, saLeft, saNet>>

SaUsed == {saReg[w] : w \in SaWs}

SaRegister(w) ==
  /\ saReg[w] = 0
  /\ \E o \in 2 .. SaObjects :
       /\ \A n \in o .. SaObjects : n \notin SaUsed /\ saHeap[n] = <<>>
       /\ saReg' = [saReg EXCEPT ![w] = o]
  /\ UNCHANGED <<saFocus, saHeap, saClock, saReq, saWalk, saLeft, saNet>>

-----------------------------------------------------------------------------
(* Paged lists *)

ApplyFilters(items, parent) ==
  {i \in DOMAIN items : parent = "" \/ items[i].parent = parent}

\* Creation times are distinct, so the order is total
SortItems(items, ids, order) ==
  SetToSortSeq(ids, LAMBDA i, j : IF order = "desc" THEN items[i].born > items[j].born
                                                   ELSE items[i].born < items[j].born)

SaLesser(a, b) == IF a < b THEN a ELSE b

Paginate(list, offset) ==
  LET start == SaLesser(offset, Len(list))
      end   == SaLesser(start + SaLimit, Len(list)) IN
  [page |-> SubSeq(list, start + 1, end), more |-> offset + (end - start) < Len(list)]

\* Mutant: the page starts with the cursor's item
cursorInclusive(list, after, before) ==
  LET at(id)  == IF \E i \in DOMAIN list : list[i] = id
                   THEN CHOOSE i \in DOMAIN list : list[i] = id ELSE 0
      endB    == IF at(before) = 0 THEN Len(list) ELSE at(before) - 1
      startB  == IF endB > SaLimit THEN endB - SaLimit ELSE 0
      startA  == IF at(after) = 0 THEN 0 ELSE at(after) - 1
      endA    == SaLesser(startA + SaLimit, Len(list)) IN
  IF after # "" THEN [page |-> SubSeq(list, startA + 1, endA), more |-> endA < Len(list)]
  ELSE [page |-> SubSeq(list, startB + 1, endB), more |-> startB > 0]

\* Mutant: a full last page of the backward walk is taken for the first
backwardShort(list, after, before) ==
  LET at(id)  == IF \E i \in DOMAIN list : list[i] = id
                   THEN CHOOSE i \in DOMAIN list : list[i] = id ELSE 0
      endB    == IF at(before) = 0 THEN Len(list) ELSE at(before) - 1
      startB  == IF endB > SaLimit THEN endB - SaLimit ELSE 0
      endA    == SaLesser(at(after) + SaLimit, Len(list)) IN
  IF after # "" THEN [page |-> SubSeq(list, at(after) + 1, endA), more |-> endA < Len(list)]
  ELSE [page |-> SubSeq(list, startB + 1, endB), more |-> startB > 1]

\* A cursor that is not in the list stands before its first item (starting_after) or
\* behind its last (ending_before)
CursorPaginate(list, after, before) ==
  LET at(id)  == IF \E i \in DOMAIN list : list[i] = id
                   THEN CHOOSE i \in DOMAIN list : list[i] = id ELSE 0
      endB    == IF at(before) = 0 THEN Len(list) ELSE at(before) - 1
      startB  == IF endB > SaLimit THEN endB - SaLimit ELSE 0
      endA    == SaLesser(at(after) + SaLimit, Len(list)) IN
  IF after # "" THEN [page |-> SubSeq(list, at(after) + 1, endA), more |-> endA < Len(list)]
  ELSE [page |-> SubSeq(list, startB + 1, endB), more |-> startB > 0]

\* limit, sort and order, a cursor or an offset, and the parent of a nested path
parseQueryFilter(walk) ==
  [parent |-> walk.parent, order |-> walk.order, offset |-> walk.offset,
   after  |-> IF walk.kind = "after" THEN walk.cursor ELSE "",
   before |-> IF walk.kind = "before" THEN walk.cursor ELSE ""]

SaList(items, f) ==
  LET list == SortItems(items, ApplyFilters(items, f.parent), f.order) IN
  IF f.after # "" \/ f.before # "" THEN CursorPaginate(list, f.after, f.before)
  ELSE Paginate(list, f.offset)

\* A client walks the table of workspace w: by offset, forward from the first page by
\* starting_after, or back from an item it knows by ending_before
SaWalkStart ==
  /\ saFocus = "walk" /\ saWalk.pc = "idle"
  /\ \E w \in SaWs, kind \in {"offset", "after", "before"}, order \in SaOrders, parent \in SaParents :
       /\ saReg[w] # 0 /\ saHeap[saReg[w]] # <<>>
       /\ \E first \in ApplyFilters(saHeap[saReg[w]], parent) :
            /\ kind # "before" => \A i \in ApplyFilters(saHeap[saReg[w]], parent) :
                 saHeap[saReg[w]][first].born <= saHeap[saReg[w]][i].born
            /\ LET list == SortItems(saHeap[saReg[w]], ApplyFilters(saHeap[saReg[w]], parent), order)
                   known == CHOOSE i \in DOMAIN list : list[i] = first IN
               saWalk' = [pc |-> "ask", ws |-> w, obj |-> saReg[w], kind |-> kind, order |-> order,
                          parent |-> parent, offset |-> 0, seen |-> <<>>, lost |-> FALSE,
                          cursor |-> IF kind = "before" THEN first ELSE "",
                          must |-> IF kind = "before" THEN {list[i] : i \in 1 .. known - 1}
                                   ELSE ToSet(list)]
  /\ UNCHANGED <<saFocus, saReg, saHeap, saClock, saReq, saLeft, saNet>>

SaWalkEnds(walk) == saWalk' = walk /\ UNCHANGED <<saFocus, saReg, saHeap, saClock, saReq, saLeft, saNet>>

\* The handler asks for the table once for the filter ...
handleBindingList ==
  /\ saWalk.pc = "ask"
  /\ SaWalkEnds(IF saReg[saWalk.ws] = 0 THEN SaIdle ELSE [saWalk EXCEPT !.pc = "list"])

\* ... and Execute once more for the items; the client goes on from the page's last
\* (before: first) item while there are more
executeList ==
  /\ saWalk.pc = "list"
  /\ IF saReg[saWalk.ws] = 0 THEN SaWalkEnds(SaIdle)
     ELSE LET r == SaList(saHeap[saReg[saWalk.ws]], parseQueryFilter(saWalk))
              seen == IF saWalk.kind = "before" THEN r.page \o saWalk.seen
                      ELSE saWalk.seen \o r.page IN
          SaWalkEnds([saWalk EXCEPT
            !.pc = IF r.more /\ r.page # <<>> THEN "ask" ELSE "end",
            !.seen = seen, !.offset = @ + Len(r.page),
            !.lost = @ \/ saReg[saWalk.ws] # saWalk.obj,
            !.cursor = CASE saWalk.kind = "offset" \/ r.page = <<>> -> @
                         [] saWalk.kind = "before" -> r.page[1]
                         [] OTHER -> r.page[Len(r.page)]])

SaNext ==
  \/ \E c \in SaCallers :
       \/ handleStatefulBinding(c) \/ extractLastPathParam(c) \/ handleBindingCustom(c)
       \/ SaServeSoap(c) \/ SaLookup(c) \/ SaRun(c)
  \/ \E w \in SaWs : SaUnregister(w) \/ SaRegister(w)
  \/ SaWalkStart \/ handleBindingList \/ executeList

SaSpec == SaInit /\ [][SaNext]_saVars

-----------------------------------------------------------------------------
(* Machine Fm: a form body becomes a tree.  A key is the path of names it  *)
(* spells (a[b][0] is <<"a", "b", "0">>); a tree maps paths to values,     *)
(* "map" for an inner node and "array" for a map keyed 0, 1, ...           *)

CONSTANTS
  FmForms   \* forms: key -> value

VARIABLES
  fmForm,   \* the form
  fmLeft,   \* keys not taken yet; <<>> is not a key
  fmTree    \* the result so far

fmVars == <<fmForm, fmLeft, fmTree>>

FmInit == fmForm \in FmForms /\ fmLeft = DOMAIN fmForm /\ fmTree = <<>>

FmAbove(path) == {SubSeq(path, 1, n) : n \in 1 .. Len(path) - 1}

\* "inf" unsets a field; the other values keep their kind
coerceFormValue(v) == IF v = "inf" THEN "null" ELSE v

\* Mutant: every key starts a map of its own
setAfresh(tree, path, v) ==
  LET kept == {p \in DOMAIN tree : ~IsPrefix(<<path[1]>>, p)} IN
  [p \in kept \cup FmAbove(path) \cup {path} |->
     CASE p = path -> coerceFormValue(v) [] p \in FmAbove(path) -> "map" [] OTHER -> tree[p]]

\* A key below a plain value is dropped; a plain value replaces a map
setNested(tree, path, v) ==
  IF \E p \in FmAbove(path) : p \in DOMAIN tree /\ tree[p] # "map" THEN tree
  ELSE LET kept == {p \in DOMAIN tree : ~IsPrefix(path, p)} IN
       [p \in kept \cup FmAbove(path) \cup {path} |->
          CASE p = path -> coerceFormValue(v) [] p \in FmAbove(path) -> "map" [] OTHER -> tree[p]]

formToMap ==
  /\ \E k \in fmLeft :
       /\ fmLeft' = fmLeft \ {k}
       /\ fmTree' = setNested(fmTree, k, fmForm[k])
  /\ UNCHANGED fmForm

FmChildren(tree, p) == {q[Len(q)] : q \in {q \in DOMAIN tree : Len(q) = Len(p) + 1 /\ IsPrefix(p, q)}}

FmDigits == <<"0", "1", "2", "3">>

isNumericKeyedMap(tree, p) ==
  \E n \in 1 .. Len(FmDigits) : FmChildren(tree, p) = {FmDigits[i] : i \in 1 .. n}

\* After the last key, maps keyed 0 .. n-1 become arrays, at every depth
convertNumericKeysToArrays ==
  /\ fmLeft = {}
  /\ fmTree' = [p \in DOMAIN fmTree |->
                 IF fmTree[p] = "map" /\ isNumericKeyedMap(fmTree, p) THEN "array" ELSE fmTree[p]]
  /\ fmLeft' = {<<>>}
  /\ UNCHANGED fmForm

FmDone == fmLeft = {<<>>}

FmNext == ~FmDone /\ (formToMap \/ convertNumericKeysToArrays)

-----------------------------------------------------------------------------
(* Properties *)

\* A workspace's table is one of the registered ones, no table is above its capacity
\* and every request is in a known stage.
SaTypeOK ==
  /\ saReg \in [SaWs -> 0 .. SaObjects]
  /\ \A o \in 1 .. SaObjects :
       /\ DOMAIN saHeap[o] \subseteq SaIDs /\ Cardinality(DOMAIN saHeap[o]) <= SaMaxItems
       /\ \A i \in DOMAIN saHeap[o] : saHeap[o][i].born \in 0 .. saClock
  /\ \A c \in SaCallers : saReq[c].pc \in {"idle", "lookup", "run"}
  /\ saWalk.pc \in {"idle", "ask", "list", "end"}

\* The answers add up: whatever callers race for an ID by HTTP and SOAP, the creations
\* and deletions they were told succeeded are those that happened to the table.
SaAnswersAddUp ==
  \A o \in 1 .. SaObjects : \A i \in SaIDs :
    saNet[o][i] = IF i \in DOMAIN saHeap[o] THEN 1 ELSE 0

\* A walk that followed has_more to its end has returned every item that was in the
\* list all along, and none twice, whatever was created, changed and deleted meanwhile;
\* unless the cursor's item was deleted, the table was replaced, or the walk went by
\* offset and the table changed.
SaWalkSeesAll ==
  saWalk.pc = "end" /\ ~saWalk.lost =>
    saWalk.must \subseteq ToSet(saWalk.seen) /\ IsInjective(saWalk.seen)

\* Whatever order the keys of a form are visited in, the decoded body holds each at
\* its place, unless one key runs through another; and a list's indices 0 .. n-1 make
\* an array.
FmFaithful ==
  FmDone =>
    \A k \in DOMAIN fmForm :
      ~(\E l \in DOMAIN fmForm \ {k} : IsPrefix(l, k) \/ IsPrefix(k, l)) =>
        /\ k \in DOMAIN fmTree
        /\ fmTree[k] = (IF fmForm[k] = "inf" THEN "null" ELSE fmForm[k])
        /\ \A p \in FmAbove(k) : fmTree[p] \in {"map", "array"}

=============================================================================
