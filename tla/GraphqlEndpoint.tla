--------------------------- MODULE GraphqlEndpoint ---------------------------
(***************************************************************************)
(* A GraphQL mock (pkg/graphql).  Gx is one HTTP request, its selections   *)
(* executed against the mock's resolvers; Gq is one WebSocket connection   *)
(* of the subscription handler, with the goroutines that stream events.    *)
(*                                                                         *)
(* A selection is a node [k, name, alias, type, skip, sub]: k is "field",  *)
(* or "frag" for a spread or an inline fragment with its selections in     *)
(* place; skip is what its directives come to.  A value is a "leaf", an    *)
(* object [t |-> "obj", f |-> fields] or a list [t |-> "list", s |-> items]. *)
(***************************************************************************)
EXTENDS Naturals, Sequences, FiniteSets, SequencesExt, TLC

CONSTANTS
  GxRequests,      \* requests [body, sels], as ServeHTTP receives them
  GxResolvers,     \* path -> resolvers [match, error, value] in order
  GxTypes,         \* [type, field] -> the type of the field
  GxIntrospection, \* whether introspection is enabled
  GqConfigs,       \* subscription configurations [events, repeat]
  GqIDs,           \* subscription ids
  GqReuse,         \* whether the client uses an id again
  GqTasks          \* bound: subscriptions started

-----------------------------------------------------------------------------
(* Gx: executing a selection set *)

VARIABLES gxReq, gxOut
gxVars == <<gxReq, gxOut>>

GxObj(f) == [t |-> "obj", f |-> f]
GxLeaf == [t |-> "leaf"]
GxMeta == {"__schema", "__type", "__typename"}

fieldTypeName(type, field) == IF <<type, field>> \in DOMAIN GxTypes THEN GxTypes[<<type, field>>] ELSE ""

RECURSIVE collectSelectedFields(_, _, _), pruneResponse(_, _, _)

\* Mutant: fields are stored by name
collectByName(type, src, sels) ==
  FoldLeft(LAMBDA acc, s :
    IF s.skip THEN acc
    ELSE IF s.k = "frag" THEN collectSelectedFields(IF s.type # "" THEN s.type ELSE type, src, s.sub) @@ acc
    ELSE IF s.name = "__typename" THEN (s.alias :> GxLeaf) @@ acc
    ELSE IF s.name \in DOMAIN src
      THEN (s.name :> pruneResponse(fieldTypeName(type, s.name), src[s.name], s.sub)) @@ acc
    ELSE acc, <<>>, sels)

\* The selected fields of an object; a later selection replaces an earlier one
collectSelectedFields(type, src, sels) ==
  FoldLeft(LAMBDA acc, s :
    IF s.skip THEN acc
    ELSE IF s.k = "frag" THEN collectSelectedFields(IF s.type # "" THEN s.type ELSE type, src, s.sub) @@ acc
    ELSE IF s.name = "__typename" THEN (s.alias :> GxLeaf) @@ acc
    ELSE IF s.name \in DOMAIN src
      THEN (s.alias :> pruneResponse(fieldTypeName(type, s.name), src[s.name], s.sub)) @@ acc
    ELSE acc, <<>>, sels)

pruneResponse(type, value, sels) ==
  CASE sels = <<>> \/ value.t = "leaf" -> value
    [] value.t = "obj" -> GxObj(collectSelectedFields(type, value.f, sels))
    [] value.t = "list" -> [value EXCEPT !.s = [i \in DOMAIN @ |-> pruneResponse(type, @[i], sels)]]

\* The first resolver whose arguments match
findResolver(path, args) ==
  LET fits == IF path \in DOMAIN GxResolvers
                THEN SelectSeq(GxResolvers[path], LAMBDA r : r.match \subseteq args) ELSE <<>>
  IN  IF fits = <<>> THEN [match |-> {}, error |-> FALSE, value |-> GxLeaf] ELSE Head(fits)

RECURSIVE executeSelectionSetWithDoc(_, _)
\* A field whose resolver fails is null, and counts as an error
executeSelectionSetWithDoc(sels, args) ==
  FoldLeft(LAMBDA acc, s :
    IF s.skip THEN acc
    ELSE IF s.k = "frag"
      THEN LET r == executeSelectionSetWithDoc(s.sub, args) IN
           [data |-> r.data @@ acc.data, errors |-> acc.errors + r.errors]
    ELSE IF s.name = "__typename" THEN [acc EXCEPT !.data = (s.alias :> GxLeaf) @@ @]
    ELSE LET r == findResolver(s.name, args) IN
         [data |-> (s.alias :> IF r.error THEN GxLeaf
                               ELSE pruneResponse(fieldTypeName("Query", s.name), r.value, s.sub)) @@ acc.data,
          errors |-> acc.errors + IF r.error THEN 1 ELSE 0],
    [data |-> <<>>, errors |-> 0], sels)

\* Fragments do not count as fields that are not introspection's
isIntrospectionQuery(sels) ==
  sels # <<>> /\ \A i \in DOMAIN sels : sels[i].k = "field" => sels[i].name \in GxMeta

executeIntrospection(sels) ==
  [data |-> FoldLeft(LAMBDA acc, s : IF s.k = "field" THEN (s.alias :> GxLeaf) @@ acc ELSE acc, <<>>, sels),
   errors |-> 0]

GxRefused == [data |-> <<>>, errors |-> 1]

executeOperation(q) ==
  IF ~isIntrospectionQuery(q.sels) THEN executeSelectionSetWithDoc(q.sels, q.args)
  ELSE IF ~GxIntrospection THEN GxRefused ELSE executeIntrospection(q.sels)

\* An operation that cannot be parsed, or is not in the document, is one error
GxExecute(q) == IF ~q.parses THEN GxRefused ELSE executeOperation(q)

\* What a POST body holds; the first query of a batch stands for it
parsePostRequestWithBody(body) == IF body \in {"empty", "invalid", "emptyBatch"} THEN "error" ELSE "request"

handleBatchRequest(queries) == [i \in DOMAIN queries |-> GxExecute(queries[i])]

\* A batch is recognised by its first byte
ServeHTTP ==
  /\ gxOut = <<"none">>
  /\ gxOut' = IF parsePostRequestWithBody(gxReq.body) = "error" THEN <<"400">>
              ELSE <<"200", IF gxReq.body = "batch" THEN handleBatchRequest(gxReq.queries)
                            ELSE <<GxExecute(gxReq.queries[1])>> >>
  /\ UNCHANGED gxReq

GxInit == gxReq \in GxRequests /\ gxOut = <<"none">>
GxNext == ServeHTTP

-----------------------------------------------------------------------------
(* Gq: a subscription connection *)

VARIABLES
  gqConn,        \* "open", "closing" (a read fails), "closed" (its handler has returned)
  gqListed,      \* the connection is in h.conns
  gqSubs,        \* sc.subs: id -> the subscription its cancel function belongs to
  gqTask,        \* subscriptions started: [id, config, at, pc, cancelled]
  gqAsked,       \* auxiliary: subscriptions the client has stopped or that were refused
  gqOut          \* the last message sent [type, task]

gqVars == <<gqConn, gqListed, gqSubs, gqTask, gqAsked, gqOut>>

GqInit ==
  /\ gqConn = "open" /\ gqListed = TRUE /\ gqSubs = <<>> /\ gqTask = <<>> /\ gqAsked = {}
  /\ gqOut = [type |-> "none", task |-> 0]

GqSend(type, task) == gqOut' = [type |-> type, task |-> task]
GqCancelled(tasks) == [t \in DOMAIN gqTask |-> IF t \in tasks THEN [gqTask[t] EXCEPT !.cancelled = TRUE] ELSE gqTask[t]]

handleConnectionInit == gqConn = "open" /\ GqSend("ack", 0) /\ UNCHANGED <<gqConn, gqListed, gqSubs, gqTask, gqAsked>>
handlePing == gqConn = "open" /\ GqSend("pong", 0) /\ UNCHANGED <<gqConn, gqListed, gqSubs, gqTask, gqAsked>>

\* An unreadable message, a query that names no configured subscription, an id in use
sendError == gqConn = "open" /\ GqSend("error", 0) /\ UNCHANGED <<gqConn, gqListed, gqSubs, gqTask, gqAsked>>

handleSubscribe(id, config) ==
  /\ gqConn = "open" /\ Len(gqTask) < GqTasks /\ id \notin DOMAIN gqSubs
  /\ gqTask' = Append(gqTask, [id |-> id, config |-> config, at |-> 0, pc |-> "run", cancelled |-> FALSE])
  /\ gqSubs' = (id :> Len(gqTask) + 1) @@ gqSubs
  /\ UNCHANGED <<gqConn, gqListed, gqAsked, gqOut>>

GqLess(ids) == [i \in DOMAIN gqSubs \ ids |-> gqSubs[i]]


\* What the client believes it stops: every subscription of the id
handleUnsubscribe(id) ==
  /\ gqConn = "open" /\ \E t \in DOMAIN gqTask : gqTask[t].id = id /\ t \notin gqAsked
  /\ gqSubs' = GqLess({id})
  /\ gqTask' = GqCancelled(IF id \in DOMAIN gqSubs THEN {gqSubs[id]} ELSE {})
  /\ gqAsked' = gqAsked \cup {t \in DOMAIN gqTask : gqTask[t].id = id}
  /\ UNCHANGED <<gqConn, gqListed, gqOut>>

handleConnectionTerminate ==
  /\ gqConn = "open" /\ gqConn' = "closing" /\ gqSubs' = <<>>
  /\ gqTask' = GqCancelled({gqSubs[i] : i \in DOMAIN gqSubs}) /\ UNCHANGED <<gqListed, gqAsked, gqOut>>

\* CloseAll: the subscriptions of the moment are cancelled and the connection is closed
CloseAll ==
  /\ gqListed /\ gqConn = "open" /\ gqConn' = "closing"
  /\ gqTask' = GqCancelled({gqSubs[i] : i \in DOMAIN gqSubs}) /\ UNCHANGED <<gqListed, gqSubs, gqAsked, gqOut>>

GqClientCloses == gqConn = "open" /\ gqConn' = "closing" /\ UNCHANGED <<gqListed, gqSubs, gqTask, gqAsked, gqOut>>

\* The deferred calls of handleConnection; the request's context ends with its handler
handleConnection ==
  /\ gqConn = "closing" /\ gqConn' = "closed" /\ gqListed' = FALSE
  /\ gqTask' = GqCancelled(DOMAIN gqTask) /\ UNCHANGED <<gqSubs, gqAsked, gqOut>>

GqAt(t, pc, at) == gqTask' = [gqTask EXCEPT ![t].pc = pc, ![t].at = at]

\* One event, unless the context is done
sendNext(t) ==
  LET task == gqTask[t] IN
  /\ task.pc = "run" /\ ~task.cancelled /\ task.at < task.config.events
  /\ GqAt(t, "run", task.at + 1) /\ GqSend("next", t)
  /\ UNCHANGED <<gqConn, gqListed, gqSubs, gqAsked>>

\* The events are over, start again, or are cut short
GqRound(t) ==
  LET task == gqTask[t] IN
  /\ task.pc = "run" /\ (task.cancelled \/ task.at = task.config.events)
  /\ IF task.config.repeat /\ ~task.cancelled THEN GqAt(t, "run", 0) ELSE GqAt(t, "complete", task.at)
  /\ UNCHANGED <<gqConn, gqListed, gqSubs, gqAsked, gqOut>>

sendComplete(t) ==
  /\ gqTask[t].pc = "complete" /\ GqAt(t, "delete", gqTask[t].at) /\ GqSend("complete", t)
  /\ UNCHANGED <<gqConn, gqListed, gqSubs, gqAsked>>

\* The id is freed, whoever holds it
streamEvents(t) ==
  /\ gqTask[t].pc = "delete" /\ GqAt(t, "ended", gqTask[t].at) /\ gqSubs' = GqLess({gqTask[t].id})
  /\ UNCHANGED <<gqConn, gqListed, gqAsked, gqOut>>

GqFreshID(id) == GqReuse \/ \A t \in DOMAIN gqTask : gqTask[t].id # id

GqNext ==
  \/ handleConnectionInit \/ handlePing \/ sendError \/ handleConnectionTerminate \/ CloseAll
  \/ GqClientCloses \/ handleConnection
  \/ \E id \in GqIDs : \/ \E config \in GqConfigs : GqFreshID(id) /\ handleSubscribe(id, config)
                       \/ handleUnsubscribe(id)
  \/ \E t \in DOMAIN gqTask : sendNext(t) \/ GqRound(t) \/ sendComplete(t) \/ streamEvents(t)

-----------------------------------------------------------------------------
(* Properties *)

RECURSIVE GxFlat(_), GxSelection(_, _)
\* The fields of a selection set, in order, the fragments' in place
GxFlat(sels) ==
  FlattenSeq([i \in DOMAIN sels |-> IF sels[i].skip THEN <<>>
                                    ELSE IF sels[i].k = "frag" THEN GxFlat(sels[i].sub) ELSE <<sels[i]>>])
\* What GraphQL's merging of fields makes of a value: every selection of a key counts
GxSelection(value, sels) ==
  LET flat == GxFlat(sels)
      keys == {flat[i].alias : i \in {j \in DOMAIN flat : flat[j].name \in DOMAIN value.f \cup GxMeta}}
      of(k) == SelectSeq(flat, LAMBDA s : s.alias = k)
      sub(k) == FlattenSeq([i \in DOMAIN of(k) |-> of(k)[i].sub])
      child(k) == IF Head(of(k)).name \in GxMeta THEN GxLeaf ELSE GxSelection(value.f[Head(of(k)).name], sub(k))
  IN  CASE sels = <<>> \/ value.t = "leaf" -> value
        [] value.t = "list" -> [value EXCEPT !.s = [i \in DOMAIN @ |-> GxSelection(@[i], sels)]]
        [] value.t = "obj" -> GxObj([k \in keys |-> child(k)])

\* An object is pruned to what was selected, through aliases, fragments, lists and
\* skipped fields, and every query of a batch is answered.
GxPruned ==
  gxOut[1] = "200" =>
    /\ gxReq.body # "spacedBatch" => Len(gxOut[2]) = Len(gxReq.queries)
    /\ \A i \in DOMAIN gxOut[2] : LET q == gxReq.queries[i] IN
         q.parses /\ ~isIntrospectionQuery(q.sels) =>
           \A j \in DOMAIN q.sels : LET s == q.sels[j]
                                        r == findResolver(s.name, q.args) IN
             s.k = "field" /\ ~s.skip /\ ~r.error /\ s.name \notin GxMeta =>
               gxOut[2][i].data[s.alias] = GxSelection(r.value, s.sub)

GqTypeOK ==
  /\ \A i \in DOMAIN gqSubs : gqSubs[i] \in DOMAIN gqTask
  /\ \A t \in DOMAIN gqTask : gqTask[t].at \in 0 .. gqTask[t].config.events
  /\ gqConn \in {"open", "closing", "closed"} /\ (gqListed <=> gqConn # "closed")

\* A subscription the client has stopped, and any subscription of a connection that is
\* gone, is cancelled: and no two streams run for one id.
GqStopped ==
  /\ \A t \in gqAsked : gqTask[t].cancelled \/ gqTask[t].pc # "run"
  /\ gqConn = "closed" => \A t \in DOMAIN gqTask : gqTask[t].cancelled
  /\ \A t, u \in DOMAIN gqTask :
       t # u /\ gqTask[t].id = gqTask[u].id /\ gqTask[t].pc = "run" /\ gqTask[u].pc = "run" =>
         gqTask[t].cancelled \/ gqTask[u].cancelled

=============================================================================
