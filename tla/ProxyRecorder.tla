----------------------------- MODULE ProxyRecorder -----------------------------
(***************************************************************************)
(* The recording proxy (pkg/proxy) under the admin API (pkg/admin's        *)
(* ProxyManager with its session and recording handlers), the in-memory    *)
(* store of recordings and their conversion to mocks (pkg/recording).      *)
(*                                                                         *)
(* Each start makes a proxy and a store of its own, its generation.  Stop  *)
(* closes the listener and the plain connections; connections that CONNECT *)
(* took over live on.  A recording is its request's path and a number that *)
(* stands for the response; the method is folded into the path.            *)
(***************************************************************************)
EXTENDS Integers, Sequences, SequencesExt, FiniteSets

CONSTANTS
  PxStarts,     \* bound: starts of the proxy
  PxSess,       \* bound: sessions
  PxReqs,       \* bound: requests sent
  PxConns,      \* client connections
  PxPaths,      \* paths of requests
  PxSmart,      \* path -> path with its IDs replaced by {id}
  PxFilters,    \* filters: sets of paths that are recorded
  PxHosts, PxCache,   \* hosts of CONNECT, size of the certificate cache
  PxAnswers,    \* bound: conversions
  PxFoci        \* bound: subset of {"manager", "ca", "sessions", "convert"}

VARIABLES
  pxGen,        \* the current generation, 0 before the first start
  pxRunning,
  pxProxy,      \* generation -> its proxy [mode, filter, ca, certs]
  pxStore,      \* generation -> its store [live, active, recs]
  pxConn,       \* connection -> [kind, gen, at, path]
  pxCa,         \* the CA on disk and the one the admin API shows [disk, shown]
  pxCount,      \* [sess, reqs, answers] so far
  pxOut,        \* the last conversion: its recordings, options and mocks
  pxFocus       \* bound: what this behaviour explores besides recording

pxVars == <<pxFocus, pxGen, pxRunning, pxProxy, pxStore, pxConn, pxCa, pxCount, pxOut>>

PxNoConn == [kind |-> "none", gen |-> 0, at |-> "idle", path |-> ""]
PxNoOut == [recs |-> <<>>, strategy |-> "all", smart |-> FALSE, mocks |-> <<>>]
PxNew == [mode |-> "record", filter |-> PxPaths, ca |-> 0, certs |-> <<>>]
\* NewStore
PxEmpty == [live |-> {}, active |-> 0, recs |-> [s \in 1 .. PxSess |-> <<>>]]

PxInit ==
  /\ pxFocus \in PxFoci
  /\ pxGen = 0 /\ pxRunning = FALSE
  /\ pxProxy = [g \in 1 .. PxStarts |-> PxNew] /\ pxStore = [g \in 1 .. PxStarts |-> PxEmpty]
  /\ pxConn = [c \in PxConns |-> PxNoConn] /\ pxCa = [disk |-> 0, shown |-> 0]
  /\ pxCount = [sess |-> 0, reqs |-> 0, answers |-> 0] /\ pxOut = PxNoOut

-----------------------------------------------------------------------------
(* Store *)

\* The active session is ended and replaced
CreateSession(st, s) == [st EXCEPT !.live = @ \cup {s}, !.active = s]

PxDeleteSession(st, s) ==
  [st EXCEPT !.live = @ \ {s}, !.recs[s] = <<>>, !.active = IF @ = s THEN 0 ELSE @]

\* Without an active session the recording is lost
AddRecording(st, r) == IF st.active = 0 THEN st ELSE [st EXCEPT !.recs[st.active] = Append(@, r)]

DeleteRecording(st, r) ==
  [st EXCEPT !.recs = [s \in 1 .. PxSess |-> SelectSeq(st.recs[s], LAMBDA x : x # r)]]

\* Store.Clear takes the sessions, the active one included
PxClear(st) == PxEmpty

PxRecs(st) == UNION {ToSet(st.recs[s]) : s \in st.live}

\* ListRecordings: the sessions in the order of a map
ListRecordings(st) ==
  {FoldLeft(LAMBDA acc, s : acc \o st.recs[s], <<>>, o) : o \in SetToSeqs(st.live)}

-----------------------------------------------------------------------------
(* Conversion *)

ToMock(r) == [path |-> r.path, body |-> r.id]

ToMocks(rs) == [i \in 1 .. Len(rs) |-> ToMock(rs[i])]

\* The groups of equal key, in order of appearance, reduced by the strategy
PxGroups(xs, strategy) ==
  LET same(i) == SelectSeq(xs, LAMBDA x : x.path = xs[i].path)
      first(i) == \A j \in 1 .. i - 1 : xs[j].path # xs[i].path
      reps == SelectSeq([i \in 1 .. Len(xs) |-> i], first)
      pick(i) == CASE strategy = "first" -> <<same(i)[1]>> [] strategy = "last" -> <<Last(same(i))>>
                   [] strategy = "all" -> same(i) IN
  FoldLeft(LAMBDA acc, i : acc \o pick(i), <<>>, reps)

ToMocksWithStrategy(rs, strategy) ==
  IF strategy = "all" THEN ToMocks(rs) ELSE ToMocks(PxGroups(rs, strategy))

SmartPathMatcher(path) == PxSmart[path]

DeduplicatePaths(ms, strategy) == IF Len(ms) <= 1 THEN ms ELSE PxGroups(ms, strategy)

FilterRecordings(rs, keep) == SelectSeq(rs, LAMBDA r : r.path \in keep)

\* Mutant: the paths are generalised, and the mocks that now answer alike are all kept
convertNoDedup(rs, keep, strategy, smart) ==
  LET ms == ToMocksWithStrategy(FilterRecordings(rs, keep), strategy) IN
  IF smart THEN [i \in 1 .. Len(ms) |-> [ms[i] EXCEPT !.path = SmartPathMatcher(@)]] ELSE ms

ConvertRecordingsWithOptions(rs, keep, strategy, smart) ==
  LET ms == ToMocksWithStrategy(FilterRecordings(rs, keep), strategy)
      general == [i \in 1 .. Len(ms) |-> [ms[i] EXCEPT !.path = SmartPathMatcher(@)]] IN
  IF smart THEN DeduplicatePaths(general, strategy) ELSE ms

-----------------------------------------------------------------------------
(* ProxyManager *)

\* EnsureCA: load the CA on disk, or generate one
EnsureCA == IF pxCa.disk = 0 THEN 1 ELSE pxCa.disk

\* A refused start (bad mode, CA path or port) changes nothing that shows
handleProxyStart(mode, filter, ca) ==
  LET g == pxGen + 1
      s == pxCount.sess + 1 IN
  /\ ~pxRunning /\ g <= PxStarts /\ s <= PxSess
  /\ pxGen' = g /\ pxRunning' = TRUE
  /\ pxProxy' = [pxProxy EXCEPT ![g] = [PxNew EXCEPT !.mode = mode, !.filter = filter,
                                                      !.ca = IF ca THEN EnsureCA ELSE 0]]
  /\ pxStore' = [pxStore EXCEPT ![g] = CreateSession(@, s)]
  /\ pxCa' = IF ca THEN [disk |-> EnsureCA, shown |-> EnsureCA] ELSE [pxCa EXCEPT !.shown = 0]
  /\ pxCount' = [pxCount EXCEPT !.sess = s]
  /\ UNCHANGED <<pxFocus, pxConn, pxOut>>

\* http.Server.Close: plain connections end, their handlers run on
handleProxyStop ==
  /\ pxRunning /\ pxRunning' = FALSE
  /\ pxConn' = [c \in PxConns |-> IF pxConn[c].kind = "http" /\ pxConn[c].at = "idle"
                                    THEN PxNoConn ELSE pxConn[c]]
  /\ UNCHANGED <<pxFocus, pxGen, pxProxy, pxStore, pxCa, pxCount, pxOut>>

handleProxyMode(mode) ==
  /\ pxRunning /\ pxProxy' = [pxProxy EXCEPT ![pxGen].mode = mode]
  /\ UNCHANGED <<pxFocus, pxGen, pxRunning, pxStore, pxConn, pxCa, pxCount, pxOut>>

handleSetFilters(filter) ==
  /\ pxRunning /\ pxProxy' = [pxProxy EXCEPT ![pxGen].filter = filter]
  /\ UNCHANGED <<pxFocus, pxGen, pxRunning, pxStore, pxConn, pxCa, pxCount, pxOut>>

\* Mutant: an existing CA is replaced
generateAnyway ==
  /\ pxCa.disk < 2 /\ pxCa' = [disk |-> pxCa.disk + 1, shown |-> pxCa.disk + 1]
  /\ UNCHANGED <<pxFocus, pxGen, pxRunning, pxProxy, pxStore, pxConn, pxCount, pxOut>>

\* The admin API generates a CA where there is none ...
handleGenerateCA ==
  /\ pxCa.disk = 0 /\ pxCa' = [disk |-> 1, shown |-> 1]
  /\ UNCHANGED <<pxFocus, pxGen, pxRunning, pxProxy, pxStore, pxConn, pxCount, pxOut>>

\* ... and `proxy ca generate` in any case
proxyCAGenerateCmd ==
  /\ pxCa.disk < 2 /\ pxCa' = [pxCa EXCEPT !.disk = @ + 1]
  /\ UNCHANGED <<pxFocus, pxGen, pxRunning, pxProxy, pxStore, pxConn, pxCount, pxOut>>

PxSet(st) ==
  /\ pxGen > 0 /\ pxStore' = [pxStore EXCEPT ![pxGen] = st]
  /\ UNCHANGED <<pxFocus, pxGen, pxRunning, pxProxy, pxConn, pxCa, pxOut>>

handleCreateSession ==
  /\ pxCount.sess < PxSess /\ pxCount' = [pxCount EXCEPT !.sess = @ + 1]
  /\ PxSet(CreateSession(pxStore[pxGen], pxCount.sess + 1))

handleDeleteSession(s) ==
  s \in pxStore[pxGen].live /\ PxSet(PxDeleteSession(pxStore[pxGen], s)) /\ UNCHANGED pxCount

handleDeleteSessions ==
  /\ pxStore[pxGen].live # {} /\ UNCHANGED pxCount
  /\ PxSet(FoldSet(LAMBDA s, st : PxDeleteSession(st, s), pxStore[pxGen], pxStore[pxGen].live))

handleDeleteRecording(r) ==
  r \in PxRecs(pxStore[pxGen]) /\ PxSet(DeleteRecording(pxStore[pxGen], r)) /\ UNCHANGED pxCount

handleClearRecordings ==
  pxStore[pxGen].live # {} /\ PxSet(PxClear(pxStore[pxGen])) /\ UNCHANGED pxCount

\* A conversion reads the store under its lock
PxAnswer(rs, strategy, smart, mocks) ==
  /\ pxCount.answers < PxAnswers /\ rs # <<>>
  /\ pxCount' = [pxCount EXCEPT !.answers = @ + 1]
  /\ pxOut' = [recs |-> rs, strategy |-> strategy, smart |-> smart, mocks |-> mocks]
  /\ UNCHANGED <<pxFocus, pxGen, pxRunning, pxProxy, pxStore, pxConn, pxCa>>

handleConvertRecordings(dedup) ==
  /\ pxGen > 0
  /\ \E rs \in ListRecordings(pxStore[pxGen]) :
       LET kind == IF dedup THEN "first" ELSE "all" IN
       PxAnswer(rs, kind, FALSE, ToMocksWithStrategy(rs, kind))

handleConvertSingleRecording(r, smart) ==
  /\ pxGen > 0 /\ r \in PxRecs(pxStore[pxGen])
  /\ PxAnswer(<<r>>, "first", smart, ConvertRecordingsWithOptions(<<r>>, PxPaths, "first", smart))

\* "latest" is the active session, or any there is
handleConvertSession(s, keep, strategy, smart) ==
  /\ pxGen > 0 /\ s \in pxStore[pxGen].live
  /\ LET rs == pxStore[pxGen].recs[s] IN
     PxAnswer(FilterRecordings(rs, keep), strategy, smart,
              ConvertRecordingsWithOptions(rs, keep, strategy, smart))

-----------------------------------------------------------------------------
(* Connections *)

\* certLRUCache: the last used first
PxUse(certs, h) ==
  LET rest == SelectSeq(certs, LAMBDA x : x # h) IN
  <<h>> \o (IF h \notin ToSet(certs) /\ Len(certs) >= PxCache THEN Front(certs) ELSE rest)

GenerateHostCert(g, h) == [pxProxy EXCEPT ![g].certs = PxUse(@, h)]

PxOpen(c, kind) ==
  /\ pxRunning /\ pxConn[c].kind = "none"
  /\ pxConn' = [pxConn EXCEPT ![c] = [PxNoConn EXCEPT !.kind = kind, !.gen = pxGen]]
  /\ UNCHANGED <<pxFocus, pxGen, pxRunning, pxStore, pxCa, pxCount, pxOut>>

PxPlain(c) == PxOpen(c, "http") /\ UNCHANGED pxProxy

\* CONNECT: intercepted with a certificate for the host, or tunnelled without a CA
handleConnect(c, h) ==
  /\ pxProxy[pxGen].ca # 0 /\ PxOpen(c, "mitm") /\ pxProxy' = GenerateHostCert(pxGen, h)

tunnelConnect(c) == pxProxy[pxGen].ca = 0 /\ PxOpen(c, "tunnel") /\ UNCHANGED pxProxy

PxHangUp(c) ==
  /\ pxConn[c].kind # "none" /\ pxConn[c].at = "idle"
  /\ pxConn' = [pxConn EXCEPT ![c] = PxNoConn]
  /\ UNCHANGED <<pxFocus, pxGen, pxRunning, pxProxy, pxStore, pxCa, pxCount, pxOut>>

\* handleHTTP and handleHTTPSRequest: the request is forwarded ...
handleHTTP(c, path) ==
  /\ pxConn[c].kind \in {"http", "mitm"} /\ pxConn[c].at = "idle" /\ pxCount.reqs < PxReqs
  /\ pxConn' = [pxConn EXCEPT ![c].at = "forward", ![c].path = path]
  /\ pxCount' = [pxCount EXCEPT !.reqs = @ + 1]
  /\ UNCHANGED <<pxFocus, pxGen, pxRunning, pxProxy, pxStore, pxCa, pxOut>>

forwardRequest(c) == pxConn[c].at = "forward"

ShouldRecord(filter, path) == path \in filter

\* ... the answer came, or not: then mode and filter are read ...
PxAnswered(c, ok) ==
  LET x == pxConn[c]
      p == pxProxy[x.gen] IN
  /\ forwardRequest(c)
  /\ pxConn' = [pxConn EXCEPT ![c].at =
       IF ok /\ p.mode = "record" /\ ShouldRecord(p.filter, x.path) THEN "record" ELSE "idle"]
  /\ UNCHANGED <<pxFocus, pxGen, pxRunning, pxProxy, pxStore, pxCa, pxCount, pxOut>>

PxRecord(c, g) ==
  LET x == pxConn[c]
      r == [id |-> <<x.gen, Cardinality(UNION {PxRecs(pxStore[h]) : h \in 1 .. PxStarts})>>,
            path |-> x.path] IN
  /\ x.at = "record"
  /\ pxStore' = [pxStore EXCEPT ![g] = AddRecording(@, r)]
  /\ pxConn' = [pxConn EXCEPT ![c].at = "idle"]
  /\ UNCHANGED <<pxFocus, pxGen, pxRunning, pxProxy, pxCa, pxCount, pxOut>>

\* Mutant: the recording goes to the manager's store
handleHTTPSCurrent(c) == PxRecord(c, pxGen)

\* ... and the recording is added to the store of the connection's proxy
handleHTTPSRequest(c) == PxRecord(c, pxConn[c].gen)

-----------------------------------------------------------------------------
PxManage ==
  \/ \E f \in PxFilters, ca \in BOOLEAN, mode \in {"record", "passthrough"} :
       /\ pxFocus # "manager" => f = PxPaths /\ mode = "record"
       /\ ca => pxFocus \in {"manager", "ca"}
       /\ handleProxyStart(mode, f, ca)
  \/ pxFocus # "convert" /\ handleProxyStop

PxControl ==
  \/ \E mode \in {"record", "passthrough"} : handleProxyMode(mode)
  \/ \E f \in PxFilters : handleSetFilters(f)

PxSessions ==
  \/ handleCreateSession \/ handleClearRecordings \/ handleDeleteSessions
  \/ \E s \in 1 .. PxSess : handleDeleteSession(s)
  \/ \E r \in PxRecs(pxStore[pxGen]) : handleDeleteRecording(r)

PxConversions ==
  \/ handleCreateSession
  \/ \E r \in PxRecs(pxStore[pxGen]), smart \in BOOLEAN : handleConvertSingleRecording(r, smart)
  \/ \E d \in BOOLEAN : handleConvertRecordings(d)
  \/ \E s \in 1 .. PxSess, f \in PxFilters, k \in {"first", "last", "all"}, smart \in BOOLEAN :
       handleConvertSession(s, f, k, smart)

PxTraffic ==
  \E c \in PxConns :
    \/ PxPlain(c) \/ tunnelConnect(c) \/ PxHangUp(c) \/ handleHTTPSRequest(c)
    \/ \E h \in PxHosts : (pxFocus = "ca" \/ h = CHOOSE x \in PxHosts : TRUE) /\ handleConnect(c, h)
    \/ /\ pxFocus # "ca" /\ (pxFocus = "manager" => pxCount.reqs < PxReqs - 1)
       /\ \E p \in PxPaths : handleHTTP(c, p)
    \/ \E ok \in BOOLEAN : PxAnswered(c, ok)

PxNext ==
  \/ PxManage
  \/ pxFocus = "manager" /\ PxControl
  \/ pxFocus = "ca" /\ (handleGenerateCA \/ proxyCAGenerateCmd)
  \/ pxGen > 0 /\ PxTraffic
  \/ pxGen > 0 /\ pxFocus = "sessions" /\ PxSessions
  \/ pxGen > 0 /\ pxFocus = "convert" /\ PxConversions

PxSpec == PxInit /\ [][PxNext]_pxVars

-----------------------------------------------------------------------------
(* Properties *)

\* At most one session of a store is active, and only sessions of the store hold
\* recordings; the certificate cache is bounded.
PxTypeOK ==
  /\ pxGen \in 0 .. PxStarts /\ pxRunning \in BOOLEAN /\ (pxRunning => pxGen > 0)
  /\ \A g \in 1 .. PxStarts :
       /\ pxStore[g].live \subseteq 1 .. PxSess /\ pxStore[g].active \in pxStore[g].live \cup {0}
       /\ \A s \in 1 .. PxSess : pxStore[g].recs[s] # <<>> => s \in pxStore[g].live
       /\ Len(pxProxy[g].certs) <= PxCache /\ pxProxy[g].mode \in {"record", "passthrough"}
       /\ pxProxy[g].filter \subseteq PxPaths
  /\ \A c \in PxConns : pxConn[c].at \in {"idle", "forward", "record"}

\* A connection that outlives a stop never records into a later proxy's session: the
\* store holds what went through its own proxy (handler.go, https.go: p.store).
PxOwnTraffic ==
  \A g \in 1 .. PxStarts : \A r \in PxRecs(pxStore[g]) : r.id[1] = g

\* The CA certificate that GET /proxy/ca offers for installation is the one that
\* the running proxy signs with, whatever happens to the CA's files.
PxCaServed == pxRunning /\ pxProxy[pxGen].ca # 0 => pxCa.shown = pxProxy[pxGen].ca

PxKey(r) == IF pxOut.smart THEN PxSmart[r.path] ELSE r.path

\* The position of a mock's recording
PxAt(m) == CHOOSE i \in 1 .. Len(pxOut.recs) : pxOut.recs[i].id = m.body

\* "When multiple recordings match the same endpoint" (guides/proxy-recording.md): every
\* endpoint recorded has exactly one mock, under "all" one per recording, and under
\* "first" it answers as the endpoint's first recording did.
PxConverted ==
  LET ks == [i \in 1 .. Len(pxOut.mocks) |-> pxOut.mocks[i].path] IN
  /\ ToSet(ks) = {PxKey(r) : r \in ToSet(pxOut.recs)}
  /\ IF pxOut.strategy = "all" THEN Len(ks) = Len(pxOut.recs)
     ELSE Cardinality(ToSet(ks)) = Len(ks)
  /\ pxOut.strategy = "first" =>
       \A m \in ToSet(pxOut.mocks) : \A i \in 1 .. PxAt(m) - 1 : PxKey(pxOut.recs[i]) # m.path

=============================================================================
