--------------------------- MODULE RequestDispatch ---------------------------
(***************************************************************************)
(* How the engine finds the mock for a request and answers it.             *)
(*                                                                         *)
(* Mt: one path pattern against one request path (internal/matching):      *)
(* MatchPath and what MatchPathVariable then extracts.                     *)
(*                                                                         *)
(* Hd: one request through Handler.ServeHTTP (pkg/engine/handler.go) while *)
(* protocol handlers and mocks are registered and removed.  Each table has *)
(* a lock of its own, so every lookup is a step.                           *)
(*                                                                         *)
(* Text is a sequence of tokens, percent-decoded: "/", "*", a placeholder  *)
(* {name} of a pattern, or any other character.  Regular expressions and   *)
(* JSONPath are checks a request passes or not.                            *)
(***************************************************************************)
EXTENDS Integers, SequencesExt, FiniteSetsExt, Functions

CONSTANTS
  MtParams,       \* placeholder tokens
  MtPatterns,     \* path patterns
  MtPaths,        \* request paths
  HdMocks,        \* mocks [id, matcher [method, path, checks, mtls], priority, serves,
                  \* mode, file], where a check is [on, key, want]
  HdRequests,     \* requests [path, method, upgrade, large, has, faults], where
                  \* has holds what checks look at, [on, key, value]
  HdReserved,     \* paths of /__mockd that answer before anything else
  HdHealth,       \* health paths that answer when no mock does
  HdChanges       \* bound: registrations changed while the request is served

MtHas(s, tokens) == \E i \in DOMAIN s : s[i] \in tokens
MtFrom(s, k) == SubSeq(s, k, Len(s))
MtSplit(s, sep) ==
  FoldLeft(LAMBDA parts, t : IF t = sep THEN Append(parts, <<>>)
                             ELSE [parts EXCEPT ![Len(parts)] = Append(@, t)], <<<<>>>>, s)

\* The text without the slashes at its ends
MtTrim(s) ==
  LET inner == {i \in DOMAIN s : s[i] # "/"}
  IN  IF inner = {} THEN <<>> ELSE SubSeq(s, Min(inner), Max(inner))

MtSegments(s) == MtSplit(MtTrim(s), "/")

-----------------------------------------------------------------------------
(* Paths *)

RECURSIVE matchSegmentWithParam(_, _)
\* A segment pattern, its placeholders standing for one or more characters
matchSegmentWithParam(p, s) ==
  IF p = <<>> THEN s = <<>>
  ELSE IF Head(p) \in MtParams
    THEN \E k \in DOMAIN s : matchSegmentWithParam(Tail(p), MtFrom(s, k + 1))
  ELSE s # <<>> /\ Head(s) = Head(p) /\ matchSegmentWithParam(Tail(p), Tail(s))

MtWholeParam(p) == p # <<>> /\ p[1] \in MtParams /\ Last(p) \in MtParams

\* Mutant: a segment with literal text around a placeholder matches any segment
segmentsLoose(pattern, path) ==
  LET ps == MtSegments(pattern)  ss == MtSegments(path)
  IN  /\ Len(ps) = Len(ss)
      /\ \A i \in DOMAIN ps : MtHas(ps[i], MtParams) \/ ps[i] = ss[i]

matchNamedParams(pattern, path) ==
  LET ps == MtSegments(pattern)  ss == MtSegments(path)
  IN  /\ Len(ps) = Len(ss)
      /\ \A i \in DOMAIN ps :
           IF MtWholeParam(ps[i]) THEN TRUE
           ELSE IF MtHas(ps[i], MtParams) THEN matchSegmentWithParam(ps[i], ss[i])
           ELSE ps[i] = ss[i]

\* Where part begins in s after the first pos characters, or none
MtFound(s, pos, part) == {i \in pos .. Len(s) - Len(part) : SubSeq(s, i + 1, i + Len(part)) = part}

\* Mutant: the search goes on where the last part began
MtScanOverlaps(parts, path) ==
  FoldLeft(LAMBDA pos, i : IF pos < 0 \/ parts[i] = <<>> THEN pos
                           ELSE IF MtFound(path, pos, parts[i]) = {} \/ (i = 1 /\ ~IsPrefix(parts[i], path)) THEN -1
                           ELSE Min(MtFound(path, pos, parts[i])),
           0, [i \in DOMAIN parts |-> i])

\* The position after the last part, each found leftmost after the one before, or -1
MtScan(parts, path) ==
  FoldLeft(LAMBDA pos, i : IF pos < 0 \/ parts[i] = <<>> THEN pos
                           ELSE IF MtFound(path, pos, parts[i]) = {} \/ (i = 1 /\ ~IsPrefix(parts[i], path)) THEN -1
                           ELSE Min(MtFound(path, pos, parts[i])) + Len(parts[i]),
           0, [i \in DOMAIN parts |-> i])

matchWildcard(pattern, path) == MtScan(MtSplit(pattern, "*"), path) >= 0

\* As for a certificate's names: the last part ends the value
matchWildcardString(pattern, value) ==
  LET parts == MtSplit(pattern, "*")
      pos   == MtScan(Front(parts), value)
  IN  pattern = value \/ (MtHas(pattern, {"*"}) /\ pos >= 0 /\ IsSuffix(Last(parts), MtFrom(value, pos + 1)))

MatchPath(pattern, path) ==
  LET stem == SubSeq(pattern, 1, Len(pattern) - 2) IN
  IF pattern = path THEN 15
  ELSE IF MtHas(pattern, MtParams) /\ matchNamedParams(pattern, path) THEN 12
  ELSE IF IsSuffix(<<"/", "*">>, pattern) /\ (IsPrefix(Append(stem, "/"), path) \/ path = stem) THEN 10
  ELSE IF MtHas(pattern, {"*"}) /\ matchWildcard(pattern, path) THEN 10
  ELSE 0

RECURSIVE extractSegmentParams(_, _)
\* The longest texts for the placeholders, from left to right
extractSegmentParams(p, s) ==
  IF p = <<>> \/ ~matchSegmentWithParam(p, s) THEN <<>>
  ELSE IF Head(p) \in MtParams
    THEN LET k == Max({k \in DOMAIN s : matchSegmentWithParam(Tail(p), MtFrom(s, k + 1))})
         IN  <<<<<<Head(p)>>, SubSeq(s, 1, k)>>>> \o extractSegmentParams(Tail(p), MtFrom(s, k + 1))
  ELSE extractSegmentParams(Tail(p), Tail(s))

\* Placeholders and their texts, in the order of the path; "*" takes the rest when it is last
MatchPathVariable(pattern, path) ==
  LET ps == MtSegments(pattern)  ss == MtSegments(path)
      bound(i) == IF MtWholeParam(ps[i]) THEN <<<<ps[i], ss[i]>>>>
                  ELSE IF MtHas(ps[i], MtParams) THEN extractSegmentParams(ps[i], ss[i])
                  ELSE IF ps[i] # <<"*">> THEN <<>>
                  ELSE IF i = Len(ps) THEN <<<<<<"*">>, FlattenSeq(SubSeq(ss, i, Len(ss)))>>>>
                  ELSE <<<<<<"*">>, ss[i]>>>>
  IN  FlattenSeq([i \in 1 .. Min({Len(ps), Len(ss)}) |-> bound(i)])

VARIABLES mtPattern, mtPath, mtScore, mtBound
mtVars == <<mtPattern, mtPath, mtScore, mtBound>>

MtInit ==
  /\ mtPattern \in MtPatterns /\ mtPath \in MtPaths
  /\ mtScore = -1 /\ mtBound = <<>>

MtNext ==
  /\ mtScore = -1 /\ UNCHANGED <<mtPattern, mtPath>>
  /\ mtScore' = MatchPath(mtPattern, mtPath)
  /\ mtBound' = IF mtScore' > 0 THEN MatchPathVariable(mtPattern, mtPath) ELSE <<>>

RECURSIVE MtGlob(_, _)
\* Reference: "* matches any sequence of characters", the text after the pattern is free
MtGlob(p, s) ==
  IF p = <<>> THEN TRUE
  ELSE IF Head(p) = "*" THEN \E k \in 0 .. Len(s) : MtGlob(Tail(p), MtFrom(s, k + 1))
  ELSE s # <<>> /\ Head(s) = Head(p) /\ MtGlob(Tail(p), Tail(s))

\* matchWildcard searches each part leftmost; it finds a way to match whenever there is one
\* (the end of the path is not anchored), and MatchPath's case for a trailing "/*" adds
\* only the path that stops before the slash.
MtWildcardComplete ==
  mtScore >= 0 /\ ~MtHas(mtPattern, MtParams) =>
    (mtScore > 0 <=> \/ IF MtHas(mtPattern, {"*"}) THEN MtGlob(mtPattern, mtPath) ELSE mtPattern = mtPath
                     \/ IsSuffix(<<"/", "*">>, mtPattern) /\ mtPath = SubSeq(mtPattern, 1, Len(mtPattern) - 2))

\* matchNamedParams and MatchPathVariable agree: a pattern that scores as one with
\* placeholders binds every one of them, and the bound texts give back the path.
MtParamsBound ==
  mtScore = 12 =>
    LET value(t) == FlattenSeq([i \in DOMAIN mtBound |-> IF mtBound[i][1] = <<t>> THEN mtBound[i][2] ELSE <<>>])
        filled == [i \in DOMAIN mtPattern |-> IF mtPattern[i] \in MtParams THEN value(mtPattern[i]) ELSE <<mtPattern[i]>>]
    IN  MtSegments(FlattenSeq(filled)) = MtSegments(mtPath)

-----------------------------------------------------------------------------
(* Matchers *)

\* "x" exactly, "x*", "*x" or "*x*"; a star inside matches nothing
MatchHeaderPattern(want, value) ==
  LET stars == {i \in DOMAIN want : want[i] = "*"}
      text  == SelectSeq(want, LAMBDA t : t # "*")
  IN  CASE stars = {} -> value = want
        [] stars # {} /\ want[1] # "*" /\ Last(want) = "*" -> IsPrefix(SubSeq(want, 1, Len(want) - 1), value)
        [] stars # {} /\ want[1] = "*" /\ Last(want) # "*" -> IsSuffix(Tail(want), value)
        [] stars # {} /\ want[1] = "*" /\ Last(want) = "*" -> MtFound(value, 0, text) # {}
        [] OTHER -> FALSE

MtMtls == {"requireAuth", "cn", "cnPattern", "ou", "o", "fingerprint", "issuer", "san"}

MtWeight ==
  [method |-> 10, header |-> 10, query |-> 5, pathPattern |-> 14,
   bodyEquals |-> 25, bodyContains |-> 20, bodyPattern |-> 22, jsonPath |-> 15,
   requireAuth |-> 5, cn |-> 15, cnPattern |-> 12, ou |-> 10, o |-> 10,
   fingerprint |-> 50, issuer |-> 10, san |-> 10]

MtTotal(checks) == MapThenSumSet(LAMBDA c : MtWeight[c.on], checks)

MtSatisfied(c, req) ==
  \E h \in req.has : /\ h.on = c.on /\ h.key = c.key
                     /\ CASE c.on = "header" -> MatchHeaderPattern(c.want, h.value)
                          [] c.on = "san" -> matchWildcardString(c.want, h.value)
                          [] OTHER -> h.value = c.want

\* The checks of a client certificate; without one none is satisfied
matchMTLS(m, req) ==
  LET checks == {c \in m.checks : c.on \in MtMtls}
  IN  IF \A c \in checks : MtSatisfied(c, req) THEN MtTotal(checks) ELSE 0

MtBoth(m) == m.path # <<>> /\ \E c \in m.checks : c.on = "pathPattern"

MatchScoreWithAllCaptures(m, req) ==
  IF \/ MtBoth(m)
     \/ m.method # "" /\ m.method # req.method
     \/ m.path # <<>> /\ MatchPath(m.path, req.path) = 0
     \/ \E c \in m.checks : ~MtSatisfied(c, req)
     \/ m.mtls /\ matchMTLS(m, req) = 0
    THEN 0
    ELSE (IF m.method = "" THEN 0 ELSE MtWeight["method"])
         + (IF m.path = <<>> THEN 0 ELSE MatchPath(m.path, req.path)) + MtTotal(m.checks)

maxPathScore(path) == IF MtHas(path, MtParams) THEN 12 ELSE IF MtHas(path, {"*"}) THEN 10 ELSE 15

\* Mutant: a header counts as matched when the request has it
breakdownLoose(m, req) ==
  LET ok  == {c \in m.checks : \E h \in req.has : h.on = c.on /\ h.key = c.key}
      met == m.method = "" \/ m.method = req.method
  IN  [score |-> (IF met THEN 10 ELSE 0) + MatchPath(m.path, req.path) + MtTotal(ok),
       max   |-> 10 + maxPathScore(m.path) + MtTotal(m.checks),
       all   |-> met /\ ok = m.checks /\ MatchPath(m.path, req.path) > 0]

\* The body checks that count; JSONPath conditions count as a whole
matchBodyFields(m, req) ==
  LET json == {c \in m.checks : c.on = "jsonPath"}
  IN  {c \in m.checks : c.on \in {"bodyEquals", "bodyContains", "bodyPattern"} /\ MtSatisfied(c, req)}
      \cup IF \A c \in json : MtSatisfied(c, req) THEN json ELSE {}

\* The certificate checks, which count as a whole
matchMTLSField(m, req) == IF matchMTLS(m, req) > 0 THEN {c \in m.checks : c.on \in MtMtls} ELSE {}

\* Every field on its own
MatchBreakdown(m, req) ==
  LET ok   == matchBodyFields(m, req) \cup matchMTLSField(m, req)
              \cup {c \in m.checks : c.on \in {"pathPattern", "header", "query"} /\ MtSatisfied(c, req)}
      met  == m.method = "" \/ m.method = req.method
      base == IF m.method = "" THEN 0 ELSE MtWeight["method"]
      path == IF m.path = <<>> THEN 0 ELSE MatchPath(m.path, req.path)
  IN  IF MtBoth(m) THEN [score |-> 0, max |-> 0, all |-> FALSE] ELSE
      [score |-> (IF met THEN base ELSE 0) + path + MtTotal(ok),
       max   |-> base + (IF m.path = <<>> THEN 0 ELSE maxPathScore(m.path)) + MtTotal(m.checks),
       all   |-> /\ met /\ ok = m.checks /\ (m.path = <<>> \/ path > 0)
                 /\ (~m.mtls \/ matchMTLS(m, req) > 0)]

-----------------------------------------------------------------------------
(* One request *)

HdTables == <<"graphql", "oauth", "soap">>
HdHandlers == {"sub", "ws"} \cup Range(HdTables)

VARIABLES
  hdHandlers,     \* tables with a handler for the request's path
  hdStore,        \* HTTP mocks in the store, enabled
  hdStays,        \* handlers and mocks that were there since the request came
  hdReq, hdPc,    \* the request and where it is
  hdList,         \* mocks listed for it
  hdFrom,         \* mock or table that answers
  hdSent, hdLog,  \* statuses sent and logged
  hdMisses, hdChanges

hdVars == <<hdHandlers, hdStore, hdStays, hdReq, hdPc, hdList, hdFrom, hdSent, hdLog, hdMisses, hdChanges>>
hdTables == <<hdHandlers, hdStore, hdStays, hdChanges>>
hdOut == <<hdFrom, hdSent, hdLog, hdMisses>>

HdInit ==
  /\ hdHandlers = {} /\ hdStore = HdMocks /\ hdStays = [handlers |-> {}, mocks |-> {}]
  /\ hdReq \in HdRequests /\ hdPc = "idle" /\ hdList = {} /\ hdFrom = "none"
  /\ hdSent = <<>> /\ hdLog = <<>> /\ hdMisses = {} /\ hdChanges = HdChanges

HdChange ==
  /\ hdPc # "done" /\ hdChanges > 0 /\ hdChanges' = hdChanges - 1
  /\ hdStays' = [handlers |-> hdStays.handlers \cap hdHandlers', mocks |-> hdStays.mocks \cap hdStore']
  /\ UNCHANGED <<hdReq, hdPc, hdList, hdOut>>

RegisterHandler(h) == hdHandlers' = hdHandlers \cup {h} /\ UNCHANGED hdStore /\ HdChange
UnregisterHandler(h) == h \in hdHandlers /\ hdHandlers' = hdHandlers \ {h} /\ UNCHANGED hdStore /\ HdChange
ToggleMock(m) ==
  /\ hdStore' = IF m \in hdStore THEN hdStore \ {m} ELSE hdStore \cup {m}
  /\ UNCHANGED hdHandlers /\ HdChange

HdHere == hdPc \in hdHandlers
HdDone(from, sent, log, misses) ==
  hdPc' = "done" /\ hdFrom' = from /\ hdSent' = sent /\ hdLog' = log /\ hdMisses' = misses

HdArrives ==
  /\ hdPc = "idle"
  /\ IF hdReq.path \in HdReserved THEN HdDone("reserved", <<200>>, <<>>, {})
     ELSE hdPc' = (IF hdReq.upgrade THEN "sub" ELSE HdTables[1]) /\ UNCHANGED hdOut
  /\ hdStays' = [handlers |-> hdHandlers, mocks |-> hdStore]
  /\ UNCHANGED <<hdHandlers, hdStore, hdReq, hdList, hdChanges>>

\* A subscription endpoint, then a WebSocket endpoint, then 404
handleWebSocket ==
  /\ hdPc \in {"sub", "ws"}
  /\ \/ HdHere /\ HdDone(hdPc, <<101>>, <<>>, {})
     \/ ~HdHere /\ hdPc = "sub" /\ hdPc' = "ws" /\ UNCHANGED hdOut
     \/ ~HdHere /\ hdPc = "ws" /\ HdDone("none", <<404>>, <<>>, {})
  /\ UNCHANGED <<hdTables, hdReq, hdList>>

\* The handler of a table answers and logs by itself
HdLookup(i) ==
  /\ hdPc = HdTables[i]
  /\ \/ HdHere /\ HdDone(hdPc, <<200>>, <<>>, {})
     \/ ~HdHere /\ hdPc' = (IF i < Len(HdTables) THEN HdTables[i + 1] ELSE "body") /\ UNCHANGED hdOut
  /\ UNCHANGED <<hdTables, hdReq, hdList>>

HdReadBody ==
  /\ hdPc = "body"
  /\ \/ hdReq.large /\ HdDone("none", <<413>>, <<413>>, {}) /\ UNCHANGED hdList
     \/ ~hdReq.large /\ hdPc' = "serve" /\ hdList' = hdStore /\ UNCHANGED hdOut
  /\ UNCHANGED <<hdTables, hdReq>>

\* The mocks that matched, sorted by two keys, one after the other
HdFirst(score, key, next) ==
  LET hits == {m \in DOMAIN score : score[m] > 0}
  IN  {m \in hits : \A n \in hits : key[n] < key[m] \/ (key[n] = key[m] /\ next[n] <= next[m])}

MtScores(mocks, req) == [m \in mocks |-> MatchScoreWithAllCaptures(m.matcher, req)]
HdPriorities(mocks) == [m \in mocks |-> m.priority]


\* The mocks sorted first may be any of the best: neither the list nor the sort is stable
SelectBestMatchWithCaptures(mocks, req) ==
  LET score == MtScores(mocks, req) IN HdFirst(score, score, HdPriorities(mocks))

\* A HEAD request no mock wants is matched as GET
HdMatches ==
  LET best == SelectBestMatchWithCaptures(hdList, hdReq)
  IN  IF best = {} /\ hdReq.method = "HEAD"
        THEN SelectBestMatchWithCaptures(hdList, [hdReq EXCEPT !.method = "GET"]) ELSE best

\* The status of a failed validation; warn, and permissive without a missing field, go on
writeHTTPValidationError(mode, faults) ==
  IF \/ mode \in {"none", "warn"}
     \/ faults = {}
     \/ mode = "permissive" /\ "required" \notin faults THEN {} ELSE {400}

writeResponse(m) == IF m.file \in {"missing", "unsafe"} THEN 502 ELSE 200

\* Mutant: a failed validation is answered and the mock served all the same
answersTwice(m) ==
  LET failed == writeHTTPValidationError(m.mode, hdReq.faults)
  IN  {[sent |-> SetToSeq(failed) \o <<writeResponse(m)>>, log |-> <<writeResponse(m)>>]}

\* What is sent and what is logged; a stream that is refused is logged as 200, and a
\* mock without any response is logged as 0
HdAnswers(m) ==
  LET failed == writeHTTPValidationError(m.mode, hdReq.faults)
  IN  CASE m.serves = "stream" -> {[sent |-> <<s>>, log |-> <<200>>] : s \in {200, 503}}
        [] m.serves # "stream" /\ failed # {} -> {[sent |-> <<400>>, log |-> <<400>>]}
        [] m.serves = "stateful" /\ failed = {} -> {[sent |-> <<s>>, log |-> <<s>>] : s \in {200, 404}}
        [] m.serves = "response" /\ failed = {} -> {[sent |-> <<writeResponse(m)>>, log |-> <<writeResponse(m)>>]}
        [] m.serves = "none" /\ failed = {} -> {[sent |-> <<>>, log |-> <<0>>]}

HdServe ==
  /\ hdPc = "serve"
  /\ \E m \in HdMatches : \E a \in HdAnswers(m) : HdDone(m.id, a.sent, a.log, {})
  /\ UNCHANGED <<hdTables, hdReq, hdList>>

\* At most n mocks with something in common with the request, none left out for a lesser one
HdNearest(part, n) ==
  LET near == {m \in DOMAIN part : part[m].score > 0}
      less(a, b) == \/ part[a].score < part[b].score
                    \/ /\ part[a].score = part[b].score
                       /\ (part[a].score * 100) \div part[a].max < (part[b].score * 100) \div part[b].max
  IN  {k \in kSubset(Min({n, Cardinality(near)}), near) : \A a \in k, b \in near \ k : ~less(a, b)}

CollectNearMisses(mocks, req, n) == HdNearest([m \in mocks |-> MatchBreakdown(m.matcher, req)], n)

HdUnmatched ==
  /\ hdPc = "serve" /\ HdMatches = {}
  /\ IF hdReq.path \in HdHealth THEN HdDone("health", <<200>>, <<200>>, {}) ELSE
     \E k \in CollectNearMisses(hdList, hdReq, 3) : HdDone("none", <<404>>, <<404>>, k)
  /\ UNCHANGED <<hdTables, hdReq, hdList>>

HdNext ==
  \/ HdArrives \/ handleWebSocket \/ HdReadBody \/ HdServe \/ HdUnmatched
  \/ \E i \in DOMAIN HdTables : HdLookup(i)
  \/ \E h \in HdHandlers : RegisterHandler(h) \/ UnregisterHandler(h)
  \/ \E m \in HdMocks : ToggleMock(m)

HdTypeOK ==
  /\ hdHandlers \subseteq HdHandlers /\ hdStore \subseteq HdMocks /\ hdList \subseteq HdMocks
  /\ hdPc \in {"idle", "sub", "ws", "body", "serve", "done"} \cup Range(HdTables)
  /\ hdReq \in HdRequests /\ hdChanges \in 0 .. HdChanges

\* A request is answered once and logged once with the status it got, whatever the mock's
\* validation and response make of it; streams and empty mocks log what they cannot know.
HdAnsweredOnce ==
  hdPc = "done" =>
    /\ Len(hdSent) <= 1 /\ Len(hdLog) <= 1
    /\ hdLog = <<>> <=> hdFrom \in {"reserved", "sub", "ws"} \cup Range(HdTables) \/ hdReq.upgrade
    /\ hdLog # <<>> /\ (\A m \in HdMocks : m.id = hdFrom => m.serves \notin {"stream", "none"}) => hdLog = hdSent

\* Registrations changing meanwhile do not hide what stays: a path with a handler all the
\* time is answered by a handler, and a mock enabled all the time is not passed over for a
\* mock that matches the request less, or for a 404.
HdNotPassedOver ==
  hdPc = "done" /\ hdReq.path \notin HdReserved /\ ~hdReq.upgrade /\ ~hdReq.large =>
    /\ hdStays.handlers \cap Range(HdTables) # {} => hdFrom \in Range(HdTables)
    /\ hdFrom \notin Range(HdTables) =>
         \A m \in hdStays.mocks : MatchScoreWithAllCaptures(m.matcher, hdReq) > 0 =>
           \E n \in hdList : n.id = hdFrom /\
             MatchScoreWithAllCaptures(n.matcher, hdReq) >= MatchScoreWithAllCaptures(m.matcher, hdReq)

\* A near miss reported with a 404 did miss: MatchBreakdown, which goes through the fields
\* on its own, never finds that all of them matched where the matcher said no.
HdMissesMiss == \A m \in hdMisses : ~MatchBreakdown(m.matcher, hdReq).all

=============================================================================
