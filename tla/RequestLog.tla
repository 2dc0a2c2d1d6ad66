------------------------------ MODULE RequestLog ------------------------------
(***************************************************************************)
(* The request log of an engine (pkg/engine/logger.go) and everyone who    *)
(* reads it: the engine's control API, the admin's request, verification   *)
(* and streaming endpoints, and the CLI's logs and verify commands.  Every *)
(* method of the logger is one critical section of l.mu; announcing a new  *)
(* entry to the subscribers is a second one, of l.subMu.                   *)
(*                                                                         *)
(* An entry is its number and the mock it matched ("" for none), which     *)
(* stands for every attribute a filter can ask for.                        *)
(*                                                                         *)
(* A second machine, Lf, is `mockd logs --daemon --follow`: it polls a     *)
(* file that the server appends to and that logrotate may truncate.        *)
(***************************************************************************)
EXTENDS Integers, Sequences, FiniteSets

CONSTANTS
  LgMocks,      \* IDs of mocks in the admin's store
  LgMax,        \* maxEntries
  LgDefault,    \* the control API's limit for a query that names none
  LgPage,       \* the limit the streaming endpoint asks for
  LgClients,    \* clients that clear the log
  LgSubs,       \* subscribers' channels
  LgBuffer,     \* capacity of a subscriber's channel
  LgRequests,   \* bound: requests logged
  LgInFlight    \* bound: requests stored but not announced yet

VARIABLES
  lgReader,     \* who watches: subscribers or a streaming client, which do not affect
                \* the log or each other, so one kind at a time is enough
  lgEntries,    \* l.entries, oldest first
  lgNext,       \* l.nextID
  lgFresh,      \* entries stored but not announced yet
  lgSubs,       \* l.subscribers
  lgChan,       \* channel -> "new", "open", "leaving" or "closed"
  lgBuf,        \* channel -> what waits in it
  lgClear,      \* client -> the count it read before clearing, or LgIdle
  lgStream,     \* the streaming endpoint: lastID and the entries it sent
  lgAnswer,     \* aux: the verification just answered
  lgCalls,      \* aux: mock -> its calls since its data was last reset
  lgPanic       \* aux: something was sent on a closed channel

lgVars == <<lgReader, lgEntries, lgNext, lgFresh, lgSubs, lgChan, lgBuf, lgClear, lgStream,
            lgAnswer, lgCalls, lgPanic>>

LgIdle == -1
LgNoAnswer == [mock |-> "", count |-> 0, passed |-> TRUE]
lgRest == <<lgReader, lgFresh, lgSubs, lgChan, lgBuf, lgPanic>>

LgInit ==
  /\ lgReader \in {"subscribers", "stream"}
  /\ lgEntries = <<>> /\ lgNext = 0 /\ lgFresh = {}
  /\ lgSubs = {} /\ lgChan = [s \in LgSubs |-> "new"] /\ lgBuf = [s \in LgSubs |-> <<>>]
  /\ lgClear = [c \in LgClients |-> LgIdle]
  /\ lgStream = [on |-> FALSE, last |-> 0, sent |-> {}]
  /\ lgAnswer = LgNoAnswer /\ lgCalls = [m \in LgMocks |-> 0] /\ lgPanic = FALSE

-----------------------------------------------------------------------------
(* The logger *)

\* Mutant: the oldest entry goes one entry too early
LogEarly(s, e) == Append(IF Len(s) >= LgMax - 1 THEN Tail(s) ELSE s, e)

\* Eviction of the oldest entry at capacity, and the append
LogEntry(s, e) == Append(IF Len(s) >= LgMax THEN Tail(s) ELSE s, e)

LgLog(m) ==
  LET e == [id |-> lgNext + 1, mock |-> m] IN
  /\ lgNext < LgRequests /\ Cardinality(lgFresh) < LgInFlight
  /\ lgNext' = lgNext + 1
  /\ lgEntries' = LogEntry(lgEntries, e)
  /\ lgFresh' = IF lgReader = "stream" THEN {} ELSE lgFresh \cup {e.id}
  /\ lgCalls' = [n \in LgMocks |-> lgCalls[n] + IF n = m THEN 1 ELSE 0]
  /\ lgAnswer' = LgNoAnswer
  /\ UNCHANGED <<lgReader, lgSubs, lgChan, lgBuf, lgClear, lgStream, lgPanic>>

\* The loop over the subscribers after the unlock: a full channel is skipped
LgAnnounce(id) ==
  /\ id \in lgFresh
  /\ lgFresh' = lgFresh \ {id}
  /\ lgBuf' = [s \in LgSubs |-> IF s \in lgSubs /\ Len(lgBuf[s]) < LgBuffer
                                  THEN Append(lgBuf[s], id) ELSE lgBuf[s]]
  /\ lgPanic' = (lgPanic \/ \E s \in lgSubs : lgChan[s] = "closed")
  /\ lgAnswer' = LgNoAnswer
  /\ UNCHANGED <<lgReader, lgEntries, lgNext, lgSubs, lgChan, lgClear, lgStream, lgCalls>>

Subscribe(s) ==
  /\ lgReader = "subscribers" /\ lgChan[s] = "new"
  /\ lgSubs' = lgSubs \cup {s} /\ lgChan' = [lgChan EXCEPT ![s] = "open"]
  /\ lgAnswer' = LgNoAnswer
  /\ UNCHANGED <<lgReader, lgEntries, lgNext, lgFresh, lgBuf, lgClear, lgStream, lgCalls, lgPanic>>

LgReceive(s) ==
  /\ lgBuf[s] # <<>>
  /\ lgBuf' = [lgBuf EXCEPT ![s] = Tail(@)]
  /\ lgAnswer' = LgNoAnswer
  /\ UNCHANGED <<lgReader, lgEntries, lgNext, lgFresh, lgSubs, lgChan, lgClear, lgStream,
                 lgCalls, lgPanic>>

\* Mutant: the channel is closed first
UnsubscribeClosing(s) ==
  /\ \/ lgChan[s] = "open" /\ lgChan' = [lgChan EXCEPT ![s] = "closed"] /\ UNCHANGED lgSubs
     \/ lgChan[s] = "closed" /\ s \in lgSubs /\ lgSubs' = lgSubs \ {s} /\ UNCHANGED lgChan
  /\ lgAnswer' = LgNoAnswer
  /\ UNCHANGED <<lgReader, lgEntries, lgNext, lgFresh, lgBuf, lgClear, lgStream, lgCalls, lgPanic>>

\* unsubscribe: leave the table under the lock, then close the channel
Unsubscribe(s) ==
  /\ \/ lgChan[s] = "open" /\ lgChan' = [lgChan EXCEPT ![s] = "leaving"]
        /\ lgSubs' = lgSubs \ {s}
     \/ lgChan[s] = "leaving" /\ lgChan' = [lgChan EXCEPT ![s] = "closed"]
        /\ UNCHANGED lgSubs
  /\ lgAnswer' = LgNoAnswer
  /\ UNCHANGED <<lgReader, lgEntries, lgNext, lgFresh, lgBuf, lgClear, lgStream, lgCalls, lgPanic>>

\* matchesFilter: an entry has all the filter asks for
matchesFilter(e, f) == f.matched \in {"", e.mock}

LgReversed(s) == [i \in DOMAIN s |-> s[Len(s) + 1 - i]]

\* List: the newest f.limit entries that match, newest first; limit 0 is none
LgList(f) ==
  LET hits == LgReversed(SelectSeq(lgEntries, LAMBDA e : matchesFilter(e, f)))
  IN  IF f.limit > 0 /\ f.limit < Len(hits) THEN SubSeq(hits, 1, f.limit) ELSE hits

\* Mutant: the entries of the mock are the ones kept
clearOthers(s, m) == SelectSeq(s, LAMBDA e : e.mock = m)

ClearByMockID(s, m) == SelectSeq(s, LAMBDA e : e.mock # m)

-----------------------------------------------------------------------------
(* The control API and the clients of it *)

\* handleListRequests: a query without a limit gets the default one
LgApiList(f) == LgList([f EXCEPT !.limit = IF @ > 0 THEN @ ELSE LgDefault])

LgNoFilter == [limit |-> 0, matched |-> ""]

\* engineclient.ListRequests: no filter at all sends no query
LgEngineList(f) == LgApiList(f)

\* handleClearRequests reads the count, then clears
LgClearCount(c) ==
  /\ lgClear[c] = LgIdle
  /\ lgClear' = [lgClear EXCEPT ![c] = Len(lgEntries)]
  /\ lgAnswer' = LgNoAnswer
  /\ UNCHANGED <<lgEntries, lgNext, lgStream, lgCalls>> /\ UNCHANGED lgRest

\* DELETE /requests, DELETE /verify, `logs --clear` and `verify reset --all`
LgClearAll(c) ==
  /\ lgClear[c] # LgIdle
  /\ lgEntries' = <<>> /\ lgClear' = [lgClear EXCEPT ![c] = LgIdle]
  /\ lgCalls' = [m \in LgMocks |-> 0]
  /\ lgAnswer' = LgNoAnswer
  /\ UNCHANGED <<lgNext, lgStream>> /\ UNCHANGED lgRest

\* DELETE /mocks/{id}/invocations: ClearRequestLogsByMockID
handleResetMockVerification(m) ==
  /\ lgEntries' = ClearByMockID(lgEntries, m)
  /\ lgCalls' = [lgCalls EXCEPT ![m] = 0]
  /\ lgAnswer' = LgNoAnswer
  /\ UNCHANGED <<lgNext, lgClear, lgStream>> /\ UNCHANGED lgRest

-----------------------------------------------------------------------------
(* Verification *)

LgAnswer(m, n, ok) ==
  /\ lgAnswer' = [mock |-> m, count |-> n, passed |-> ok]
  /\ UNCHANGED <<lgEntries, lgNext, lgClear, lgStream, lgCalls>> /\ UNCHANGED lgRest

\* Requests of the listing that matched the mock
LgCount(m) == Len(SelectSeq(LgEngineList(LgNoFilter), LAMBDA e : e.mock = m))

\* never wins over exactly, which wins over the bounds; LgIdle is an absent criterion
evaluateVerification(req, n) ==
  IF req.never THEN n = 0
  ELSE IF req.exactly # LgIdle THEN n = req.exactly
  ELSE (req.atLeast # LgIdle => n >= req.atLeast) /\ (req.atMost # LgIdle => n <= req.atMost)

\* GET /mocks/{id}/verify and GET /mocks/{id}/invocations of a stored mock
handleGetMockVerification(m) == LgAnswer(m, LgCount(m), TRUE)

handleListMockInvocations(m) == LgAnswer(m, LgCount(m), TRUE)

\* POST /mocks/{id}/verify
handleVerifyMock(m, req) ==
  /\ req.never \/ \E k \in {"exactly", "atLeast", "atMost"} : req[k] # LgIdle
  /\ LgAnswer(m, LgCount(m), evaluateVerification(req, LgCount(m)))

\* `mockd verify status`, `invocations` and `check`: at least one flag is required
verifyStatusCmd(m) == handleGetMockVerification(m)

verifyInvocationsCmd(m) == handleListMockInvocations(m)

LgCriteria == [never |-> FALSE, exactly |-> LgIdle, atLeast |-> LgIdle, atMost |-> LgIdle]

\* The criteria checked are ones the mock's calls meet
verifyCheckCmd(m) ==
  LET n == lgCalls[m] IN
  \E req \in {[LgCriteria EXCEPT !.exactly = n], [LgCriteria EXCEPT !.atLeast = n, !.atMost = n],
              [LgCriteria EXCEPT !.never = (n = 0), !.atLeast = n]} : handleVerifyMock(m, req)

\* `mockd verify reset`, for one mock or for all
verifyResetCmd(m) == handleResetMockVerification(m)

-----------------------------------------------------------------------------
(* `mockd logs` *)

\* GET /requests passes the query on
LgAdminList(f) == LgEngineList(f)

\* --matched and --unmatched choose among the entries that came back
runRequestLogs(limit, only) ==
  LET came == LgAdminList([LgNoFilter EXCEPT !.limit = limit]) IN
  LgAnswer("", Len(SelectSeq(came, LAMBDA e : (e.mock = "") = (only = "unmatched"))), TRUE)

-----------------------------------------------------------------------------
(* GET /requests/stream *)

LgConnect ==
  /\ lgReader = "stream" /\ ~lgStream.on
  /\ lgStream' = [on |-> TRUE, last |-> 0, sent |-> {}]
  /\ lgAnswer' = LgNoAnswer
  /\ UNCHANGED <<lgEntries, lgNext, lgClear, lgCalls>> /\ UNCHANGED lgRest

\* A tick.  The page, newest first, is walked from its end until lastID; before
\* lastID is known only the entry the walk starts at is sent.  lastID moves when the
\* walk reaches the newest entry, and is set to it if it was unknown.
LgPoll ==
  LET page == LgEngineList([LgNoFilter EXCEPT !.limit = LgPage])
      n    == Len(page)
      stop == {i \in 1 .. n : page[i].id = lgStream.last}
      sent == {i \in 1 .. n : (\A k \in stop : i > k) /\ (lgStream.last = 0 => i = n)}
  IN
  /\ lgStream.on /\ n > 0
  /\ lgStream' = [lgStream EXCEPT !.sent = @ \cup {page[i].id : i \in sent},
                                  !.last = IF 1 \in sent \/ @ = 0 THEN page[1].id ELSE @]
  /\ lgAnswer' = LgNoAnswer
  /\ UNCHANGED <<lgEntries, lgNext, lgClear, lgCalls>> /\ UNCHANGED lgRest

LgDisconnect ==
  /\ lgStream.on
  /\ lgStream' = [on |-> FALSE, last |-> 0, sent |-> {}]
  /\ lgAnswer' = LgNoAnswer
  /\ UNCHANGED <<lgEntries, lgNext, lgClear, lgCalls>> /\ UNCHANGED lgRest

LgNext ==
  \/ \E m \in LgMocks \cup {""} : LgLog(m)
  \/ \E id \in lgFresh : LgAnnounce(id)
  \/ \E s \in LgSubs : Subscribe(s) \/ LgReceive(s) \/ Unsubscribe(s)
  \/ \E c \in LgClients : LgClearCount(c) \/ LgClearAll(c)
  \/ \E m \in LgMocks : verifyResetCmd(m) \/ verifyStatusCmd(m)
                        \/ verifyInvocationsCmd(m) \/ verifyCheckCmd(m)
  \/ \E only \in {"matched", "unmatched"} : runRequestLogs(LgPage, only)
  \/ LgConnect \/ LgPoll \/ LgDisconnect

LgSpec == LgInit /\ [][LgNext]_lgVars

-----------------------------------------------------------------------------
(* `mockd logs --daemon --follow` *)

CONSTANTS
  LfLines,      \* bound: lines the server writes
  LfTruncates   \* bound: truncations of the file

VARIABLES
  lfSize,       \* length of the file, in lines
  lfOffset,     \* tracker.offset
  lfSeen,       \* the size readNewLines read, or LgIdle between two polls
  lfShown,      \* aux: lines of the present file that were printed
  lfStart,      \* aux: where following the present file began
  lfCut,        \* aux: truncations so far; whether one is unnoticed; whether one was missed
  lfWritten     \* aux: lines written

lfVars == <<lfSize, lfOffset, lfSeen, lfShown, lfStart, lfCut, lfWritten>>

LfInit ==
  /\ lfSize = 1 /\ lfOffset = 1 /\ lfSeen = LgIdle /\ lfShown = {} /\ lfStart = 1
  /\ lfCut = [times |-> 0, unnoticed |-> FALSE, missed |-> FALSE] /\ lfWritten = 1

LfWrite ==
  /\ lfWritten < LfLines
  /\ lfSize' = lfSize + 1 /\ lfWritten' = lfWritten + 1
  /\ UNCHANGED <<lfOffset, lfSeen, lfShown, lfStart, lfCut>>

\* Between two polls: a file cut while it is read is left out
LfTruncate ==
  /\ lfSeen = LgIdle /\ lfCut.times < LfTruncates
  /\ lfSize' = 0 /\ lfShown' = {} /\ lfStart' = 0
  /\ lfCut' = [lfCut EXCEPT !.times = @ + 1, !.unnoticed = TRUE]
  /\ UNCHANGED <<lfOffset, lfSeen, lfWritten>>

\* readNewLines up to the seek: a file shorter than the offset was truncated
LfStat ==
  LET from == IF lfSize < lfOffset THEN 0 ELSE lfOffset IN
  /\ lfSeen = LgIdle /\ lfSize # from
  /\ lfOffset' = from /\ lfSeen' = lfSize
  /\ lfCut' = [lfCut EXCEPT !.unnoticed = FALSE,
                            !.missed = @ \/ (lfCut.unnoticed /\ lfSize >= lfOffset)]
  /\ UNCHANGED <<lfSize, lfShown, lfStart, lfWritten>>

\* Mutant: the size is read again when the lines have been read
LfScanLate ==
  /\ lfSeen # LgIdle
  /\ lfShown' = lfShown \cup ((lfOffset + 1) .. lfSeen)
  /\ lfOffset' = lfSize /\ lfSeen' = LgIdle
  /\ UNCHANGED <<lfSize, lfStart, lfCut, lfWritten>>

\* The scanner reads to the end of the file as it now is; the offset becomes the size
\* read before
LfScan ==
  /\ lfSeen # LgIdle
  /\ lfShown' = lfShown \cup ((lfOffset + 1) .. lfSize)
  /\ lfOffset' = lfSeen /\ lfSeen' = LgIdle
  /\ UNCHANGED <<lfSize, lfStart, lfCut, lfWritten>>

LfNext == LfWrite \/ LfTruncate \/ LfStat \/ LfScan

-----------------------------------------------------------------------------
(* Properties *)

\* The log never exceeds its capacity, and the IDs in it increase.
LgTypeOK ==
  /\ Len(lgEntries) <= LgMax
  /\ \A i, j \in DOMAIN lgEntries : i < j => lgEntries[i].id < lgEntries[j].id
  /\ lgNext \in 0 .. LgRequests /\ lgFresh \subseteq 1 .. lgNext
  /\ lgSubs \subseteq LgSubs /\ lgChan \in [LgSubs -> {"new", "open", "leaving", "closed"}]
  /\ \A s \in LgSubs : Len(lgBuf[s]) <= LgBuffer
  /\ lgClear \in [LgClients -> {LgIdle} \cup 0 .. LgMax]
  /\ lgStream.last \in 0 .. lgNext /\ lgStream.sent \subseteq 1 .. lgNext
  /\ lgAnswer.mock \in LgMocks \cup {""} /\ lgPanic \in BOOLEAN

\* Until the log has been full, and as long as it holds no more entries than a query
\* returns by default, a verification counts the calls of its mock since they were
\* last reset, no more and no less, whatever was logged, cleared and reset meanwhile,
\* and passes a check they meet.
LgCountsRecent ==
  lgAnswer'.mock # "" /\ lgNext <= LgMax /\ Len(lgEntries) <= LgDefault =>
    lgAnswer'.count = lgCalls[lgAnswer'.mock] /\ lgAnswer'.passed

\* Announcing a new entry never sends on the channel of a subscriber that left, however
\* unsubscribing interleaves with logging: the send would panic.
LgNoSendOnClosed == ~lgPanic

\* Following a log file prints every line before the offset it goes on from, also those
\* written between the stat and the scan and those after a truncation it noticed.
LfNothingSkipped ==
  ~lfCut.unnoticed /\ ~lfCut.missed /\ lfSeen = LgIdle =>
     \A p \in lfStart + 1 .. lfOffset : p \in lfShown

=============================================================================
