----------------------------- MODULE SseStreams -----------------------------
(***************************************************************************)
(* Server-sent events of one mock (pkg/sse): the streams of its clients,   *)
(* the connection manager that limits and closes them, the rate limiter,   *)
(* the end of a stream, and resumption by Last-Event-ID.                   *)
(*                                                                         *)
(* The mock's events are numbered.  An event has its number for ID, or no  *)
(* ID, and then gets one from the count of its stream.  Whether the rate   *)
(* limiter has a token, and when timers fire, is left open.  The event     *)
(* buffer decides nothing (see findResumePosition) and is left out.        *)
(***************************************************************************)
EXTENDS Naturals, Sequences, FiniteSets

CONSTANTS
  SseClients,   \* clients, each with one stream at a time
  SseConfigs,   \* configurations of the mock; a generator's have maxEvents
  SseMax,       \* maxConnections, 0 = unlimited
  SseRounds     \* bound: connections of one client

VARIABLES
  sseCfg,       \* the configuration
  sseConns,     \* m.connections
  sseStream,    \* client -> its stream
  sseLastID,    \* client -> the last ID it received, 0 = none
  sseGot        \* auxiliary: client -> numbers of the events it received

sseVars == <<sseCfg, sseConns, sseStream, sseLastID, sseGot>>

SseNoStream == [pc |-> "idle", idx |-> 0, count |-> 0, from |-> 0,
                cancelled |-> FALSE, status |-> "none"]

SseInit ==
  /\ sseCfg \in SseConfigs /\ sseConns = {}
  /\ sseStream = [c \in SseClients |-> [s |-> SseNoStream, round |-> 0]]
  /\ sseLastID = [c \in SseClients |-> 0]
  /\ sseGot = [c \in SseClients |-> <<>>]

SseAt(c, pc) == sseStream[c].s.pc = pc
SseSet(c, s) == sseStream' = [sseStream EXCEPT ![c].s = s]
SseOf(c) == sseStream[c].s
SseRest == UNCHANGED <<sseCfg, sseConns, sseLastID, sseGot>>

-----------------------------------------------------------------------------
(* The events of a stream *)

\* generateSequenceEvents, generateRandomEvents and generateTemplateEvents number
\* their events; configured events may have no ID.  What getEventsForStream
\* yields, as IDs
generateEvents == [i \in 1 .. sseCfg.events |-> i]

getEventsForStream ==
  IF sseCfg.generator THEN generateEvents
  ELSE [i \in 1 .. sseCfg.events |-> IF sseCfg.ids THEN i ELSE 0]

\* Mutant: the event that the client has is sent again
resumeAtLast(last) ==
  IF \E i \in DOMAIN getEventsForStream : getEventsForStream[i] = last
    THEN (CHOOSE i \in DOMAIN getEventsForStream : getEventsForStream[i] = last) - 1 ELSE 0

\* findResumePosition: how many events to skip.  Whatever the buffer holds, the
\* position is the one of the ID in the list, or the beginning.
findResumePosition(last) ==
  IF \E i \in DOMAIN getEventsForStream : getEventsForStream[i] = last
    THEN CHOOSE i \in DOMAIN getEventsForStream : getEventsForStream[i] = last ELSE 0

-----------------------------------------------------------------------------
(* Connection manager *)

\* ServeHTTP up to Register, which refuses a stream beyond the limit
SseRegister(c) ==
  /\ SseAt(c, "idle") /\ sseStream[c].round < SseRounds
  /\ SseMax = 0 \/ Cardinality(sseConns) < SseMax
  /\ sseConns' = sseConns \cup {c}
  /\ sseStream' = [sseStream EXCEPT ![c] =
       [s |-> [SseNoStream EXCEPT !.pc = "retry", !.from = sseLastID[c], !.status = "active"],
        round |-> @.round + 1]]
  /\ UNCHANGED <<sseCfg, sseLastID, sseGot>>

\* Mutant: Deregister is not deferred, and skipped when the stream is cut short
SseDeregisterEnded(c) ==
  /\ SseAt(c, "done")
  /\ sseConns' = IF SseOf(c).count = 0 THEN sseConns ELSE sseConns \ {c}
  /\ SseSet(c, SseNoStream)
  /\ UNCHANGED <<sseCfg, sseLastID, sseGot>>

\* ServeHTTP after runStream: the deferred Deregister, then the recording is completed
SseDeregister(c) ==
  /\ SseAt(c, "done")
  /\ sseConns' = sseConns \ {c}
  /\ SseSet(c, SseNoStream)
  /\ UNCHANGED <<sseCfg, sseLastID, sseGot>>

\* Close of the manager: the stream notices at its next select
SseClose(c) ==
  /\ c \in sseConns /\ ~SseOf(c).cancelled
  /\ SseSet(c, [SseOf(c) EXCEPT !.cancelled = TRUE])
  /\ SseRest

\* CloseByMock, CloseAll: the table is emptied at once, the streams run on
SseCloseByMock ==
  /\ sseConns # {} /\ sseConns' = {}
  /\ sseStream' = [c \in SseClients |->
       IF c \in sseConns THEN [sseStream[c] EXCEPT !.s.cancelled = TRUE] ELSE sseStream[c]]
  /\ UNCHANGED <<sseCfg, sseLastID, sseGot>>

\* The client goes away, which cancels the request's context
SseClientGone(c) ==
  /\ ~SseAt(c, "idle") /\ ~SseOf(c).cancelled
  /\ SseSet(c, [SseOf(c) EXCEPT !.cancelled = TRUE])
  /\ SseRest

-----------------------------------------------------------------------------
(* runStream *)

SseEnd(c, status) == SseSet(c, [SseOf(c) EXCEPT !.pc = "done", !.status = status])

\* The retry directive, the initial delay, and where to start
SseBegin(c) ==
  /\ SseAt(c, "retry")
  /\ \/ SseEnd(c, "closed")
     \/ SseSet(c, [SseOf(c) EXCEPT !.pc = "loop",
          !.idx = IF SseOf(c).from # 0 /\ sseCfg.resume THEN findResumePosition(SseOf(c).from) ELSE 0])
  /\ SseRest

\* The loop's head: maxEvents, the simulated disconnect, the end of the list
SseLoop(c) ==
  LET s == SseOf(c) IN
  /\ SseAt(c, "loop")
  /\ IF sseCfg.maxEvents > 0 /\ s.count >= sseCfg.maxEvents
       THEN SseSet(c, [s EXCEPT !.pc = "final", !.status = "closing"])
     ELSE IF sseCfg.disconnect /\ s.count >= sseCfg.disconnectAfter THEN SseEnd(c, "closed")
     ELSE IF s.idx < sseCfg.events THEN SseSet(c, [s EXCEPT !.pc = "select"])
     ELSE IF sseCfg.generator /\ sseCfg.events > 0
       THEN SseSet(c, [s EXCEPT !.pc = "select", !.idx = 0])
     ELSE SseSet(c, [s EXCEPT !.pc = "final", !.status = "closing"])
  /\ SseRest

\* The select: context, connection timeout, keepalive (which may fail), or the event
\* is due and the rate limiter asked; a limiter that drops skips the event
SseSelect(c) ==
  LET s == SseOf(c) IN
  /\ SseAt(c, "select")
  /\ \/ s.cancelled /\ SseEnd(c, "closed")
     \/ sseCfg.timeout /\ SseSet(c, [s EXCEPT !.pc = "final", !.status = "closing"])
     \/ sseCfg.keepalive /\ (SseEnd(c, "closed") \/ SseSet(c, [s EXCEPT !.pc = "loop"]))
     \/ SseSet(c, [s EXCEPT !.pc = "send"])
     \/ sseCfg.limit = "drop" /\ SseSet(c, [s EXCEPT !.pc = "loop", !.idx = @ + 1])
  /\ SseRest

\* The ID an event goes out with: its own, or the count of its stream
SseID(own, count) == IF own = 0 /\ sseCfg.resume THEN count + 1 ELSE own

\* What a client that is still there sees
SseDeliver(c, id, number) ==
  /\ IF SseOf(c).cancelled THEN UNCHANGED <<sseLastID, sseGot>>
     ELSE /\ sseLastID' = [sseLastID EXCEPT ![c] = IF id = 0 THEN @ ELSE id]
          /\ sseGot' = [sseGot EXCEPT ![c] = Append(@, number)]
  /\ UNCHANGED <<sseCfg, sseConns>>

\* sendEvent
SseSend(c) ==
  LET s == SseOf(c) IN
  /\ SseAt(c, "send")
  /\ \/ SseEnd(c, "closed") /\ SseRest
     \/ /\ SseSet(c, [s EXCEPT !.pc = "loop", !.idx = @ + 1, !.count = @ + 1])
        /\ SseDeliver(c, SseID(getEventsForStream[s.idx + 1], s.count), s.idx + 1)

\* handleTermination, graceful: a final event if there is one, numbered like any other
SseFinal(c) ==
  /\ SseAt(c, "final")
  /\ SseEnd(c, "closed")
  /\ IF sseCfg.final THEN SseDeliver(c, SseID(0, SseOf(c).count), 0) ELSE SseRest

SseNext ==
  \/ \E c \in SseClients :
       \/ SseRegister(c) \/ SseDeregister(c) \/ SseClose(c) \/ SseClientGone(c)
       \/ SseBegin(c) \/ SseLoop(c) \/ SseSelect(c) \/ SseSend(c) \/ SseFinal(c)
  \/ SseCloseByMock

SseSpec == SseInit /\ [][SseNext]_sseVars

-----------------------------------------------------------------------------
(* Properties *)

\* Streams and tables have their types.
SseTypeOK ==
  /\ sseCfg \in SseConfigs /\ sseConns \subseteq SseClients
  /\ \A c \in SseClients :
       /\ SseOf(c).pc \in {"idle", "retry", "loop", "select", "send", "final", "done"}
       /\ SseOf(c).idx \in 0 .. sseCfg.events /\ SseOf(c).cancelled \in BOOLEAN

\* A slot of the connection limit belongs to a stream that runs: whichever way a
\* stream ends, and whoever closes it, the manager's table forgets it.
SseSlotsReleased == \A c \in sseConns : ~SseAt(c, "idle")

\* "support Last-Event-ID": events that have IDs reach a client that reconnects
\* with the last of them in their order, none twice and none left out, however
\* often the stream was cut.
SseResumesExactly ==
  sseCfg.resume /\ sseCfg.ids /\ ~sseCfg.generator /\ ~sseCfg.final /\ sseCfg.limit # "drop" =>
    \A c \in SseClients : \A i \in DOMAIN sseGot[c] : sseGot[c][i] = i

=============================================================================
