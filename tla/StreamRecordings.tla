--------------------------- MODULE StreamRecordings ---------------------------
(***************************************************************************)
(* Recordings of WebSocket and SSE streams: the recording FileStore         *)
(* (pkg/recording/file_store.go, stream_recording.go), the hooks through    *)
(* which connections feed it (hooks.go, websocket/recording.go), the admin  *)
(* handlers (admin/stream_recording_handlers.go) and the CLI commands, which *)
(* open the same directory from another process (cli/stream_recordings.go). *)
(*                                                                          *)
(* Locks: StreamRecordingManager.mu is held by a handler from start to end, *)
(* shared or not; FileStore.mu is held over more than one step only as a    *)
(* reader; each session has a lock of its own.  A recording is the sequence *)
(* of its frames' sequence numbers.  Names, tags, sizes and the storage     *)
(* limit, which only refuses new recordings, are left out.                  *)
(***************************************************************************)
EXTENDS Naturals, Sequences, FiniteSets, TLC

CONSTANTS
  RsHandlers,   \* admin requests in progress
  RsConns,      \* connections to recorded endpoints
  RsProtos,     \* the protocol of each connection
  RsIDs,        \* recordings that may be started
  RsMaxFrames,  \* bound: frames a connection sends
  RsRequests    \* bound: admin requests

VARIABLES
  rsSess,       \* sessions map: what is being recorded
  rsHeld,       \* sessions whose lock is held
  rsReaders,    \* threads that hold FileStore.mu as readers
  rsFiles,      \* the directory
  rsCache,      \* summaryCache
  rsT,          \* the threads
  rsAccepted,   \* auxiliary: frames whose OnFrame succeeded
  rsTouched,    \* auxiliary: recordings another process deleted
  rsLeft        \* admin requests that may still come

rsVars == <<rsSess, rsHeld, rsReaders, rsFiles, rsCache, rsT, rsAccepted, rsTouched, rsLeft>>

RsNoThread == [pc |-> "idle", id |-> "", todo |-> {}, n |-> 0]

RsInit ==
  /\ rsSess = << >> /\ rsHeld = {} /\ rsReaders = {} /\ rsFiles = << >> /\ rsCache = << >>
  /\ rsT = [t \in RsHandlers \cup RsConns |-> RsNoThread]
  /\ rsAccepted = [id \in RsIDs |-> << >>] /\ rsTouched = {} /\ rsLeft = RsRequests

RsGo(t, th) == rsT' = [rsT EXCEPT ![t] = th]
RsAt(t, pc) == rsT[t].pc = pc
RsEnd(t) == RsGo(t, RsNoThread)
RsWithout(f, ids) == [x \in DOMAIN f \ ids |-> f[x]]

\* FileStore.mu taken for writing, within one step
RsStoreFree == rsReaders = {}
RsSessionFree(id) == id \notin rsHeld

\* The handlers that take the manager's lock for writing hold it to the end
RsExclusive == {"found", "saving", "saved", "closed", "written"}
RsMayWrite == \A t \in RsHandlers : RsAt(t, "idle")
RsMayRead == \A t \in RsHandlers : rsT[t].pc \notin RsExclusive
RsRequest(t) == RsAt(t, "idle") /\ t \in RsHandlers /\ rsLeft > 0 /\ rsLeft' = rsLeft - 1

-----------------------------------------------------------------------------
(* Recording *)

StartRecording ==
  /\ RsStoreFree
  /\ \E id \in RsIDs, p \in {RsProtos[c] : c \in RsConns} :
       /\ id \notin DOMAIN rsSess \cup DOMAIN rsFiles /\ rsAccepted[id] = << >>
       /\ rsSess' = id :> [proto |-> p, frames |-> << >>, closed |-> FALSE, seq |-> 0] @@ rsSess
  /\ rsCache' = << >>
  /\ UNCHANGED <<rsHeld, rsReaders, rsFiles, rsT, rsAccepted, rsTouched>>

handleStartRecording(t) == RsRequest(t) /\ RsMayWrite /\ StartRecording

\* CreateHook: GetActiveSessionForPath holds the store's lock while it takes the
\* lock of one session after the other
CreateHook(c) ==
  /\ c \in RsConns /\ RsAt(c, "idle") /\ rsT[c].n = 0
  /\ rsReaders' = rsReaders \cup {c}
  /\ RsGo(c, [rsT[c] EXCEPT !.pc = "scan", !.todo = DOMAIN rsSess])
  /\ UNCHANGED <<rsSess, rsHeld, rsFiles, rsCache, rsAccepted, rsTouched, rsLeft>>

GetActiveSessionForPath(c) ==
  /\ RsAt(c, "scan") /\ c \in RsConns
  /\ \/ /\ rsT[c].todo = {}
        /\ RsGo(c, [rsT[c] EXCEPT !.pc = "open"])
        /\ rsReaders' = rsReaders \ {c}
     \/ \E id \in rsT[c].todo :
          /\ RsSessionFree(id)
          /\ IF rsSess[id].proto = RsProtos[c] /\ ~rsSess[id].closed
               THEN /\ RsGo(c, [rsT[c] EXCEPT !.pc = "open", !.id = id, !.todo = {}])
                    /\ rsReaders' = rsReaders \ {c}
               ELSE RsGo(c, [rsT[c] EXCEPT !.todo = @ \ {id}]) /\ UNCHANGED rsReaders
  /\ UNCHANGED <<rsSess, rsHeld, rsFiles, rsCache, rsAccepted, rsTouched, rsLeft>>

RsAppend(id, n) ==
  /\ rsSess' = [rsSess EXCEPT ![id].frames = Append(@, n)]
  /\ rsAccepted' = [rsAccepted EXCEPT ![id] = Append(@, n)]

\* Mutant: the frame is taken whatever became of the session
RsFrameClosed(c) ==
  LET th == rsT[c] IN
  /\ RsAt(c, "open") /\ th.n < RsMaxFrames
  /\ RsGo(c, [th EXCEPT !.n = @ + 1])
  /\ IF th.id \in DOMAIN rsSess
       THEN RsSessionFree(th.id) /\ RsAppend(th.id, th.n + 1)
       ELSE UNCHANGED <<rsSess, rsAccepted>>
  /\ UNCHANGED <<rsHeld, rsReaders, rsFiles, rsCache, rsTouched, rsLeft>>

\* sessionAppendHook.OnFrame: numbered by the connection
RsFrame(c) ==
  LET th == rsT[c] IN
  /\ RsAt(c, "open") /\ th.n < RsMaxFrames
  /\ RsGo(c, [th EXCEPT !.n = @ + 1])
  /\ IF th.id \in DOMAIN rsSess
       THEN /\ RsSessionFree(th.id)
            /\ IF rsSess[th.id].closed THEN UNCHANGED <<rsSess, rsAccepted>>
               ELSE RsAppend(th.id, th.n + 1)
       ELSE UNCHANGED <<rsSess, rsAccepted>>
  /\ UNCHANGED <<rsHeld, rsReaders, rsFiles, rsCache, rsTouched, rsLeft>>

\* OnClose, AppendWebSocketCloseFrame: the close frame is numbered by the session
AppendWebSocketCloseFrame(c) ==
  LET id == rsT[c].id IN
  /\ RsAt(c, "open")
  /\ RsGo(c, [RsNoThread EXCEPT !.n = RsMaxFrames])
  /\ IF id \in DOMAIN rsSess /\ RsProtos[c] = "websocket"
       THEN /\ RsSessionFree(id)
            /\ IF rsSess[id].closed THEN UNCHANGED <<rsSess, rsAccepted>>
               ELSE LET n == rsSess[id].seq + 1 IN
                    /\ rsSess' = [rsSess EXCEPT ![id].seq = n, ![id].frames = Append(@, n)]
                    /\ rsAccepted' = [rsAccepted EXCEPT ![id] = Append(@, n)]
       ELSE UNCHANGED <<rsSess, rsAccepted>>
  /\ UNCHANGED <<rsHeld, rsReaders, rsFiles, rsCache, rsTouched, rsLeft>>

-----------------------------------------------------------------------------
(* handleStopRecording, CompleteRecording *)

handleStopRecording(t) ==
  /\ RsRequest(t) /\ RsMayWrite /\ RsStoreFree
  /\ \E id \in DOMAIN rsSess : RsGo(t, [RsNoThread EXCEPT !.pc = "found", !.id = id])
  /\ UNCHANGED <<rsSess, rsHeld, rsReaders, rsFiles, rsCache, rsAccepted, rsTouched>>

\* The session's lock is taken and the recording completed
CompleteRecording(t) ==
  LET id == rsT[t].id IN
  /\ RsAt(t, "found") /\ RsSessionFree(id)
  /\ IF rsSess[id].closed THEN RsEnd(t) /\ UNCHANGED rsHeld
     ELSE RsGo(t, [rsT[t] EXCEPT !.pc = "saving"]) /\ rsHeld' = rsHeld \cup {id}
  /\ UNCHANGED <<rsSess, rsReaders, rsFiles, rsCache, rsAccepted, rsTouched, rsLeft>>

RsFile(id) == [status |-> "complete", frames |-> rsSess[id].frames, deleted |-> FALSE]

\* saveRecording writes the file; when that fails the recording goes on
saveRecording(t) ==
  LET id == rsT[t].id IN
  /\ RsAt(t, "saving")
  /\ \/ /\ rsFiles' = id :> RsFile(id) @@ rsFiles
        /\ RsGo(t, [rsT[t] EXCEPT !.pc = "saved"]) /\ UNCHANGED rsHeld
     \/ RsEnd(t) /\ rsHeld' = rsHeld \ {id} /\ UNCHANGED rsFiles
  /\ UNCHANGED <<rsSess, rsReaders, rsCache, rsAccepted, rsTouched, rsLeft>>

\* Mutant: the session is unlocked before it is marked closed
RsSavedUnlocks(t) ==
  LET id == rsT[t].id IN
  /\ RsAt(t, "saved") /\ RsStoreFree
  /\ rsCache' = RsWithout(rsCache, {id})
  /\ rsHeld' = rsHeld \ {id}
  /\ RsGo(t, [rsT[t] EXCEPT !.pc = "closed"])
  /\ UNCHANGED <<rsSess, rsReaders, rsFiles, rsAccepted, rsTouched, rsLeft>>

\* ... and then takes the store's lock, with the session's lock still held
RsSaved(t) ==
  LET id == rsT[t].id IN
  /\ RsAt(t, "saved") /\ RsStoreFree
  /\ rsCache' = RsWithout(rsCache, {id})
  /\ rsSess' = [rsSess EXCEPT ![id].closed = TRUE]
  /\ rsHeld' = rsHeld \ {id}
  /\ RsGo(t, [rsT[t] EXCEPT !.pc = "closed"])
  /\ UNCHANGED <<rsReaders, rsFiles, rsAccepted, rsTouched, rsLeft>>

RsForget(t) ==
  /\ RsAt(t, "closed") /\ RsStoreFree
  /\ rsSess' = RsWithout(rsSess, {rsT[t].id}) /\ rsCache' = << >>
  /\ RsEnd(t)
  /\ UNCHANGED <<rsHeld, rsReaders, rsFiles, rsAccepted, rsTouched, rsLeft>>

-----------------------------------------------------------------------------
(* Reading *)

\* Get refuses a file that does not parse
RsReadable == {id \in DOMAIN rsFiles : rsFiles[id].status # "torn"}
ToSummary(id) == [status |-> rsFiles[id].status, deleted |-> rsFiles[id].deleted]

\* loadSummaryLocked for every file: what is cached is not read again
RsLoaded == rsCache @@ [id \in RsReadable |-> ToSummary(id)]

RsList ==
  /\ RsStoreFree
  /\ rsCache' = RsLoaded
  /\ UNCHANGED <<rsSess, rsHeld, rsReaders, rsFiles, rsT, rsAccepted, rsTouched>>

handleListStreamRecordings(t) == RsRequest(t) /\ RsMayRead /\ RsList

\* GetStats: the cache is filled under a read lock
GetStats(t) ==
  /\ rsReaders' = rsReaders \cup {t}
  /\ RsGo(t, [RsNoThread EXCEPT !.pc = "stats"])
  /\ UNCHANGED <<rsSess, rsHeld, rsFiles, rsCache, rsAccepted, rsTouched>>

handleGetStreamRecordingStats(t) == RsRequest(t) /\ RsMayRead /\ GetStats(t)

getStatsLocked(t) ==
  \/ /\ RsAt(t, "stats")
     /\ rsCache' = RsLoaded
     /\ RsGo(t, [rsT[t] EXCEPT !.pc = "counted"])
     /\ UNCHANGED <<rsSess, rsHeld, rsReaders, rsFiles, rsAccepted, rsTouched, rsLeft>>
  \/ /\ RsAt(t, "counted")
     /\ rsReaders' = rsReaders \ {t}
     /\ RsEnd(t)
     /\ UNCHANGED <<rsSess, rsHeld, rsFiles, rsCache, rsAccepted, rsTouched, rsLeft>>

\* As GetActiveSessionForPath
GetActiveSessions ==
  /\ \A id \in DOMAIN rsSess : RsSessionFree(id)
  /\ UNCHANGED <<rsSess, rsHeld, rsReaders, rsFiles, rsCache, rsT, rsAccepted, rsTouched>>

handleGetActiveSessions(t) == RsRequest(t) /\ RsMayRead /\ GetActiveSessions

-----------------------------------------------------------------------------
(* Deleting *)

\* Delete: marked in the file, then dropped from the cache
RsDelete(t) ==
  /\ \E id \in RsReadable :
       /\ rsFiles' = [rsFiles EXCEPT ![id].deleted = TRUE]
       /\ RsGo(t, [RsNoThread EXCEPT !.pc = "written", !.id = id])
  /\ UNCHANGED <<rsSess, rsHeld, rsReaders, rsCache, rsAccepted, rsTouched>>

handleDeleteStreamRecording(t) == RsRequest(t) /\ RsMayWrite /\ RsDelete(t)

\* Mutant: nothing is dropped
RsInvalidateNot(t) ==
  /\ RsAt(t, "written") /\ RsStoreFree
  /\ RsEnd(t)
  /\ UNCHANGED <<rsSess, rsHeld, rsReaders, rsFiles, rsCache, rsAccepted, rsTouched, rsLeft>>

RsInvalidate(t) ==
  /\ RsAt(t, "written") /\ RsStoreFree
  /\ rsCache' = RsWithout(rsCache, {rsT[t].id})
  /\ RsEnd(t)
  /\ UNCHANGED <<rsSess, rsHeld, rsReaders, rsFiles, rsAccepted, rsTouched, rsLeft>>

\* The deleted recordings that can be read
Vacuum ==
  LET gone == {id \in RsReadable : rsFiles[id].deleted} IN
  /\ RsStoreFree
  /\ rsFiles' = RsWithout(rsFiles, gone) /\ rsCache' = RsWithout(rsCache, gone)
  /\ UNCHANGED <<rsSess, rsHeld, rsReaders, rsT, rsAccepted, rsTouched>>

handleVacuum(t) == RsRequest(t) /\ RsMayWrite /\ Vacuum

\* mockd stream-recordings delete: another process with a cache of its own
streamRecordingsDeleteCmd ==
  \E id \in RsReadable, permanent \in BOOLEAN :
    /\ id \notin rsTouched
    /\ rsFiles' = IF permanent THEN RsWithout(rsFiles, {id})
                  ELSE [rsFiles EXCEPT ![id].deleted = TRUE]
    /\ rsTouched' = rsTouched \cup {id}
    /\ UNCHANGED <<rsSess, rsHeld, rsReaders, rsCache, rsT, rsAccepted, rsLeft>>

\* The server dies: what was not saved is gone, a file being written is torn
RsCrash ==
  LET torn == {rsT[t].id : t \in {u \in RsHandlers : RsAt(u, "saving")}} IN
  /\ rsLeft > 0 /\ rsLeft' = 0
  /\ rsSess' = << >> /\ rsHeld' = {} /\ rsReaders' = {} /\ rsCache' = << >>
  /\ rsT' = [t \in DOMAIN rsT |-> [RsNoThread EXCEPT !.n = RsMaxFrames]]
  /\ rsFiles' = [id \in torn |-> [status |-> "torn", frames |-> << >>, deleted |-> FALSE]] @@ rsFiles
  /\ UNCHANGED <<rsAccepted, rsTouched>>

RsNext ==
  \/ \E t \in RsHandlers :
       \/ handleStartRecording(t) \/ handleStopRecording(t) \/ CompleteRecording(t)
       \/ saveRecording(t) \/ RsSaved(t) \/ RsForget(t)
       \/ handleListStreamRecordings(t) \/ handleGetStreamRecordingStats(t)
       \/ getStatsLocked(t) \/ handleGetActiveSessions(t)
       \/ handleDeleteStreamRecording(t) \/ RsInvalidate(t) \/ handleVacuum(t)
  \/ \E c \in RsConns :
       \/ CreateHook(c) \/ GetActiveSessionForPath(c) \/ RsFrame(c)
       \/ AppendWebSocketCloseFrame(c)
  \/ streamRecordingsDeleteCmd \/ RsCrash

-----------------------------------------------------------------------------
(* Properties *)

RsTypeOK ==
  /\ DOMAIN rsSess \subseteq RsIDs /\ rsHeld \subseteq DOMAIN rsSess
  /\ rsReaders \subseteq RsHandlers \cup RsConns
  /\ \A id \in DOMAIN rsFiles : rsFiles[id].status \in {"complete", "torn"}
  /\ DOMAIN rsCache \subseteq RsIDs

\* "Save to disk BEFORE removing from sessions map", "Only mark closed after
\* successful save": a frame whose recording was confirmed to the connection is in
\* the file of the completed recording, and nothing else is, however connections,
\* stops and failed saves interleave.
RsSavedWhole ==
  \A id \in RsReadable : id \notin rsHeld => rsFiles[id].frames = rsAccepted[id]

\* A listing shows a recording as its file is: a summary in the cache is stale only
\* while a handler is about to drop it, or after another process changed the file.
RsCacheFresh ==
  \A id \in DOMAIN rsCache :
    \/ id \in rsTouched
    \/ \E t \in RsHandlers : RsAt(t, "written") /\ rsT[t].id = id
    \/ id \in RsReadable /\ rsCache[id] = ToSummary(id)

\* "Now safe to acquire store lock (not holding session lock)": nobody waits for the
\* store's lock with a session's lock that a holder of the store's lock waits for.
RsNoDeadlock ==
  \A t \in RsHandlers, c \in RsConns :
    ~ (RsAt(t, "saved") /\ RsAt(c, "scan") /\ rsT[c].todo = {rsT[t].id})

=============================================================================
