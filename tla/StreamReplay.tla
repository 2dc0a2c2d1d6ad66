---------------------------- MODULE StreamReplay ----------------------------
(***************************************************************************)
(* Replay of a recorded stream: a session of the ReplayController          *)
(* (pkg/recording/replay.go, kind "session"), or a player bound to one     *)
(* connection (pkg/websocket/replay.go and pkg/sse/replay.go, kinds        *)
(* "websocket" and "sse").  The goroutine that plays and the callers that  *)
(* advance, pause, resume and stop it share the status under a mutex; they *)
(* signal each other over channels and the context.                        *)
(*                                                                         *)
(* Frames are numbered and have a direction.  Which frames are due without *)
(* a delay, and which client messages match, is left open.                 *)
(***************************************************************************)
EXTENDS Naturals, Sequences

CONSTANTS
  RpFrames,   \* the recording: directions "server" and "client"
  RpBuffer    \* bound: messages in matchChan, requests in advanceChan

VARIABLES
  rp,         \* the session or player
  rpPc,       \* where its goroutine is
  rpMatch,    \* messages in matchChan / expectedMsg
  rpQueue,    \* requests in advanceChan
  rpOut       \* auxiliary: the frames sent

rpVars == <<rp, rpPc, rpMatch, rpQueue, rpOut>>

RpNumbers == [i \in 1 .. Len(RpFrames) |-> i]

\* getServerFrames, getServerToClientFrames
RpServer == SelectSeq(RpNumbers, LAMBDA i : RpFrames[i] = "server")

\* What synchronized mode walks through; SSE has server events only
getAllFrames == RpNumbers

RpModes == {"pure", "synchronized", "triggered"}
RpStatuses == {"pending", "playing", "waiting", "paused", "complete", "aborted"}

\* StartReplay, NewWebSocketReplayer; NewSSEReplayer falls back to pure mode
RpInit ==
  /\ rp \in [kind : {"session", "websocket", "sse"}, mode : RpModes, auto : BOOLEAN,
             status : {"pending"}, cur : {0}, left : {0}, err : {"none"},
             listed : {TRUE}, stopping : {FALSE}, cancelled : {FALSE}]
  /\ rp.kind = "sse" => rp.mode # "synchronized"
  /\ rp.auto => rp.kind = "session" /\ rp.mode = "triggered"
  /\ rpPc = "new" /\ rpMatch = 0 /\ rpQueue = 0 /\ rpOut = <<>>

RpSession == rp.kind = "session"
RpGoto(pc) == rpPc' = pc
RpSet(status) == rp' = [rp EXCEPT !.status = status]
RpRest == UNCHANGED <<rpMatch, rpQueue, rpOut>>

\* Frame number i of the recording goes out
RpEmit(i) == rpOut' = Append(rpOut, i)

\* The runner returns; a player sets its final status in one more step
RpReturn(err) ==
  IF RpSession THEN RpGoto("end") /\ UNCHANGED rp
               ELSE RpGoto("finish") /\ rp' = [rp EXCEPT !.err = err]

-----------------------------------------------------------------------------
(* Start, and the pure mode *)

\* Run of a session, Start of a player
RpStart ==
  /\ rpPc = "new" /\ rp.status = "pending"
  /\ RpSet("playing")
  /\ RpGoto(CASE rp.mode = "pure" -> "top" [] rp.mode = "synchronized" -> "sync"
              [] rp.mode = "triggered" -> "trigger")
  /\ RpRest

\* markComplete: whatever the status was
RpComplete == RpSet("complete") /\ RpGoto("end")

\* The loop's head.  The receive from pauseChan beside a default never meets
\* PauseReplay's send, which does not block either.
runPureMode ==
  /\ rpPc = "top"
  /\ IF rp.cur = Len(RpServer)
       THEN IF RpSession THEN RpComplete ELSE RpReturn("none")
     ELSE IF rp.cancelled THEN RpReturn("stopped")
     ELSE /\ UNCHANGED rp
          /\ \/ RpGoto("send")
             \/ (rp.cur > 0 \/ rp.kind = "sse") /\ RpGoto("delay")
  /\ RpRest

\* The delay before a frame, and the pause that a session's caller hands over
RpDelay ==
  /\ \/ rpPc = "delay" /\ RpGoto("send") /\ UNCHANGED rp
     \/ rpPc = "pausing" /\ RpGoto("paused") /\ UNCHANGED rp
     \/ rpPc \in {"delay", "paused"} /\ rp.cancelled /\ RpReturn("stopped")
  /\ RpRest

\* sendFrameData, sendFrame, sendEvent
RpSend ==
  /\ rpPc = "send"
  /\ \/ /\ RpEmit(RpServer[rp.cur + 1]) /\ RpGoto("count") /\ UNCHANGED rp
     \/ RpReturn("failed") /\ UNCHANGED rpOut
  /\ UNCHANGED <<rpMatch, rpQueue>>

RpCount ==
  /\ rpPc = "count"
  /\ rp' = [rp EXCEPT !.cur = @ + 1] /\ RpGoto("top")
  /\ RpRest

-----------------------------------------------------------------------------
(* Synchronized mode *)

\* The loop's head; a session says that it plays before it sends, a player does not
runSynchronizedMode ==
  /\ rpPc \in {"sync", "next"}
  /\ IF rpPc = "sync" THEN RpSet("waiting") /\ RpGoto("next")
     ELSE IF rp.cur = Len(getAllFrames)
       THEN IF RpSession THEN RpComplete ELSE RpReturn("none")
     ELSE IF rp.cancelled THEN RpReturn("stopped")
     ELSE IF RpFrames[rp.cur + 1] = "client" THEN RpSet("waiting") /\ RpGoto("match")
     ELSE (IF RpSession THEN RpSet("playing") ELSE UNCHANGED rp) /\ RpGoto("reply")
  /\ RpRest

RpReply ==
  /\ rpPc = "reply"
  /\ \/ /\ RpEmit(rp.cur + 1) /\ RpGoto("next")
        /\ rp' = [rp EXCEPT !.cur = @ + 1]
     \/ RpReturn("failed") /\ UNCHANGED rpOut
  /\ UNCHANGED <<rpMatch, rpQueue>>

\* waitForClientMessage: a session takes any message for a match, a player waits
\* for one that is equal and says that it plays; both give up after a timeout
waitForClientMessage ==
  /\ rpPc = "match"
  /\ \/ /\ rpMatch > 0 /\ rpMatch' = rpMatch - 1 /\ RpGoto("next")
        /\ \/ rp' = [rp EXCEPT !.cur = @ + 1, !.status = IF RpSession THEN @ ELSE "playing"]
           \/ ~RpSession /\ UNCHANGED rp
     \/ RpReturn("failed") /\ UNCHANGED rpMatch
     \/ rp.cancelled /\ RpReturn("stopped") /\ UNCHANGED rpMatch
  /\ UNCHANGED <<rpQueue, rpOut>>

\* ReceiveMessage drops a message when the buffer is full, OnClientMessage waits
RpReceive ==
  /\ rp.mode = "synchronized" /\ rpPc \notin {"new", "end"} /\ rpMatch < RpBuffer
  /\ rpMatch' = rpMatch + 1
  /\ UNCHANGED <<rp, rpPc, rpQueue, rpOut>>

-----------------------------------------------------------------------------
(* Triggered mode *)

\* Mutant: the frame sent on connect is not counted
autoUncounted ==
  /\ rpPc = "trigger"
  /\ rp' = [rp EXCEPT !.status = "waiting"]
  /\ IF rp.auto /\ RpServer # <<>> THEN RpEmit(RpServer[1]) ELSE UNCHANGED rpOut
  /\ RpGoto("advance")
  /\ UNCHANGED <<rpMatch, rpQueue>>

\* AutoAdvanceOnConnect sends the first frame; then the replay waits.  A player
\* without a frame to send returns at once.
runTriggeredMode ==
  /\ rpPc = "trigger"
  /\ IF ~RpSession /\ RpServer = <<>> THEN RpReturn("none") /\ UNCHANGED rpOut
     ELSE IF rp.auto /\ RpServer # <<>>
       THEN \/ /\ RpEmit(RpServer[1])
               /\ rp' = [rp EXCEPT !.cur = 1, !.status = "waiting"] /\ RpGoto("advance")
            \/ RpReturn("failed") /\ UNCHANGED rpOut
     ELSE RpSet("waiting") /\ RpGoto("advance") /\ UNCHANGED rpOut
  /\ UNCHANGED <<rpMatch, rpQueue>>

\* A session's handleAdvance, under its mutex: frames up to `end` are sent, by
\* count or by the content given as Until, unless a send fails on the way
handleAdvance ==
  /\ RpSession /\ rpPc = "advance" /\ rpQueue > 0 /\ rpQueue' = rpQueue - 1
  /\ IF rp.cur >= Len(RpServer) THEN RpComplete /\ UNCHANGED rpOut
     ELSE \E end \in rp.cur .. Len(RpServer) :
            /\ rpOut' = rpOut \o SubSeq(RpServer, rp.cur + 1, end)
            /\ rp' = [rp EXCEPT !.cur = end, !.status = IF end = Len(RpServer) THEN "complete" ELSE @]
            /\ RpGoto(IF end = Len(RpServer) THEN "end" ELSE "advance")
  /\ UNCHANGED rpMatch

\* A player's loop: a request of n frames, sent one by one
PlayTriggered ==
  /\ ~RpSession /\ rpPc = "advance"
  /\ IF rp.cur = Len(RpServer) THEN RpReturn("none") /\ UNCHANGED rpQueue
     ELSE \/ /\ rpQueue > 0 /\ rpQueue' = rpQueue - 1
             /\ \/ UNCHANGED <<rp, rpPc>>
                \/ \E n \in 1 .. Len(RpServer) - rp.cur :
                     rp' = [rp EXCEPT !.status = "playing", !.left = n] /\ RpGoto("burst")
  /\ UNCHANGED <<rpMatch, rpOut>>

RpBurst ==
  /\ rpPc = "burst"
  /\ IF rp.left = 0
       THEN /\ rp' = [rp EXCEPT !.status = IF rp.cur < Len(RpServer) THEN "waiting" ELSE @]
            /\ RpGoto("advance") /\ UNCHANGED rpOut
       ELSE \/ /\ RpEmit(RpServer[rp.cur + 1])
               /\ rp' = [rp EXCEPT !.cur = @ + 1, !.left = @ - 1] /\ UNCHANGED rpPc
            \/ RpReturn("failed") /\ UNCHANGED rpOut
  /\ UNCHANGED <<rpMatch, rpQueue>>

RpAdvanceStopped ==
  /\ rpPc = "advance" /\ rp.cancelled /\ RpReturn("stopped")
  /\ RpRest

\* Start's goroutine when the mode's function has returned
RpFinish ==
  /\ rpPc = "finish"
  /\ RpSet(IF rp.err = "failed" THEN "aborted"
           ELSE IF rp.status = "playing" THEN "complete" ELSE rp.status)
  /\ RpGoto("end") /\ RpRest

-----------------------------------------------------------------------------
(* Callers *)

\* Advance: a request is queued unless the replay is over
RpAdvance ==
  /\ rp.mode = "triggered" /\ rpQueue < RpBuffer
  /\ IF RpSession THEN rp.listed /\ rp.status # "complete"
                  ELSE rpPc # "new" /\ rp.cur < Len(RpServer)
  /\ rpQueue' = rpQueue + 1
  /\ UNCHANGED <<rp, rpPc, rpMatch, rpOut>>

\* PauseReplay and ResumeReplay: the signal is dropped unless the runner waits for it
PauseReplay ==
  /\ RpSession /\ rp.listed /\ rp.status = "playing"
  /\ rp' = [rp EXCEPT !.status = "paused"]
  /\ RpGoto(IF rpPc = "delay" THEN "pausing" ELSE rpPc)
  /\ RpRest

ResumeReplay ==
  /\ RpSession /\ rp.listed /\ rp.status = "paused"
  /\ rp' = [rp EXCEPT !.status = "playing"]
  /\ RpGoto(IF rpPc = "paused" THEN "send" ELSE rpPc)
  /\ RpRest

\* StopReplay: the session is forgotten, aborted and cancelled
StopReplay ==
  /\ RpSession /\ rp.listed
  /\ rp' = [rp EXCEPT !.listed = FALSE, !.status = "aborted", !.cancelled = TRUE]
  /\ UNCHANGED rpPc /\ RpRest

\* Stop of a player: the status first, the context second
RpStop ==
  /\ ~RpSession /\ ~rp.stopping
  /\ rp' = [rp EXCEPT !.stopping = TRUE,
                      !.status = IF @ \in {"playing", "waiting"} THEN "aborted" ELSE @]
  /\ UNCHANGED rpPc /\ RpRest

RpCancel ==
  /\ rp.stopping /\ ~rp.cancelled
  /\ rp' = [rp EXCEPT !.cancelled = TRUE]
  /\ UNCHANGED rpPc /\ RpRest

RpNext ==
  \/ RpStart \/ runPureMode \/ RpDelay \/ RpSend \/ RpCount
  \/ runSynchronizedMode \/ RpReply \/ waitForClientMessage \/ RpReceive
  \/ runTriggeredMode \/ handleAdvance \/ PlayTriggered \/ RpBurst \/ RpAdvanceStopped
  \/ RpFinish \/ RpAdvance \/ PauseReplay \/ ResumeReplay \/ StopReplay \/ RpStop \/ RpCancel

RpSpec == RpInit /\ [][RpNext]_rpVars

-----------------------------------------------------------------------------
(* Properties *)

\* Status, position and channels have their types.
RpTypeOK ==
  /\ rp.status \in RpStatuses /\ rp.cur \in 0 .. Len(RpFrames) /\ rp.left \in 0 .. Len(RpFrames)
  /\ rpMatch \in 0 .. RpBuffer /\ rpQueue \in 0 .. RpBuffer

\* Server frames go out in the order of the recording, none twice and none left
\* out, however the replay is advanced, paused, resumed and stopped; and a replay
\* that says it is complete has sent them all, unless its player was stopped.
RpWholeInOrder ==
  /\ rpOut = SubSeq(RpServer, 1, Len(rpOut))
  /\ rp.status = "complete" /\ ~rp.stopping => rpOut = RpServer

=============================================================================
