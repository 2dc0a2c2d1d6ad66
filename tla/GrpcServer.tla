----------------------------- MODULE GrpcServer -----------------------------
(***************************************************************************)
(* A gRPC mock's server (pkg/grpc/server.go) and its stream tracker        *)
(* (pkg/grpc/stream_tracker.go): calls of the four kinds in flight, their  *)
(* clients going away, the admin API's cancellation of streams, and the    *)
(* server's Stop and Start, which keep the tracker.                        *)
(*                                                                         *)
(* A message is the set of conditions of the mock it satisfies; a variant  *)
(* is [match, error, responses, builds], its match a set of conditions,    *)
(* its error {} or one [code, details]; a delay is the time between two    *)
(* steps.  The gRPC library is                                             *)
(* external: a graceful stop closes the listener and waits for the calls,  *)
(* a forced one cancels their contexts.                                    *)
(***************************************************************************)
EXTENDS Naturals, Sequences, FiniteSetsExt, TLC

CONSTANTS
  GsMethods,     \* call -> the methods [kind, variants] it may be of, variants a sequence
  GsMessages,    \* sets of conditions
  GsMetadata,    \* the conditions on metadata among them
  GsCalls,       \* calls
  GsMsgs,        \* bound: messages a client sends on one stream
  GsLives        \* bound: starts

VARIABLES
  gsRunning,     \* the current life of the server, 0 when it is stopped
  gsLives,       \* starts so far
  gsBound,       \* lives whose listener is open
  gsCall,        \* call -> its state
  gsStreams,     \* StreamTracker.streams
  gsAdmin,       \* StreamTracker.adminCancelled
  gsKilling,     \* streams marked by Cancel, not cancelled yet
  gsTotalSent,   \* StreamTracker.totalMsgSent
  gsStop         \* the Stop in progress [pc, life, ids]

gsVars == <<gsRunning, gsLives, gsBound, gsCall, gsStreams, gsAdmin, gsKilling, gsTotalSent, gsStop>>
gsServer  == <<gsRunning, gsLives, gsBound, gsStop>>
gsTracker == <<gsStreams, gsAdmin, gsKilling, gsTotalSent>>

GsNone == [kind |-> "none", variants |-> <<>>]
GsFresh == [pc |-> "new", life |-> 0, method |-> GsNone, pick |-> 0, got |-> 0, sent |-> 0,
            gone |-> FALSE, killed |-> FALSE, logged |-> 0, status |-> "none"]

GsInit ==
  /\ gsRunning = 0 /\ gsLives = 0 /\ gsBound = {} /\ gsCall = [c \in GsCalls |-> GsFresh]
  /\ gsStreams = {} /\ gsAdmin = {} /\ gsKilling = {} /\ gsTotalSent = 0
  /\ gsStop = [pc |-> "idle", life |-> 0, ids |-> {}]

-----------------------------------------------------------------------------
(* Which variant answers, and with what error *)

isCatchAllMatch(match) == match = {}
matchesCondition(match, message) == match \subseteq message

\* The first variant with a match that holds, else the first without one; 0 for none
findMethodConfig(method, message) ==
  LET all  == {i \in DOMAIN method.variants : matchesCondition(method.variants[i].match, message)}
      own  == {i \in all : ~isCatchAllMatch(method.variants[i].match)}
      from == IF own # {} THEN own ELSE all
  IN  IF from = {} THEN 0 ELSE CHOOSE i \in from : \A j \in from : i <= j

\* The fields of which a detail must have one to be sent
GsFailures ==
  [bad_request |-> {"field_violations"}, error_info |-> {"reason", "domain"}, retry_info |-> {"retry_delay"},
   debug_info |-> {"stack_entries", "detail"}, quota_failure |-> {"violations"},
   precondition_failure |-> {"violations"}]
GsPointers ==
  [resource_info |-> {"resource_type", "resource_name"}, help |-> {"links"},
   localized_message |-> {"locale", "message"}]

buildErrorDetails(details) ==
  LET required == GsFailures @@ GsPointers IN
  {k \in DOMAIN details \cap DOMAIN required : details[k] \cap required[k] # {}}

GsCodes == {"NOT_FOUND", "INTERNAL", "UNAVAILABLE"}

\* An unknown code is UNKNOWN; details of no known kind are dropped
toGRPCError(e) ==
  [code |-> IF e.code \in GsCodes THEN e.code ELSE "UNKNOWN", details |-> buildErrorDetails(e.details)]

-----------------------------------------------------------------------------
(* Calls *)

GsVariant(c) == gsCall[c].method.variants[gsCall[c].pick]
GsIsStream(c) == gsCall[c].method.kind # "unary"
GsDone(c) == gsCall[c].gone \/ gsCall[c].killed
GsCode(c) == toGRPCError(CHOOSE e \in GsVariant(c).error : TRUE).code

GsSet(c, r) == gsCall' = [gsCall EXCEPT ![c] = r]
GsGo(c, pc) == GsSet(c, [gsCall[c] EXCEPT !.pc = pc]) /\ UNCHANGED <<gsServer, gsTracker>>

\* Mutant: a stream's status is what its context says
cancelErrorByContext(c) == IF gsCall[c].gone THEN "CANCELED" ELSE IF gsCall[c].killed THEN "CANCELED" ELSE "UNAVAILABLE"

contextCancelError(c) == IF c \in gsAdmin THEN "UNAVAILABLE" ELSE "CANCELED"

\* The call is logged and the handler returns: a stream's deferred calls are still to come
logGRPCCall(c, status) ==
  /\ GsSet(c, [gsCall[c] EXCEPT !.logged = @ + 1, !.status = status,
                                !.pc = IF GsIsStream(c) THEN "unregister" ELSE "done"])
  /\ UNCHANGED <<gsServer, gsTracker>>

\* A call reaches a listening server; an unknown method is refused without a log entry
handleStreamMethod(c, method) ==
  /\ gsCall[c].pc = "new" /\ \E l \in gsBound :
       /\ GsSet(c, [GsFresh EXCEPT !.life = l, !.method = method,
            !.pc = CASE method.kind = "unknown" -> "done" [] method.kind = "unary" -> "unary" [] OTHER -> "start",
            !.status = IF method.kind = "unknown" THEN "UNIMPLEMENTED" ELSE "none"])
  /\ UNCHANGED <<gsServer, gsTracker>>

\* The request is decoded, and its variant looked up
handleUnary(c) ==
  /\ gsCall[c].pc = "unary"
  /\ \/ logGRPCCall(c, "INVALID_ARGUMENT")
     \/ \E message \in GsMessages : LET v == findMethodConfig(gsCall[c].method, message) IN
          IF v = 0 THEN logGRPCCall(c, "UNIMPLEMENTED")
          ELSE GsSet(c, [gsCall[c] EXCEPT !.pick = v, !.pc = "delay"]) /\ UNCHANGED <<gsServer, gsTracker>>

\* The variant's delay is over, or was cut short
applyDelayWithContext(c) ==
  /\ gsCall[c].pc = "delay"
  /\ IF GsDone(c) THEN logGRPCCall(c, IF GsIsStream(c) THEN contextCancelError(c) ELSE "DEADLINE_EXCEEDED")
     ELSE IF GsVariant(c).error # {} THEN logGRPCCall(c, GsCode(c))
     ELSE GsGo(c, CASE gsCall[c].method.kind = "server" -> "send" [] gsCall[c].method.kind = "bidi" -> "recv"
                    [] OTHER -> "answer")

\* The single answer of a unary or client-streaming call
buildResponse(c) ==
  /\ gsCall[c].pc = "answer"
  /\ IF ~GsVariant(c).builds THEN logGRPCCall(c, "INTERNAL")
     ELSE IF GsIsStream(c) /\ gsCall[c].gone THEN logGRPCCall(c, "SEND_FAILED")
     ELSE /\ GsSet(c, [gsCall[c] EXCEPT !.sent = 1, !.logged = @ + 1, !.status = "OK",
                                        !.pc = IF GsIsStream(c) THEN "unregister" ELSE "done"])
          /\ UNCHANGED <<gsServer, gsTracker>>

Register(c) ==
  /\ gsCall[c].pc = "start" /\ gsStreams' = gsStreams \cup {c}
  /\ GsSet(c, [gsCall[c] EXCEPT !.pc = IF gsCall[c].method.kind = "bidi" THEN "match" ELSE "recv"])
  /\ UNCHANGED <<gsServer, gsAdmin, gsKilling, gsTotalSent>>

\* A bidirectional stream's variant is looked up before any message, by metadata alone
handleBidirectionalStreaming(c) ==
  /\ gsCall[c].pc = "match"
  /\ \E message \in GsMessages :
       LET v == findMethodConfig(gsCall[c].method, message \cap GsMetadata) IN
       IF v = 0 THEN logGRPCCall(c, "UNIMPLEMENTED")
       ELSE GsSet(c, [gsCall[c] EXCEPT !.pick = v, !.pc = "delay"]) /\ UNCHANGED <<gsServer, gsTracker>>

GsReceived(c, pc, pick) ==
  /\ GsSet(c, [gsCall[c] EXCEPT !.got = @ + 1, !.pc = pc, !.pick = pick])
  /\ UNCHANGED <<gsServer, gsTracker>>

\* The stream's context and its next message are waited for together
recvMsgCtx(c) ==
  LET call == gsCall[c] IN
  /\ call.pc = "recv"
  /\ \/ GsDone(c) /\ logGRPCCall(c, contextCancelError(c))
     \/ call.gone /\ logGRPCCall(c, "INVALID_ARGUMENT")
     \/ /\ call.got < GsMsgs /\ ~call.gone
        /\ \E message \in GsMessages : LET v == findMethodConfig(call.method, message) IN
             CASE call.method.kind = "server" ->
                    IF v = 0 THEN logGRPCCall(c, "UNIMPLEMENTED") ELSE GsReceived(c, "delay", v)
               [] call.method.kind = "client" -> GsReceived(c, "recv", v)
               [] call.method.kind = "bidi" -> GsReceived(c, "reply", call.pick)

\* The client closes its side
GsEOF(c) ==
  \E message \in GsMessages :
  LET call == gsCall[c]
      v    == IF call.got = 0 THEN findMethodConfig(call.method, message \cap GsMetadata) ELSE call.pick
  IN  /\ call.pc = "recv" /\ call.method.kind # "server" /\ ~call.gone
      /\ IF call.method.kind = "bidi" THEN logGRPCCall(c, "OK")
         ELSE IF v = 0 THEN logGRPCCall(c, "UNIMPLEMENTED")
         ELSE GsSet(c, [call EXCEPT !.pc = "delay", !.pick = v]) /\ UNCHANGED <<gsServer, gsTracker>>

\* Mutant: the stream is over when the last response is due
serverStreamingShort(c) ==
  /\ gsCall[c].pc = "send"
  /\ IF GsDone(c) THEN logGRPCCall(c, contextCancelError(c))
     ELSE IF ~GsVariant(c).builds THEN logGRPCCall(c, "INTERNAL")
     ELSE IF gsCall[c].sent + 1 >= GsVariant(c).responses THEN logGRPCCall(c, "OK")
     ELSE GsSet(c, [gsCall[c] EXCEPT !.sent = @ + 1]) /\ UNCHANGED <<gsServer, gsTracker>>

\* The configured responses, one by one
handleServerStreaming(c) ==
  /\ gsCall[c].pc = "send"
  /\ IF gsCall[c].sent = GsVariant(c).responses THEN logGRPCCall(c, "OK")
     ELSE IF gsCall[c].gone THEN logGRPCCall(c, contextCancelError(c)) \/ logGRPCCall(c, "INTERNAL")
     ELSE IF GsDone(c) THEN logGRPCCall(c, contextCancelError(c))
     ELSE IF ~GsVariant(c).builds THEN logGRPCCall(c, "INTERNAL")
     ELSE GsSet(c, [gsCall[c] EXCEPT !.sent = @ + 1]) /\ UNCHANGED <<gsServer, gsTracker>>

\* One response per message, the last one again and again
GsReply(c) ==
  /\ gsCall[c].pc = "reply"
  /\ IF GsVariant(c).responses = 0 THEN logGRPCCall(c, "RESOURCE_EXHAUSTED")
     ELSE IF ~GsVariant(c).builds \/ gsCall[c].gone THEN logGRPCCall(c, "INTERNAL")
     ELSE GsSet(c, [gsCall[c] EXCEPT !.sent = @ + 1, !.pc = "pause"]) /\ UNCHANGED <<gsServer, gsTracker>>

GsPause(c) ==
  /\ gsCall[c].pc = "pause"
  /\ IF GsDone(c) THEN logGRPCCall(c, contextCancelError(c)) ELSE GsGo(c, "recv")

\* The stream leaves both tables under one lock; its messages are added to the totals after
Unregister(c) ==
  /\ gsCall[c].pc = "unregister" /\ gsStreams' = gsStreams \ {c} /\ gsAdmin' = gsAdmin \ {c}
  /\ GsSet(c, [gsCall[c] EXCEPT !.pc = "count"]) /\ UNCHANGED <<gsServer, gsKilling, gsTotalSent>>

GsCount(c) ==
  /\ gsCall[c].pc = "count" /\ gsTotalSent' = gsTotalSent + gsCall[c].sent
  /\ GsSet(c, [gsCall[c] EXCEPT !.pc = "done"]) /\ UNCHANGED <<gsServer, gsStreams, gsAdmin, gsKilling>>

GsClientGone(c) ==
  /\ gsCall[c].pc \notin {"new", "done"} /\ ~gsCall[c].gone
  /\ GsSet(c, [gsCall[c] EXCEPT !.gone = TRUE]) /\ UNCHANGED <<gsServer, gsTracker>>

-----------------------------------------------------------------------------
(* Cancellation, Stop and Start *)

\* Mutant: the context is cancelled first
cancelUnmarked(c) == c \in gsStreams /\ gsKilling' = gsKilling \cup {c} /\ UNCHANGED gsAdmin

\* The stream is marked under the lock, and cancelled after it
Cancel(c) == c \in gsStreams /\ gsKilling' = gsKilling \cup {c} /\ gsAdmin' = gsAdmin \cup {c}

GsAdminCancel(c) ==
  /\ c \notin gsAdmin /\ Cancel(c) /\ UNCHANGED <<gsServer, gsCall, gsStreams, gsTotalSent>>

GsKill(c) ==
  /\ c \in gsKilling /\ gsKilling' = gsKilling \ {c} /\ GsSet(c, [gsCall[c] EXCEPT !.killed = TRUE])
  /\ UNCHANGED <<gsServer, gsStreams, gsAdmin, gsTotalSent>>

\* Start: the port must be free
GsStart ==
  /\ gsRunning = 0 /\ gsBound = {} /\ gsLives < GsLives
  /\ gsLives' = gsLives + 1 /\ gsRunning' = gsLives + 1 /\ gsBound' = {gsLives + 1}
  /\ UNCHANGED <<gsCall, gsTracker, gsStop>>

GsStopStarts ==
  /\ gsRunning # 0 /\ gsStop.pc \in {"idle", "returned"}
  /\ gsStop' = [pc |-> "list", life |-> gsRunning, ids |-> {}] /\ gsRunning' = 0
  /\ UNCHANGED <<gsLives, gsBound, gsCall, gsTracker>>

\* CancelAll: the streams of the moment, each cancelled if it is still there
CancelAll ==
  /\ gsStop.pc = "list" /\ gsStop' = [gsStop EXCEPT !.pc = "cancel", !.ids = gsStreams]
  /\ UNCHANGED <<gsRunning, gsLives, gsBound, gsCall, gsTracker>>

GsCancelOne(c) ==
  /\ gsStop.pc = "cancel" /\ c \in gsStop.ids /\ gsStop' = [gsStop EXCEPT !.ids = @ \ {c}]
  /\ \/ Cancel(c)
     \/ c \notin gsStreams /\ UNCHANGED <<gsAdmin, gsKilling>>
  /\ UNCHANGED <<gsRunning, gsLives, gsBound, gsCall, gsStreams, gsTotalSent>>

\* GracefulStop closes the listener first
GsDrain ==
  /\ gsStop.pc = "cancel" /\ gsStop.ids = {} /\ gsStop' = [gsStop EXCEPT !.pc = "drain"]
  /\ gsBound' = gsBound \ {gsStop.life} /\ UNCHANGED <<gsRunning, gsLives, gsCall, gsTracker>>

GsOpen(life) == {c \in GsCalls : gsCall[c].life = life /\ gsCall[c].pc # "done"}


\* Every call is over, or the timeout or the caller forces the connections closed
GsStopEnds ==
  /\ gsStop.pc = "drain" /\ gsStop' = [gsStop EXCEPT !.pc = "returned"]
  /\ gsCall' = [c \in GsCalls |-> IF c \in GsOpen(gsStop.life) THEN [gsCall[c] EXCEPT !.gone = TRUE] ELSE gsCall[c]]
  /\ UNCHANGED <<gsRunning, gsLives, gsBound, gsTracker>>

GsNext ==
  \/ GsStart \/ GsStopStarts \/ CancelAll \/ GsDrain \/ GsStopEnds
  \/ \E c \in GsCalls :
       \/ \E m \in GsMethods[c] : handleStreamMethod(c, m)
       \/ handleUnary(c) \/ applyDelayWithContext(c) \/ buildResponse(c) \/ Register(c)
       \/ handleBidirectionalStreaming(c) \/ recvMsgCtx(c) \/ GsEOF(c) \/ handleServerStreaming(c)
       \/ GsReply(c) \/ GsPause(c) \/ Unregister(c) \/ GsCount(c) \/ GsClientGone(c)
       \/ GsAdminCancel(c) \/ GsKill(c) \/ GsCancelOne(c)

-----------------------------------------------------------------------------
(* Properties *)

\* A marked stream is a tracked one, whatever cancels it while it ends by itself, and the
\* tracker holds the streams whose handlers run.
GsTypeOK ==
  /\ gsAdmin \subseteq gsStreams /\ gsStop.ids \subseteq GsCalls
  /\ gsStreams = {c \in GsCalls : gsCall[c].pc \notin {"new", "start", "count", "done"} /\ GsIsStream(c)}
  /\ gsRunning \in 0 .. gsLives /\ gsBound \subseteq 1 .. gsLives

\* When Stop has returned its port is free, and no call goes on with a live context.
GsStopReleases ==
  gsStop.pc = "returned" => gsStop.life \notin gsBound /\ \A c \in GsOpen(gsStop.life) : gsCall[c].gone

\* A stream the admin API or Stop ended says so: it is reported as cancelled by its client
\* only when the client is gone.
GsAdminReported == \A c \in GsCalls : gsCall[c].status = "CANCELED" => gsCall[c].gone

\* Every call of a known method is logged once, whatever ends it.  A stream that ended OK
\* sent all its responses, a bidirectional one a response for every message; the totals
\* count each message of a stream that is gone once.
GsAnswered ==
  /\ LET ended == {c \in GsCalls : gsCall[c].pc = "done" /\ GsIsStream(c)} IN
     gsTotalSent = MapThenSumSet(LAMBDA c : gsCall[c].sent, ended)
  /\ \A c \in GsCalls : LET call == gsCall[c] IN call.pc \in {"unregister", "count", "done"} =>
       /\ call.method.kind # "unknown" => call.logged = 1
       /\ call.status = "OK" =>
            call.sent = CASE call.method.kind = "bidi" -> call.got
                          [] call.method.kind = "server" -> GsVariant(c).responses
                          [] OTHER -> 1

=============================================================================
