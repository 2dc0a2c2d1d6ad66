----------------------------- MODULE MqttBroker -----------------------------
(***************************************************************************)
(* An MQTT mock broker (pkg/mqtt): publishes, the mock responses and topic *)
(* handlers that answer them with publishes of their own, the simulator's  *)
(* message loops, and the broker's start and stop.  A second machine, Tp,  *)
(* is the test panel: sessions whose listeners are notified of messages.   *)
(*                                                                         *)
(* The MQTT server is external: it runs OnPublish inside a publish, those  *)
(* of the broker itself included.  Topics and patterns are sequences of    *)
(* levels.  Payloads are left out: a condition on one may hold or not.     *)
(***************************************************************************)
EXTENDS Naturals, Sequences, FiniteSets, Bags

CONSTANTS
  MqPublishes,     \* topics that clients publish on
  MqUsers,         \* auth.users of the configuration, a sequence; <<>> = auth disabled
  MqResponses,     \* mock responses: kind, trigger pattern, topic (<<>> = default)
  MqTopicConfigs,  \* topics of the configuration: topic, forward (<<>> = none), respond
  MqLoops,         \* simulated messages: topic, repeat
  MqMaxPublishes,  \* bound: publishes of clients
  MqMaxTasks       \* bound: goroutines at work when a loop publishes again

VARIABLES
  mqRun,       \* the broker: running, lock b.mu, where Stop is, the simulator's done
  mqLoop,      \* loop -> where its goroutine is
  mqMarked,    \* mockResponseTopics
  mqTasks,     \* bag of the goroutines that will publish
  mqSent       \* number of publishes of clients

mqVars == <<mqRun, mqLoop, mqMarked, mqTasks, mqSent>>

MqInit ==
  /\ mqRun = [running |-> FALSE, mu |-> "free", stop |-> "none", done |-> FALSE]
  /\ mqLoop = [l \in MqLoops |-> "off"]
  /\ mqMarked = {} /\ mqTasks = EmptyBag /\ mqSent = 0

-----------------------------------------------------------------------------
(* Topics and permissions *)

\* "#" matches what remains, as the last level only; "+" matches one level
matchTopic(pattern, topic) ==
  LET same(n) == \A i \in 1 .. n : pattern[i] \in {"+", topic[i]}
      hash == {i \in DOMAIN pattern : pattern[i] = "#"} IN
  IF hash = {} THEN Len(pattern) = Len(topic) /\ same(Len(pattern))
  ELSE hash = {Len(pattern)} /\ Len(topic) >= Len(pattern) - 1 /\ same(Len(pattern) - 1)

checkAccess(access, write) ==
  \/ access \in {"readwrite", "all"}
  \/ access \in {"read", "subscribe"} /\ ~write
  \/ access \in {"write", "publish"} /\ write

MqRules(user, topic) == {i \in DOMAIN user.acl : matchTopic(user.acl[i].topic, topic)}
MqAllowed(user, topic, write) ==
  \A i \in MqRules(user, topic) : checkAccess(user.acl[i].access, write)
MqEntries(name) == {i \in DOMAIN MqUsers : MqUsers[i].name = name}

\* The first entry of the user that has no rules or one for the topic decides
OnACLCheck(name, topic, write) ==
  \/ MqUsers = <<>>
  \/ \E i \in MqEntries(name) :
       /\ MqAllowed(MqUsers[i], topic, write)
       /\ MqUsers[i].acl = <<>> \/ MqRules(MqUsers[i], topic) # {}
       /\ \A j \in MqEntries(name) :
            j < i => MqUsers[j].acl # <<>> /\ MqRules(MqUsers[j], topic) = {}

\* The user's first entry decides
checkPublishACL(name, topic) ==
  \/ MqUsers = <<>>
  \/ \E i \in MqEntries(name) :
       /\ \A j \in MqEntries(name) : j >= i
       /\ MqAllowed(MqUsers[i], topic, TRUE)
       /\ MqUsers[i].acl = <<>> \/ MqRules(MqUsers[i], topic) # {}

-----------------------------------------------------------------------------
(* OnPublish: the goroutines that a publish starts *)

\* executeResponse: an empty response topic is the trigger's with a level added
MqResponseTopic(r, topic) == IF r.topic = <<>> THEN Append(topic, "response") ELSE r.topic

MqTask(kind, topic, by) == [kind |-> kind, topic |-> topic, by |-> by, pc |-> "new"]

\* A bag of one goroutine for each element of S, topics and all
MqGo(S, task(_)) ==
  LET made == {task(s) : s \in S} IN
  [t \in made |-> Cardinality({s \in S : task(s) = t})]

MqTriggered(kind, topic) ==
  {r \in MqResponses : r.kind = kind /\ matchTopic(r.trigger, topic)}

\* ConditionalResponseHandler.HandlePublish: the first conditional response of
\* which a rule holds, or which has a default, answers
conditionalHandled(topic) == {{}} \cup {{r} : r \in MqTriggered("conditional", topic)}

\* Mock responses to a publish, with what the conditional ones made of it
MqRespond(topic, by, fired) ==
  IF topic \in mqMarked THEN EmptyBag
  ELSE MqGo(IF fired # {} THEN fired ELSE MqTriggered("plain", topic),
            LAMBDA r : MqTask("respond", MqResponseTopic(r, topic), by))

\* Handlers of the topic configurations; a response goes to the topic itself
MqHandlers(topic, by) ==
  LET hits == {tc \in MqTopicConfigs : matchTopic(tc.topic, topic)} IN
  MqGo({tc \in hits : tc.forward # <<>>}, LAMBDA tc : MqTask("forward", tc.forward, by))
    (+) MqGo({tc \in hits : tc.respond}, LAMBDA tc : MqTask("handler", topic, by))

\* b.mu is taken for reading on the way, to notify the internal subscribers
OnPublish(topic, by, rest) ==
  /\ mqRun.mu = "free"
  /\ \E fired \in conditionalHandled(topic) :
       mqTasks' = rest (+) MqRespond(topic, by, fired) (+) MqHandlers(topic, by)

\* Broker.Publish: an error when the broker does not run
MqPublish(topic, by, rest) ==
  /\ mqRun.mu = "free"
  /\ IF mqRun.running THEN OnPublish(topic, by, rest) ELSE mqTasks' = rest

\* A client's publish, which the server lets through after OnACLCheck
MqClientPublish(topic, name) ==
  /\ mqRun.running /\ mqRun.stop \in {"none", "lock", "sim"} /\ mqSent < MqMaxPublishes
  /\ OnACLCheck(name, topic, TRUE) /\ checkPublishACL(name, topic)
  /\ mqSent' = mqSent + 1
  /\ OnPublish(topic, "client", mqTasks)
  /\ UNCHANGED <<mqRun, mqLoop, mqMarked>>

-----------------------------------------------------------------------------
(* The goroutines *)

MqMove(t, pc) == mqTasks' = (mqTasks (-) SetToBag({t})) (+) SetToBag({[t EXCEPT !.pc = pc]})
MqEnd(t) == mqTasks' = mqTasks (-) SetToBag({t})
MqIs(t, kind, pc) == t.kind = kind /\ t.pc = pc

\* executeResponse after its delay: markMockResponseTopic, or give up
markMockResponseTopic(t) ==
  /\ MqIs(t, "respond", "new")
  /\ IF t.topic \in mqMarked THEN MqEnd(t) /\ UNCHANGED mqMarked
     ELSE MqMove(t, "marked") /\ mqMarked' = mqMarked \cup {t.topic}
  /\ UNCHANGED <<mqRun, mqLoop, mqSent>>

\* Mutant: the mark is dropped as soon as the publish is under way
MqResponseUnmarked(t) ==
  /\ MqIs(t, "respond", "marked")
  /\ \E fired \in conditionalHandled(t.topic) :
       mqTasks' = (mqTasks (-) SetToBag({t})) (+) SetToBag({[t EXCEPT !.pc = "published"]})
                   (+) MqGo(fired, LAMBDA r : MqTask("respond", MqResponseTopic(r, t.topic), "respond"))
  /\ UNCHANGED <<mqRun, mqLoop, mqMarked, mqSent>>

\* Publish, which runs OnPublish with the topic marked
MqResponsePublish(t) ==
  /\ MqIs(t, "respond", "marked")
  /\ MqPublish(t.topic, "respond",
               (mqTasks (-) SetToBag({t})) (+) SetToBag({[t EXCEPT !.pc = "published"]}))
  /\ UNCHANGED <<mqRun, mqLoop, mqMarked, mqSent>>

\* Mutant: unmarked on the way out of a successful publish only
MqUnmarkOnSuccess(t) ==
  /\ MqIs(t, "respond", "published")
  /\ mqMarked' = IF mqRun.running THEN mqMarked \ {t.topic} ELSE mqMarked
  /\ MqEnd(t)
  /\ UNCHANGED <<mqRun, mqLoop, mqSent>>

\* executeResponse returns: unmarkMockResponseTopic is deferred
unmarkMockResponseTopic(t) ==
  /\ MqIs(t, "respond", "published")
  /\ mqMarked' = mqMarked \ {t.topic}
  /\ MqEnd(t)
  /\ UNCHANGED <<mqRun, mqLoop, mqSent>>

\* Forwards and responses of topic configurations
MqHandlerPublish(t) ==
  /\ t.kind \in {"forward", "handler"}
  /\ MqPublish(t.topic, t.kind, mqTasks (-) SetToBag({t}))
  /\ UNCHANGED <<mqRun, mqLoop, mqMarked, mqSent>>

MqTaskStep ==
  \E t \in BagToSet(mqTasks) :
    \/ markMockResponseTopic(t) \/ MqResponsePublish(t)
    \/ unmarkMockResponseTopic(t) \/ MqHandlerPublish(t)

-----------------------------------------------------------------------------
(* The simulator *)

MqLoopGoto(l, pc) == mqLoop' = [mqLoop EXCEPT ![l] = pc]

\* runMessageLoop, runDevice, runGenerator: wait for the delay or for done, publish,
\* and again at every tick.  When both are ready, select takes either.
runMessageLoop(l) ==
  \/ /\ mqLoop[l] \in {"delay", "tick"}
     /\ \/ MqLoopGoto(l, "publish") /\ BagCardinality(mqTasks) < MqMaxTasks
        \/ mqRun.done /\ MqLoopGoto(l, "ended")
     /\ UNCHANGED <<mqRun, mqMarked, mqTasks, mqSent>>
  \/ /\ mqLoop[l] = "publish"
     /\ MqLoopGoto(l, IF l.repeat THEN "tick" ELSE "ended")
     /\ MqPublish(l.topic, "loop", mqTasks)
     /\ UNCHANGED <<mqRun, mqMarked, mqSent>>

-----------------------------------------------------------------------------
(* Start and Stop *)

\* Start under b.mu, the simulator's goroutines included; a listener that cannot be
\* added changes nothing
MqStart ==
  /\ ~mqRun.running /\ mqRun.stop = "none"
  /\ mqRun' = [mqRun EXCEPT !.running = TRUE]
  /\ mqLoop' = [l \in MqLoops |-> "delay"]
  /\ UNCHANGED <<mqMarked, mqTasks, mqSent>>

\* Stop takes b.mu and takes the simulator away
MqStop ==
  /\ mqRun.running /\ mqRun.stop = "none" /\ mqRun.mu = "free"
  /\ mqRun' = [mqRun EXCEPT !.stop = "lock", !.mu = "stop"]
  /\ UNCHANGED <<mqLoop, mqMarked, mqTasks, mqSent>>

\* Mutant: simulator.Stop is called with b.mu held
MqStopSimulatorLocked ==
  /\ mqRun.stop = "lock"
  /\ mqRun' = [mqRun EXCEPT !.stop = "sim", !.done = TRUE]
  /\ UNCHANGED <<mqLoop, mqMarked, mqTasks, mqSent>>

\* b.mu is released, and simulator.Stop closes done
MqStopSimulator ==
  /\ mqRun.stop = "lock"
  /\ mqRun' = [mqRun EXCEPT !.stop = "sim", !.mu = "free", !.done = TRUE]
  /\ UNCHANGED <<mqLoop, mqMarked, mqTasks, mqSent>>

\* The loops have ended; server.Close returns or times out; running = false
MqStopped ==
  /\ mqRun.stop = "sim" /\ \A l \in MqLoops : mqLoop[l] = "ended"
  /\ mqRun' = [mqRun EXCEPT !.stop = "stopped", !.mu = "free", !.running = FALSE]
  /\ UNCHANGED <<mqLoop, mqMarked, mqTasks, mqSent>>

MqNext ==
  \/ MqStart \/ MqStop \/ MqStopSimulator \/ MqStopped \/ MqTaskStep
  \/ \E l \in MqLoops : runMessageLoop(l)
  \/ \E topic \in MqPublishes, name \in {MqUsers[i].name : i \in DOMAIN MqUsers} :
       MqClientPublish(topic, name)

-----------------------------------------------------------------------------
(* Properties *)

\* The goroutines and the broker have their types.
MqTypeOK ==
  /\ mqRun \in [running : BOOLEAN, mu : {"free", "stop"}, done : BOOLEAN,
                stop : {"none", "lock", "sim", "stopped"}]
  /\ mqLoop \in [MqLoops -> {"off", "delay", "publish", "tick", "ended"}]
  /\ \A t \in BagToSet(mqTasks) :
       t.kind \in {"respond", "forward", "handler"} /\ t.pc \in {"new", "marked", "published"}

\* "Skip mock response handling if this topic is currently being published as a mock
\* response (prevents infinite loops)": no mock response answers a mock response,
\* whatever patterns the responses have and however many are under way.
MqNoCascade ==
  \A t \in BagToSet(mqTasks) : t.kind = "respond" => t.by # "respond"

\* A topic stays marked only as long as its response is under way, also when the
\* broker stops in between: a mark left behind would silence the topic for ever.
MqMarksReleased ==
  mqMarked = {t.topic : t \in {u \in BagToSet(mqTasks) : u.pc \in {"marked", "published"}}}

\* Stop ends, however the loops and the responses interleave with it: "holding the
\* write lock here would deadlock".
MqStopEnds == (mqRun.stop = "lock") ~> (mqRun.stop = "stopped")

-----------------------------------------------------------------------------
(* The test panel *)

CONSTANTS
  TpSessions,   \* session IDs, for one broker
  TpChannels,   \* channels that Subscribe makes
  TpNotes       \* bound: messages

VARIABLES
  tpTable,    \* session -> "none" yet, "live" in m.sessions, or "deleted"
  tpSession,  \* session -> its listeners, also once it is deleted
  tpClosed,   \* closed channels
  tpNotify,   \* the sessions that each NotifyMessage still has to visit
  tpSent      \* auxiliary: channels that a message was offered to, closed or not

tpVars == <<tpTable, tpSession, tpClosed, tpNotify, tpSent>>

TpInit ==
  /\ tpTable = [s \in TpSessions |-> "none"] /\ tpSession = [s \in TpSessions |-> {}]
  /\ tpClosed = {} /\ tpNotify = <<>> /\ tpSent = {}

TpUsed == tpClosed \cup UNION {tpSession[s] : s \in TpSessions}

CreateSession(s) ==
  /\ tpTable[s] = "none"
  /\ tpTable' = [tpTable EXCEPT ![s] = "live"]
  /\ UNCHANGED <<tpSession, tpClosed, tpNotify, tpSent>>

\* GetSession, then Subscribe on the session, which may be deleted by then
TpSubscribe(s) ==
  /\ tpTable[s] # "none"
  /\ \E ch \in TpChannels \ TpUsed : tpSession' = [tpSession EXCEPT ![s] = @ \cup {ch}]
  /\ UNCHANGED <<tpTable, tpClosed, tpNotify, tpSent>>

TpUnsubscribe(s, ch) ==
  /\ ch \in tpSession[s]
  /\ tpSession' = [tpSession EXCEPT ![s] = @ \ {ch}]
  /\ tpClosed' = tpClosed \cup {ch}
  /\ UNCHANGED <<tpTable, tpNotify, tpSent>>

\* Mutant: the deleted session keeps its listeners
DeleteKeepsListeners(s) ==
  /\ tpTable[s] = "live"
  /\ tpTable' = [tpTable EXCEPT ![s] = "deleted"]
  /\ tpClosed' = tpClosed \cup tpSession[s]
  /\ UNCHANGED <<tpSession, tpNotify, tpSent>>

\* DeleteSession, and CleanupStaleSessions for one stale session
DeleteSession(s) ==
  /\ tpTable[s] = "live"
  /\ tpTable' = [tpTable EXCEPT ![s] = "deleted"]
  /\ tpClosed' = tpClosed \cup tpSession[s]
  /\ tpSession' = [tpSession EXCEPT ![s] = {}]
  /\ UNCHANGED <<tpNotify, tpSent>>

\* NotifyMessage collects the sessions with the manager locked ...
NotifyMessage ==
  /\ Len(tpNotify) < TpNotes
  /\ tpNotify' = Append(tpNotify, {s \in TpSessions : tpTable[s] = "live"})
  /\ UNCHANGED <<tpTable, tpSession, tpClosed, tpSent>>

\* ... and adds the message to each of them without: AddMessage sends to the listeners
TpAddMessage(i, s) ==
  /\ s \in tpNotify[i]
  /\ tpNotify' = [tpNotify EXCEPT ![i] = @ \ {s}]
  /\ tpSent' = tpSession[s]
  /\ UNCHANGED <<tpTable, tpSession, tpClosed>>

TpNext ==
  \/ NotifyMessage
  \/ \E s \in TpSessions :
       \/ CreateSession(s) \/ TpSubscribe(s) \/ DeleteSession(s)
       \/ \E ch \in TpChannels : TpUnsubscribe(s, ch)
       \/ \E i \in DOMAIN tpNotify : TpAddMessage(i, s)

\* A message goes to a session that was deleted since it was looked up, never to a
\* channel that is closed, which would panic.
TpNoSendOnClosed == tpSent' # tpSent => tpSent' \cap tpClosed = {}

=============================================================================
