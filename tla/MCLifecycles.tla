----------------------------- MODULE MCLifecycles -----------------------------
(* Instances, for TLC, of the components that start, stop and must come to an   *)
(* end: the engine's servers, the MQTT broker, the tunnels, the CLI's processes, *)
(* the circuit breaker, and the stateful tables.                                *)
(* They share no state here, so a behaviour is one component's alone.           *)
EXTENDS StatefulResource, CircuitBreaker, MqttBroker, CliProcesses, Tunnels,
        EngineServer, TLC

VARIABLE lcActive   \* the component this behaviour is about

-----------------------------------------------------------------------------
(* Constants *)

\* Every seed list of at most three entries, with and without IDs
MCSeedLists ==
  UNION {[1 .. n -> [id : {0, 1, 3}, val : {"seed"}]] : n \in 0 .. 3}

\* Thresholds of one and more, with and without tripAfter and synthetic errors
MCConfigs ==
  [FailureThreshold : {1, 3}, SuccessThreshold : 1 .. 3, OpenDuration : {1, 3},
   TripAfter : {0, 1, 3}, ClosedErrorRate : {"zero", "some", "one"},
   HalfOpenErrorRate : {"zero", "some", "one"}]

MCPublishes == {<<"cmd">>, <<"cmd", "response">>}
MCResponses ==
  {[kind |-> "plain", trigger |-> <<"cmd", "#">>, topic |-> <<>>],
   [kind |-> "conditional", trigger |-> <<"cmd", "+">>, topic |-> <<"cmd">>]}
MCTopics == {[topic |-> <<"cmd", "response">>, forward |-> <<"log">>, respond |-> FALSE]}
MCLoops == {[topic |-> <<"cmd">>, repeat |-> TRUE]}
MCUsers ==
  <<[name |-> "alice", acl |-> <<[topic |-> <<"cmd", "+">>, access |-> "write"],
                                 [topic |-> <<"#">>, access |-> "readwrite"]>>],
    [name |-> "bob", acl |-> <<[topic |-> <<"cmd">>, access |-> "read"],
                               [topic |-> <<"#">>, access |-> "all"]>>]>>

MCExposes ==
  {[mode |-> "all", include |-> {}, types |-> {}, exclude |-> {"f"}],
   [mode |-> "selected", include |-> {"w"}, types |-> {"http"}, exclude |-> {}]}
MCMocks ==
  {[id |-> "m", ws |-> "w", folder |-> "f", type |-> "http"],
   [id |-> "n", ws |-> "v", folder |-> "", type |-> "mqtt"]}

MCStatic == <<"grpc", "mqtt">>
MCDynamic == {[id |-> "d1", port |-> 1], [id |-> "d2", port |-> 1]}

-----------------------------------------------------------------------------
(* Specification *)

lcVars == <<lcActive, resourceVars, vars, mqVars, tpVars, cpVars, tnVars, tbVars, taVars, esVars>>

\* The seed and the breaker's configuration vary in their own behaviours only
LcInit ==
  /\ lcActive \in {"resource", "breaker", "broker", "panel", "processes",
                   "tunnel", "bridge", "exposure", "engine"}
  /\ ResourceInit /\ (lcActive # "resource" => \A n \in Names : seed[n] = <<>>)
  /\ Init /\ (lcActive # "breaker" => config = CHOOSE c \in Configs : TRUE)
  /\ MqInit /\ TpInit /\ CpInit /\ TnInit /\ TbInit /\ TaInit /\ EsInit

LcNext ==
  /\ UNCHANGED lcActive
  /\ IF lcActive = "resource" THEN ResourceNext ELSE UNCHANGED resourceVars
  /\ IF lcActive = "breaker" THEN Next ELSE UNCHANGED vars
  /\ IF lcActive = "broker" THEN MqNext ELSE UNCHANGED mqVars
  /\ IF lcActive = "panel" THEN TpNext ELSE UNCHANGED tpVars
  /\ IF lcActive = "processes" THEN CpNext ELSE UNCHANGED cpVars
  /\ IF lcActive = "tunnel" THEN TnNext ELSE UNCHANGED tnVars
  /\ IF lcActive = "bridge" THEN TbNext ELSE UNCHANGED tbVars
  /\ IF lcActive = "exposure" THEN TaNext ELSE UNCHANGED taVars
  /\ IF lcActive = "engine" THEN EsNext ELSE UNCHANGED esVars

\* The fair steps are those of the active component.  Time passes and requests keep
\* coming to the breaker; a goroutine that can run does, and a select whose done channel
\* stays closed takes it at last; Stop of the engine goes on, each of its waits ending
\* with its context; a local service closes once it has read the end of its input; a
\* process goes on by itself, except where it waits for a signal.
LcSpec ==
  /\ LcInit /\ [][LcNext]_lcVars
  /\ WF_vars(lcActive = "breaker" /\ Tick) /\ WF_vars(lcActive = "breaker" /\ Handle)
  /\ WF_mqVars(lcActive = "broker" /\ (MqStopSimulator \/ MqStopped))
  /\ WF_mqVars(lcActive = "broker" /\ MqTaskStep)
  /\ \A l \in MqLoops :
       /\ WF_mqVars(lcActive = "broker" /\ runMessageLoop(l))
       /\ SF_mqVars(lcActive = "broker" /\ runMessageLoop(l) /\ mqLoop'[l] = "ended")
  /\ \A p \in CpProcs : WF_cpVars(lcActive = "processes" /\ CpGoesOn(p))
  /\ WF_tbVars(lcActive = "bridge" /\ TbHandler)
  /\ WF_tbVars(lcActive = "bridge" /\ TbCopyIn) /\ WF_tbVars(lcActive = "bridge" /\ TbCopyOut)
  /\ WF_tbVars(lcActive = "bridge" /\ tbConn = "half" /\ TbPeers)
  /\ WF_esVars(lcActive = "engine" /\ EsStopStep)

-----------------------------------------------------------------------------
(* Properties *)

\* The state of every component has its type.
LcTypes ==
  /\ ResourceTypeOK /\ TypeOK /\ MqTypeOK /\ CpTypeOK /\ TnTypeOK /\ EsTypeOK

\* What was taken is given back: a broker topic is marked only while its response is under
\* way; a bridged stream that is done has closed both its ends, and a tunnel command that
\* exits has stopped its parts; a stopped engine leaves no server behind.
LcReleased ==
  MqMarksReleased /\ TbReleased /\ EsStopReleases

\* A mock's response on the broker never sets off a response of its own, and no message
\* is sent to a test-panel listener whose channel is closed.
LcMessages == [][MqNoCascade' /\ TpNoSendOnClosed]_<<mqVars, tpVars>>



\* What must come to an end does: stopping the broker and the engine returns, a process
\* told to end does, a bridged stream ends when the relay has ended it, and an open
\* breaker does not stay open for ever.
LcEnds ==
  MqStopEnds /\ CpShutdownEnds /\ TbEnds /\ EsStopEnds /\ Recovers

=============================================================================
