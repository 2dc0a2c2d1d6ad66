-------------------------- MODULE MCStreamRecordings --------------------------
(* An instance of StreamRecordings for TLC: one recorded connection, two requests. *)
EXTENDS StreamRecordings, TLC

MCProtos == "c1" :> "websocket"

RsSpec == RsInit /\ [][RsNext]_rsVars

=============================================================================
