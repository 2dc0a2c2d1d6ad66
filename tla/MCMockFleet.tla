---------------------------- MODULE MCMockFleet ----------------------------
(* Instances of MockFleet for TLC. *)
EXTENDS MockFleet, TLC

VARIABLE mode    \* what a behaviour explores: overlapping requests, or the registry

Symmetry == Permutations(Reqs)
OneWorkspace == [id \in MockIDs |-> "local"]
TwoWorkspaces == [id \in MockIDs |-> IF id = 1 THEN "local" ELSE "other"]
OneType == [id \in MockIDs |-> "grpc"]

ManyMocks == {"deleteAll", "bulk", "import", "importReplace"}

MCFleetInit == FleetInit /\ mode \in {"overlap", "registry"}

\* Two requests that overlap, on one mock each, without faults; or one request of any
\* kind beside the registry, with faults
MCFleetNext ==
  /\ mode' = mode
  /\ \/ /\ mode = "overlap"
        /\ \E r \in Reqs : Handle(r) /\ faults' = 0 /\ req'[r].op \notin ManyMocks
     \/ /\ mode = "registry"
        /\ Registry \/ \E r \in Reqs : (Active(r) \/ sent = 0) /\ Handle(r)

MCFleetSpec == MCFleetInit /\ [][MCFleetNext]_<<fleetVars, mode>>

MCFleetFairSpec == MCFleetSpec /\ FleetFairness

=============================================================================
