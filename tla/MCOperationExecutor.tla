------------------------- MODULE MCOperationExecutor -------------------------
(***************************************************************************)
(* Instances of OperationExecutor for TLC.  In the passing run a behaviour *)
(* is about two requests for operations, or about one and plain requests   *)
(* that come in between.                                                   *)
(***************************************************************************)
EXTENDS OperationExecutor, TLC

VARIABLE crowd    \* "operations" or "clients": who runs beside an operation

\* One item or two, which is beyond the limit for clients
MCSeedLists == {<<[id |-> 1, val |-> "a"]>>, <<[id |-> 2, val |-> "a"], [id |-> 1, val |-> "b"]>>}

Symmetry == Permutations(Requests)

MCInit == Init /\ crowd \in {"operations", "clients"}

MCNext ==
  /\ UNCHANGED crowd
  /\ \/ crowd = "operations" /\ \E p \in Requests : ExecuteStep(p)
     \/ crowd = "clients" /\ Next /\ \E p \in Requests : \A q \in Requests \ {p} : op'[q] = NotBegun

MCSpec == MCInit /\ [][MCNext]_<<execVars, crowd>>

=============================================================================
