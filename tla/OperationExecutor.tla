-------------------------- MODULE OperationExecutor --------------------------
(***************************************************************************)
(* Custom operations (pkg/stateful/executor.go): a request runs a list of  *)
(* steps against the resources, holding a resource's mutex for each access *)
(* only.  In "atomic" mode a journal keeps every item as it was before the *)
(* operation first touched it, and when a step fails the journal is        *)
(* restored, item by item, in reverse order.  Other operations and plain   *)
(* CRUD requests run in between.                                           *)
(*                                                                         *)
(* The steps of an operation are chosen as it runs, so every program of at *)
(* most MaxSteps steps is covered.  Expressions are not evaluated: one     *)
(* that can fail may fail, one that yields an ID or a value may yield any. *)
(***************************************************************************)
EXTENDS StatefulResource

CONSTANTS
  Requests,   \* requests for a custom operation
  Clients,    \* who sends plain CRUD, clear and reset requests
  MaxSteps    \* bound: steps of an operation

ASSUME ExecutorAssumption == MaxSteps \in Nat /\ Clients \cap Requests = {}

VARIABLES
  op,        \* request -> its activation of Execute
  start,     \* auxiliary: request -> the items when its atomic operation began
  foreign    \* auxiliary: request -> keys that others wrote since then

opAux == <<start, foreign>>
execVars == <<resourceVars, op, opAux>>

\* An activation: where it is, its rollbackJournal, the item that its update or
\* delete step is about to change, and the status it returned
NotBegun == [pc |-> "idle", atomic |-> FALSE, steps |-> 0, journal |-> <<>>,
             target |-> <<>>, status |-> "none"]

Init ==
  /\ ResourceInit
  /\ op = [p \in Requests |-> NotBegun]
  /\ start = [p \in Requests |-> [n \in Names |-> Empty]]
  /\ foreign = [p \in Requests |-> {}]

\* Whoever wrote the keys, they are foreign to all the other atomic operations
Wrote(writer, keys) ==
  /\ foreign' = [p \in Requests |-> IF op[p].atomic /\ p # writer
                                      THEN foreign[p] \cup keys ELSE foreign[p]]
  /\ UNCHANGED start

-----------------------------------------------------------------------------
(* Plain requests *)

ClientCreate(c, n, id, v) ==
  /\ Create(n, id, v)
  /\ Wrote(c, {<<n, CreateID(n, id)>>})
  /\ UNCHANGED op

ClientWrite(c, n, id) ==
  /\ Delete(n, id) \/ \E v \in Vals : Update(n, id, v)
  /\ Wrote(c, {<<n, id>>})
  /\ UNCHANGED op

ClientClear(c, n) ==
  /\ Clear(n) \/ Reset(n)
  /\ Wrote(c, {n} \X IDs)
  /\ UNCHANGED op

-----------------------------------------------------------------------------
(* Execute *)

Begin(p) ==
  /\ op[p].pc = "idle"
  /\ \E atomic \in BOOLEAN :
       op' = [op EXCEPT ![p] = [NotBegun EXCEPT !.pc = "run", !.atomic = atomic]]
  /\ start' = IF op'[p].atomic THEN [start EXCEPT ![p] = items] ELSE start
  /\ UNCHANGED <<resourceVars, foreign>>

CanStep(p) == op[p].pc = "run" /\ op[p].steps < MaxSteps

Advance(p) == op' = [op EXCEPT ![p].pc = "run", ![p].steps = @ + 1, ![p].target = <<>>]

\* Execute returns, and its locals are gone
Return(p, status) ==
  op' = [op EXCEPT ![p] = [NotBegun EXCEPT !.pc = "done", !.status = status,
                                           !.atomic = op[p].atomic]]

\* The step returned an error, which ends the operation; a journal is rolled back
Fail(p) ==
  IF op[p].atomic THEN op' = [op EXCEPT ![p].pc = "rollback"] ELSE Return(p, "stepError")

\* read, list, set and validate steps change no resource
StepPure(p) ==
  /\ CanStep(p)
  /\ Advance(p)
  /\ UNCHANGED <<resourceVars, opAux>>

\* Any step may fail before it touches an item: an expression or a validation
\* fails, the resource or the item to read is missing, a create finds no room
StepFails(p) ==
  /\ CanStep(p)
  /\ Fail(p)
  /\ UNCHANGED <<resourceVars, opAux>>

Journaled(p, key) == \E e \in Range(op[p].journal) : e.key = key

Last(s)  == s[Len(s)]
Front(s) == SubSeq(s, 1, Len(s) - 1)

\* Mutant: the last state recorded for an item wins
RecordAgain(p, key, before) ==
  IF op[p].atomic
    THEN Append(SelectSeq(op[p].journal, LAMBDA e : e.key # key),
                [key |-> key, before |-> before])
    ELSE op[p].journal

\* RecordBefore, RecordCreate: only the first state recorded for an item counts
Record(p, key, before) ==
  IF op[p].atomic /\ ~Journaled(p, key)
    THEN Append(op[p].journal, [key |-> key, before |-> before])
    ELSE op[p].journal

\* First half of an update or delete step, up to RecordBefore
StepRecord(p, kind, n, id) ==
  /\ CanStep(p)
  /\ op' = [op EXCEPT ![p].pc = kind, ![p].target = <<n, id>>,
                      ![p].journal = Record(p, <<n, id>>, items[n][id])]
  /\ UNCHANGED <<resourceVars, opAux>>

\* Second half of an update step: evaluate the fields, Patch
StepPatch(p) ==
  /\ op[p].pc = "update"
  /\ LET n == op[p].target[1]  id == op[p].target[2] IN
     \/ \E v \in Vals : Update(n, id, v) /\ Wrote(p, {<<n, id>>}) /\ Advance(p)
     \/ Fail(p) /\ UNCHANGED <<resourceVars, opAux>>

\* Second half of a delete step
StepDelete(p) ==
  /\ op[p].pc = "delete"
  /\ LET n == op[p].target[1]  id == op[p].target[2] IN
     \/ Delete(n, id) /\ Wrote(p, {<<n, id>>}) /\ Advance(p)
     \/ items[n][id] = NoItem /\ Fail(p) /\ UNCHANGED <<resourceVars, opAux>>

\* Mutant: RecordCreate is given the ID of the payload
StepCreateRecordsPayload(p, n, id, v) ==
  /\ CanStep(p)
  /\ Create(n, id, v)
  /\ IF CreateOK(n, id)
       THEN /\ op' = [op EXCEPT ![p].steps = @ + 1,
                                ![p].journal = Record(p, <<n, id>>, NoItem)]
            /\ Wrote(p, {<<n, CreateID(n, id)>>})
       ELSE Fail(p) /\ UNCHANGED opAux

\* A create step: Create, then RecordCreate with the ID that it used.  A
\* duplicate ID fails the step, and a generated one is used up all the same.
StepCreate(p, n, id, v) ==
  /\ CanStep(p)
  /\ Create(n, id, v)
  /\ IF CreateOK(n, id)
       THEN /\ op' = [op EXCEPT ![p].steps = @ + 1,
                                ![p].journal = Record(p, <<n, CreateID(n, id)>>, NoItem)]
            /\ Wrote(p, {<<n, CreateID(n, id)>>})
       ELSE Fail(p) /\ UNCHANGED opAux

\* Mutant: an item is put back only where there is room for it
RestoreWithinLimit(p) ==
  /\ op[p].pc = "rollback" /\ op[p].journal # <<>>
  /\ LET e == Last(op[p].journal)  n == e.key[1]  id == e.key[2] IN
       /\ items' = [items EXCEPT ![n][id] = IF Full(n) THEN @ ELSE e.before]
       /\ explicit' = [explicit EXCEPT ![n] = @ \cup {id}]
       /\ Wrote(p, {e.key})
  /\ op' = [op EXCEPT ![p].journal = Front(@)]
  /\ UNCHANGED <<counter, seed, registered>>

\* restoreResourceItem with the last entry left: the item is put back, or
\* deleted, whatever is there now and however many items there are
Restore(p) ==
  /\ op[p].pc = "rollback" /\ op[p].journal # <<>>
  /\ LET e == Last(op[p].journal)  n == e.key[1]  id == e.key[2] IN
       /\ items' = [items EXCEPT ![n][id] = e.before]
       /\ explicit' = [explicit EXCEPT ![n] = @ \cup {id}]
       /\ Wrote(p, {e.key})
  /\ op' = [op EXCEPT ![p].journal = Front(@)]
  /\ UNCHANGED <<counter, seed, registered>>

RolledBack(p) ==
  /\ op[p].pc = "rollback" /\ op[p].journal = <<>>
  /\ Return(p, "stepError")
  /\ UNCHANGED <<resourceVars, opAux>>

\* After the last step the response expressions are evaluated, and may fail;
\* the journal is dropped either way
Respond(p) ==
  /\ op[p].pc = "run"
  /\ \E status \in {"success", "responseError"} : Return(p, status)
  /\ UNCHANGED <<resourceVars, opAux>>

ExecuteStep(p) ==
  \/ Begin(p) \/ StepPure(p) \/ StepFails(p)
  \/ \E kind \in {"update", "delete"}, n \in Names, id \in IDs : StepRecord(p, kind, n, id)
  \/ StepPatch(p) \/ StepDelete(p)
  \/ \E n \in Names, id \in IDs \cup {NoId}, v \in Vals : StepCreate(p, n, id, v)
  \/ Restore(p) \/ RolledBack(p) \/ Respond(p)

Next ==
  \/ \E p \in Requests : ExecuteStep(p)
  \/ \E c \in Clients, n \in Names, id \in IDs \cup {NoId}, v \in Vals :
       ClientCreate(c, n, id, v)
  \/ \E c \in Clients, n \in Names, id \in IDs : ClientWrite(c, n, id)
  \/ \E c \in Clients, n \in Names : ClientClear(c, n)

Spec == Init /\ [][Next]_execVars

-----------------------------------------------------------------------------
(* Properties *)

Keys == Names \X IDs
At(table, key) == table[key[1]][key[2]]

\* Activations, start states and foreign keys have their types.
TypeOK ==
  /\ ResourceTypeOK
  /\ op \in [Requests ->
              [pc : {"idle", "run", "update", "delete", "rollback", "done"},
               atomic : BOOLEAN, steps : 0 .. MaxSteps,
               journal : Seq([key : Keys, before : ItemOrNone]),
               target : Keys \cup {<<>>},
               status : {"none", "stepError", "success", "responseError"}]]
  /\ start \in [Requests -> [Names -> [IDs -> ItemOrNone]]]
  /\ foreign \in [Requests -> SUBSET Keys]

\* When a step of an atomic operation has failed and Execute has returned, every
\* item that nobody else wrote meanwhile is what it was when the operation began:
\* "prior mutations are rolled back on failure".
RollbackRestores ==
  \A p \in Requests :
    op[p].pc = "done" /\ op[p].atomic /\ op[p].status = "stepError" =>
      \A key \in Keys \ foreign[p] : At(items, key) = At(start[p], key)

\* The same of every failure of an atomic operation, a response that cannot be
\* built included: `atomic` is "rollback-on-failure".
FailureLeavesNoTrace ==
  \A p \in Requests :
    op[p].pc = "done" /\ op[p].atomic /\ op[p].status # "success" =>
      \A key \in Keys \ foreign[p] : At(items, key) = At(start[p], key)

=============================================================================
