----------------------- MODULE OperationExecutorProofs -----------------------
(***************************************************************************)
(* For any resources, requests, clients and programs, an atomic operation  *)
(* whose step fails leaves every item that nobody else wrote as it was.    *)
(*                                                                         *)
(* RollbackRestores speaks of operations that have returned.  What makes   *)
(* it inductive is JournalInv, about operations under way: an item that is *)
(* not in the journal has not changed, and what is in the journal is what  *)
(* the operation started from.                                             *)
(***************************************************************************)
EXTENDS OperationExecutor, StatefulResourceProofs, TLAPS

Entries == [key : Keys, before : ItemOrNone]
Activations == [pc : {"idle", "run", "update", "delete", "rollback", "done"},
                atomic : BOOLEAN, steps : Nat, journal : Seq(Entries),
                target : Keys \cup {<<>>},
                status : {"none", "stepError", "success", "responseError"}]

\* The part of TypeOK that the argument needs
Typed ==
  /\ items \in [Names -> [IDs -> ItemOrNone]]
  /\ op \in [Requests -> Activations]
  /\ start \in [Requests -> [Names -> [IDs -> ItemOrNone]]]
  /\ foreign \in [Requests -> SUBSET Keys]

\* The journal of p tells how to get back to the item p started from
Sound(p, key) ==
  /\ \A e \in Range(op[p].journal) : e.key = key => e.before = At(start[p], key)
  /\ ~Journaled(p, key) => At(items, key) = At(start[p], key)

\* p may still have to roll back, or has done so
Revocable(p) == op[p].atomic /\ ~(op[p].pc = "done" /\ op[p].status # "stepError")

JournalInv(p) ==
  /\ Revocable(p) => \A key \in Keys \ foreign[p] : Sound(p, key)
  /\ op[p].pc \in {"update", "delete"} =>
       /\ op[p].target \in Keys
       /\ op[p].atomic => Journaled(p, op[p].target)
  /\ op[p].pc = "done" => op[p].journal = <<>>

RollbackInv == Typed /\ \A p \in Requests : JournalInv(p)

\* j is a journal p may go on with once it has journaled k
Recorded(p, k, j) ==
  /\ j \in Seq(Entries)
  /\ op[p].atomic => \E e \in Range(j) : e.key = k
  /\ Range(op[p].journal) \subseteq Range(j)
  /\ op[p].atomic => \A key \in Keys \ foreign[p] : \A e \in Range(j) :
       e.key = key => e.before = At(start[p], key)

-----------------------------------------------------------------------------
(* Sequences *)

\* What Append adds to the elements of a sequence.
LEMMA AppendRange ==
  ASSUME NEW S, NEW s \in Seq(S), NEW e \in S
  PROVE  /\ Append(s, e) \in Seq(S)
         /\ Range(Append(s, e)) = Range(s) \cup {e}
<1>1. Append(s, e) \in Seq(S)
  OBVIOUS
<1>2. DOMAIN Append(s, e) = 1 .. Len(s) + 1 /\ DOMAIN s = 1 .. Len(s) /\ Len(s) \in Nat
  OBVIOUS
<1>3. \A i \in 1 .. Len(s) : Append(s, e)[i] = s[i]
  OBVIOUS
<1>4. Append(s, e)[Len(s) + 1] = e
  OBVIOUS
<1>5. ASSUME NEW x PROVE x \in Range(Append(s, e)) <=> x \in Range(s) \cup {e}
  <2>1. ASSUME x \in Range(Append(s, e)) PROVE x \in Range(s) \cup {e}
    <3>1. PICK i \in 1 .. Len(s) + 1 : x = Append(s, e)[i]
      BY <2>1, <1>2 DEF Range
    <3>2. CASE i = Len(s) + 1
      BY <3>1, <3>2, <1>4
    <3>3. CASE i # Len(s) + 1
      <4>1. i \in 1 .. Len(s)
        BY <3>3, <1>2
      <4>. QED
        BY <4>1, <3>1, <1>2, <1>3 DEF Range
    <3>. QED
      BY <3>2, <3>3
  <2>2. ASSUME x \in Range(s) PROVE x \in Range(Append(s, e))
    <3>1. PICK i \in 1 .. Len(s) : x = s[i]
      BY <2>2, <1>2 DEF Range
    <3>2. i \in 1 .. Len(s) + 1 /\ x = Append(s, e)[i]
      BY <3>1, <1>2, <1>3
    <3>. QED
      BY <3>2, <1>2 DEF Range
  <2>3. e \in Range(Append(s, e))
    <3>1. Len(s) + 1 \in 1 .. Len(s) + 1
      BY <1>2
    <3>. QED
      BY <3>1, <1>2, <1>4 DEF Range
  <2>. QED
    BY <2>1, <2>2, <2>3
<1>. QED
  BY <1>1, <1>5

\* A sequence that is not empty is its front and its last element.
LEMMA FrontRange ==
  ASSUME NEW S, NEW s \in Seq(S), s # <<>>
  PROVE  /\ Front(s) \in Seq(S) /\ Last(s) \in Range(s) /\ Last(s) \in S
         /\ Range(s) = Range(Front(s)) \cup {Last(s)}
<1>1. Len(s) \in Nat /\ Len(s) > 0 /\ DOMAIN s = 1 .. Len(s)
  OBVIOUS
<1>2. /\ Front(s) \in Seq(S) /\ Len(Front(s)) = Len(s) - 1
      /\ \A i \in 1 .. Len(s) - 1 : Front(s)[i] = s[i]
  BY <1>1 DEF Front
<1>3. DOMAIN Front(s) = 1 .. Len(s) - 1
  BY <1>2
<1>4. Last(s) = s[Len(s)] /\ Len(s) \in 1 .. Len(s)
  BY <1>1 DEF Last
<1>5. Last(s) \in Range(s) /\ Last(s) \in S
  BY <1>1, <1>4 DEF Range
<1>6. ASSUME NEW x PROVE x \in Range(s) <=> x \in Range(Front(s)) \cup {Last(s)}
  <2>1. ASSUME x \in Range(s), x # Last(s) PROVE x \in Range(Front(s))
    <3>1. PICK i \in 1 .. Len(s) : x = s[i]
      BY <2>1, <1>1 DEF Range
    <3>2. i \in 1 .. Len(s) - 1
      BY <3>1, <2>1, <1>4, <1>1
    <3>. QED
      BY <3>1, <3>2, <1>2, <1>3 DEF Range
  <2>2. ASSUME x \in Range(Front(s)) PROVE x \in Range(s)
    <3>1. PICK i \in 1 .. Len(s) - 1 : x = Front(s)[i]
      BY <2>2, <1>3 DEF Range
    <3>2. i \in 1 .. Len(s) /\ x = s[i]
      BY <3>1, <1>1, <1>2
    <3>. QED
      BY <3>2, <1>1 DEF Range
  <2>. QED
    BY <2>1, <2>2, <1>5
<1>. QED
  BY <1>2, <1>5, <1>6

-----------------------------------------------------------------------------
(* What a step does to the operations that do not take it *)

\* The writer's keys become foreign to the others, and keep their type.
LEMMA WroteType ==
  ASSUME Typed, NEW w, NEW K \in SUBSET Keys, Wrote(w, K)
  PROVE  /\ foreign' \in [Requests -> SUBSET Keys]
         /\ start' = start
         /\ \A q \in Requests : q # w /\ op[q].atomic => foreign'[q] = foreign[q] \cup K
         /\ \A q \in Requests : q = w => foreign'[q] = foreign[q]
  BY DEF Typed, Wrote

\* An operation does not mind what others write: it is foreign from then on.
LEMMA OthersStep ==
  ASSUME Typed, NEW q \in Requests, JournalInv(q), op'[q] = op[q], start'[q] = start[q],
         NEW K \in SUBSET Keys,
         \A key \in Keys \ K : At(items, key)' = At(items, key),
         op[q].atomic => foreign'[q] = foreign[q] \cup K
  PROVE  JournalInv(q)'
<1>1. Journaled(q, op[q].target)' = Journaled(q, op[q].target)
  BY DEF Journaled
<1>2. ASSUME Revocable(q), NEW key \in Keys \ foreign'[q]
      PROVE  Sound(q, key)'
  <2>1. key \in Keys \ foreign[q] /\ key \notin K
    BY <1>2 DEF Revocable
  <2>2. Sound(q, key) /\ At(items, key)' = At(items, key)
    BY <2>1, <1>2 DEF JournalInv
  <2>3. At(start[q], key)' = At(start[q], key)
    BY DEF At
  <2>. QED
    BY <2>2, <2>3 DEF Sound, Journaled
<1>3. Revocable(q)' = Revocable(q)
  BY DEF Revocable
<1>. QED
  BY <1>1, <1>2, <1>3 DEF JournalInv

\* A write of one item leaves the others alone.
LEMMA PutItem ==
  ASSUME Typed, NEW n \in Names, NEW id \in IDs, NEW v \in ItemOrNone,
         items' = [items EXCEPT ![n][id] = v]
  PROVE  /\ items' \in [Names -> [IDs -> ItemOrNone]]
         /\ At(items, <<n, id>>)' = v
         /\ \A key \in Keys \ {<<n, id>>} : At(items, key)' = At(items, key)
<1>1. items' \in [Names -> [IDs -> ItemOrNone]]
  BY DEF Typed
<1>2. At(items, <<n, id>>)' = v
  BY DEF Typed, At
<1>3. ASSUME NEW key \in Keys \ {<<n, id>>} PROVE At(items, key)' = At(items, key)
  <2>1. PICK m \in Names, i \in IDs : key = <<m, i>>
    BY DEF Keys
  <2>2. items'[m][i] = items[m][i]
    BY <2>1 DEF Typed
  <2>. QED
    BY <2>1, <2>2 DEF At
<1>. QED
  BY <1>1, <1>2, <1>3

\* Replacing the items of a whole resource, as Clear and Reset do.
LEMMA PutTable ==
  ASSUME Typed, NEW n \in Names, NEW t \in [IDs -> ItemOrNone],
         items' = [items EXCEPT ![n] = t]
  PROVE  /\ items' \in [Names -> [IDs -> ItemOrNone]]
         /\ \A key \in Keys \ ({n} \X IDs) : At(items, key)' = At(items, key)
<1>1. items' \in [Names -> [IDs -> ItemOrNone]]
  BY DEF Typed
<1>2. ASSUME NEW key \in Keys \ ({n} \X IDs) PROVE At(items, key)' = At(items, key)
  <2>1. PICK m \in Names, i \in IDs : key = <<m, i>>
    BY DEF Keys
  <2>2. m # n
    BY <2>1
  <2>. QED
    BY <2>1, <2>2 DEF At, Typed
<1>. QED
  BY <1>1, <1>2

LEMMA SeedItemsType == \A l : SeedItems(l) \in [IDs -> ItemOrNone]
<1>1. ASSUME NEW l, NEW id \in IDs
      PROVE  (IF \E v \in Vals : [id |-> id, val |-> v] \in Range(l)
                THEN CHOOSE v \in Vals : [id |-> id, val |-> v] \in Range(l)
                ELSE NoItem) \in ItemOrNone
  BY DEF ItemOrNone
<1>. QED
  BY <1>1, Zenon DEF SeedItems

\* Create either stores the item under the ID, which was free, or changes none.
LEMMA CreateEffect ==
  ASSUME Typed, NEW n \in Names, NEW id \in IDs \cup {NoId}, NEW v \in Vals, Create(n, id, v)
  PROVE  /\ <<n, CreateID(n, id)>> \in Keys
         /\ items' \in [Names -> [IDs -> ItemOrNone]]
         /\ \A key \in Keys \ {<<n, CreateID(n, id)>>} : At(items, key)' = At(items, key)
         /\ CreateOK(n, id) => At(items, <<n, CreateID(n, id)>>) = NoItem
         /\ ~CreateOK(n, id) => items' = items
<1>. DEFINE new == CreateID(n, id)
<1>1. new \in IDs
  BY DEF Create
<1>2. <<n, new>> \in Keys
  BY <1>1 DEF Keys
<1>3. CASE CreateOK(n, id)
  <2>1. items' = [items EXCEPT ![n][new] = v]
    BY <1>3 DEF Create
  <2>2. v \in ItemOrNone
    BY DEF ItemOrNone
  <2>3. At(items, <<n, new>>) = NoItem
    BY <1>3 DEF CreateOK, At
  <2>4. /\ items' \in [Names -> [IDs -> ItemOrNone]]
        /\ \A key \in Keys \ {<<n, new>>} : At(items, key)' = At(items, key)
    <3>. HIDE DEF new
    <3>. QED
      BY <1>1, <2>1, <2>2, PutItem
  <2>. QED
    BY <1>2, <1>3, <2>3, <2>4
<1>4. CASE ~CreateOK(n, id)
  <2>1. items' = items
    BY <1>4 DEF Create
  <2>. QED
    BY <1>2, <1>4, <2>1 DEF Typed, At
<1>. QED
  BY <1>3, <1>4

-----------------------------------------------------------------------------
(* Clients *)

\* A plain request preserves the invariant.
LEMMA ClientStep ==
  ASSUME RollbackInv, ExecutorAssumption, NEW c \in Clients, NEW n \in Names,
         \/ \E id \in IDs \cup {NoId}, v \in Vals : ClientCreate(c, n, id, v)
         \/ \E id \in IDs : ClientWrite(c, n, id)
         \/ ClientClear(c, n)
  PROVE  RollbackInv'
<1>. USE DEF RollbackInv
<1>1. op' = op /\ c \notin Requests
  BY DEF ClientCreate, ClientWrite, ClientClear, ExecutorAssumption
<1>2. PICK K \in SUBSET Keys :
        /\ Wrote(c, K)
        /\ items' \in [Names -> [IDs -> ItemOrNone]]
        /\ \A key \in Keys \ K : At(items, key)' = At(items, key)
  <2>1. ASSUME NEW id \in IDs \cup {NoId}, NEW v \in Vals, ClientCreate(c, n, id, v)
        PROVE  \E K \in SUBSET Keys :
                 /\ Wrote(c, K)
                 /\ items' \in [Names -> [IDs -> ItemOrNone]]
                 /\ \A key \in Keys \ K : At(items, key)' = At(items, key)
    <3>1. Create(n, id, v) /\ Wrote(c, {<<n, CreateID(n, id)>>})
      BY <2>1 DEF ClientCreate
    <3>. QED
      BY <3>1, CreateEffect
  <2>2. ASSUME NEW id \in IDs, ClientWrite(c, n, id)
        PROVE  \E K \in SUBSET Keys :
                 /\ Wrote(c, K)
                 /\ items' \in [Names -> [IDs -> ItemOrNone]]
                 /\ \A key \in Keys \ K : At(items, key)' = At(items, key)
    <3>1. PICK v \in ItemOrNone : items' = [items EXCEPT ![n][id] = v]
      BY <2>2 DEF ClientWrite, Delete, Update, ItemOrNone
    <3>2. Wrote(c, {<<n, id>>}) /\ {<<n, id>>} \in SUBSET Keys
      BY <2>2 DEF ClientWrite, Keys
    <3>. QED
      BY <3>1, <3>2, PutItem
  <2>3. ASSUME ClientClear(c, n)
        PROVE  \E K \in SUBSET Keys :
                 /\ Wrote(c, K)
                 /\ items' \in [Names -> [IDs -> ItemOrNone]]
                 /\ \A key \in Keys \ K : At(items, key)' = At(items, key)
    <3>1. PICK t \in [IDs -> ItemOrNone] : items' = [items EXCEPT ![n] = t]
      <4>1. Empty \in [IDs -> ItemOrNone] /\ SeedItems(seed[n]) \in [IDs -> ItemOrNone]
        BY SeedItemsType DEF Empty, ItemOrNone
      <4>. QED
        BY <4>1, <2>3 DEF ClientClear, Clear, Reset
    <3>2. Wrote(c, {n} \X IDs) /\ {n} \X IDs \in SUBSET Keys
      BY <2>3 DEF ClientClear, Keys
    <3>. QED
      BY <3>1, <3>2, PutTable
  <2>. QED
    BY <2>1, <2>2, <2>3
<1>3. Typed'
  BY <1>1, <1>2, WroteType DEF Typed
<1>4. ASSUME NEW q \in Requests PROVE JournalInv(q)'
  <2>1. /\ q # c /\ op'[q] = op[q] /\ start'[q] = start[q]
        /\ op[q].atomic => foreign'[q] = foreign[q] \cup K
    BY <1>1, <1>2, WroteType
  <2>. QED
    BY <2>1, <1>2, OthersStep
<1>. QED
  BY <1>3, <1>4

-----------------------------------------------------------------------------
(* The operation that takes the step *)

\* The record of an activation that takes a step, field by field.
LEMMA SetOp ==
  ASSUME Typed, NEW p \in Requests, NEW a \in Activations, op' = [op EXCEPT ![p] = a]
  PROVE  /\ op' \in [Requests -> Activations]
         /\ op'[p] = a
         /\ \A q \in Requests : q # p => op'[q] = op[q]
  BY DEF Typed

\* Record keeps the journal sound: what it adds is the item as it is now, and an
\* item that is not yet in the journal is what the operation started from.
LEMMA RecordSound ==
  ASSUME RollbackInv, NEW p \in Requests, op[p].pc = "run", NEW k \in Keys,
         NEW before \in ItemOrNone, before = At(items, k)
  PROVE  Recorded(p, k, Record(p, k, before))
<1>. SUFFICES /\ Record(p, k, before) \in Seq(Entries)
              /\ op[p].atomic => \E e \in Range(Record(p, k, before)) : e.key = k
              /\ Range(op[p].journal) \subseteq Range(Record(p, k, before))
              /\ op[p].atomic => \A key \in Keys \ foreign[p] :
                   \A e \in Range(Record(p, k, before)) :
                     e.key = key => e.before = At(start[p], key)
  BY DEF Recorded
<1>. DEFINE new == [key |-> k, before |-> before]
<1>1. op[p].journal \in Seq(Entries) /\ new \in Entries
  BY DEF RollbackInv, Typed, Activations, Entries
<1>2. op[p].atomic => \A key \in Keys \ foreign[p] : Sound(p, key)
  BY DEF RollbackInv, JournalInv, Revocable
<1>3. CASE op[p].atomic /\ ~Journaled(p, k)
  <2>1. Record(p, k, before) = Append(op[p].journal, new)
    BY <1>3 DEF Record
  <2>2. /\ Record(p, k, before) \in Seq(Entries)
        /\ Range(Record(p, k, before)) = Range(op[p].journal) \cup {new}
    BY <1>1, <2>1, AppendRange
  <2>3. ASSUME NEW key \in Keys \ foreign[p], NEW e \in Range(Record(p, k, before)),
               e.key = key
        PROVE  e.before = At(start[p], key)
    <3>1. CASE e \in Range(op[p].journal)
      BY <3>1, <2>3, <1>2, <1>3 DEF Sound
    <3>2. CASE e = new
      BY <3>2, <2>3, <1>2, <1>3 DEF Sound
    <3>. QED
      BY <3>1, <3>2, <2>2, <2>3
  <2>4. new \in Range(Record(p, k, before)) /\ new.key = k
    BY <2>2
  <2>. QED
    BY <2>2, <2>3, <2>4
<1>4. CASE ~(op[p].atomic /\ ~Journaled(p, k))
  <2>1. Record(p, k, before) = op[p].journal
    BY <1>4 DEF Record
  <2>. QED
    BY <2>1, <1>1, <1>2, <1>4 DEF Sound, Journaled
<1>. QED
  BY <1>3, <1>4

\* A step of p preserves the invariant if it does so for p.
LEMMA OwnStep ==
  ASSUME RollbackInv, NEW p \in Requests, NEW a \in Activations,
         op' = [op EXCEPT ![p] = a],
         NEW K \in SUBSET Keys, Wrote(p, K) \/ (K = {} /\ UNCHANGED opAux),
         items' \in [Names -> [IDs -> ItemOrNone]],
         \A key \in Keys \ K : At(items, key)' = At(items, key),
         JournalInv(p)'
  PROVE  RollbackInv'
<1>1. /\ op' \in [Requests -> Activations]
      /\ \A q \in Requests : q # p => op'[q] = op[q]
  BY SetOp DEF RollbackInv
<1>2. /\ foreign' \in [Requests -> SUBSET Keys] /\ start' = start
      /\ \A q \in Requests : q # p /\ op[q].atomic => foreign'[q] = foreign[q] \cup K
  <2>1. CASE Wrote(p, K)
    BY <2>1, WroteType DEF RollbackInv
  <2>2. CASE K = {} /\ UNCHANGED opAux
    BY <2>2 DEF opAux, RollbackInv, Typed
  <2>. QED
    BY <2>1, <2>2
<1>3. Typed'
  BY <1>1, <1>2 DEF RollbackInv, Typed
<1>4. ASSUME NEW q \in Requests, q # p PROVE JournalInv(q)'
  <2>1. op'[q] = op[q] /\ start'[q] = start[q] /\ JournalInv(q) /\ Typed
    BY <1>1, <1>2, <1>4 DEF RollbackInv
  <2>2. op[q].atomic => foreign'[q] = foreign[q] \cup K
    BY <1>2, <1>4
  <2>. QED
    BY <2>1, <2>2, OthersStep
<1>. QED
  BY <1>3, <1>4 DEF RollbackInv

\* The outcome of a step of p that writes at most the item under k, which is
\* journaled if p is atomic, and turns the activation into a.
LEMMA StillSound ==
  ASSUME RollbackInv, NEW p \in Requests, NEW a \in Activations, op'[p] = a,
         a.atomic = op[p].atomic, start'[p] = start[p], foreign'[p] = foreign[p],
         NEW K \in SUBSET Keys,
         \A key \in Keys \ K : At(items, key)' = At(items, key),
         op[p].pc \in {"run", "update", "delete"},
         Range(op[p].journal) \subseteq Range(a.journal),
         a.atomic => \A key \in K : \E e \in Range(a.journal) : e.key = key,
         a.atomic => \A key \in Keys \ foreign[p] : \A e \in Range(a.journal) :
                       e.key = key => e.before = At(start[p], key),
         a.pc \in {"update", "delete"} =>
           /\ a.target \in Keys
           /\ a.atomic => \E e \in Range(a.journal) : e.key = a.target,
         a.pc = "done" => a.journal = <<>>
  PROVE  JournalInv(p)'
<1>1. ASSUME Revocable(p)', NEW key \in Keys \ foreign[p] PROVE Sound(p, key)'
  <2>1. a.atomic /\ Revocable(p)
    BY <1>1 DEF Revocable
  <2>2. Sound(p, key)
    BY <2>1, <1>1 DEF RollbackInv, JournalInv
  <2>3. At(start[p], key)' = At(start[p], key)
    BY DEF At
  <2>4. \A e \in Range(op'[p].journal) : e.key = key => e.before = At(start[p], key)'
    BY <2>1, <2>3, <1>1
  <2>5. ASSUME ~Journaled(p, key)' PROVE At(items, key)' = At(start[p], key)'
    <3>1. ~\E e \in Range(a.journal) : e.key = key
      BY <2>5 DEF Journaled
    <3>2. key \notin K /\ ~Journaled(p, key)
      BY <3>1, <2>1 DEF Journaled
    <3>. QED
      BY <3>2, <2>2, <2>3, <1>1 DEF Sound
  <2>. QED
    BY <2>4, <2>5 DEF Sound
<1>2. op'[p].pc \in {"update", "delete"} =>
        /\ op'[p].target \in Keys
        /\ op'[p].atomic => Journaled(p, op[p].target)'
  BY DEF Journaled
<1>. QED
  BY <1>1, <1>2 DEF JournalInv

\* What Return leaves of an activation.
LEMMA ReturnEffect ==
  ASSUME Typed, NEW p \in Requests,
         NEW status \in {"stepError", "success", "responseError"}, Return(p, status)
  PROVE  \E a \in Activations :
           /\ op' = [op EXCEPT ![p] = a] /\ op'[p] = a
           /\ a.pc = "done" /\ a.status = status /\ a.atomic = op[p].atomic
           /\ a.journal = <<>>
<1>. DEFINE a == [NotBegun EXCEPT !.pc = "done", !.status = status, !.atomic = op[p].atomic]
<1>1. op[p].atomic \in BOOLEAN
  BY DEF Typed, Activations
<1>2. /\ a.pc = "done" /\ a.status = status /\ a.atomic = op[p].atomic
      /\ a.journal = <<>>
  BY DEF NotBegun
<1>3. <<>> \in Seq(Entries)
  OBVIOUS
<1>4. a \in Activations
  BY <1>1, <1>3 DEF NotBegun, Activations
<1>5. op' = [op EXCEPT ![p] = a]
  BY DEF Return
<1>6. op'[p] = a
  BY <1>5 DEF Typed
<1>. QED
  BY <1>2, <1>4, <1>5, <1>6

\* A step that changes no item, no start state and no foreign key.
LEMMA QuietStep ==
  ASSUME RollbackInv, NEW p \in Requests, NEW a \in Activations,
         op' = [op EXCEPT ![p] = a], UNCHANGED <<items, opAux>>, JournalInv(p)'
  PROVE  RollbackInv'
<1>1. items' \in [Names -> [IDs -> ItemOrNone]]
  BY DEF RollbackInv, Typed
<1>2. PICK K \in SUBSET Keys : K = {}
  OBVIOUS
<1>3. \A key \in Keys \ K : At(items, key)' = At(items, key)
  BY DEF At
<1>4. K = {} /\ UNCHANGED opAux
  BY <1>2
<1>. QED
  BY <1>1, <1>3, <1>4, OwnStep

\* A failing step of p preserves the invariant: an atomic operation keeps its
\* journal, and of another one nothing is asked.
LEMMA FailStep ==
  ASSUME RollbackInv, NEW p \in Requests, op[p].pc \in {"run", "update", "delete"},
         Fail(p), UNCHANGED <<items, opAux>>
  PROVE  RollbackInv'
<1>0. Typed /\ op[p] \in Activations
  BY DEF RollbackInv, Typed
<1>1. CASE op[p].atomic
  <2>. DEFINE a == [op[p] EXCEPT !.pc = "rollback"]
  <2>1. a \in Activations
    BY <1>0 DEF Activations
  <2>2. op' = [op EXCEPT ![p] = a]
    BY <1>1 DEF Fail
  <2>3. op'[p] = a
    BY <2>2, <1>0 DEF Typed
  <2>4. a.atomic = op[p].atomic /\ a.journal = op[p].journal /\ a.pc = "rollback"
    BY <1>0 DEF Activations
  <2>5. start'[p] = start[p] /\ foreign'[p] = foreign[p]
    BY DEF opAux
  <2>6. PICK K \in SUBSET Keys : K = {}
    OBVIOUS
  <2>7. \A key \in Keys \ foreign[p] : Sound(p, key)
    BY <1>1 DEF RollbackInv, JournalInv, Revocable
  <2>8. \A key \in Keys \ foreign[p] : \A e \in Range(op[p].journal) :
           e.key = key => e.before = At(start[p], key)
    BY <2>7 DEF Sound
  <2>9. JournalInv(p)'
    <3>. HIDE DEF a
    <3>1. a.atomic => \A key \in K : \E e \in Range(a.journal) : e.key = key
      BY <2>6
    <3>2. Range(op[p].journal) \subseteq Range(a.journal)
      BY <2>4
    <3>3. a.atomic => \A key \in Keys \ foreign[p] : \A e \in Range(a.journal) :
            e.key = key => e.before = At(start[p], key)
      BY <2>4, <2>8
    <3>4. \A key \in Keys \ K : At(items, key)' = At(items, key)
      BY DEF At
    <3>5. a.pc \notin {"update", "delete"} /\ a.pc # "done"
      BY <2>4
    <3>. QED
      BY <2>1, <2>3, <2>4, <2>5, <3>1, <3>2, <3>3, <3>4, <3>5, StillSound
  <2>. QED
    BY <2>1, <2>2, <2>9, QuietStep
<1>2. CASE ~op[p].atomic
  <2>1. Return(p, "stepError")
    BY <1>2 DEF Fail
  <2>2. PICK a \in Activations :
           /\ op' = [op EXCEPT ![p] = a] /\ op'[p] = a
           /\ a.pc = "done" /\ a.atomic = op[p].atomic /\ a.journal = <<>>
    BY <1>0, <2>1, ReturnEffect
  <2>3. JournalInv(p)'
    BY <2>2, <1>2 DEF JournalInv, Revocable
  <2>. QED
    BY <2>2, <2>3, QuietStep
<1>. QED
  BY <1>1, <1>2

\* An operation that begins has an empty journal, and no item has changed yet.
LEMMA BeginStep ==
  ASSUME RollbackInv, NEW p \in Requests, Begin(p)
  PROVE  RollbackInv'
<1>0. Typed /\ op[p] \in Activations
  BY DEF RollbackInv, Typed
<1>1. PICK atomic \in BOOLEAN :
        op' = [op EXCEPT ![p] = [NotBegun EXCEPT !.pc = "run", !.atomic = atomic]]
  BY DEF Begin
<1>. DEFINE a == [NotBegun EXCEPT !.pc = "run", !.atomic = atomic]
<1>2. <<>> \in Seq(Entries) /\ Range(<<>>) = {}
  BY DEF Range
<1>3. a \in Activations /\ a.pc = "run" /\ a.journal = <<>> /\ a.atomic = atomic
  BY <1>2 DEF NotBegun, Activations
<1>4. op' = [op EXCEPT ![p] = a]
  BY <1>1
<1>. HIDE DEF a
<1>5. /\ op' \in [Requests -> Activations] /\ op'[p] = a
      /\ \A q \in Requests : q # p => op'[q] = op[q]
  BY <1>0, <1>3, <1>4, SetOp
<1>6. items' = items /\ foreign' = foreign
  BY DEF Begin, resourceVars
<1>7. /\ start' \in [Requests -> [Names -> [IDs -> ItemOrNone]]]
      /\ a.atomic => start'[p] = items
      /\ \A q \in Requests : q # p => start'[q] = start[q]
  BY <1>0, <1>5 DEF Begin, Typed
<1>8. JournalInv(p)'
  <2>1. ASSUME Revocable(p)', NEW key \in Keys PROVE Sound(p, key)'
    BY <2>1, <1>2, <1>3, <1>5, <1>6, <1>7 DEF Sound, Revocable, At
  <2>. QED
    BY <2>1, <1>3, <1>5 DEF JournalInv
<1>9. ASSUME NEW q \in Requests, q # p PROVE JournalInv(q)'
  <2>1. JournalInv(q) /\ op'[q] = op[q] /\ start'[q] = start[q]
    BY <1>5, <1>7, <1>9 DEF RollbackInv
  <2>2. PICK K \in SUBSET Keys : K = {}
    OBVIOUS
  <2>3. foreign'[q] = foreign[q] \cup K
    BY <2>2, <1>6
  <2>4. \A key \in Keys \ K : At(items, key)' = At(items, key)
    BY <1>6 DEF At
  <2>. QED
    BY <2>1, <2>3, <2>4, <1>0, OthersStep
<1>. QED
  BY <1>0, <1>5, <1>6, <1>7, <1>8, <1>9 DEF RollbackInv, Typed

\* The step is over: p goes on, with the journal it has.
LEMMA AdvanceEffect ==
  ASSUME Typed, NEW p \in Requests, Advance(p)
  PROVE  \E a \in Activations :
           /\ op' = [op EXCEPT ![p] = a] /\ op'[p] = a
           /\ a.pc = "run" /\ a.atomic = op[p].atomic /\ a.journal = op[p].journal
<1>. DEFINE m == op[p].steps + 1
            a == [op[p] EXCEPT !.pc = "run", !.steps = m, !.target = <<>>]
<1>1. op[p] \in Activations
  BY DEF Typed
<1>2. a \in Activations
  <2>1. m \in Nat
    BY <1>1 DEF Activations
  <2>2. <<>> \in Keys \cup {<<>>}
    OBVIOUS
  <2>. HIDE DEF m
  <2>. QED
    BY <1>1, <2>1, <2>2 DEF Activations
<1>3. a.pc = "run" /\ a.atomic = op[p].atomic /\ a.journal = op[p].journal
  BY <1>1 DEF Activations
<1>4. op' = [op EXCEPT ![p] = a]
  BY DEF Advance
<1>5. op'[p] = a
  BY <1>4 DEF Typed
<1>. QED
  BY <1>2, <1>3, <1>4, <1>5

\* A step that has succeeded without changing an item, or after changing the item
\* that it had journaled.
LEMMA AdvanceStep ==
  ASSUME RollbackInv, NEW p \in Requests, op[p].pc \in {"run", "update", "delete"},
         Advance(p), items' \in [Names -> [IDs -> ItemOrNone]],
         NEW K \in SUBSET Keys, Wrote(p, K) \/ (K = {} /\ UNCHANGED opAux),
         \A key \in Keys \ K : At(items, key)' = At(items, key),
         op[p].atomic => \A key \in K : Journaled(p, key)
  PROVE  RollbackInv'
<1>0. Typed
  BY DEF RollbackInv
<1>1. PICK a \in Activations :
        /\ op' = [op EXCEPT ![p] = a] /\ op'[p] = a
        /\ a.pc = "run" /\ a.atomic = op[p].atomic /\ a.journal = op[p].journal
  BY <1>0, AdvanceEffect
<1>2. start'[p] = start[p] /\ foreign'[p] = foreign[p]
  <2>1. CASE Wrote(p, K)
    BY <2>1, <1>0, WroteType
  <2>2. CASE UNCHANGED opAux
    BY <2>2 DEF opAux
  <2>. QED
    BY <2>1, <2>2
<1>3. a.atomic => \A key \in Keys \ foreign[p] : \A e \in Range(a.journal) :
        e.key = key => e.before = At(start[p], key)
  <2>1. JournalInv(p)
    BY DEF RollbackInv
  <2>2. op[p].atomic => \A key \in Keys \ foreign[p] : Sound(p, key)
    BY <2>1 DEF JournalInv, Revocable
  <2>. QED
    BY <1>1, <2>2 DEF Sound
<1>4. a.atomic => \A key \in K : \E e \in Range(a.journal) : e.key = key
  BY <1>1 DEF Journaled
<1>5. Range(op[p].journal) \subseteq Range(a.journal)
  BY <1>1
<1>6. a.pc \notin {"update", "delete"} /\ a.pc # "done"
  BY <1>1
<1>7. JournalInv(p)'
  BY <1>1, <1>2, <1>3, <1>4, <1>5, <1>6, StillSound
<1>. QED
  BY <1>1, <1>7, OwnStep

\* The journal entry is made before the item is changed.
LEMMA RecordStep ==
  ASSUME RollbackInv, NEW p \in Requests, NEW kind \in {"update", "delete"},
         NEW n \in Names, NEW id \in IDs, StepRecord(p, kind, n, id)
  PROVE  RollbackInv'
<1>. DEFINE k == <<n, id>>
            j == Record(p, k, items[n][id])
            a == [op[p] EXCEPT !.pc = kind, !.target = k, !.journal = j]
<1>0. Typed /\ op[p] \in Activations /\ k \in Keys
  BY DEF RollbackInv, Typed, Keys
<1>1. op[p].pc = "run" /\ UNCHANGED <<items, opAux>> /\ op' = [op EXCEPT ![p] = a]
  BY DEF StepRecord, CanStep, resourceVars
<1>2. items[n][id] \in ItemOrNone /\ items[n][id] = At(items, k)
  BY DEF RollbackInv, Typed, At
<1>3. /\ j \in Seq(Entries)
      /\ op[p].atomic => \E e \in Range(j) : e.key = k
      /\ Range(op[p].journal) \subseteq Range(j)
      /\ op[p].atomic => \A key \in Keys \ foreign[p] : \A e \in Range(j) :
           e.key = key => e.before = At(start[p], key)
  <2>1. op[p].pc = "run" /\ k \in Keys
    BY <1>0, <1>1
  <2>. HIDE DEF k
  <2>2. Recorded(p, k, j)
    BY <2>1, <1>2, RecordSound
  <2>. HIDE DEF j
  <2>. QED
    BY <2>2 DEF Recorded
<1>. HIDE DEF j, k
<1>4. a \in Activations
  BY <1>0, <1>3 DEF Activations
<1>5. a.atomic = op[p].atomic /\ a.journal = j /\ a.pc = kind /\ a.target = k
  BY <1>0 DEF Activations
<1>6. op'[p] = a
  BY <1>1, <1>0 DEF Typed
<1>. HIDE DEF a
<1>7. start'[p] = start[p] /\ foreign'[p] = foreign[p]
  BY <1>1 DEF opAux
<1>8. PICK K \in SUBSET Keys : K = {}
  OBVIOUS
<1>9. \A key \in Keys \ K : At(items, key)' = At(items, key)
  BY <1>1 DEF At
<1>10. JournalInv(p)'
  <2>1. a.atomic => \A key \in K : \E e \in Range(a.journal) : e.key = key
    BY <1>8
  <2>2. /\ Range(op[p].journal) \subseteq Range(a.journal)
        /\ a.atomic => \A key \in Keys \ foreign[p] : \A e \in Range(a.journal) :
             e.key = key => e.before = At(start[p], key)
    BY <1>3, <1>5
  <2>3. a.target \in Keys /\ (a.atomic => \E e \in Range(a.journal) : e.key = a.target)
    BY <1>0, <1>3, <1>5
  <2>4. a.pc # "done"
    BY <1>5
  <2>. QED
    BY <1>1, <1>4, <1>5, <1>6, <1>7, <1>9, <2>1, <2>2, <2>3, <2>4, StillSound
<1>. QED
  BY <1>1, <1>4, <1>10, QuietStep

\* Patch and Delete change the item that the step has journaled.
LEMMA WriteStep ==
  ASSUME RollbackInv, NEW p \in Requests, StepPatch(p) \/ StepDelete(p)
  PROVE  RollbackInv'
<1>. DEFINE k == op[p].target
            n == k[1]
            id == k[2]
<1>0. Typed /\ op[p].pc \in {"update", "delete"}
  BY DEF RollbackInv, StepPatch, StepDelete
<1>1. k \in Keys /\ (op[p].atomic => Journaled(p, k))
  BY <1>0 DEF RollbackInv, JournalInv
<1>2. n \in Names /\ id \in IDs /\ k = <<n, id>>
  <2>1. PICK a \in Names, b \in IDs : k = <<a, b>>
    BY <1>1 DEF Keys
  <2>2. n = a /\ id = b
    BY <2>1
  <2>. QED
    BY <2>1, <2>2
<1>3. ASSUME NEW v \in ItemOrNone, items' = [items EXCEPT ![n][id] = v],
             Wrote(p, {<<n, id>>}), Advance(p)
      PROVE  RollbackInv'
  <2>1. /\ items' \in [Names -> [IDs -> ItemOrNone]]
        /\ \A key \in Keys \ {<<n, id>>} : At(items, key)' = At(items, key)
    <3>. HIDE DEF n, id
    <3>. QED
      BY <1>0, <1>2, <1>3, PutItem
  <2>2. op[p].atomic => \A key \in {<<n, id>>} : Journaled(p, key)
    BY <1>1, <1>2
  <2>3. {<<n, id>>} \in SUBSET Keys
    BY <1>1, <1>2
  <2>. HIDE DEF n, id
  <2>. QED
    BY <1>0, <1>3, <2>1, <2>2, <2>3, AdvanceStep
<1>4. ASSUME Fail(p), UNCHANGED <<resourceVars, opAux>> PROVE RollbackInv'
  <2>1. UNCHANGED <<items, opAux>>
    BY <1>4 DEF resourceVars
  <2>. QED
    BY <1>0, <1>4, <2>1, FailStep
<1>5. CASE StepPatch(p)
  <2>1. CASE \E v \in Vals : Update(n, id, v) /\ Wrote(p, {<<n, id>>}) /\ Advance(p)
    BY <2>1, <1>3 DEF Update, ItemOrNone
  <2>2. CASE Fail(p) /\ UNCHANGED <<resourceVars, opAux>>
    BY <2>2, <1>4
  <2>. QED
    BY <1>5, <2>1, <2>2 DEF StepPatch
<1>6. CASE StepDelete(p)
  <2>1. CASE Delete(n, id) /\ Wrote(p, {<<n, id>>}) /\ Advance(p)
    BY <2>1, <1>3 DEF Delete, ItemOrNone
  <2>2. CASE Fail(p) /\ UNCHANGED <<resourceVars, opAux>>
    BY <2>2, <1>4
  <2>. QED
    BY <1>6, <2>1, <2>2 DEF StepDelete
<1>. QED
  BY <1>5, <1>6

\* A create step journals that there was no item under the ID it used, which is
\* what CreateOK made sure of.
LEMMA CreateStep ==
  ASSUME RollbackInv, NEW p \in Requests, NEW n \in Names, NEW id \in IDs \cup {NoId},
         NEW v \in Vals, StepCreate(p, n, id, v)
  PROVE  RollbackInv'
<1>. DEFINE k == <<n, CreateID(n, id)>>
            j == Record(p, k, NoItem)
            m == op[p].steps + 1
            a == [op[p] EXCEPT !.steps = m, !.journal = j]
<1>0. Typed /\ op[p] \in Activations /\ op[p].pc = "run" /\ Create(n, id, v)
  BY DEF RollbackInv, Typed, StepCreate, CanStep
<1>1. /\ k \in Keys /\ items' \in [Names -> [IDs -> ItemOrNone]]
      /\ \A key \in Keys \ {k} : At(items, key)' = At(items, key)
      /\ CreateOK(n, id) => At(items, k) = NoItem
      /\ ~CreateOK(n, id) => items' = items
  BY <1>0, CreateEffect
<1>2. CASE CreateOK(n, id)
  <2>1. op' = [op EXCEPT ![p] = a] /\ Wrote(p, {k})
    BY <1>2 DEF StepCreate
  <2>2. NoItem \in ItemOrNone /\ NoItem = At(items, k)
    BY <1>1, <1>2 DEF ItemOrNone
  <2>. HIDE DEF k
  <2>3. /\ j \in Seq(Entries)
        /\ op[p].atomic => \E e \in Range(j) : e.key = k
        /\ Range(op[p].journal) \subseteq Range(j)
        /\ op[p].atomic => \A key \in Keys \ foreign[p] : \A e \in Range(j) :
             e.key = key => e.before = At(start[p], key)
    <3>1. op[p].pc = "run" /\ k \in Keys
      BY <1>0, <1>1
    <3>2. Recorded(p, k, j)
      BY <3>1, <2>2, RecordSound
    <3>. HIDE DEF j
    <3>. QED
      BY <3>2 DEF Recorded
  <2>. HIDE DEF j
  <2>4. m \in Nat
    <3>1. op[p].steps \in Nat
      BY <1>0 DEF Activations
    <3>. QED
      BY <3>1
  <2>. HIDE DEF m
  <2>5. a \in Activations
    BY <1>0, <2>3, <2>4 DEF Activations
  <2>6. a.atomic = op[p].atomic /\ a.journal = j /\ a.pc = "run"
    BY <1>0 DEF Activations
  <2>7. op'[p] = a
    BY <2>1, <1>0 DEF Typed
  <2>. HIDE DEF a
  <2>8. start'[p] = start[p] /\ foreign'[p] = foreign[p] /\ {k} \in SUBSET Keys
    BY <2>1, <1>0, <1>1, WroteType
  <2>9. JournalInv(p)'
    <3>1. a.atomic => \A key \in {k} : \E e \in Range(a.journal) : e.key = key
      BY <2>3, <2>6
    <3>2. /\ Range(op[p].journal) \subseteq Range(a.journal)
          /\ a.atomic => \A key \in Keys \ foreign[p] : \A e \in Range(a.journal) :
               e.key = key => e.before = At(start[p], key)
      BY <2>3, <2>6
    <3>3. a.pc \notin {"update", "delete"} /\ a.pc # "done"
      BY <2>6
    <3>. QED
      BY <1>0, <1>1, <2>5, <2>6, <2>7, <2>8, <3>1, <3>2, <3>3, StillSound
  <2>. QED
    BY <1>1, <2>1, <2>5, <2>8, <2>9, OwnStep
<1>3. CASE ~CreateOK(n, id)
  <2>1. Fail(p) /\ UNCHANGED <<items, opAux>>
    BY <1>1, <1>3 DEF StepCreate
  <2>. QED
    BY <1>0, <2>1, FailStep
<1>. QED
  BY <1>2, <1>3

\* Restoring the last entry puts back what the operation started from, and the
\* rest of the journal still stands for the rest of the items.
LEMMA RestoreStep ==
  ASSUME RollbackInv, NEW p \in Requests, Restore(p)
  PROVE  RollbackInv'
<1>. DEFINE s == op[p].journal
            a == [op[p] EXCEPT !.journal = Front(s)]
<1>0. Typed /\ op[p] \in Activations /\ s \in Seq(Entries)
  BY DEF RollbackInv, Typed, Activations
<1>1. op[p].pc = "rollback" /\ s # <<>> /\ op' = [op EXCEPT ![p] = a]
  BY DEF Restore
<1>2. PICK e \in Entries :
        /\ e = Last(s) /\ Front(s) \in Seq(Entries)
        /\ Range(s) = Range(Front(s)) \cup {e}
  BY <1>0, <1>1, FrontRange
<1>3. PICK n \in Names, id \in IDs : e.key = <<n, id>>
  BY <1>2 DEF Entries, Keys
<1>4. /\ items' = [items EXCEPT ![n][id] = e.before] /\ e.before \in ItemOrNone
      /\ Wrote(p, {<<n, id>>}) /\ {<<n, id>>} \in SUBSET Keys
  BY <1>2, <1>3 DEF Restore, Entries, Keys
<1>5. a \in Activations /\ a.journal = Front(s) /\ a.pc = "rollback"
      /\ a.atomic = op[p].atomic
  BY <1>0, <1>1, <1>2 DEF Activations
<1>6. op'[p] = a
  BY <1>0, <1>1 DEF Typed
<1>. HIDE DEF s, a
<1>7. /\ items' \in [Names -> [IDs -> ItemOrNone]]
      /\ At(items, <<n, id>>)' = e.before
      /\ \A key \in Keys \ {<<n, id>>} : At(items, key)' = At(items, key)
  BY <1>0, <1>4, PutItem
<1>8. start' = start /\ foreign'[p] = foreign[p]
  BY <1>0, <1>4, WroteType
<1>9. ASSUME Revocable(p)', NEW key \in Keys \ foreign[p] PROVE Sound(p, key)'
  <2>1. Sound(p, key)
    BY <1>1, <1>5, <1>6, <1>9 DEF Revocable, RollbackInv, JournalInv
  <2>2. At(start[p], key)' = At(start[p], key)
    BY <1>8 DEF At
  <2>3. \A x \in Range(s) : x.key = key => x.before = At(start[p], key)
    BY <2>1 DEF Sound, s
  <2>4. \A x \in Range(op'[p].journal) : x.key = key => x.before = At(start[p], key)'
    BY <2>2, <2>3, <1>2, <1>5, <1>6
  <2>5. ASSUME ~Journaled(p, key)' PROVE At(items, key)' = At(start[p], key)'
    <3>1. CASE key = <<n, id>>
      BY <3>1, <2>2, <2>3, <1>2, <1>3, <1>7
    <3>2. CASE key # <<n, id>>
      <4>1. ~\E x \in Range(Front(s)) : x.key = key
        BY <2>5, <1>5, <1>6 DEF Journaled
      <4>2. ~Journaled(p, key)
        BY <4>1, <3>2, <1>2, <1>3 DEF Journaled, s
      <4>. QED
        BY <4>2, <3>2, <2>1, <2>2, <1>7 DEF Sound
    <3>. QED
      BY <3>1, <3>2
  <2>. QED
    BY <2>4, <2>5 DEF Sound
<1>10. JournalInv(p)'
  BY <1>5, <1>6, <1>8, <1>9 DEF JournalInv
<1>. QED
  BY <1>1, <1>4, <1>5, <1>7, <1>10, OwnStep

\* An operation returns when its journal is used up, or its steps are done.
LEMMA ReturnStep ==
  ASSUME RollbackInv, NEW p \in Requests, RolledBack(p) \/ Respond(p)
  PROVE  RollbackInv'
<1>0. Typed
  BY DEF RollbackInv
<1>1. UNCHANGED <<items, opAux>>
  BY DEF RolledBack, Respond, resourceVars
<1>2. CASE RolledBack(p)
  <2>1. Return(p, "stepError") /\ op[p].pc = "rollback" /\ op[p].journal = <<>>
    BY <1>2 DEF RolledBack
  <2>2. PICK a \in Activations :
           /\ op' = [op EXCEPT ![p] = a] /\ op'[p] = a
           /\ a.pc = "done" /\ a.atomic = op[p].atomic /\ a.journal = <<>>
    BY <1>0, <2>1, ReturnEffect
  <2>3. ASSUME Revocable(p)', NEW key \in Keys \ foreign[p] PROVE Sound(p, key)'
    <3>1. Sound(p, key)
      BY <2>1, <2>2, <2>3 DEF Revocable, RollbackInv, JournalInv
    <3>. QED
      BY <3>1, <2>1, <2>2, <1>1 DEF Sound, Journaled, At, opAux
  <2>4. JournalInv(p)'
    BY <2>2, <2>3, <1>1 DEF JournalInv, opAux
  <2>. QED
    BY <2>2, <2>4, <1>1, QuietStep
<1>3. CASE Respond(p)
  <2>1. PICK status \in {"success", "responseError"} : Return(p, status)
    BY <1>3 DEF Respond
  <2>2. PICK a \in Activations :
           /\ op' = [op EXCEPT ![p] = a] /\ op'[p] = a
           /\ a.pc = "done" /\ a.status = status /\ a.journal = <<>>
    BY <1>0, <2>1, ReturnEffect
  <2>3. JournalInv(p)'
    BY <2>1, <2>2 DEF JournalInv, Revocable
  <2>. QED
    BY <2>2, <2>3, <1>1, QuietStep
<1>. QED
  BY <1>2, <1>3

-----------------------------------------------------------------------------
(* The theorem *)

\* RollbackInv is an inductive invariant of the executor among its clients.
LEMMA RollbackInvariant == Spec => []RollbackInv
<1>1. Init => RollbackInv
  <2>. SUFFICES ASSUME Init PROVE RollbackInv
    OBVIOUS
  <2>1. items \in [Names -> [IDs -> ItemOrNone]]
    BY SeedItemsType DEF Init, ResourceInit
  <2>2. NotBegun \in Activations
    <3>1. <<>> \in Seq(Entries)
      OBVIOUS
    <3>. QED
      BY <3>1 DEF NotBegun, Activations
  <2>3. op \in [Requests -> Activations] /\ \A p \in Requests : op[p] = NotBegun
    BY <2>2 DEF Init
  <2>4. start \in [Requests -> [Names -> [IDs -> ItemOrNone]]]
    BY DEF Init, Empty, ItemOrNone
  <2>5. foreign \in [Requests -> SUBSET Keys]
    BY DEF Init
  <2>6. \A p \in Requests : JournalInv(p)
    <3>1. NotBegun.pc = "idle" /\ NotBegun.atomic = FALSE
      BY DEF NotBegun
    <3>. QED
      BY <2>3, <3>1 DEF JournalInv, Revocable
  <2>. QED
    BY <2>1, <2>3, <2>4, <2>5, <2>6 DEF RollbackInv, Typed
<1>2. RollbackInv /\ [Next]_execVars => RollbackInv'
  <2>. SUFFICES ASSUME RollbackInv, [Next]_execVars PROVE RollbackInv'
    OBVIOUS
  <2>1. ASSUME NEW p \in Requests, ExecuteStep(p) PROVE RollbackInv'
    <3>1. CASE Begin(p)
      BY <3>1, BeginStep
    <3>2. CASE StepPure(p)
      <4>1. /\ op[p].pc = "run" /\ Advance(p) /\ UNCHANGED <<items, opAux>>
        BY <3>2 DEF StepPure, CanStep, resourceVars
      <4>2. PICK K \in SUBSET Keys : K = {}
        OBVIOUS
      <4>3. /\ items' \in [Names -> [IDs -> ItemOrNone]]
            /\ \A key \in Keys \ K : At(items, key)' = At(items, key)
            /\ K = {} /\ UNCHANGED opAux
            /\ op[p].atomic => \A key \in K : Journaled(p, key)
        BY <4>1, <4>2 DEF RollbackInv, Typed, At
      <4>. QED
        BY <4>1, <4>3, AdvanceStep
    <3>3. CASE StepFails(p)
      BY <3>3, FailStep DEF StepFails, CanStep, resourceVars
    <3>4. CASE \E kind \in {"update", "delete"}, n \in Names, id \in IDs :
                 StepRecord(p, kind, n, id)
      BY <3>4, RecordStep
    <3>5. CASE StepPatch(p) \/ StepDelete(p)
      BY <3>5, WriteStep
    <3>6. CASE \E n \in Names, id \in IDs \cup {NoId}, v \in Vals : StepCreate(p, n, id, v)
      BY <3>6, CreateStep
    <3>7. CASE Restore(p)
      BY <3>7, RestoreStep
    <3>8. CASE RolledBack(p) \/ Respond(p)
      BY <3>8, ReturnStep
    <3>. QED
      BY <2>1, <3>1, <3>2, <3>3, <3>4, <3>5, <3>6, <3>7, <3>8 DEF ExecuteStep
  <2>2. CASE \E c \in Clients, n \in Names :
               \/ \E id \in IDs \cup {NoId}, v \in Vals : ClientCreate(c, n, id, v)
               \/ \E id \in IDs : ClientWrite(c, n, id)
               \/ ClientClear(c, n)
    BY <2>2, ClientStep, ExecutorAssumption
  <2>3. CASE UNCHANGED execVars
    <3>1. UNCHANGED <<items, op, start, foreign>>
      BY <2>3 DEF execVars, resourceVars, opAux
    <3>2. Typed'
      BY <3>1 DEF RollbackInv, Typed
    <3>3. ASSUME NEW p \in Requests PROVE JournalInv(p)'
      <4>1. JournalInv(p)
        BY DEF RollbackInv
      <4>. QED
        BY <3>1, <4>1 DEF JournalInv, Revocable, Sound, Journaled, At
    <3>. QED
      BY <3>2, <3>3 DEF RollbackInv
  <2>. QED
    BY <2>1, <2>2, <2>3 DEF Next
<1>. QED
  BY <1>1, <1>2, PTL DEF Spec

\* An atomic operation that failed in a step has undone all it did, for every set
\* of resources, requests and clients and every program of steps: Execute's "prior
\* mutations are rolled back on failure", up to what others wrote meanwhile.
THEOREM RollbackIsComplete == Spec => []RollbackRestores
<1>1. RollbackInv => RollbackRestores
  <2>. SUFFICES ASSUME RollbackInv, NEW p \in Requests, op[p].pc = "done", op[p].atomic,
                       op[p].status = "stepError", NEW key \in Keys \ foreign[p]
                PROVE  At(items, key) = At(start[p], key)
    BY DEF RollbackRestores
  <2>1. Sound(p, key) /\ op[p].journal = <<>>
    BY DEF RollbackInv, JournalInv, Revocable
  <2>2. ~Journaled(p, key)
    BY <2>1 DEF Journaled, Range
  <2>. QED
    BY <2>1, <2>2 DEF Sound
<1>. QED
  BY <1>1, RollbackInvariant, PTL

-----------------------------------------------------------------------------
(* Types, and the IDs of the resources that operations work on *)

\* An activation that has begun an update or a delete has that step left.
Fits(a) ==
  /\ a.steps <= MaxSteps
  /\ a.pc \in {"update", "delete"} => a.steps < MaxSteps

WithinSteps(p) == Fits(op[p])

ExecutorInv ==
  /\ RollbackInv /\ ResourceTypeOK /\ GeneratedIDsTracked
  /\ \A p \in Requests : WithinSteps(p)

\* A step of an operation stays within MaxSteps.
LEMMA StepsBounded ==
  ASSUME Typed, NEW p \in Requests, WithinSteps(p), ExecuteStep(p)
  PROVE  WithinSteps(p)' /\ \A q \in Requests : q # p => op'[q] = op[q]
<1>0. /\ op \in [Requests -> Activations] /\ op[p].steps \in Nat /\ MaxSteps \in Nat
      /\ DOMAIN op = Requests
  BY ExecutorAssumption DEF Typed, Activations
<1>1. \A a : op' = [op EXCEPT ![p] = a] =>
        op'[p] = a /\ \A q \in Requests : q # p => op'[q] = op[q]
  BY <1>0
<1>2. PICK a : op' = [op EXCEPT ![p] = a] /\ Fits(a)
  <2>1. CASE Begin(p)
    <3>1. PICK b \in BOOLEAN :
            op' = [op EXCEPT ![p] = [NotBegun EXCEPT !.pc = "run", !.atomic = b]]
      BY <2>1 DEF Begin
    <3>2. PICK a : a = [NotBegun EXCEPT !.pc = "run", !.atomic = b]
      OBVIOUS
    <3>3. a.steps = 0 /\ a.pc = "run"
      BY <3>2 DEF NotBegun
    <3>4. Fits(a)
      BY <1>0, <3>3 DEF Fits
    <3>. QED
      BY <3>1, <3>2, <3>4
  <2>2. ASSUME NEW status, Return(p, status)
        PROVE  \E a : op' = [op EXCEPT ![p] = a] /\ Fits(a)
    <3>1. PICK a : a = [NotBegun EXCEPT !.pc = "done", !.status = status, !.atomic = op[p].atomic]
      OBVIOUS
    <3>2. a.steps = 0 /\ a.pc = "done"
      BY <3>1 DEF NotBegun
    <3>3. op' = [op EXCEPT ![p] = a]
      BY <2>2, <3>1 DEF Return
    <3>4. Fits(a)
      BY <1>0, <3>2 DEF Fits
    <3>. QED
      BY <3>3, <3>4
  <2>3. ASSUME Advance(p), op[p].steps < MaxSteps
        PROVE  \E a : op' = [op EXCEPT ![p] = a] /\ Fits(a)
    <3>1. PICK a : a = [op[p] EXCEPT !.pc = "run", !.steps = @ + 1, !.target = <<>>]
      OBVIOUS
    <3>2. op' = [op EXCEPT ![p] = a]
      BY <1>0, <2>3, <3>1 DEF Advance
    <3>3. a.steps = op[p].steps + 1 /\ a.pc = "run"
      BY <1>0, <3>1 DEF Activations
    <3>4. Fits(a)
      BY <1>0, <2>3, <3>3 DEF Fits
    <3>. QED
      BY <3>2, <3>4
  <2>4. ASSUME Fail(p)
        PROVE  \E a : op' = [op EXCEPT ![p] = a] /\ Fits(a)
    <3>1. CASE op[p].atomic
      <4>1. PICK a : a = [op[p] EXCEPT !.pc = "rollback"]
        OBVIOUS
      <4>2. op' = [op EXCEPT ![p] = a]
        BY <1>0, <2>4, <3>1, <4>1 DEF Fail
      <4>3. a.steps = op[p].steps /\ a.pc = "rollback"
        BY <1>0, <4>1 DEF Activations
      <4>4. Fits(a)
        BY <4>3 DEF WithinSteps, Fits
      <4>. QED
        BY <4>2, <4>4
    <3>2. CASE ~op[p].atomic
      BY <2>2, <2>4, <3>2 DEF Fail
    <3>. QED
      BY <3>1, <3>2
  <2>5. CASE StepPure(p)
    BY <2>3, <2>5 DEF StepPure, CanStep
  <2>6. CASE StepFails(p)
    BY <2>4, <2>6 DEF StepFails
  <2>7. ASSUME NEW kind \in {"update", "delete"}, NEW n \in Names, NEW id \in IDs,
               StepRecord(p, kind, n, id)
        PROVE  \E a : op' = [op EXCEPT ![p] = a] /\ Fits(a)
    <3>1. PICK j : j = Record(p, <<n, id>>, items[n][id])
      OBVIOUS
    <3>2. PICK a : a = [op[p] EXCEPT !.pc = kind, !.target = <<n, id>>, !.journal = j]
      OBVIOUS
    <3>3. op' = [op EXCEPT ![p] = a] /\ op[p].steps < MaxSteps
      BY <1>0, <2>7, <3>1, <3>2 DEF StepRecord, CanStep
    <3>4. a.steps = op[p].steps
      BY <1>0, <3>2 DEF Activations
    <3>5. Fits(a)
      BY <1>0, <3>3, <3>4 DEF Fits
    <3>. QED
      BY <3>3, <3>5
  <2>8. CASE StepPatch(p) \/ StepDelete(p)
    <3>1. (Advance(p) /\ op[p].steps < MaxSteps) \/ Fail(p)
      BY <2>8 DEF StepPatch, StepDelete, WithinSteps, Fits
    <3>. QED
      BY <2>3, <2>4, <3>1
  <2>9. ASSUME NEW n \in Names, NEW id \in IDs \cup {NoId}, NEW v \in Vals,
               StepCreate(p, n, id, v)
        PROVE  \E a : op' = [op EXCEPT ![p] = a] /\ Fits(a)
    <3>1. CASE CreateOK(n, id)
      <4>1. PICK j : j = Record(p, <<n, CreateID(n, id)>>, NoItem)
        OBVIOUS
      <4>2. PICK a : a = [op[p] EXCEPT !.steps = @ + 1, !.journal = j]
        OBVIOUS
      <4>3. op' = [op EXCEPT ![p] = a] /\ op[p].steps < MaxSteps /\ op[p].pc = "run"
        BY <1>0, <2>9, <3>1, <4>1, <4>2 DEF StepCreate, CanStep
      <4>4. a.steps = op[p].steps + 1 /\ a.pc = "run"
        BY <1>0, <4>2, <4>3 DEF Activations
      <4>5. Fits(a)
        BY <1>0, <4>3, <4>4 DEF Fits
      <4>. QED
        BY <4>3, <4>5
    <3>2. CASE ~CreateOK(n, id)
      BY <2>4, <2>9, <3>2 DEF StepCreate
    <3>. QED
      BY <3>1, <3>2
  <2>10. CASE Restore(p)
    <3>1. PICK a : a = [op[p] EXCEPT !.journal = Front(@)]
      OBVIOUS
    <3>2. op' = [op EXCEPT ![p] = a] /\ op[p].pc = "rollback"
      BY <1>0, <2>10, <3>1 DEF Restore
    <3>3. a.steps = op[p].steps /\ a.pc = "rollback"
      BY <1>0, <3>1, <3>2 DEF Activations
    <3>4. Fits(a)
      BY <3>3 DEF WithinSteps, Fits
    <3>. QED
      BY <3>2, <3>4
  <2>11. CASE RolledBack(p) \/ Respond(p)
    <3>1. \E status : Return(p, status)
      BY <2>11 DEF RolledBack, Respond
    <3>. QED
      BY <2>2, <3>1
  <2>. QED
    BY <2>1, <2>5, <2>6, <2>7, <2>8, <2>9, <2>10, <2>11 DEF ExecuteStep
<1>. QED
  BY <1>1, <1>2 DEF WithinSteps

\* An operation on one resource keeps all of them typed and tracked.
LEMMA KeepsTracked ==
  ASSUME GeneratedIDsTracked, NEW n \in Names, Keeps(n)
  PROVE  ResourceTypeOK' /\ GeneratedIDsTracked'
<1>1. ASSUME NEW m \in Names PROVE Tracked(m)'
  <2>1. Tracked(m)
    BY DEF GeneratedIDsTracked, Tracked
  <2>2. CASE m = n
    BY <2>1, <2>2 DEF Keeps
  <2>3. CASE m # n
    BY <2>1, <2>3 DEF Keeps, Tracked
  <2>. QED
    BY <2>2, <2>3
<1>. QED
  BY <1>1 DEF Keeps, GeneratedIDsTracked, Tracked

\* An item that a rollback puts back is recorded as chosen.
LEMMA RestoreTracked ==
  ASSUME Typed, ResourceTypeOK, GeneratedIDsTracked, NEW p \in Requests, Restore(p)
  PROVE  ResourceTypeOK' /\ GeneratedIDsTracked'
<1>1. op[p].journal \in Seq(Entries) /\ op[p].journal # <<>>
  BY DEF Typed, Activations, Restore
<1>2. PICK e \in Entries : e = Last(op[p].journal)
  BY <1>1, FrontRange
<1>3. PICK n \in Names, id \in IDs : e.key = <<n, id>>
  BY DEF Entries, Keys
<1>4. e.before \in ItemOrNone /\ e.key[1] = n /\ e.key[2] = id
  BY <1>3 DEF Entries
<1>5. /\ items' = [items EXCEPT ![n][id] = e.before]
      /\ explicit' = [explicit EXCEPT ![n] = @ \cup {id}]
      /\ UNCHANGED <<counter, seed, registered>>
  BY <1>2, <1>4 DEF Restore
<1>6. /\ items' \in [Names -> [IDs -> ItemOrNone]]
      /\ \A m \in Names \ {n} : Live(m)' = Live(m)
      /\ Live(n)' = IF e.before = NoItem THEN Live(n) \ {id} ELSE Live(n) \cup {id}
  BY <1>4, <1>5, PutLive
<1>7. /\ explicit' \in [Names -> SUBSET IDs] /\ explicit'[n] = explicit[n] \cup {id}
      /\ \A m \in Names \ {n} : explicit'[m] = explicit[m]
  BY <1>5 DEF ResourceTypeOK
<1>8. ResourceTypeOK'
  BY <1>5, <1>6, <1>7 DEF ResourceTypeOK
<1>9. ASSUME NEW m \in Names PROVE Tracked(m)'
  <2>1. Tracked(m)
    BY DEF GeneratedIDsTracked, Tracked
  <2>2. CASE m = n
    <3>1. Live(n)' \subseteq Live(n) \cup {id}
      BY <1>6
    <3>. QED
      BY <1>5, <1>7, <2>1, <2>2, <3>1 DEF Tracked
  <2>3. CASE m # n
    BY <1>5, <1>6, <1>7, <2>1, <2>3 DEF Tracked
  <2>. QED
    BY <2>2, <2>3
<1>. QED
  BY <1>8, <1>9 DEF GeneratedIDsTracked, Tracked

\* Every step of requests and operations keeps the resources typed and tracked.
LEMMA ResourcesTracked ==
  ASSUME RollbackInv, ResourceTypeOK, GeneratedIDsTracked, [Next]_execVars
  PROVE  ResourceTypeOK' /\ GeneratedIDsTracked'
<1>1. CASE UNCHANGED resourceVars
  BY <1>1 DEF resourceVars, ResourceTypeOK, GeneratedIDsTracked, Live
<1>2. ASSUME NEW n \in Names, NEW id \in IDs \cup {NoId}, NEW v \in Vals, Create(n, id, v)
      PROVE  ResourceTypeOK' /\ GeneratedIDsTracked'
  BY <1>2, CreateKeeps, KeepsTracked
<1>3. ASSUME NEW n \in Names,
             \/ \E id \in IDs, v \in Vals : Update(n, id, v)
             \/ \E id \in IDs : Delete(n, id)
             \/ Clear(n) \/ Reset(n)
      PROVE  ResourceTypeOK' /\ GeneratedIDsTracked'
  BY <1>3, OtherKeeps, KeepsTracked
<1>4. ASSUME NEW p \in Requests, ExecuteStep(p)
      PROVE  ResourceTypeOK' /\ GeneratedIDsTracked'
  <2>1. CASE Begin(p) \/ StepPure(p) \/ StepFails(p) \/ RolledBack(p) \/ Respond(p)
    <3>1. UNCHANGED resourceVars
      BY <2>1 DEF Begin, StepPure, StepFails, RolledBack, Respond
    <3>. QED
      BY <1>1, <3>1
  <2>2. CASE \E kind \in {"update", "delete"}, n \in Names, id \in IDs :
               StepRecord(p, kind, n, id)
    <3>1. UNCHANGED resourceVars
      BY <2>2 DEF StepRecord
    <3>. QED
      BY <1>1, <3>1
  <2>3. CASE StepPatch(p) \/ StepDelete(p)
    <3>1. op[p].target \in Keys
      BY <2>3 DEF StepPatch, StepDelete, RollbackInv, JournalInv
    <3>2. PICK n \in Names, id \in IDs : op[p].target = <<n, id>>
      BY <3>1 DEF Keys
    <3>3. \/ \E v \in Vals : Update(n, id, v)
          \/ Delete(n, id)
          \/ UNCHANGED resourceVars
      <4>1. op[p].target[1] = n /\ op[p].target[2] = id
        BY <3>2
      <4>2. CASE StepPatch(p)
        BY <4>1, <4>2 DEF StepPatch
      <4>3. CASE StepDelete(p)
        BY <4>1, <4>3 DEF StepDelete
      <4>. QED
        BY <2>3, <4>2, <4>3
    <3>. QED
      BY <1>1, <1>3, <3>3
  <2>4. CASE \E n \in Names, id \in IDs \cup {NoId}, v \in Vals : StepCreate(p, n, id, v)
    BY <1>2, <2>4 DEF StepCreate
  <2>5. CASE Restore(p)
    BY <2>5, RestoreTracked DEF RollbackInv
  <2>. QED
    BY <1>4, <2>1, <2>2, <2>3, <2>4, <2>5 DEF ExecuteStep
<1>5. ASSUME NEW c \in Clients, NEW n \in Names,
             \/ \E id \in IDs \cup {NoId}, v \in Vals : ClientCreate(c, n, id, v)
             \/ \E id \in IDs : ClientWrite(c, n, id)
             \/ ClientClear(c, n)
      PROVE  ResourceTypeOK' /\ GeneratedIDsTracked'
  BY <1>2, <1>3, <1>5 DEF ClientCreate, ClientWrite, ClientClear
<1>6. CASE UNCHANGED execVars
  BY <1>1, <1>6 DEF execVars
<1>. QED
  BY <1>4, <1>5, <1>6 DEF Next

\* The journal, the steps and the resources together are inductive.
LEMMA ExecutorInvariant == Spec => []ExecutorInv
<1>1. Init => ResourceTypeOK /\ GeneratedIDsTracked
  BY ResourceStart DEF Init, ResourceInv
<1>2. Init => \A p \in Requests : WithinSteps(p)
  <2>1. NotBegun.steps = 0 /\ NotBegun.pc = "idle" /\ MaxSteps \in Nat
    BY ExecutorAssumption DEF NotBegun
  <2>. QED
    BY <2>1 DEF Init, WithinSteps, Fits
<1>3. ASSUME Typed, \A p \in Requests : WithinSteps(p), [Next]_execVars
      PROVE  \A p \in Requests : WithinSteps(p)'
  <2>1. ASSUME NEW p \in Requests, ExecuteStep(p), NEW q \in Requests PROVE WithinSteps(q)'
    BY <1>3, <2>1, StepsBounded DEF WithinSteps
  <2>2. CASE op' = op
    BY <1>3, <2>2 DEF WithinSteps
  <2>3. op' = op \/ \E p \in Requests : ExecuteStep(p)
    BY <1>3 DEF Next, ClientCreate, ClientWrite, ClientClear, execVars
  <2>. QED
    BY <2>1, <2>2, <2>3
<1>4. RollbackInv => Typed
  BY DEF RollbackInv
<1>5. RollbackInv /\ ResourceTypeOK /\ GeneratedIDsTracked /\ [Next]_execVars
        => (ResourceTypeOK /\ GeneratedIDsTracked)'
  BY ResourcesTracked
<1>6. RollbackInv /\ (\A p \in Requests : WithinSteps(p)) /\ [Next]_execVars
        => (\A p \in Requests : WithinSteps(p))'
  BY <1>3, <1>4
<1>. QED
  BY <1>1, <1>2, <1>5, <1>6, RollbackInvariant, PTL DEF Spec, ExecutorInv

\* Activations, journals, start states and resources always have their types, and
\* no operation runs more than its steps.
THEOREM ExecutorTypes == Spec => []TypeOK
<1>1. ExecutorInv => TypeOK
  <2>. SUFFICES ASSUME ExecutorInv PROVE TypeOK
    OBVIOUS
  <2>1. Typed /\ ResourceTypeOK
    BY DEF ExecutorInv, RollbackInv
  <2>. DEFINE R == [pc : {"idle", "run", "update", "delete", "rollback", "done"},
                    atomic : BOOLEAN, steps : 0 .. MaxSteps,
                    journal : Seq([key : Keys, before : ItemOrNone]),
                    target : Keys \cup {<<>>},
                    status : {"none", "stepError", "success", "responseError"}]
  <2>2. ASSUME NEW p \in Requests PROVE op[p] \in R
    <3>1. op[p] \in Activations /\ op[p].steps <= MaxSteps
      BY <2>1 DEF Typed, ExecutorInv, WithinSteps, Fits
    <3>2. op[p].steps \in 0 .. MaxSteps
      BY <3>1, ExecutorAssumption DEF Activations
    <3>. QED
      BY <3>1, <3>2 DEF Activations, Entries
  <2>3. op \in [Requests -> R]
    BY <2>1, <2>2 DEF Typed
  <2>. QED
    BY <2>1, <2>3 DEF Typed, TypeOK
<1>. QED
  BY <1>1, ExecutorInvariant, PTL

\* Custom operations and their rollbacks leave the sequence counters sound too: an
\* item above its counter has an ID that a client, a step or a rollback gave it.
THEOREM OperationsTrackIDs == Spec => []GeneratedIDsTracked
<1>1. ExecutorInv => GeneratedIDsTracked
  BY DEF ExecutorInv
<1>. QED
  BY <1>1, ExecutorInvariant, PTL

=============================================================================
