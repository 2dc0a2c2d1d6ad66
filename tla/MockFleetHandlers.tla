-------------------------- MODULE MockFleetHandlers --------------------------
(***************************************************************************)
(* The inductive invariant of the fleet (FleetInv), and that the steps of  *)
(* the handlers keep it, for any mocks, addresses, versions, workspaces,   *)
(* requests and faults.                                                    *)
(*                                                                         *)
(* Objects of the heap belong to one mock each (HeapOK).  A mock that no   *)
(* request works on is the same in store and engine; of a mock that one    *)
(* request alone works on, store and engine have what the phase of that    *)
(* request implies (Expect); the others are soiled.                        *)
(***************************************************************************)
EXTENDS MockFleet, TLAPS

-----------------------------------------------------------------------------
(* The inductive invariant *)

One       == {"create", "convert", "update", "patch", "merge", "toggle", "delete"}
ImportOps == {"import", "importReplace"}
Sends     == (One \ {"delete"}) \cup {"bulk"} \cup ImportOps

Activations ==
  [pc : {"idle", "write", "check", "replace", "predelete", "push", "done"},
   op : One \cup ImportOps \cup {"none", "bulk", "deleteAll"},
   ids : SUBSET MockIDs, obj : [MockIDs -> Objects \cup {Nil}], old : Objects \cup {Nil},
   calls : SUBSET (Engines \X (MockIDs \cup {0})), failed : SUBSET MockIDs,
   code : {"none", "refused", "ok", "undone"}, was : BOOLEAN]

\* How the locals of a handler hang together
ActivationOK(q) ==
  /\ q \in Activations
  /\ q.op = "none" <=> q.pc \in {"idle", "done"}
  /\ q.op = "none" => q.ids = {} /\ q.old = Nil
  /\ q.op \in One => \E id \in MockIDs : q.ids = {id}
  /\ \A id \in MockIDs : q.obj[id] # Nil <=> id \in q.ids /\ q.op \in Sends
  /\ q.old # Nil <=> q.op \in {"update", "patch", "toggle", "delete"}
  /\ q.op = "toggle" => \A id \in q.ids : q.old = q.obj[id]
  /\ q.pc \in {"check", "replace", "predelete"} => q.op = "bulk"
  /\ q.calls # {} => q.pc \in {"push", "predelete"}
  /\ IF q.op \in ImportOps THEN q.calls \subseteq {<<"local", 0>>} ELSE q.calls \subseteq Engines \X q.ids
  /\ q.failed \subseteq q.ids
  /\ q.failed # {} => q.pc = "push" /\ q.op \notin ImportOps \cup {"merge", "deleteAll"}
  /\ \A id \in q.failed : <<"local", id>> \notin q.calls

\* With store s and requests q, the object belongs to the mock: the store has it there,
\* or a request for this mock
Refers(s, q, o, id) ==
  \/ s[id] = o
  \/ \E r \in Reqs : q[r].obj[id] = o \/ (id \in q[r].ids /\ q[r].old = o)

HeldIn(s, q) ==
  {s[id] : id \in MockIDs} \cup {q[r].old : r \in Reqs}
    \cup {q[r].obj[id] : r \in Reqs, id \in MockIDs}

Heaps  == [Objects -> FleetConfig \cup {NoMock}]
StoreStates == [MockIDs -> Objects \cup {Nil}]

\* Objects that are referred to exist, and belong to one mock
HeapOK(h, s, q) ==
  \A o \in Objects, i \in MockIDs : Refers(s, q, o, i) =>
    h[o] \in FleetConfig /\ \A j \in MockIDs \ {i} : ~Refers(s, q, o, j)

BaseInv ==
  /\ heap \in Heaps /\ store \in StoreStates
  /\ DOMAIN engine = Engines /\ \A e \in Engines : Sound(engine[e])
  /\ DOMAIN req = Reqs /\ \A r \in Reqs : ActivationOK(req[r])
  /\ status \in {"none", "online", "offline"}
  /\ sync \in [pc : {"idle", "running", "send"}, mocks : Table \cup {<<>>}]
  /\ sync.pc = "send" => sync.mocks \in Table
  /\ faults \in 0 .. MaxFaults /\ soiled \subseteq MockIDs /\ current \in BOOLEAN
  /\ HeapOK(heap, store, req)

Config(s, h) == IF s = Nil THEN NoMock ELSE h[s]

\* What an engine has of the mock before the call that activation q makes to it
Before(q, id, h) ==
  IF q.op \in {"create", "convert", "bulk"} THEN NoMock
  ELSE IF q.op = "toggle" THEN Toggled(h[q.obj[id]], q.was)
  ELSE h[q.old]

\* What engine e has of the mock (m) and the store (s) while q works on it alone
Expect(q, id, e, s, h, m) ==
  /\ q.pc = "write" =>
       /\ q.op \in {"create", "convert"} => s = Nil
       /\ q.op \in {"update", "delete"} => s = q.old
       /\ q.op \in {"patch", "merge", "toggle"} => s = q.obj[id]
       /\ q.op \in One \ {"merge"} => m = Before(q, id, h)
       /\ q.op \notin One => m = Config(s, h)
  /\ q.pc \in {"check", "replace"} => m = Config(s, h)
  /\ q.pc = "predelete" => s = Nil /\ (<<e, id>> \in q.calls \/ m = NoMock)
  /\ q.pc = "push" /\ q.op \notin ImportOps =>
       /\ s = q.obj[id]
       /\ <<e, id>> \in q.calls => q.op \in {"merge", "deleteAll"} \/ m = Before(q, id, h)
       /\ <<e, id>> \notin q.calls =>
            m = IF e = "local" /\ id \in q.failed THEN Before(q, id, h) ELSE Config(s, h)
  /\ q.pc = "push" /\ q.op \in ImportOps => <<"local", 0>> \in q.calls \/ m = Config(s, h)

TouchedBy(q) == IF q.pc \in {"idle", "done"} THEN {} ELSE Touches(q.op, q.ids)

\* One request at a time works on a mock that is not soiled
Owners(q, soil) ==
  \A r, p \in Reqs : r # p => TouchedBy(q[r]) \cap TouchedBy(q[p]) \subseteq soil

\* m: the mock as engine e has it
Agreed(e, id, m, s, h, q) ==
  /\ (\A r \in Reqs : id \notin TouchedBy(q[r])) => m = Config(s[id], h)
  /\ \A r \in Reqs : id \in TouchedBy(q[r]) => Expect(q[r], id, e, s[id], h, m)

Agreement(E, s, h, q, soil, cur) ==
  /\ \A e \in Engines, id \in MockIDs \ soil :
       (e = "remote" => cur) => Agreed(e, id, E[e].mocks[id], s, h, q)
  /\ \A r \in Reqs : q[r].pc = "push" /\ q[r].op \in ImportOps => ~cur

FleetInv ==
  /\ BaseInv
  /\ Owners(req, soiled)
  /\ Agreement(engine, store, heap, req, soiled, current)

-----------------------------------------------------------------------------
(* The heap *)

\* What store and requests hold are the objects that belong to some mock.
LEMMA HeldAreReferred ==
  ASSUME NEW s, NEW q, \A r \in Reqs : ActivationOK(q[r]), NEW o \in Objects
  PROVE  o \in HeldIn(s, q) <=> \E i \in MockIDs : Refers(s, q, o, i)
<1>1. o # Nil
  BY DEF Objects, Nil
<1>2. ASSUME o \in HeldIn(s, q) PROVE \E i \in MockIDs : Refers(s, q, o, i)
  <2>1. CASE \E i \in MockIDs : s[i] = o
    BY <2>1 DEF Refers
  <2>2. CASE \E r \in Reqs, i \in MockIDs : q[r].obj[i] = o
    BY <2>2 DEF Refers
  <2>3. CASE \E r \in Reqs : q[r].old = o
    <3>1. PICK r \in Reqs : q[r].old = o
      BY <2>3
    <3>2. PICK i \in MockIDs : q[r].ids = {i}
      BY <3>1, <1>1 DEF ActivationOK, One
    <3> QED
      BY <3>1, <3>2 DEF Refers
  <2> QED
    BY <1>2, <2>1, <2>2, <2>3 DEF HeldIn
<1>3. ASSUME NEW i \in MockIDs, Refers(s, q, o, i) PROVE o \in HeldIn(s, q)
  BY <1>3 DEF Refers, HeldIn
<1> QED
  BY <1>2, <1>3

\* o belongs to the mock, or is new for it
Reaches(s, q, new, o, i) == Refers(s, q, o, i) \/ (i \in DOMAIN new /\ o = new[i])

\* What activation a and store t have for a mock they got from it, or it is new
Moves(s, q, t, a, new) ==
  \A o \in Objects, i \in MockIDs :
    t[i] = o \/ a.obj[i] = o \/ (i \in a.ids /\ a.old = o) => Reaches(s, q, new, o, i)

\* New objects, one per mock
IsNew(s, q, new) ==
  /\ DOMAIN new \subseteq MockIDs /\ \A i \in DOMAIN new : new[i] \in Objects \ HeldIn(s, q)
  /\ \A i, j \in DOMAIN new : new[i] = new[j] => i = j

Kept(h, t, p, g) ==
  \A o \in Objects : (\E i \in MockIDs : Refers(t, p, o, i)) => h[o] = g[o]

HeapFacts(k, t, p, g) == k \in Heaps /\ HeapOK(k, t, p) /\ Kept(k, t, p, g)

\* r goes on as a, the store becomes t and the heap g, without what nobody holds
Writes(s, q, h, r, a, t, new, g, p, k) ==
  /\ DOMAIN q = Reqs /\ \A x \in Reqs : ActivationOK(q[x])
  /\ HeapOK(h, s, q) /\ r \in Reqs /\ ActivationOK(a)
  /\ IsNew(s, q, new) /\ Moves(s, q, t, a, new)
  /\ \A o \in Objects, i \in MockIDs : Reaches(s, q, new, o, i) => g[o] \in FleetConfig
  /\ p = [q EXCEPT ![r] = a]
  /\ k = [o \in Objects |-> IF o \in HeldIn(t, p) THEN g[o] ELSE NoMock]

\* A step of r that moves objects within their mocks and writes configurations keeps
\* the heap in order; what is still referred to has what the step wrote.
LEMMA HeapStep ==
  ASSUME NEW s, NEW q, NEW h, NEW r, NEW a, NEW t, NEW new, NEW g, NEW p, NEW k,
         Writes(s, q, h, r, a, t, new, g, p, k)
  PROVE  HeapFacts(k, t, p, g)
<1> USE DEF Writes
<1>1. /\ DOMAIN p = Reqs /\ p[r] = a
      /\ \A x \in Reqs : x # r => p[x] = q[x]
      /\ \A x \in Reqs : ActivationOK(p[x])
  OBVIOUS
<1>2. ASSUME NEW o \in Objects, NEW i \in MockIDs, Refers(t, p, o, i) PROVE Reaches(s, q, new, o, i)
  <2>1. CASE t[i] = o \/ a.obj[i] = o \/ (i \in a.ids /\ a.old = o)
    BY <2>1 DEF Moves
  <2>2. CASE \E x \in Reqs : x # r /\ (q[x].obj[i] = o \/ (i \in q[x].ids /\ q[x].old = o))
    BY <2>2 DEF Reaches, Refers
  <2> QED
    BY <1>1, <1>2, <2>1, <2>2 DEF Refers
<1>3. ASSUME NEW o \in Objects, NEW i \in MockIDs, NEW j \in MockIDs, i # j,
             Reaches(s, q, new, o, i), Reaches(s, q, new, o, j)
      PROVE  FALSE
  <2>1. \A x \in MockIDs : Refers(s, q, o, x) => o \in HeldIn(s, q)
    BY HeldAreReferred
  <2>2. CASE Refers(s, q, o, i) /\ Refers(s, q, o, j)
    BY <2>2, <1>3 DEF HeapOK
  <2>3. CASE ~Refers(s, q, o, i)
    BY <2>3, <2>1, <1>3 DEF Reaches, IsNew
  <2>4. CASE ~Refers(s, q, o, j)
    BY <2>4, <2>1, <1>3 DEF Reaches, IsNew
  <2> QED
    BY <2>2, <2>3, <2>4
<1>4. ASSUME NEW o \in Objects PROVE o \in HeldIn(t, p) <=> \E i \in MockIDs : Refers(t, p, o, i)
  BY <1>1, HeldAreReferred, Zenon
<1>5. Kept(k, t, p, g)
  BY <1>4, Zenon DEF Kept
<1>6. HeapOK(k, t, p)
  BY <1>2, <1>3, <1>5, Zenon DEF HeapOK, Kept
<1>7. ASSUME NEW o \in Objects PROVE k[o] \in FleetConfig \cup {NoMock}
  <2>1. CASE o \in HeldIn(t, p)
    BY <2>1, <1>2, <1>4, Zenon
  <2>2. CASE o \notin HeldIn(t, p)
    BY <2>2
  <2> QED
    BY <2>1, <2>2
<1> QED
  BY <1>5, <1>6, <1>7, Zenon DEF Heaps, HeapFacts

-----------------------------------------------------------------------------
(* Activations *)

Entered(op, ids, obj, old, was, pc) ==
  [NotSent EXCEPT !.pc = pc, !.op = op, !.ids = ids, !.obj = obj, !.old = old, !.was = was]

\* What a handler that goes on to write the store has found
EnterArgs(op, ids, obj, old, was, pc) ==
  /\ op \in One \cup ImportOps \cup {"bulk", "deleteAll"}
  /\ pc \in {"write", "check", "replace"} /\ (pc = "write" <=> op # "bulk")
  /\ ids \subseteq MockIDs /\ obj \in [MockIDs -> Objects \cup {Nil}] /\ old \in Objects \cup {Nil}
  /\ was \in BOOLEAN
  /\ op \in One => \E id \in MockIDs : ids = {id}
  /\ \A id \in MockIDs : obj[id] # Nil <=> id \in ids /\ op \in Sends
  /\ old # Nil <=> op \in {"update", "patch", "toggle", "delete"}
  /\ op = "toggle" => \A id \in ids : old = obj[id]

\* Before a request, a client's activation has no locals.
LEMMA NotSentOK ==
  /\ NotSent \in Activations
  /\ NotSent.op = "none" /\ NotSent.ids = {} /\ NotSent.old = Nil /\ NotSent.calls = {}
  /\ NotSent.failed = {} /\ NotSent.code = "none" /\ \A i \in MockIDs : NotSent.obj[i] = Nil
  BY DEF NotSent, Activations

\* A handler enters with its locals in order.
LEMMA EnteredOK ==
  ASSUME NEW op, NEW ids, NEW obj, NEW old, NEW was, NEW pc, EnterArgs(op, ids, obj, old, was, pc)
  PROVE  ActivationOK(Entered(op, ids, obj, old, was, pc))
<1> DEFINE a == Entered(op, ids, obj, old, was, pc)
<1>2. a \in Activations
  BY NotSentOK, Zenon DEF Activations, EnterArgs, Entered
<1>3. /\ a.pc = pc /\ a.op = op /\ a.ids = ids /\ a.obj = obj /\ a.old = old
      /\ a.calls = {} /\ a.failed = {}
  BY NotSentOK DEF Activations, Entered
<1> HIDE DEF a
<1> QED
  BY <1>2, <1>3 DEF ActivationOK, EnterArgs, One, ImportOps, a

\* An answered request has no locals.
LEMMA DoneOK ==
  ASSUME NEW pc \in {"idle", "done"}, NEW code \in {"none", "refused", "ok", "undone"}
  PROVE  LET a == [NotSent EXCEPT !.pc = pc, !.code = code] IN
         /\ ActivationOK(a) /\ TouchedBy(a) = {}
         /\ a.op = "none" /\ a.ids = {} /\ a.old = Nil /\ \A i \in MockIDs : a.obj[i] = Nil
<1> DEFINE a == [NotSent EXCEPT !.pc = pc, !.code = code]
<1>1. /\ a.pc = pc /\ a.op = "none" /\ a.ids = {} /\ a.old = Nil /\ a.calls = {}
      /\ a.failed = {} /\ \A i \in MockIDs : a.obj[i] = Nil
  BY NotSentOK DEF Activations
<1>2. a \in Activations
  BY NotSentOK, Zenon DEF Activations
<1> HIDE DEF a
<1>3. ActivationOK(a)
  BY <1>1, <1>2 DEF ActivationOK, One, ImportOps, Sends
<1> QED
  BY <1>1, <1>3 DEF TouchedBy, a

\* The calls that follow a write of the store
CallsOK(q, calls) ==
  IF q.op \in ImportOps THEN calls \subseteq {<<"local", 0>>} ELSE calls \subseteq Engines \X q.ids

\* a is q in another phase, with other calls to make and other failures
WentOn(q, a, pc, calls, failed) ==
  /\ ActivationOK(a) /\ a.pc = pc /\ a.calls = calls /\ a.op = q.op /\ a.ids = q.ids
  /\ a.obj = q.obj /\ a.old = q.old /\ a.failed = failed /\ a.was = q.was

\* Going on to the next phase.
LEMMA GotoOK ==
  ASSUME NEW q, ActivationOK(q), q.op # "none", q.pc # "push", NEW calls, CallsOK(q, calls),
         NEW pc \in {"check", "predelete", "push"},
         pc # "push" => q.op = "bulk" /\ q.failed = {},
         pc = "check" => calls = {}
  PROVE  WentOn(q, [q EXCEPT !.pc = pc, !.calls = calls], pc, calls, q.failed)
<1> DEFINE a == [q EXCEPT !.pc = pc, !.calls = calls]
<1>1. q \in Activations /\ q.ids \subseteq MockIDs
  BY DEF ActivationOK, Activations
<1>2. /\ a.pc = pc /\ a.calls = calls /\ a.op = q.op /\ a.ids = q.ids
      /\ a.obj = q.obj /\ a.old = q.old /\ a.failed = q.failed /\ a.was = q.was
  BY <1>1 DEF Activations
<1>3. calls \subseteq Engines \X (MockIDs \cup {0})
  <2>1. CASE q.op \in ImportOps
    BY <2>1 DEF CallsOK, Engines
  <2>2. CASE q.op \notin ImportOps
    BY <2>2, <1>1 DEF CallsOK
  <2> QED
    BY <2>1, <2>2
<1>4. a \in Activations
  BY <1>1, <1>3, Zenon DEF Activations
<1> HIDE DEF a
<1>5. q.failed = {}
  BY DEF ActivationOK
<1>6. ActivationOK(a)
  BY <1>2, <1>4, <1>5 DEF ActivationOK, CallsOK
<1> QED
  BY <1>2, <1>6 DEF a, WentOn

\* A call is answered.
LEMMA CallOK ==
  ASSUME NEW q, ActivationOK(q), NEW c \in q.calls, NEW failed,
         failed = q.failed \/ (/\ failed = q.failed \cup {c[2]} /\ c[1] = "local" /\ q.pc = "push"
                               /\ q.op \notin ImportOps \cup {"merge", "deleteAll"})
  PROVE  WentOn(q, [q EXCEPT !.calls = @ \ {c}, !.failed = failed], q.pc, q.calls \ {c}, failed)
<1> DEFINE a == [q EXCEPT !.calls = @ \ {c}, !.failed = failed]
<1>1. q \in Activations /\ q.ids \subseteq MockIDs
  BY DEF ActivationOK, Activations
<1>2. failed \subseteq q.ids
  BY DEF ActivationOK
<1>3. /\ a.calls = q.calls \ {c} /\ a.failed = failed /\ a.pc = q.pc
      /\ a.op = q.op /\ a.ids = q.ids /\ a.obj = q.obj /\ a.old = q.old /\ a.was = q.was
  BY <1>1 DEF Activations
<1>4. a \in Activations
  BY <1>1, <1>2, Zenon DEF Activations
<1> HIDE DEF a
<1>5. ASSUME NEW i \in failed PROVE <<"local", i>> \notin q.calls \ {c}
  <2>1. CASE i \in q.failed
    BY <2>1 DEF ActivationOK
  <2>2. CASE i = c[2] /\ c[1] = "local"
    BY <2>2, <1>1 DEF Activations
  <2> QED
    BY <1>5, <2>1, <2>2
<1>6. ActivationOK(a)
  BY <1>2, <1>3, <1>4, <1>5 DEF ActivationOK
<1> QED
  BY <1>3, <1>6 DEF a, WentOn

-----------------------------------------------------------------------------
(* One step of one request *)

\* The objects of the mock that the store and q have
SameObjects(q, i, s, h, k) ==
  \A o : o # Nil /\ (o = s \/ o = q.obj[i] \/ (i \in q.ids /\ o = q.old)) => k[o] = h[o]

\* An activation alone on a mock expects the same as long as its objects are the same.
LEMMA ExpectKept ==
  ASSUME NEW q, ActivationOK(q), NEW i \in MockIDs, i \in TouchedBy(q), NEW e, NEW s, NEW h, NEW k, NEW m,
         Expect(q, i, e, s, h, m), SameObjects(q, i, s, h, k)
  PROVE  Expect(q, i, e, s, k, m)
<1> USE DEF SameObjects
<1>1. Config(s, k) = Config(s, h)
  BY DEF Config
<1>2. CASE q.op \in {"create", "convert", "bulk"}
  <2>1. Before(q, i, k) = Before(q, i, h)
    BY <1>2 DEF Before
  <2> QED
    BY <1>1, <2>1 DEF Expect
<1>3. CASE q.op \in {"update", "patch", "delete", "toggle"}
  <2>1. i \in q.ids /\ q.old # Nil /\ (q.op = "toggle" => q.obj[i] # Nil)
    BY <1>3 DEF ActivationOK, TouchedBy, Touches, Sends, One
  <2>2. Before(q, i, k) = Before(q, i, h)
    BY <1>3, <2>1 DEF Before
  <2> QED
    BY <1>1, <2>2 DEF Expect
<1>4. CASE q.op \in ImportOps \cup {"merge", "deleteAll", "none"}
  <2>1. q.op \notin One \ {"merge"} /\ q.failed = {} /\ q.op # "bulk"
    BY <1>4 DEF ActivationOK, One, ImportOps
  <2>2. q.op # "none"
    BY DEF ActivationOK, TouchedBy
  <2> QED
    BY <1>1, <1>4, <2>1, <2>2 DEF Expect
<1> QED
  BY <1>2, <1>3, <1>4 DEF ActivationOK, Activations, One

\* The mocks r does not work on are left alone
LeftAlone(E, s, h, q, r, a, F, t, g, soil) ==
  \A i \in MockIDs \ soil : i \notin TouchedBy(q[r]) /\ i \notin TouchedBy(a) =>
    /\ t[i] = s[i]
    /\ \A e \in Engines : F[e].mocks[i] = E[e].mocks[i]
    /\ \A o \in Objects : Refers(s, q, o, i) => g[o] = h[o]

\* What activation a is to find on its mocks, and what it leaves on those it has left
OwnMocks(q, r, a, F, t, k, soil, cur) ==
  /\ \A i \in TouchedBy(a) \ soil :
       i \in TouchedBy(q[r]) \/ \A x \in Reqs \ {r} : i \notin TouchedBy(q[x])
  /\ \A e \in Engines, i \in MockIDs \ soil : (e = "remote" => cur) =>
       /\ i \in TouchedBy(a) => Expect(a, i, e, t[i], k, F[e].mocks[i])
       /\ i \in TouchedBy(q[r]) /\ i \notin TouchedBy(a) => F[e].mocks[i] = Config(t[i], k)
  /\ a.pc = "push" /\ a.op \in ImportOps => ~cur

\* Before the step everything is in order; r goes on as a and keeps to its own mocks
Steps(E, s, h, q, soil, cur, r, a, p, F, t, k, g, soil2, cur2) ==
  /\ s \in StoreStates /\ DOMAIN q = Reqs /\ \A x \in Reqs : ActivationOK(q[x])
  /\ Owners(q, soil) /\ Agreement(E, s, h, q, soil, cur)
  /\ r \in Reqs /\ ActivationOK(a) /\ p = [q EXCEPT ![r] = a] /\ Kept(k, t, p, g)
  /\ soil \subseteq soil2 /\ (cur2 => cur)
  /\ LeftAlone(E, s, h, q, r, a, F, t, g, soil2)
  /\ OwnMocks(q, r, a, F, t, k, soil2, cur2)

\* A step of r that keeps to its own mocks keeps the agreement on all of them.
LEMMA AgreementStep ==
  ASSUME NEW E, NEW s, NEW h, NEW q, NEW soil, NEW cur, NEW r, NEW a, NEW p,
         NEW F, NEW t, NEW k, NEW g, NEW soil2, NEW cur2,
         Steps(E, s, h, q, soil, cur, r, a, p, F, t, k, g, soil2, cur2)
  PROVE  Owners(p, soil2) /\ Agreement(F, t, k, p, soil2, cur2)
<1> USE DEF Steps
<1>1. p[r] = a /\ \A x \in Reqs : x # r => p[x] = q[x]
  OBVIOUS
<1>2. ASSUME NEW x \in Reqs, NEW y \in Reqs, x # y, NEW i \in MockIDs \ soil2,
             i \in TouchedBy(p[x]), i \in TouchedBy(p[y])
      PROVE  FALSE
  <2>1. i \notin soil
    OBVIOUS
  <2>2. CASE x # r /\ y # r
    BY <1>1, <1>2, <2>1, <2>2 DEF Owners
  <2>3. CASE x = r
    BY <1>1, <1>2, <2>1, <2>3 DEF Owners, OwnMocks
  <2>4. CASE y = r
    BY <1>1, <1>2, <2>1, <2>4 DEF Owners, OwnMocks
  <2> QED
    BY <2>2, <2>3, <2>4
<1>3. \A x \in Reqs : TouchedBy(p[x]) \subseteq MockIDs
  BY <1>1 DEF TouchedBy, Touches, ActivationOK, Activations
<1>4. Owners(p, soil2)
  BY <1>2, <1>3 DEF Owners
<1>5. ASSUME NEW e \in Engines, NEW i \in MockIDs \ soil2, e = "remote" => cur2
      PROVE  Agreed(e, i, F[e].mocks[i], t, k, p)
  <2>1. Agreed(e, i, E[e].mocks[i], s, h, q) /\ i \notin soil
    BY <1>5 DEF Agreement
  <2>2. CASE i \in TouchedBy(a)
    <3>1. \A x \in Reqs : i \in TouchedBy(p[x]) => x = r
      BY <1>1, <1>2, <2>2
    <3>2. Expect(a, i, e, t[i], k, F[e].mocks[i])
      BY <1>5, <2>2 DEF OwnMocks
    <3> QED
      BY <3>1, <3>2, <2>2, <1>1 DEF Agreed
  <2>3. CASE i \in TouchedBy(q[r]) /\ i \notin TouchedBy(a)
    <3>1. \A x \in Reqs : i \notin TouchedBy(p[x])
      BY <1>1, <2>1, <2>3 DEF Owners
    <3>2. F[e].mocks[i] = Config(t[i], k)
      BY <1>5, <2>3 DEF OwnMocks
    <3> QED
      BY <3>1, <3>2 DEF Agreed
  <2>4. CASE i \notin TouchedBy(q[r]) /\ i \notin TouchedBy(a)
    <3>1. /\ t[i] = s[i] /\ F[e].mocks[i] = E[e].mocks[i]
          /\ \A o \in Objects : Refers(s, q, o, i) /\ Refers(t, p, o, i) => k[o] = h[o]
      BY <2>4, <1>5, Zenon DEF LeftAlone, Kept
    <3>2. s[i] \in Objects \cup {Nil}
      BY DEF StoreStates
    <3>3. \A x \in Reqs : i \in TouchedBy(p[x]) => x # r
      BY <1>1, <2>4
    <3>4. CASE \A x \in Reqs : i \notin TouchedBy(p[x])
      <4>1. \A x \in Reqs : i \notin TouchedBy(q[x])
        BY <1>1, <2>4, <3>4
      <4>2. Config(t[i], k) = Config(s[i], h)
        BY <3>1, <3>2 DEF Config, Refers
      <4> QED
        BY <4>1, <4>2, <3>1, <3>4, <2>1 DEF Agreed
    <3>5. ASSUME NEW x \in Reqs, i \in TouchedBy(p[x]) PROVE Expect(p[x], i, e, t[i], k, F[e].mocks[i])
      <4>1. x # r /\ p[x] = q[x] /\ i \in TouchedBy(q[x])
        BY <1>1, <3>3, <3>5
      <4>2. Expect(q[x], i, e, s[i], h, E[e].mocks[i])
        BY <4>1, <2>1 DEF Agreed
      <4>3. q[x].obj[i] \in Objects \cup {Nil} /\ q[x].old \in Objects \cup {Nil}
        BY DEF ActivationOK, Activations
      <4>4. ASSUME NEW o, o # Nil, o = s[i] \/ o = q[x].obj[i] \/ (i \in q[x].ids /\ o = q[x].old)
            PROVE  k[o] = h[o]
        <5>1. o \in Objects
          BY <4>3, <4>4, <3>2
        <5>2. Refers(s, q, o, i) /\ Refers(t, p, o, i)
          BY <4>4, <4>1, <3>1 DEF Refers
        <5> QED
          BY <5>1, <5>2, <3>1, Zenon
      <4>5. Expect(q[x], i, e, s[i], k, E[e].mocks[i])
        <5>1. SameObjects(q[x], i, s[i], h, k)
          BY <4>4 DEF SameObjects
        <5> QED
          BY <4>1, <4>2, <5>1, ExpectKept
      <4> QED
        BY <4>1, <4>5, <3>1
    <3> QED
      BY <3>4, <3>5 DEF Agreed
  <2> QED
    BY <2>2, <2>3, <2>4
<1>6. ASSUME NEW x \in Reqs, p[x].pc = "push", p[x].op \in ImportOps PROVE ~cur2
  BY <1>1, <1>6 DEF OwnMocks, Agreement
<1> QED
  BY <1>4, <1>5, <1>6, Zenon DEF Agreement

\* No new objects
Nothing == [i \in {} |-> Nil]

\* A step that moves objects and writes none of them.
LEMMA HeapSame ==
  ASSUME NEW s, NEW q, DOMAIN q = Reqs, NEW h \in Heaps, HeapOK(h, s, q),
         NEW r \in Reqs, NEW a, NEW t, Moves(s, q, t, a, Nothing),
         NEW p, p = [q EXCEPT ![r] = a]
  PROVE  HeapFacts(h, t, p, h)
<1>1. p[r] = a /\ \A x \in Reqs : x # r => p[x] = q[x]
  OBVIOUS
<1>2. ASSUME NEW o \in Objects, NEW i \in MockIDs, Refers(t, p, o, i) PROVE Refers(s, q, o, i)
  <2>1. CASE t[i] = o \/ a.obj[i] = o \/ (i \in a.ids /\ a.old = o)
    BY <2>1 DEF Moves, Reaches, Nothing
  <2>2. CASE \E x \in Reqs : x # r /\ (q[x].obj[i] = o \/ (i \in q[x].ids /\ q[x].old = o))
    BY <2>2 DEF Refers
  <2> QED
    BY <1>1, <1>2, <2>1, <2>2 DEF Refers
<1> QED
  BY <1>2, Zenon DEF HeapFacts, HeapOK, Kept

\* Heap(g) keeps the heap in order.
LEMMA HeapWritten ==
  ASSUME DOMAIN req = Reqs, \A x \in Reqs : ActivationOK(req[x]), HeapOK(heap, store, req),
         NEW r \in Reqs, NEW a, ActivationOK(a), req' = [req EXCEPT ![r] = a],
         NEW new, IsNew(store, req, new), Moves(store, req, store', a, new),
         NEW g, Heap(g),
         \A o \in Objects, i \in MockIDs : Reaches(store, req, new, o, i) => g[o] \in FleetConfig
  PROVE  HeapFacts(heap', store', req', g)
<1>1. heap' = [o \in Objects |-> IF o \in HeldIn(store', req') THEN g[o] ELSE NoMock]
  BY DEF Heap, Held, HeldIn
<1>2. Writes(store, req, heap, r, a, store', new, g, req', heap')
  BY <1>1 DEF Writes
<1> QED
  BY <1>2, HeapStep

\* The invariant after a step of r, from what the step does to heap, store and engines.
LEMMA StepKeeps ==
  ASSUME FleetInv, NEW r \in Reqs, NEW a, ActivationOK(a), req' = [req EXCEPT ![r] = a],
         store' \in StoreStates, NEW g, HeapFacts(heap', store', req', g),
         DOMAIN engine' = Engines, \A e \in Engines : Sound(engine'[e]),
         UNCHANGED <<status, sync>>, faults' \in 0 .. MaxFaults,
         soiled \subseteq soiled', soiled' \subseteq MockIDs,
         current' \in BOOLEAN, current' => current,
         LeftAlone(engine, store, heap, req, r, a, engine', store', g, soiled'),
         OwnMocks(req, r, a, engine', store', heap', soiled', current')
  PROVE  FleetInv'
<1>1. /\ DOMAIN req = Reqs /\ store \in StoreStates /\ \A x \in Reqs : ActivationOK(req[x])
      /\ Owners(req, soiled) /\ Agreement(engine, store, heap, req, soiled, current)
  BY DEF FleetInv, BaseInv
<1>0. Steps(engine, store, heap, req, soiled, current, r, a, req',
            engine', store', heap', g, soiled', current')
  BY <1>1 DEF Steps, HeapFacts
<1>2. Owners(req', soiled') /\ Agreement(engine', store', heap', req', soiled', current')
  BY <1>0, AgreementStep
<1>3. DOMAIN req' = Reqs /\ \A x \in Reqs : ActivationOK(req'[x])
  BY <1>1
<1>4. BaseInv'
  BY <1>3 DEF FleetInv, BaseInv, HeapFacts
<1> QED
  BY <1>2, <1>4 DEF FleetInv

-----------------------------------------------------------------------------
(* Handlers, up to the write of the store *)

\* No object of a mock outside ids is written
Spares(ids, g) ==
  \A i \in MockIDs \ ids, o \in Objects : Refers(store, req, o, i) => g[o] = heap[o]

\* An engine that has the mocks ids of the store has what activation a expects
Finds(a, ids) ==
  \A i \in ids, e \in Engines : Expect(a, i, e, store[i], heap', Config(store[i], heap))

\* Entering a handler keeps the invariant, if what it finds is what it expects.
LEMMA EnterKeeps ==
  ASSUME FleetInv, NEW r \in Reqs,
         NEW op, NEW ids, NEW obj, NEW old, NEW was, NEW pc,
         Enter(r, op, ids, obj, old, was, pc), EnterArgs(op, ids, obj, old, was, pc),
         NEW g, HeapFacts(heap', store, req', g), Spares(Touches(op, ids), g),
         Finds(Entered(op, ids, obj, old, was, pc), Touches(op, ids))
  PROVE  FleetInv'
<1> PICK a : a = Entered(op, ids, obj, old, was, pc)
  OBVIOUS
<1>1. ActivationOK(a)
  BY EnteredOK
<1>2. a.pc = pc /\ a.op = op /\ a.ids = ids
  BY NotSentOK DEF Entered, Activations
<1>3. /\ req' = [req EXCEPT ![r] = a] /\ UNCHANGED <<store, engine, status, sync, faults, current>>
      /\ soiled' = soiled \cup Overlap(r, Touches(op, ids)) /\ ~Active(r)
  BY DEF Enter, Entered
<1>4. TouchedBy(a) = Touches(op, ids) /\ a.pc # "push"
  BY <1>2 DEF TouchedBy, EnterArgs
<1>5. \A x \in Reqs : Touched(x) = TouchedBy(req[x])
  BY DEF Touched, TouchedBy, Active
<1>6. TouchedBy(req[r]) = {}
  BY <1>3 DEF Active, TouchedBy
<1>7. Touches(op, ids) \subseteq MockIDs
  BY DEF Touches, EnterArgs
<1>8. LeftAlone(engine, store, heap, req, r, a, engine', store', g, soiled')
  BY <1>3, <1>4 DEF LeftAlone, Spares
<1>9. ASSUME NEW i \in TouchedBy(a) \ soiled' PROVE \A x \in Reqs : i \notin TouchedBy(req[x])
  BY <1>3, <1>4, <1>5, <1>6, <1>9 DEF Overlap
<1>10. OwnMocks(req, r, a, engine', store', heap', soiled', current')
  <2>1. ASSUME NEW e \in Engines, NEW i \in MockIDs \ soiled', e = "remote" => current', i \in TouchedBy(a)
        PROVE  Expect(a, i, e, store'[i], heap', engine'[e].mocks[i])
    <3>1. Agreed(e, i, engine[e].mocks[i], store, heap, req)
      BY <2>1, <1>3 DEF FleetInv, Agreement
    <3>2. engine[e].mocks[i] = Config(store[i], heap)
      BY <3>1, <2>1, <1>9 DEF Agreed
    <3> QED
      BY <3>2, <2>1, <1>3, <1>4, Zenon DEF Finds
  <2> QED
    BY <2>1, <1>4, <1>6, <1>9 DEF OwnMocks
<1>11. /\ store' \in StoreStates /\ DOMAIN engine' = Engines /\ \A e \in Engines : Sound(engine'[e])
       /\ faults' \in 0 .. MaxFaults /\ current' \in BOOLEAN /\ soiled' \subseteq MockIDs
  BY <1>3, <1>7 DEF FleetInv, BaseInv, Overlap
<1> QED
  BY <1>1, <1>3, <1>8, <1>10, <1>11, StepKeeps, Zenon

\* Refusing a request keeps the invariant, if only objects of soiled mocks were written.
LEMMA RefuseKeeps ==
  ASSUME FleetInv, NEW r \in Reqs, Refuse(r), NEW g, HeapFacts(heap', store, req', g),
         soiled \subseteq soiled', soiled' \subseteq MockIDs, Spares(soiled', g)
  PROVE  FleetInv'
<1> PICK a : a = [NotSent EXCEPT !.pc = "done", !.code = "refused"]
  OBVIOUS
<1>1. ActivationOK(a) /\ TouchedBy(a) = {} /\ a.op = "none"
  BY DoneOK
<1>2. /\ req' = [req EXCEPT ![r] = a] /\ UNCHANGED <<store, engine, status, sync, faults, current>>
      /\ ~Active(r)
  BY DEF Refuse, Done
<1>3. TouchedBy(req[r]) = {}
  BY <1>2 DEF Active, TouchedBy
<1>4. LeftAlone(engine, store, heap, req, r, a, engine', store', g, soiled')
  BY <1>2 DEF LeftAlone, Spares
<1>5. OwnMocks(req, r, a, engine', store', heap', soiled', current')
  BY <1>1, <1>3 DEF OwnMocks, ImportOps
<1>6. /\ store' \in StoreStates /\ DOMAIN engine' = Engines /\ \A e \in Engines : Sound(engine'[e])
      /\ faults' \in 0 .. MaxFaults /\ current' \in BOOLEAN
  BY <1>2 DEF FleetInv, BaseInv
<1> QED
  BY <1>1, <1>2, <1>4, <1>5, <1>6, StepKeeps, Zenon

\* New objects are new.
LEMMA AllocIsNew ==
  ASSUME NEW ids, ids \subseteq MockIDs, Room(ids)
  PROVE  IsNew(store, req, Alloc(ids)) /\ DOMAIN Alloc(ids) = ids
<1>1. Alloc(ids) \in [ids -> Objects \ Held] /\ IsInjective(Alloc(ids))
  BY DEF Room, Alloc
<1>2. Held = HeldIn(store, req)
  BY DEF Held, HeldIn
<1> QED
  BY <1>1, <1>2 DEF IsNew, IsInjective

\* What is new belongs to no mock.
LEMMA NewUnreferred ==
  ASSUME BaseInv, NEW new, IsNew(store, req, new), NEW j \in DOMAIN new, NEW i \in MockIDs
  PROVE  ~Refers(store, req, new[j], i) /\ new[j] \in Objects
<1>1. new[j] \in Objects /\ new[j] \notin HeldIn(store, req)
  BY DEF IsNew
<1> QED
  BY <1>1, HeldAreReferred DEF BaseInv

\* The heap with new objects, one per mock of ids
FreshHeap(ids, new, g) ==
  \A o \in Objects : IF \E i \in ids : new[i] = o THEN g[o] \in FleetConfig ELSE g[o] = heap[o]

\* A new object for every mock of the request: create, update, bulk create, import.
LEMMA EnterFresh ==
  ASSUME FleetInv, NEW r \in Reqs, NEW ids, ids \subseteq MockIDs, NEW new, new = Alloc(ids), Room(ids),
         NEW op \in {"create", "convert", "update", "bulk", "import", "importReplace"},
         NEW pc \in {"write", "check", "replace"}, pc = "write" <=> op # "bulk",
         NEW old, op \in One => \E id \in MockIDs : ids = {id},
         op \in {"create", "convert"} => \A id \in ids : store[id] = Nil,
         IF op = "update" THEN old # Nil /\ \A id \in ids : store[id] = old ELSE old = Nil,
         Enter(r, op, ids, At(ids, new), old, FALSE, pc),
         NEW g, Heap(g), FreshHeap(ids, new, g)
  PROVE  FleetInv'
<1> PICK obj : obj = At(ids, new)
  OBVIOUS
<1> PICK a : a = Entered(op, ids, obj, old, FALSE, pc)
  BY Zenon
<1>1. IsNew(store, req, new) /\ DOMAIN new = ids
  BY AllocIsNew
<1>2. /\ DOMAIN req = Reqs /\ store \in StoreStates /\ HeapOK(heap, store, req)
      /\ \A x \in Reqs : ActivationOK(req[x])
  BY DEF FleetInv, BaseInv
<1>3. \A i \in MockIDs : obj[i] = IF i \in ids THEN new[i] ELSE Nil
  BY DEF At
<1>4. \A i \in ids : new[i] \in Objects /\ new[i] # Nil
  BY <1>1 DEF IsNew, Objects, Nil
<1>5. EnterArgs(op, ids, obj, old, FALSE, pc)
  <2>1. obj \in [MockIDs -> Objects \cup {Nil}]
    BY <1>4 DEF At
  <2>2. old \in Objects \cup {Nil}
    BY <1>2 DEF StoreStates, One
  <2>3. \A id \in MockIDs : obj[id] # Nil <=> id \in ids /\ op \in Sends
    BY <1>3, <1>4 DEF Sends, One, ImportOps
  <2> QED
    BY <2>1, <2>2, <2>3 DEF EnterArgs, One, ImportOps
<1>6. a.obj = obj /\ a.ids = ids /\ a.old = old /\ a.op = op /\ a.pc = pc /\ a.calls = {} /\ a.failed = {}
  BY NotSentOK DEF Entered, Activations
<1>7. req' = [req EXCEPT ![r] = a] /\ store' = store
  BY DEF Enter, Entered
<1>8. Moves(store, req, store', a, new)
  <2>1. ASSUME NEW o \in Objects, NEW i \in MockIDs, i \in a.ids, a.old = o PROVE Refers(store, req, o, i)
    <3>1. o # Nil
      BY DEF Objects, Nil
    <3>2. store[i] = o
      BY <2>1, <3>1, <1>6, Zenon
    <3> QED
      BY <3>2 DEF Refers
  <2>2. ASSUME NEW o \in Objects, NEW i \in MockIDs, a.obj[i] = o PROVE i \in ids /\ o = new[i]
    <3>1. o # Nil
      BY DEF Objects, Nil
    <3>2. obj[i] = o
      BY <2>2, <1>6, Zenon
    <3>3. i \in ids
      BY <3>1, <3>2, <1>3, Zenon
    <3> QED
      BY <3>2, <3>3, <1>3, Zenon
  <2> QED
    BY <2>1, <2>2, <1>1, <1>7, Zenon DEF Moves, Reaches, Refers
<1>9. ASSUME NEW o \in Objects, NEW i \in MockIDs, Refers(store, req, o, i) PROVE g[o] = heap[o]
  <2>1. BaseInv
    BY DEF FleetInv
  <2>2. ASSUME NEW j \in ids PROVE new[j] # o
    <3>1. ~Refers(store, req, new[j], i)
      BY <1>1, <2>1, NewUnreferred, Zenon
    <3> QED
      BY <1>9, <3>1, Zenon
  <2> QED
    BY <2>2, Zenon DEF FreshHeap
<1>10. HeapFacts(heap', store', req', g)
  <2>1. \A o \in Objects, i \in MockIDs : Reaches(store, req, new, o, i) => g[o] \in FleetConfig
    BY <1>1, <1>2, <1>9, Zenon DEF Reaches, HeapOK, FreshHeap
  <2>2. ActivationOK(a)
    BY <1>5, EnteredOK, Zenon
  <2> QED
    BY <2>1, <2>2, <1>1, <1>2, <1>7, <1>8, HeapWritten, Zenon
<1>11. ASSUME NEW i \in Touches(op, ids), NEW e \in Engines
       PROVE  Expect(a, i, e, store[i], heap', Config(store[i], heap))
  <2>1. i \in MockIDs /\ store[i] \in Objects \cup {Nil}
    BY <1>2 DEF Touches, StoreStates
  <2>2. store[i] # Nil => heap'[store[i]] = heap[store[i]]
    BY <2>1, <1>7, <1>9, <1>10, Zenon DEF HeapFacts, Kept, Refers
  <2>3. Config(store[i], heap') = Config(store[i], heap)
    BY <2>2 DEF Config
  <2>4. CASE op \in {"create", "convert", "update"}
    <3>1. i \in ids
      BY <2>4 DEF Touches
    <3>2. CASE op \in {"create", "convert"}
      <4>1. store[i] = Nil /\ Config(store[i], heap) = NoMock
        BY <3>1, <3>2 DEF Config
      <4>2. Before(a, i, heap') = NoMock
        BY <3>2, <1>6, Zenon DEF Before
      <4> QED
        BY <4>1, <4>2, <3>2, <1>6, Zenon DEF Expect, One
    <3>3. CASE op = "update"
      <4>1. store[i] = old /\ Config(store[i], heap) = heap'[old]
        BY <3>1, <3>3, <2>2 DEF Config
      <4>2. Before(a, i, heap') = heap'[old]
        BY <3>3, <1>6, Zenon DEF Before
      <4> QED
        BY <4>1, <4>2, <3>3, <1>6, Zenon DEF Expect, One
    <3> QED
      BY <3>2, <3>3, <2>4, Zenon
  <2>5. CASE op \in {"bulk", "import", "importReplace"}
    BY <2>3, <2>5, <1>6, Zenon DEF Expect, One
  <2> QED
    BY <2>4, <2>5, Zenon
<1>12. Spares(Touches(op, ids), g) /\ Finds(a, Touches(op, ids))
  BY <1>9, <1>11, Zenon DEF Spares, Finds
<1>13. Enter(r, op, ids, obj, old, FALSE, pc)
  BY Zenon
<1> QED
  BY <1>5, <1>7, <1>10, <1>12, <1>13, EnterKeeps, Zenon

\* The heap g has the store's own object of the mock written, and a copy made in new
InPlace(id, new, g) ==
  /\ store[id] # Nil /\ IsNew(store, req, new) /\ DOMAIN new \subseteq {id}
  /\ \A o \in Objects :
       IF o = store[id] \/ (id \in DOMAIN new /\ o = new[id]) THEN g[o] \in FleetConfig ELSE g[o] = heap[o]

\* Writing the store's own object of a mock leaves other mocks' objects alone.
LEMMA InPlaceHeap ==
  ASSUME FleetInv, NEW r \in Reqs, NEW a, ActivationOK(a), req' = [req EXCEPT ![r] = a], store' = store,
         NEW id \in MockIDs, NEW new, NEW g, InPlace(id, new, g), Heap(g),
         Moves(store, req, store, a, new)
  PROVE  HeapFacts(heap', store', req', g) /\ Spares({id}, g)
<1>1. BaseInv /\ DOMAIN req = Reqs /\ HeapOK(heap, store, req) /\ \A x \in Reqs : ActivationOK(req[x])
  BY DEF FleetInv, BaseInv
<1>2. \A o \in Objects, i \in MockIDs : Reaches(store, req, new, o, i) => g[o] \in FleetConfig
  <2> SUFFICES ASSUME NEW o \in Objects, NEW i \in MockIDs, Reaches(store, req, new, o, i)
               PROVE  g[o] \in FleetConfig
    OBVIOUS
  <2>1. CASE Refers(store, req, o, i)
    BY <2>1, <1>1 DEF InPlace, HeapOK
  <2>2. CASE i \in DOMAIN new /\ o = new[i]
    BY <2>2 DEF InPlace
  <2> QED
    BY <2>1, <2>2 DEF Reaches
<1>3. ASSUME NEW i \in MockIDs \ {id}, NEW o \in Objects, Refers(store, req, o, i) PROVE g[o] = heap[o]
  <2>1. o # store[id]
    <3>1. Refers(store, req, store[id], id)
      BY DEF Refers
    <3> QED
      BY <3>1, <1>1, <1>3 DEF HeapOK
  <2>2. ~(id \in DOMAIN new /\ o = new[id])
    <3>1. IsNew(store, req, new)
      BY DEF InPlace
    <3> QED
      BY <3>1, <1>1, <1>3, NewUnreferred
  <2> QED
    BY <2>1, <2>2 DEF InPlace
<1>4. IsNew(store, req, new) /\ Moves(store, req, store', a, new)
  BY DEF InPlace
<1> QED
  BY <1>1, <1>2, <1>3, <1>4, HeapWritten, Zenon DEF Spares

\* A handler that writes the store's own object: merge, patch, toggle.
LEMMA EnterInPlace ==
  ASSUME FleetInv, NEW r \in Reqs, NEW id \in MockIDs, NEW new, NEW g, InPlace(id, new, g), Heap(g),
         NEW op \in {"merge", "patch", "toggle"}, NEW old, NEW was \in BOOLEAN,
         op = "merge" => old = Nil,
         op = "patch" => id \in DOMAIN new /\ old = new[id] /\ g[old] = heap[store[id]],
         op = "toggle" => old = store[id] /\ Toggled(g[old], was) = heap[old],
         Enter(r, op, {id}, At({id}, store), old, was, "write")
  PROVE  FleetInv'
<1> PICK obj : obj = At({id}, store)
  BY Zenon
<1> PICK a : a = Entered(op, {id}, obj, old, was, "write")
  OBVIOUS
<1>1. store \in StoreStates /\ store[id] \in Objects /\ store[id] # Nil
  BY Zenon DEF FleetInv, BaseInv, StoreStates, InPlace
<1>2. old \in Objects \cup {Nil} /\ (old # Nil <=> op \in {"patch", "toggle"})
  BY <1>1 DEF InPlace, IsNew, Objects, Nil
<1>3. obj \in [MockIDs -> Objects \cup {Nil}] /\ obj[id] = store[id] /\ \A i \in MockIDs : i # id => obj[i] = Nil
  BY <1>1 DEF At
<1>4. EnterArgs(op, {id}, obj, old, was, "write")
  BY <1>1, <1>2, <1>3 DEF EnterArgs, One, Sends
<1>5. /\ a.obj = obj /\ a.ids = {id} /\ a.old = old /\ a.op = op /\ a.pc = "write" /\ a.was = was
      /\ a.calls = {} /\ a.failed = {}
  BY NotSentOK DEF Entered, Activations
<1>6. ActivationOK(a)
  BY <1>4, EnteredOK
<1>7. req' = [req EXCEPT ![r] = a] /\ store' = store
  BY DEF Enter, Entered
<1>8. Moves(store, req, store, a, new)
  <2> SUFFICES ASSUME NEW o \in Objects, NEW i \in MockIDs,
                      store[i] = o \/ a.obj[i] = o \/ (i \in a.ids /\ a.old = o)
               PROVE  Reaches(store, req, new, o, i)
    BY Zenon DEF Moves
  <2>1. o # Nil
    BY DEF Objects, Nil
  <2>2. store[i] = o \/ (i = id /\ o = old)
    BY <2>1, <1>3, <1>5
  <2>3. store[i] = o \/ (i = id /\ id \in DOMAIN new /\ o = new[id])
    BY <2>1, <2>2
  <2> QED
    BY <2>3, Zenon DEF Reaches, Refers
<1>9. HeapFacts(heap', store', req', g) /\ Spares({id}, g)
  BY <1>6, <1>7, <1>8, InPlaceHeap, Zenon
<1>10. heap'[store[id]] = g[store[id]] /\ (op = "patch" => heap'[old] = g[old])
  <2>1. Refers(store', req', store[id], id)
    BY <1>7, Zenon DEF Refers
  <2>2. op = "patch" => Refers(store', req', old, id) /\ old \in Objects
    <3>1. DOMAIN req = Reqs
      BY Zenon DEF FleetInv, BaseInv
    <3>2. req'[r].ids = {id} /\ req'[r].old = old
      BY <3>1, <1>5, <1>7, Zenon
    <3> QED
      BY <3>2, <1>2 DEF Refers
  <2> QED
    BY <2>1, <2>2, <1>1, <1>9, Zenon DEF HeapFacts, Kept
<1>11. Touches(op, {id}) = {id}
  BY DEF Touches
<1>12. ASSUME NEW e \in Engines PROVE Expect(a, id, e, store[id], heap', Config(store[id], heap))
  <2>1. Config(store[id], heap) = heap[store[id]]
    BY <1>1, Zenon DEF Config
  <2>2. op # "merge" => heap[store[id]] = Before(a, id, heap')
    <3>1. CASE op = "patch"
      <4>1. Before(a, id, heap') = heap'[old]
        BY <3>1, <1>5 DEF Before
      <4> QED
        BY <3>1, <4>1, <1>10, Zenon
    <3>2. CASE op = "toggle"
      <4>1. Before(a, id, heap') = Toggled(heap'[store[id]], was)
        BY <3>2, <1>3, <1>5 DEF Before
      <4> QED
        BY <3>2, <4>1, <1>10, Zenon
    <3> QED
      BY <3>1, <3>2, Zenon
  <2> QED
    BY <2>1, <2>2, <1>3, <1>5, Zenon DEF Expect, One
<1>13. Finds(a, Touches(op, {id}))
  BY <1>11, <1>12 DEF Finds
<1>14. Enter(r, op, {id}, obj, old, was, "write")
  OBVIOUS
<1> QED
  BY <1>4, <1>7, <1>9, <1>11, <1>13, <1>14, EnterKeeps, Zenon

\* A handler that writes the store's own object and then refuses.
LEMMA RefuseInPlace ==
  ASSUME FleetInv, NEW r \in Reqs, NEW id \in MockIDs, NEW new, NEW g, InPlace(id, new, g), Heap(g),
         Refuse(r), soiled' = soiled \cup {id}
  PROVE  FleetInv'
<1> PICK a : a = [NotSent EXCEPT !.pc = "done", !.code = "refused"]
  OBVIOUS
<1>1. ActivationOK(a) /\ a.ids = {} /\ \A i \in MockIDs : a.obj[i] = Nil
  BY DoneOK
<1>2. req' = [req EXCEPT ![r] = a] /\ store' = store
  BY DEF Refuse, Done
<1>3. Moves(store, req, store, a, new)
  BY <1>1 DEF Moves, Reaches, Refers, Objects, Nil
<1>4. HeapFacts(heap', store', req', g) /\ Spares({id}, g)
  BY <1>1, <1>2, <1>3, InPlaceHeap, Zenon
<1>5. soiled \subseteq soiled' /\ soiled' \subseteq MockIDs /\ Spares(soiled', g)
  BY <1>4 DEF FleetInv, BaseInv, Spares
<1> QED
  BY <1>2, <1>4, <1>5, RefuseKeeps, Zenon

\* A configuration that a handler makes is one.
LEMMA NewIsConfig ==
  ASSUME NEW id, NEW on \in BOOLEAN, NEW at \in Addresses, NEW cfg \in New(id, on, at)
  PROVE  cfg \in FleetConfig
  BY DEF New, FleetConfig

\* A fresh object for one mock.
LEMMA OneFresh ==
  ASSUME NEW id \in MockIDs, NEW new, new = Alloc({id}), Room({id}), NEW cfg \in FleetConfig,
         heap \in Heaps
  PROVE  FreshHeap({id}, new, [heap EXCEPT ![new[id]] = cfg])
<1>1. IsNew(store, req, new) /\ DOMAIN new = {id}
  BY AllocIsNew
<1>2. new[id] \in Objects
  BY <1>1 DEF IsNew
<1> QED
  BY <1>2 DEF FreshHeap, Heaps

\* The merge of a mock into another one keeps the invariant.
LEMMA MergeKeeps ==
  ASSUME FleetInv, NEW r \in Reqs, NEW x \in MockIDs, store[x] # Nil, handleMergeMock(r, x)
  PROVE  FleetInv'
<1>1. store[x] \in Objects /\ heap \in Heaps /\ HeapOK(heap, store, req)
  BY DEF FleetInv, BaseInv, StoreStates
<1>2. heap[store[x]] \in FleetConfig /\ Stored(x) = heap[store[x]]
  BY <1>1 DEF HeapOK, Refers, Stored
<1>3. PICK cfg \in New(x, Stored(x).on, Stored(x).at) :
        \/ /\ Enter(r, "merge", {x}, At({x}, store), Nil, FALSE, "write")
           /\ Heap([heap EXCEPT ![store[x]] = cfg])
        \/ Refuse(r) /\ soiled' = soiled \cup {x} /\ Heap([heap EXCEPT ![store[x]] = cfg])
  BY Zenon DEF handleMergeMock
<1>4. cfg \in FleetConfig
  BY <1>2, NewIsConfig DEF FleetConfig
<1> PICK g : g = [heap EXCEPT ![store[x]] = cfg]
  BY Zenon
<1>5. InPlace(x, Nothing, g)
  BY <1>1, <1>4 DEF InPlace, Nothing, IsNew, Heaps
<1>6. CASE Enter(r, "merge", {x}, At({x}, store), Nil, FALSE, "write") /\ Heap(g)
  BY <1>5, <1>6, EnterInPlace, Zenon
<1>7. CASE Refuse(r) /\ soiled' = soiled \cup {x} /\ Heap(g)
  BY <1>5, <1>7, RefuseInPlace
<1> QED
  BY <1>3, <1>6, <1>7, Zenon

\* The handler of POST /mocks, for a new mock or a merge.
LEMMA CreateKeeps ==
  ASSUME FleetInv, NEW r \in Reqs, NEW id \in MockIDs, NEW at \in Addresses,
         handleCreateUnifiedMock(r, id, at)
  PROVE  FleetInv'
<1>1. CASE /\ Room({id})
           /\ \E cfg \in New(id, TRUE, at) :
                /\ Enter(r, "create", {id}, At({id}, Alloc({id})), Nil, FALSE, "write")
                /\ Heap([heap EXCEPT ![Alloc({id})[id]] = cfg])
  <2> PICK new : new = Alloc({id})
    OBVIOUS
  <2>1. PICK cfg \in New(id, TRUE, at) :
          /\ Enter(r, "create", {id}, At({id}, new), Nil, FALSE, "write")
          /\ Heap([heap EXCEPT ![new[id]] = cfg])
    BY <1>1, Zenon
  <2>2. cfg \in FleetConfig /\ heap \in Heaps /\ store[id] = Nil
    BY NewIsConfig, Zenon DEF FleetInv, BaseInv, handleCreateUnifiedMock
  <2>3. FreshHeap({id}, new, [heap EXCEPT ![new[id]] = cfg])
    BY <2>2, <1>1, OneFresh, Zenon
  <2> QED
    BY <2>1, <2>2, <2>3, <1>1, EnterFresh, Zenon
<1>2. CASE \E x \in PortUsers(id, at, {}) : handleMergeMock(r, x)
  <2>1. PICK x \in MockIDs : store[x] # Nil /\ handleMergeMock(r, x)
    BY <1>2 DEF PortUsers
  <2> QED
    BY <2>1, MergeKeeps
<1> QED
  BY <1>1, <1>2, Zenon DEF handleCreateUnifiedMock

\* A mock converted from a recording.
LEMMA ConvertKeeps ==
  ASSUME FleetInv, NEW r \in Reqs, NEW id \in MockIDs, mockCreator(r, id)
  PROVE  FleetInv'
<1> PICK new : new = Alloc({id})
  OBVIOUS
<1>1. PICK cfg \in New(id, TRUE, Plain) :
        /\ Enter(r, "convert", {id}, At({id}, new), Nil, FALSE, "write")
        /\ Heap([heap EXCEPT ![new[id]] = cfg])
  BY Zenon DEF mockCreator
<1>2. cfg \in FleetConfig /\ heap \in Heaps /\ store[id] = Nil /\ Room({id})
  BY NewIsConfig, Zenon DEF FleetInv, BaseInv, mockCreator, Addresses
<1>3. FreshHeap({id}, new, [heap EXCEPT ![new[id]] = cfg])
  BY <1>2, OneFresh, Zenon
<1> QED
  BY <1>1, <1>2, <1>3, EnterFresh, Zenon

\* The handler of PUT /mocks/{id}.
LEMMA UpdateKeeps ==
  ASSUME FleetInv, NEW r \in Reqs, NEW id \in MockIDs, NEW on \in BOOLEAN, NEW at \in Addresses,
         handleUpdateUnifiedMock(r, id, on, at)
  PROVE  FleetInv'
<1> PICK new : new = Alloc({id})
  OBVIOUS
<1>1. PICK cfg \in New(id, on, at) :
        /\ Enter(r, "update", {id}, At({id}, new), store[id], FALSE, "write")
        /\ Heap([heap EXCEPT ![new[id]] = cfg])
  BY Zenon DEF handleUpdateUnifiedMock
<1>2. cfg \in FleetConfig /\ heap \in Heaps /\ store[id] # Nil /\ Room({id})
  BY NewIsConfig, Zenon DEF FleetInv, BaseInv, handleUpdateUnifiedMock
<1>3. FreshHeap({id}, new, [heap EXCEPT ![new[id]] = cfg])
  BY <1>2, OneFresh, Zenon
<1> QED
  BY <1>1, <1>2, <1>3, EnterFresh, Zenon

\* The handler of PATCH /mocks/{id}.
LEMMA PatchKeeps ==
  ASSUME FleetInv, NEW r \in Reqs, NEW id \in MockIDs, NEW on \in BOOLEAN, NEW at \in Addresses,
         handlePatchUnifiedMock(r, id, on, at)
  PROVE  FleetInv'
<1> PICK new : new = Alloc({id})
  OBVIOUS
<1> PICK old : old = new[id]
  OBVIOUS
<1>1. store[id] \in Objects /\ store[id] # Nil /\ heap \in Heaps /\ HeapOK(heap, store, req) /\ Room({id})
  BY DEF FleetInv, BaseInv, StoreStates, handlePatchUnifiedMock
<1>2. heap[store[id]] \in FleetConfig /\ Refers(store, req, store[id], id)
  BY <1>1, Zenon DEF HeapOK, Refers
<1>3. IsNew(store, req, new) /\ DOMAIN new = {id}
  BY <1>1, AllocIsNew
<1>4. old \in Objects /\ old # store[id]
  BY <1>2, <1>3, NewUnreferred, Zenon DEF FleetInv
<1>5. PICK cfg \in New(id, on, at) :
        \/ /\ Enter(r, "patch", {id}, At({id}, store), old, FALSE, "write")
           /\ Heap([heap EXCEPT ![store[id]] = cfg, ![old] = heap[store[id]]])
        \/ /\ Refuse(r) /\ soiled' = soiled \cup {id}
           /\ Heap([heap EXCEPT ![store[id]] = cfg, ![old] = heap[store[id]]])
  BY Zenon DEF handlePatchUnifiedMock
<1>6. cfg \in FleetConfig
  BY NewIsConfig
<1> PICK g : g = [heap EXCEPT ![store[id]] = cfg, ![old] = heap[store[id]]]
  BY Zenon
<1>7. g[old] = heap[store[id]] /\ g[store[id]] = cfg /\ \A o \in Objects \ {old, store[id]} : g[o] = heap[o]
  BY <1>1, <1>4, Zenon DEF Heaps
<1>8. InPlace(id, new, g)
  BY <1>1, <1>2, <1>3, <1>4, <1>6, <1>7, Zenon DEF InPlace
<1>9. CASE Enter(r, "patch", {id}, At({id}, store), old, FALSE, "write") /\ Heap(g)
  <2>1. id \in DOMAIN new /\ old = new[id] /\ g[old] = heap[store[id]]
    BY <1>3, <1>7
  <2> QED
    BY <2>1, <1>8, <1>9, EnterInPlace, Zenon
<1>10. CASE Refuse(r) /\ soiled' = soiled \cup {id} /\ Heap(g)
  BY <1>8, <1>10, RefuseInPlace
<1> QED
  BY <1>5, <1>9, <1>10, Zenon

\* The handler of POST /mocks/{id}/toggle.
LEMMA ToggleKeeps ==
  ASSUME FleetInv, NEW r \in Reqs, NEW id \in MockIDs, handleToggleUnifiedMock(r, id)
  PROVE  FleetInv'
<1> PICK old : old = store[id]
  OBVIOUS
<1> PICK was : was = heap[old].on
  OBVIOUS
<1> PICK g : g = [heap EXCEPT ![old].on = ~@]
  BY Zenon
<1>1. old \in Objects /\ old # Nil /\ heap \in Heaps /\ HeapOK(heap, store, req)
  BY DEF FleetInv, BaseInv, StoreStates, handleToggleUnifiedMock
<1>2. heap[old] \in FleetConfig /\ Stored(id) = heap[old]
  BY <1>1 DEF HeapOK, Refers, Stored
<1>3. was \in BOOLEAN
  BY <1>2 DEF FleetConfig
<1>4. g[old] = [heap[old] EXCEPT !.on = ~@] /\ \A o \in Objects \ {old} : g[o] = heap[o]
  BY <1>1 DEF Heaps
<1>5. g[old] \in FleetConfig /\ Toggled(g[old], was) = heap[old]
  <2> PICK c : c = heap[old]
    OBVIOUS
  <2>1. c \in FleetConfig /\ was = c.on /\ g[old] = [c EXCEPT !.on = ~c.on]
    BY <1>2, <1>4
  <2>2. [c EXCEPT !.on = ~c.on] \in FleetConfig
    BY <2>1, Zenon DEF FleetConfig
  <2>3. [[c EXCEPT !.on = ~c.on] EXCEPT !.on = c.on] = c
    BY <2>1, Zenon DEF FleetConfig
  <2> QED
    BY <2>1, <2>2, <2>3, Zenon DEF Toggled
<1>6. InPlace(id, Nothing, g)
  BY <1>1, <1>4, <1>5 DEF InPlace, Nothing, IsNew
<1>7. Enter(r, "toggle", {id}, At({id}, store), old, was, "write") /\ Heap(g)
  BY <1>2 DEF handleToggleUnifiedMock
<1> QED
  BY <1>3, <1>5, <1>6, <1>7, EnterInPlace, Zenon

\* A handler that enters without touching an object.
LEMMA EnterReading ==
  ASSUME FleetInv, NEW r \in Reqs, NEW ids, NEW old, NEW op \in {"delete", "deleteAll"},
         ids \subseteq MockIDs, IF op = "delete" THEN \E id \in MockIDs : ids = {id} /\ old = store[id] /\ old # Nil
                                ELSE old = Nil,
         Enter(r, op, ids, At({}, store), old, FALSE, "write"), UNCHANGED heap
  PROVE  FleetInv'
<1> PICK obj : obj = At({}, store)
  OBVIOUS
<1> PICK a : a = Entered(op, ids, obj, old, FALSE, "write")
  BY Zenon
<1>1. /\ store \in StoreStates /\ heap \in Heaps /\ DOMAIN req = Reqs /\ HeapOK(heap, store, req)
  BY DEF FleetInv, BaseInv
<1>2. obj \in [MockIDs -> Objects \cup {Nil}] /\ \A i \in MockIDs : obj[i] = Nil
  BY DEF At
<1>3. old \in Objects \cup {Nil} /\ (old # Nil <=> op = "delete") /\ \A i \in ids : old # Nil => store[i] = old
  BY <1>1 DEF StoreStates
<1>4. EnterArgs(op, ids, obj, old, FALSE, "write")
  BY <1>2, <1>3 DEF EnterArgs, One, Sends, ImportOps
<1>5. /\ a.obj = obj /\ a.ids = ids /\ a.old = old /\ a.op = op /\ a.pc = "write"
  BY NotSentOK DEF Entered, Activations
<1>6. req' = [req EXCEPT ![r] = a] /\ store' = store
  BY DEF Enter, Entered
<1>7. Moves(store, req, store, a, Nothing)
  <2>1. ASSUME NEW o \in Objects, NEW i \in MockIDs,
               store[i] = o \/ a.obj[i] = o \/ (i \in a.ids /\ a.old = o)
        PROVE  store[i] = o
    <3>1. o # Nil
      BY DEF Objects, Nil
    <3>2. a.obj[i] = Nil
      BY <1>2, <1>5, Zenon
    <3>3. CASE i \in a.ids /\ a.old = o
      <4>1. i \in ids /\ old = o
        BY <3>3, <1>5, Zenon
      <4> QED
        BY <4>1, <3>1, <1>3
    <3> QED
      BY <2>1, <3>1, <3>2, <3>3, Zenon
  <2> QED
    BY <2>1, Zenon DEF Moves, Reaches, Refers
<1>8. HeapFacts(heap', store, req', heap) /\ Spares(Touches(op, ids), heap)
  BY <1>1, <1>6, <1>7, HeapSame, Zenon DEF Spares
<1>9. ASSUME NEW i \in Touches(op, ids), NEW e \in Engines
      PROVE  Expect(a, i, e, store[i], heap', Config(store[i], heap))
  <2>1. i \in ids
    BY DEF Touches
  <2>2. CASE op = "delete"
    <3>1. store[i] = old /\ Config(store[i], heap) = heap'[old]
      BY <2>1, <2>2, <1>3 DEF Config
    <3> QED
      BY <3>1, <2>2, <1>5, Zenon DEF Expect, Before, One
  <2>3. CASE op = "deleteAll"
    BY <2>3, <1>5, Zenon DEF Expect, One, Config
  <2> QED
    BY <2>2, <2>3, Zenon
<1>10. Finds(a, Touches(op, ids))
  BY <1>9, Zenon DEF Finds
<1>11. Enter(r, op, ids, obj, old, FALSE, "write")
  BY Zenon
<1> QED
  BY <1>4, <1>8, <1>10, <1>11, EnterKeeps, Zenon

\* The handlers of DELETE /mocks/{id} and DELETE /mocks.
LEMMA DeleteKeeps ==
  ASSUME FleetInv, NEW r \in Reqs,
         (\E id \in MockIDs : handleDeleteUnifiedMock(r, id)) \/ handleDeleteAllUnifiedMocks(r)
  PROVE  FleetInv'
<1>1. ASSUME NEW id \in MockIDs, handleDeleteUnifiedMock(r, id) PROVE FleetInv'
  <2>1. /\ store[id] # Nil /\ UNCHANGED heap
        /\ Enter(r, "delete", {id}, At({}, store), store[id], FALSE, "write")
    BY <1>1, Zenon DEF handleDeleteUnifiedMock
  <2> PICK ids, old : ids = {id} /\ old = store[id]
    BY Zenon
  <2>2. ids \subseteq MockIDs /\ \E i \in MockIDs : ids = {i} /\ old = store[i] /\ old # Nil
    BY <2>1
  <2>3. Enter(r, "delete", ids, At({}, store), old, FALSE, "write")
    BY <2>1, Zenon
  <2> QED
    BY <2>1, <2>2, <2>3, EnterReading, Zenon
<1>2. ASSUME handleDeleteAllUnifiedMocks(r) PROVE FleetInv'
  <2> PICK ids : ids = {id \in MockIDs : store[id] # Nil}
    BY Zenon
  <2>1. Enter(r, "deleteAll", ids, At({}, store), Nil, FALSE, "write") /\ UNCHANGED heap
    BY <1>2, Zenon DEF handleDeleteAllUnifiedMocks
  <2>2. ids \subseteq MockIDs
    OBVIOUS
  <2> QED
    BY <2>1, <2>2, EnterReading, Zenon
<1> QED
  BY <1>1, <1>2

\* The handlers of POST /mocks/bulk and POST /config.
LEMMA DecodedKeeps ==
  ASSUME FleetInv, NEW r \in Reqs, NEW ids, ids \subseteq MockIDs, NEW at \in Addresses,
         NEW op \in {"bulk", "import", "importReplace"},
         NEW pc \in {"write", "check", "replace"}, pc = "write" <=> op # "bulk",
         Decoded(r, op, ids, at, pc)
  PROVE  FleetInv'
<1> PICK new : new = Alloc(ids)
  OBVIOUS
<1>1. PICK v \in Vers :
        /\ Room(ids) /\ Enter(r, op, ids, At(ids, new), Nil, FALSE, pc)
        /\ Heap([o \in Objects |-> IF o \in Range(new) THEN [ver |-> v, on |-> TRUE, at |-> at] ELSE heap[o]])
  BY Zenon DEF Decoded
<1> PICK g : g = [o \in Objects |-> IF o \in Range(new) THEN [ver |-> v, on |-> TRUE, at |-> at] ELSE heap[o]]
  BY Zenon
<1>2. DOMAIN new = ids
  BY <1>1, AllocIsNew, Zenon
<1>3. FreshHeap(ids, new, g)
  BY <1>2 DEF FreshHeap, FleetConfig, Range
<1>4. op \notin One /\ op \notin {"create", "convert"} /\ op # "update"
  BY DEF One
<1> QED
  BY <1>1, <1>3, <1>4, EnterFresh, Zenon

\* Any request that comes in keeps the invariant.
LEMMA BeginKeeps ==
  ASSUME FleetInv, NEW r \in Reqs, Begin(r) PROVE FleetInv'
<1>1. CASE RefuseEarly(r)
  <2> PICK a : a = [NotSent EXCEPT !.pc = "done", !.code = "refused"]
    OBVIOUS
  <2>1. a.ids = {} /\ \A i \in MockIDs : a.obj[i] = Nil
    BY DoneOK
  <2>2. Refuse(r) /\ UNCHANGED <<heap, soiled>> /\ req' = [req EXCEPT ![r] = a]
    BY <1>1 DEF RefuseEarly, Refuse, Done
  <2>3. Moves(store, req, store, a, Nothing)
    BY <2>1 DEF Moves, Reaches, Refers, Objects, Nil
  <2>4. DOMAIN req = Reqs /\ heap \in Heaps /\ HeapOK(heap, store, req) /\ soiled' \subseteq MockIDs
    BY <2>2 DEF FleetInv, BaseInv
  <2>5. HeapFacts(heap', store, req', heap) /\ Spares(soiled', heap)
    BY <2>2, <2>3, <2>4, HeapSame, Zenon DEF Spares
  <2> QED
    BY <2>2, <2>4, <2>5, RefuseKeeps, Zenon
<1>2. ASSUME NEW ids \in SUBSET MockIDs, NEW at \in Addresses,
             handleBulkCreateUnifiedMocks(r, ids, at) \/ adminImportConfig(r, ids, at)
      PROVE  FleetInv'
  BY <1>2, DecodedKeeps DEF handleBulkCreateUnifiedMocks, adminImportConfig
<1> QED
  BY <1>1, <1>2, CreateKeeps, ConvertKeeps, UpdateKeeps, PatchKeeps, ToggleKeeps, DeleteKeeps DEF Begin

-----------------------------------------------------------------------------
(* The write of the store *)

\* A request finds on its mocks what it expects.
LEMMA Owned ==
  ASSUME FleetInv, NEW r \in Reqs, NEW i \in TouchedBy(req[r]), i \notin soiled,
         NEW e \in Engines, e = "remote" => current
  PROVE  i \in MockIDs /\ Expect(req[r], i, e, store[i], heap, engine[e].mocks[i])
<1>1. i \in MockIDs
  BY Zenon DEF FleetInv, BaseInv, ActivationOK, Activations, TouchedBy, Touches
<1> QED
  BY <1>1 DEF FleetInv, Agreement, Agreed

\* The store gets what the request has for the mocks, and what it does not touch stays
StoreMoves(r) ==
  /\ \A i \in MockIDs : \/ store'[i] \in {Nil, store[i], req[r].obj[i]}
                        \/ i \in req[r].ids /\ store'[i] = req[r].old
  /\ \A i \in MockIDs \ soiled' : i \notin TouchedBy(req[r]) => store'[i] = store[i]

\* What a step that writes no engine, and no object of a mock that r does not work on, leaves alone.
LEMMA Aside ==
  ASSUME NEW r, NEW a, engine' = engine, StoreMoves(r), NEW g, Spares(TouchedBy(req[r]), g)
  PROVE  LeftAlone(engine, store, heap, req, r, a, engine', store', g, soiled')
  BY Zenon DEF LeftAlone, StoreMoves, Spares

\* The write of the store, after which r goes on: activation a expects what r has found
Going(r, a) ==
  \A i \in TouchedBy(req[r]) \ soiled', e \in Engines : (e = "remote" => current') =>
    (Expect(req[r], i, e, store[i], heap, engine[e].mocks[i])
       => Expect(a, i, e, store'[i], heap, engine[e].mocks[i]))

\* A write of the store keeps the invariant, if the calls that follow it find what they expect.
LEMMA GoOnKeeps ==
  ASSUME FleetInv, NEW r \in Reqs, req[r].op # "none", req[r].pc # "push", NEW calls, CallsOK(req[r], calls),
         NEW pc \in {"check", "predelete", "push"},
         pc # "push" => req[r].op = "bulk" /\ req[r].failed = {}, pc = "check" => calls = {},
         Goto(r, pc, calls), StoreMoves(r), store' \in StoreStates,
         engine' = engine, UNCHANGED <<status, sync, faults>>, Heap(heap),
         current' \in BOOLEAN, current' => current, soiled \subseteq soiled', soiled' \subseteq MockIDs,
         Going(r, [req[r] EXCEPT !.pc = pc, !.calls = calls]),
         pc = "push" /\ req[r].op \in ImportOps => ~current'
  PROVE  FleetInv'
<1> PICK a : a = [req[r] EXCEPT !.pc = pc, !.calls = calls]
  OBVIOUS
<1>1. /\ DOMAIN req = Reqs /\ HeapOK(heap, store, req) /\ \A x \in Reqs : ActivationOK(req[x])
      /\ DOMAIN engine' = Engines /\ (\A e \in Engines : Sound(engine'[e])) /\ faults' \in 0 .. MaxFaults
  BY DEF FleetInv, BaseInv
<1>2. /\ ActivationOK(a) /\ a.pc = pc /\ a.calls = calls /\ a.op = req[r].op /\ a.ids = req[r].ids
      /\ a.obj = req[r].obj /\ a.old = req[r].old /\ a.failed = req[r].failed /\ a.was = req[r].was
  <2>1. WentOn(req[r], a, pc, calls, req[r].failed)
    BY <1>1, GotoOK, Zenon
  <2> QED
    BY <2>1 DEF WentOn
<1>3. req' = [req EXCEPT ![r] = a]
  BY <1>1, Zenon DEF Goto
<1>4. TouchedBy(a) = TouchedBy(req[r])
  <2>1. req[r].pc \notin {"idle", "done"}
    BY <1>1 DEF ActivationOK
  <2> QED
    BY <2>1, <1>2 DEF TouchedBy
<1>5. Moves(store, req, store', a, Nothing)
  <2> SUFFICES ASSUME NEW o \in Objects, NEW i \in MockIDs,
                      store'[i] = o \/ a.obj[i] = o \/ (i \in a.ids /\ a.old = o)
               PROVE  Refers(store, req, o, i)
    BY DEF Moves, Reaches
  <2>1. o # Nil
    BY DEF Objects, Nil
  <2>2. store[i] = o \/ req[r].obj[i] = o \/ (i \in req[r].ids /\ req[r].old = o)
    BY <2>1, <1>2 DEF StoreMoves
  <2> QED
    BY <2>2 DEF Refers
<1>6. HeapFacts(heap', store', req', heap)
  <2>1. IsNew(store, req, Nothing)
    BY DEF IsNew, Nothing
  <2>2. \A o \in Objects, i \in MockIDs : Reaches(store, req, Nothing, o, i) => heap[o] \in FleetConfig
    BY <1>1 DEF Reaches, Nothing, HeapOK
  <2> QED
    BY <2>1, <2>2, <1>1, <1>2, <1>3, <1>5, HeapWritten, Zenon
<1>7. LeftAlone(engine, store, heap, req, r, a, engine', store', heap, soiled')
  <2>1. Spares(TouchedBy(req[r]), heap)
    BY DEF Spares
  <2> QED
    BY <2>1, Aside
<1>8. ASSUME NEW e \in Engines, NEW i \in MockIDs \ soiled', e = "remote" => current', i \in TouchedBy(a)
      PROVE  Expect(a, i, e, store'[i], heap', engine'[e].mocks[i])
  <2>1. Expect(req[r], i, e, store[i], heap, engine[e].mocks[i])
    BY <1>4, <1>8, Owned
  <2>2. Expect(a, i, e, store'[i], heap, engine[e].mocks[i])
    BY <2>1, <1>4, <1>8 DEF Going
  <2>3. ASSUME NEW o, o # Nil, o = store'[i] \/ o = a.obj[i] \/ (i \in a.ids /\ o = a.old)
        PROVE  heap'[o] = heap[o]
    <3>0. a.obj[i] \in Objects \cup {Nil} /\ a.old \in Objects \cup {Nil} /\ store'[i] \in Objects \cup {Nil}
      BY <1>2, Zenon DEF ActivationOK, Activations, StoreStates
    <3>1. o \in Objects
      BY <2>3, <3>0
    <3>2. req'[r] = a
      BY <1>1, <1>3
    <3>3. Refers(store', req', o, i)
      BY <2>3, <3>2, Zenon DEF Refers
    <3> QED
      BY <3>1, <3>3, <1>6 DEF HeapFacts, Kept
  <2>4. Expect(a, i, e, store'[i], heap', engine[e].mocks[i])
    <3>1. SameObjects(a, i, store'[i], heap, heap')
      BY <2>3 DEF SameObjects
    <3> QED
      BY <1>2, <1>8, <2>2, <3>1, ExpectKept
  <2> QED
    BY <2>4
<1>9. OwnMocks(req, r, a, engine', store', heap', soiled', current')
  BY <1>2, <1>4, <1>8 DEF OwnMocks
<1> QED
  BY <1>1, <1>2, <1>3, <1>6, <1>7, <1>9, StepKeeps, Zenon

\* A handler that answers keeps the invariant, if engines and store agree on its mocks.
LEMMA FinishKeeps ==
  ASSUME FleetInv, NEW r \in Reqs, NEW code \in {"refused", "ok", "undone"}, Done(r, code),
         StoreMoves(r), store' \in StoreStates, NEW g, Heap(g), Spares(TouchedBy(req[r]), g),
         \A o \in Objects, i \in MockIDs : Refers(store, req, o, i) => g[o] \in FleetConfig,
         engine' = engine, UNCHANGED <<status, sync, faults>>,
         current' \in BOOLEAN, current' => current, soiled \subseteq soiled', soiled' \subseteq MockIDs,
         \A i \in TouchedBy(req[r]) \ soiled', e \in Engines : (e = "remote" => current') =>
           engine[e].mocks[i] = Config(store'[i], g)
  PROVE  FleetInv'
<1> PICK a : a = [NotSent EXCEPT !.pc = "done", !.code = code]
  OBVIOUS
<1>1. /\ DOMAIN req = Reqs /\ HeapOK(heap, store, req) /\ \A x \in Reqs : ActivationOK(req[x])
      /\ DOMAIN engine' = Engines /\ (\A e \in Engines : Sound(engine'[e])) /\ faults' \in 0 .. MaxFaults
  BY DEF FleetInv, BaseInv
<1>2. ActivationOK(a) /\ TouchedBy(a) = {} /\ a.op = "none" /\ a.ids = {} /\ \A i \in MockIDs : a.obj[i] = Nil
  BY DoneOK, Zenon
<1>3. req' = [req EXCEPT ![r] = a]
  BY DEF Done
<1>4. Moves(store, req, store', a, Nothing)
  <2> SUFFICES ASSUME NEW o \in Objects, NEW i \in MockIDs,
                      store'[i] = o \/ a.obj[i] = o \/ (i \in a.ids /\ a.old = o)
               PROVE  Refers(store, req, o, i)
    BY DEF Moves, Reaches
  <2>1. o # Nil
    BY DEF Objects, Nil
  <2>2. store[i] = o \/ req[r].obj[i] = o \/ (i \in req[r].ids /\ req[r].old = o)
    BY <2>1, <1>2 DEF StoreMoves
  <2> QED
    BY <2>2 DEF Refers
<1>5. HeapFacts(heap', store', req', g)
  <2>1. IsNew(store, req, Nothing)
    BY DEF IsNew, Nothing
  <2>2. \A o \in Objects, i \in MockIDs : Reaches(store, req, Nothing, o, i) => g[o] \in FleetConfig
    BY <1>1 DEF Reaches, Nothing
  <2> QED
    BY <2>1, <2>2, <1>1, <1>2, <1>3, <1>4, HeapWritten, Zenon
<1>6. LeftAlone(engine, store, heap, req, r, a, engine', store', g, soiled')
  BY Aside
<1>7. ASSUME NEW e \in Engines, NEW i \in MockIDs \ soiled', e = "remote" => current', i \in TouchedBy(req[r])
      PROVE  engine'[e].mocks[i] = Config(store'[i], heap')
  <2>1. store'[i] \in Objects \cup {Nil}
    BY DEF StoreStates
  <2>2. store'[i] # Nil => heap'[store'[i]] = g[store'[i]]
    BY <2>1, <1>5 DEF HeapFacts, Kept, Refers
  <2> QED
    BY <2>2, <1>7 DEF Config
<1>8. OwnMocks(req, r, a, engine', store', heap', soiled', current')
  BY <1>2, <1>7 DEF OwnMocks, ImportOps
<1> QED
  BY <1>1, <1>2, <1>3, <1>5, <1>6, <1>8, StepKeeps, Zenon

\* The engines that a change must reach are among the targets
LEMMA TargetsReached ==
  ASSUME Miss, NEW e \in Engines, e = "remote" => current'
  PROVE  e \in Targets
  BY Zenon DEF Miss, Targets, Engines

\* What the invariant says of a write: the objects are configurations, and what it spares.
LEMMA WriteFacts ==
  ASSUME FleetInv, NEW r \in Reqs
  PROVE  /\ store \in StoreStates /\ current \in BOOLEAN /\ soiled \subseteq MockIDs
         /\ ActivationOK(req[r]) /\ TouchedBy(req[r]) \subseteq MockIDs
         /\ req[r].obj \in [MockIDs -> Objects \cup {Nil}] /\ req[r].old \in Objects \cup {Nil}
         /\ req[r].ids \subseteq MockIDs /\ Spares(TouchedBy(req[r]), heap)
         /\ \A o \in Objects, i \in MockIDs : Refers(store, req, o, i) => heap[o] \in FleetConfig
<1>1. /\ store \in StoreStates /\ current \in BOOLEAN /\ soiled \subseteq MockIDs
      /\ ActivationOK(req[r]) /\ HeapOK(heap, store, req)
  BY DEF FleetInv, BaseInv
<1>2. req[r].obj \in [MockIDs -> Objects \cup {Nil}] /\ req[r].old \in Objects \cup {Nil} /\ req[r].ids \subseteq MockIDs
  BY <1>1, Zenon DEF ActivationOK, Activations
<1> QED
  BY <1>1, <1>2, Zenon DEF TouchedBy, Touches, Spares, HeapOK

\* The write of one mock.
LEMMA WriteOneKeeps ==
  ASSUME FleetInv, NEW r \in Reqs, WriteOne(r) PROVE FleetInv'
<1> PICK q : q = req[r]
  OBVIOUS
<1>1. q.pc = "write" /\ q.op \in One
  BY Zenon DEF WriteOne, One
<1>2. PICK id \in MockIDs : q.ids = {id}
  BY <1>1, WriteFacts, Zenon DEF ActivationOK
<1>3. (CHOOSE x \in q.ids : TRUE) = id
  BY <1>2
<1>4. TouchedBy(q) = {id}
  BY <1>1, <1>2 DEF TouchedBy, Touches, One
<1>5. UNCHANGED <<engine, status, sync, faults, soiled>> /\ Heap(heap)
  BY Zenon DEF WriteOne
<1>6. /\ q.op \in Sends <=> q.obj[id] # Nil
      /\ q.op \in {"update", "patch", "toggle", "delete"} <=> q.old # Nil
  BY <1>2, WriteFacts, Zenon DEF ActivationOK
<1>7. CASE /\ (q.op = "create" /\ store[id] # Nil) \/ (q.op \notin {"create", "convert"} /\ store[id] = Nil)
           /\ Done(r, "refused") /\ UNCHANGED <<store, current>>
  <2>1. ASSUME NEW i \in TouchedBy(q) \ soiled', NEW e \in Engines, e = "remote" => current' PROVE FALSE
    <3>1. i = id
      BY <2>1, <1>4
    <3>2. Expect(q, id, e, store[id], heap, engine[e].mocks[id])
      BY <2>1, <3>1, <1>5, <1>7, Owned, Zenon
    <3>3. /\ q.op \in {"create", "convert"} => store[id] = Nil
          /\ q.op \in {"update", "delete"} => store[id] = q.old
          /\ q.op \in {"patch", "merge", "toggle"} => store[id] = q.obj[id]
      BY <3>2, <1>1, Zenon DEF Expect
    <3> QED
      BY <3>3, <1>1, <1>6, <1>7, Zenon DEF One, Sends
  <2>2. StoreMoves(r)
    BY <1>7, Zenon DEF StoreMoves
  <2> QED
    BY <1>5, <1>7, <2>1, <2>2, WriteFacts, FinishKeeps, Zenon
<1>8. CASE /\ store' = [store EXCEPT ![id] = q.obj[id]] /\ Goto(r, "push", Targets \X {id}) /\ Miss
  <2>1. store' \in StoreStates /\ store'[id] = q.obj[id] /\ \A i \in MockIDs \ {id} : store'[i] = store[i]
    BY <1>8, WriteFacts, Zenon DEF StoreStates
  <2>2. StoreMoves(r)
    BY <2>1, <1>4 DEF StoreMoves
  <2>3. CallsOK(q, Targets \X {id})
    BY <1>1, <1>2 DEF CallsOK, Targets, Engines, One, ImportOps
  <2> PICK a : a = [q EXCEPT !.pc = "push", !.calls = Targets \X {id}]
    OBVIOUS
  <2>4. WentOn(q, a, "push", Targets \X {id}, q.failed)
    <3>1. q.op # "none" /\ q.pc # "push" /\ ActivationOK(q)
      BY <1>1, WriteFacts DEF One
    <3> QED
      BY <3>1, <2>3, GotoOK, Zenon
  <2>5. ASSUME NEW i \in TouchedBy(q) \ soiled', NEW e \in Engines, e = "remote" => current',
               Expect(q, i, e, store[i], heap, engine[e].mocks[i])
        PROVE  Expect(a, i, e, store'[i], heap, engine[e].mocks[i])
    <3>1. i = id
      BY <2>5, <1>4
    <3>2. <<e, id>> \in a.calls
      <4>1. e \in Targets
        BY <2>5, <1>8, TargetsReached
      <4> QED
        BY <4>1, <2>4 DEF WentOn
    <3>3. Before(a, id, heap) = Before(q, id, heap)
      BY <2>4 DEF WentOn, Before
    <3>4. q.op # "merge" => engine[e].mocks[id] = Before(q, id, heap)
      BY <2>5, <3>1, <1>1 DEF Expect
    <3>5. a.pc = "push" /\ a.op = q.op /\ a.obj = q.obj
      BY <2>4 DEF WentOn
    <3>6. q.op \notin ImportOps
      BY <1>1 DEF One, ImportOps
    <3> QED
      BY <3>1, <3>2, <3>3, <3>4, <3>5, <3>6, <2>1 DEF Expect
  <2>6. Going(r, a)
    BY <2>5 DEF Going
  <2>7. current' \in BOOLEAN /\ (current' => current)
    BY <1>8, WriteFacts DEF Miss
  <2>8. q.op # "none" /\ q.pc # "push" /\ q.op \notin ImportOps
    BY <1>1 DEF One, ImportOps
  <2> QED
    BY <1>5, <1>8, <2>1, <2>2, <2>3, <2>6, <2>7, <2>8, WriteFacts, GoOnKeeps, Zenon
<1> QED
  BY <1>3, <1>7, <1>8, Zenon DEF WriteOne

\* Deleting all mocks.
LEMMA WriteDeleteAllKeeps ==
  ASSUME FleetInv, NEW r \in Reqs, WriteDeleteAll(r) PROVE FleetInv'
<1> PICK q : q = req[r]
  OBVIOUS
<1>1. /\ q.pc = "write" /\ q.op = "deleteAll" /\ store' = [i \in MockIDs |-> Nil]
      /\ Goto(r, "push", Targets \X q.ids) /\ Miss
      /\ soiled' = soiled \cup ({i \in MockIDs : store[i] # Nil} \ q.ids)
      /\ UNCHANGED <<engine, status, sync, faults>> /\ Heap(heap)
  BY DEF WriteDeleteAll
<1>2. TouchedBy(q) = q.ids
  BY <1>1 DEF TouchedBy, Touches
<1>3. \A i \in MockIDs : q.obj[i] = Nil
  BY <1>1, WriteFacts, Zenon DEF ActivationOK, Sends, One, ImportOps
<1>4. store' \in StoreStates /\ StoreMoves(r)
  BY <1>1, <1>2, Zenon DEF StoreStates, StoreMoves
<1>5. CallsOK(q, Targets \X q.ids)
  BY <1>1, Zenon DEF CallsOK, Targets, Engines, ImportOps
<1> PICK a : a = [q EXCEPT !.pc = "push", !.calls = Targets \X q.ids]
  OBVIOUS
<1>6. WentOn(q, a, "push", Targets \X q.ids, q.failed)
  BY <1>1, <1>5, WriteFacts, GotoOK, Zenon
<1>7. ASSUME NEW i \in TouchedBy(q) \ soiled', NEW e \in Engines, e = "remote" => current'
      PROVE  Expect(a, i, e, store'[i], heap, engine[e].mocks[i])
  <2>1. i \in q.ids /\ i \in MockIDs
    BY <1>2, <1>7, WriteFacts
  <2>2. <<e, i>> \in a.calls
    <3>1. e \in Targets
      BY <1>1, <1>7, TargetsReached
    <3> QED
      BY <3>1, <2>1, <1>6 DEF WentOn
  <2>3. a.pc = "push" /\ a.op = "deleteAll" /\ a.obj[i] = Nil /\ store'[i] = Nil
    BY <1>1, <1>3, <1>6, <2>1 DEF WentOn
  <2> QED
    BY <2>2, <2>3 DEF Expect, ImportOps
<1>8. Going(r, a)
  BY <1>7 DEF Going
<1>9. current' \in BOOLEAN /\ (current' => current) /\ soiled \subseteq soiled' /\ soiled' \subseteq MockIDs
  BY <1>1, WriteFacts DEF Miss
<1>10. q.op # "none" /\ q.op \notin ImportOps
  BY <1>1 DEF ImportOps
<1> QED
  BY <1>1, <1>4, <1>5, <1>8, <1>9, <1>10, GoOnKeeps, Zenon

\* The deletions before a bulk create.
LEMMA WriteReplaceKeeps ==
  ASSUME FleetInv, NEW r \in Reqs, WriteReplace(r) PROVE FleetInv'
<1> PICK q : q = req[r]
  OBVIOUS
<1>1. /\ q.pc = "replace" /\ store' = [i \in MockIDs |-> IF i \in q.ids THEN Nil ELSE store[i]]
      /\ Goto(r, "predelete", Targets \X q.ids) /\ Miss
      /\ UNCHANGED <<engine, status, sync, faults, soiled>> /\ Heap(heap)
  BY DEF WriteReplace, Put
<1>2. q.op = "bulk" /\ q.failed = {}
  BY <1>1, WriteFacts, Zenon DEF ActivationOK
<1>3. TouchedBy(q) = q.ids
  BY <1>1, <1>2, Zenon DEF TouchedBy, Touches
<1>4. store' \in StoreStates /\ StoreMoves(r)
  BY <1>1, <1>3, WriteFacts, Zenon DEF StoreStates, StoreMoves
<1>5. CallsOK(q, Targets \X q.ids)
  BY <1>2 DEF CallsOK, Targets, Engines, ImportOps
<1> PICK a : a = [q EXCEPT !.pc = "predelete", !.calls = Targets \X q.ids]
  OBVIOUS
<1>6. WentOn(q, a, "predelete", Targets \X q.ids, q.failed)
  BY <1>1, <1>2, <1>5, WriteFacts, GotoOK, Zenon
<1>7. ASSUME NEW i \in TouchedBy(q) \ soiled', NEW e \in Engines, e = "remote" => current'
      PROVE  Expect(a, i, e, store'[i], heap, engine[e].mocks[i])
  <2>1. i \in q.ids /\ i \in MockIDs
    BY <1>3, <1>7, WriteFacts
  <2>2. <<e, i>> \in a.calls
    <3>1. e \in Targets
      BY <1>1, <1>7, TargetsReached
    <3> QED
      BY <3>1, <2>1, <1>6 DEF WentOn
  <2>3. a.pc = "predelete" /\ store'[i] = Nil
    BY <1>1, <1>6, <2>1 DEF WentOn
  <2> QED
    BY <2>2, <2>3 DEF Expect
<1>8. Going(r, a)
  BY <1>7 DEF Going
<1>9. current' \in BOOLEAN /\ (current' => current) /\ soiled \subseteq soiled' /\ soiled' \subseteq MockIDs
  BY <1>1, WriteFacts DEF Miss
<1> QED
  BY <1>1, <1>2, <1>4, <1>5, <1>8, <1>9, GoOnKeeps, Zenon

\* The write of a bulk create.
LEMMA WriteBulkKeeps ==
  ASSUME FleetInv, NEW r \in Reqs, WriteBulk(r) PROVE FleetInv'
<1> PICK q : q = req[r]
  OBVIOUS
<1>1. q.pc = "check" /\ UNCHANGED <<engine, status, sync, faults, soiled>> /\ Heap(heap)
  BY DEF WriteBulk
<1>2. q.op = "bulk" /\ q.failed = {}
  BY <1>1, WriteFacts, Zenon DEF ActivationOK
<1>3. TouchedBy(q) = q.ids
  BY <1>1, <1>2, Zenon DEF TouchedBy, Touches
<1>4. ASSUME NEW i \in TouchedBy(q) \ soiled', NEW e \in Engines, e = "remote" => current
      PROVE  engine[e].mocks[i] = Config(store[i], heap) /\ i \in q.ids /\ i \in MockIDs
  <2>1. Expect(q, i, e, store[i], heap, engine[e].mocks[i])
    BY <1>1, <1>4, Owned, Zenon
  <2> QED
    BY <2>1, <1>1, <1>3, WriteFacts, Zenon DEF Expect
<1>5. CASE Done(r, "refused") /\ UNCHANGED <<store, current>>
  <2>1. StoreMoves(r)
    BY <1>5 DEF StoreMoves
  <2> QED
    BY <1>1, <1>4, <1>5, <2>1, WriteFacts, FinishKeeps, Zenon
<1>6. CASE /\ \A i \in q.ids : store[i] = Nil
           /\ store' = [i \in MockIDs |-> IF i \in q.ids THEN q.obj[i] ELSE store[i]]
           /\ Goto(r, "push", Targets \X q.ids) /\ Miss
  <2>1. store' \in StoreStates /\ StoreMoves(r)
    BY <1>3, <1>6, WriteFacts, Zenon DEF StoreStates, StoreMoves
  <2>2. CallsOK(q, Targets \X q.ids)
    BY <1>2 DEF CallsOK, Targets, Engines, ImportOps
  <2> PICK a : a = [q EXCEPT !.pc = "push", !.calls = Targets \X q.ids]
    OBVIOUS
  <2>3. WentOn(q, a, "push", Targets \X q.ids, q.failed)
    BY <1>1, <1>2, <2>2, WriteFacts, GotoOK, Zenon
  <2>4. current' \in BOOLEAN /\ (current' => current)
    BY <1>6, WriteFacts DEF Miss
  <2>5. ASSUME NEW i \in TouchedBy(q) \ soiled', NEW e \in Engines, e = "remote" => current'
        PROVE  Expect(a, i, e, store'[i], heap, engine[e].mocks[i])
    <3>1. engine[e].mocks[i] = Config(store[i], heap) /\ i \in q.ids /\ i \in MockIDs
      BY <1>4, <2>4, <2>5
    <3>2. engine[e].mocks[i] = NoMock
      BY <3>1, <1>6 DEF Config
    <3>3. <<e, i>> \in a.calls
      <4>1. e \in Targets
        BY <1>6, <2>5, TargetsReached
      <4> QED
        BY <4>1, <3>1, <2>3 DEF WentOn
    <3>4. a.pc = "push" /\ a.op = "bulk" /\ a.obj = q.obj /\ store'[i] = q.obj[i]
      BY <1>2, <1>6, <2>3, <3>1 DEF WentOn
    <3> QED
      BY <3>2, <3>3, <3>4 DEF Expect, ImportOps, Before
  <2>6. Going(r, a)
    BY <2>5 DEF Going
  <2>7. q.op # "none" /\ q.op \notin ImportOps /\ soiled' \subseteq MockIDs
    BY <1>1, <1>2, WriteFacts DEF ImportOps
  <2> QED
    BY <1>1, <1>6, <2>1, <2>2, <2>4, <2>6, <2>7, GoOnKeeps, Zenon
<1>7. IF BulkConflict(r) \/ \E i \in q.ids : store[i] # Nil
        THEN Done(r, "refused") /\ UNCHANGED <<store, current>>
        ELSE /\ store' = [i \in MockIDs |-> IF i \in q.ids THEN q.obj[i] ELSE store[i]]
             /\ Goto(r, "push", Targets \X q.ids) /\ Miss
  BY DEF WriteBulk, Put
<1> QED
  BY <1>5, <1>6, <1>7

\* The write of an import.
LEMMA WriteImportKeeps ==
  ASSUME FleetInv, NEW r \in Reqs, WriteImport(r) PROVE FleetInv'
<1> PICK q : q = req[r]
  OBVIOUS
<1> PICK gone : gone = IF q.op = "importReplace"
                         THEN {id \in MockIDs : Workspace[id] \in {Workspace[x] : x \in q.ids}} ELSE {}
  BY Zenon
<1>1. /\ q.pc = "write" /\ q.op \in ImportOps /\ current' = FALSE
      /\ store' = [i \in MockIDs |-> IF i \in q.ids \cup gone THEN q.obj[i] ELSE store[i]]
      /\ \/ Goto(r, "push", {<<"local", 0>>}) /\ UNCHANGED soiled
         \/ Done(r, "refused") /\ soiled' = soiled \cup q.ids \cup gone
      /\ UNCHANGED <<engine, status, sync, faults>> /\ Heap(heap)
  BY Zenon DEF WriteImport, Put, ImportOps
<1>2. gone \subseteq MockIDs /\ (q.op # "importReplace" => gone = {})
  OBVIOUS
<1>3. TouchedBy(q) = IF q.op = "importReplace" THEN MockIDs ELSE q.ids
  BY <1>1 DEF TouchedBy, Touches
<1>4. store' \in StoreStates /\ StoreMoves(r)
  BY <1>1, <1>2, <1>3, WriteFacts, Zenon DEF StoreStates, StoreMoves
<1>5. CASE Goto(r, "push", {<<"local", 0>>}) /\ UNCHANGED soiled
  <2> PICK a : a = [q EXCEPT !.pc = "push", !.calls = {<<"local", 0>>}]
    OBVIOUS
  <2>1. CallsOK(q, {<<"local", 0>>}) /\ q.op # "none"
    BY <1>1 DEF CallsOK, ImportOps
  <2>2. WentOn(q, a, "push", {<<"local", 0>>}, q.failed)
    BY <1>1, <2>1, WriteFacts, GotoOK, Zenon
  <2>3. a.pc = "push" /\ a.op \in ImportOps /\ <<"local", 0>> \in a.calls
    BY <1>1, <2>2 DEF WentOn
  <2>4. Going(r, a)
    BY <2>3 DEF Going, Expect
  <2>5. soiled' \subseteq MockIDs
    BY <1>5, WriteFacts
  <2> QED
    BY <1>1, <1>4, <1>5, <2>1, <2>4, <2>5, GoOnKeeps, Zenon
<1>6. CASE Done(r, "refused") /\ soiled' = soiled \cup q.ids \cup gone
  <2>1. ASSUME NEW i \in TouchedBy(q) \ soiled', NEW e \in Engines, e = "remote" => current'
        PROVE  engine[e].mocks[i] = Config(store'[i], heap)
    <3>1. Expect(q, i, e, store[i], heap, engine[e].mocks[i]) /\ i \in MockIDs
      BY <1>1, <1>6, <2>1, Owned, Zenon
    <3>2. store'[i] = store[i]
      BY <3>1, <1>1, <1>6, <2>1, Zenon
    <3> QED
      BY <3>1, <3>2, <1>1, Zenon DEF Expect, One, ImportOps
  <2>2. soiled \subseteq soiled' /\ soiled' \subseteq MockIDs
    BY <1>2, <1>6, WriteFacts, Zenon
  <2> QED
    BY <1>1, <1>4, <1>6, <2>1, <2>2, WriteFacts, FinishKeeps, Zenon
<1> QED
  BY <1>1, <1>5, <1>6

-----------------------------------------------------------------------------
(* The calls to the engines *)

\* A flag set and set back.
LEMMA ToggledBack ==
  ASSUME NEW c \in FleetConfig, NEW on PROVE Toggled(Toggled(c, on), c.on) = c
  BY Zenon DEF Toggled, FleetConfig

\* The configuration that a call about one mock leaves in engine E when it succeeds
Result(q, E, id, h) ==
  IF q.pc = "predelete" \/ q.op \in {"delete", "deleteAll"} THEN NoMock
  ELSE IF q.op = "toggle" THEN Toggled(E.mocks[id], h[q.obj[id]].on)
  ELSE h[q.obj[id]]

\* The objects that a request sends are configurations.
LEMMA SentIsConfig ==
  ASSUME FleetInv, NEW r \in Reqs, req[r].op \in Sends, NEW id \in req[r].ids
  PROVE  req[r].obj[id] # Nil /\ heap[req[r].obj[id]] \in FleetConfig
<1>1. /\ ActivationOK(req[r]) /\ id \in MockIDs /\ req[r].obj \in [MockIDs -> Objects \cup {Nil}]
      /\ \A o \in Objects, i \in MockIDs : Refers(store, req, o, i) => heap[o] \in FleetConfig
  BY WriteFacts
<1>2. req[r].obj[id] # Nil
  BY <1>1, Zenon DEF ActivationOK
<1>3. req[r].obj[id] \in Objects /\ Refers(store, req, req[r].obj[id], id)
  BY <1>1, <1>2 DEF Refers
<1> QED
  BY <1>1, <1>2, <1>3

\* What happens to a call of r to engine e about id: the engine becomes after
Outcome(r, e, id, free, lost, after, err) ==
  /\ after = IF lost = "call" THEN engine[e] ELSE CallResult(r, engine[e], id, free).engine
  /\ err <=> lost # "nothing" \/ CallResult(r, engine[e], id, free).err # "none"
  /\ lost \in {"nothing", "call", "answer"}
  /\ lost # "nothing" => faults < MaxFaults
  /\ faults' = IF lost = "nothing" THEN faults ELSE faults + 1
  /\ engine' = [engine EXCEPT ![e] = after]
  /\ soiled' = soiled \cup
       (IF e = "local" /\ (lost = "answer" \/ (err /\ BestEffort(r))) THEN req[r].ids ELSE {})
       \cup ImportMissed(r, after)
  /\ current' = (current /\ ~(e = "remote" /\ err))

Failed(r, e, id, err) ==
  IF e = "local" /\ err /\ ~BestEffort(r) THEN req[r].failed \cup {id} ELSE req[r].failed

\* After the call the engine is in order, has the mocks of others as they were, and of
\* its own what activation a expects
Fits(r, e, a, after) ==
  /\ Sound(after)
  /\ \A i \in MockIDs \ soiled' : i \notin TouchedBy(req[r]) => after.mocks[i] = engine[e].mocks[i]
  /\ \A i \in TouchedBy(req[r]) \ soiled', x \in Engines : (x = "remote" => current') =>
       Expect(a, i, x, store[i], heap, engine'[x].mocks[i])

\* A call that keeps the engine in order, leaves mocks of others alone and what the
\* request expects of its own.
LEMMA CallKeeps ==
  ASSUME FleetInv, NEW r \in Reqs, NEW e \in Engines, NEW id, <<e, id>> \in req[r].calls,
         NEW free, NEW lost, NEW after, NEW err \in BOOLEAN, Outcome(r, e, id, free, lost, after, err),
         NEW a, a = [req[r] EXCEPT !.calls = @ \ {<<e, id>>}, !.failed = Failed(r, e, id, err)],
         req' = [req EXCEPT ![r] = a], UNCHANGED <<heap, store, status, sync>>,
         Fits(r, e, a, after)
  PROVE  FleetInv'
<1> PICK q : q = req[r]
  OBVIOUS
<1>1. /\ ActivationOK(q) /\ store \in StoreStates /\ HeapOK(heap, store, req) /\ heap \in Heaps
      /\ DOMAIN req = Reqs /\ DOMAIN engine = Engines /\ (\A x \in Engines : Sound(engine[x]))
      /\ soiled \subseteq MockIDs /\ current \in BOOLEAN /\ faults \in 0 .. MaxFaults
      /\ q.ids \subseteq MockIDs /\ TouchedBy(q) \subseteq MockIDs
  BY WriteFacts DEF FleetInv, BaseInv
<1>2. q.pc \in {"push", "predelete"} /\ q.op # "none"
  BY <1>1 DEF ActivationOK
<1>3. WentOn(q, a, q.pc, q.calls \ {<<e, id>>}, Failed(r, e, id, err))
  <2> PICK f : f = Failed(r, e, id, err)
    OBVIOUS
  <2> PICK c : c = <<e, id>>
    OBVIOUS
  <2>1. f = q.failed \/ (/\ f = q.failed \cup {c[2]} /\ c[1] = "local" /\ q.pc = "push"
                         /\ q.op \notin ImportOps \cup {"merge", "deleteAll"})
    BY <1>2 DEF Failed, BestEffort, ImportOps
  <2>2. WentOn(q, [q EXCEPT !.calls = @ \ {c}, !.failed = f], q.pc, q.calls \ {c}, f)
    BY <2>1, <1>1, CallOK, Zenon
  <2> QED
    BY <2>2
<1>4. TouchedBy(a) = TouchedBy(q)
  BY <1>3 DEF WentOn, TouchedBy
<1>5. Moves(store, req, store, a, Nothing)
  BY <1>3 DEF WentOn, Moves, Reaches, Refers
<1>6. HeapFacts(heap', store', req', heap)
  BY <1>1, <1>5, HeapSame, Zenon
<1>7. DOMAIN engine' = Engines /\ (\A x \in Engines : Sound(engine'[x]))
  BY <1>1 DEF Outcome, Fits
<1>8. faults' \in 0 .. MaxFaults
  BY <1>1, FleetAssumption DEF Outcome
<1>9. soiled \subseteq soiled' /\ soiled' \subseteq MockIDs
  <2>1. ImportMissed(r, after) \subseteq MockIDs
    BY <1>1, <1>2 DEF ImportMissed, Touched, TouchedBy, Active
  <2> QED
    BY <2>1, <1>1 DEF Outcome
<1>10. current' \in BOOLEAN /\ (current' => current)
  BY <1>1 DEF Outcome
<1>11. LeftAlone(engine, store, heap, req, r, a, engine', store', heap, soiled')
  BY <1>1 DEF LeftAlone, Outcome, Fits
<1>12. OwnMocks(req, r, a, engine', store', heap', soiled', current')
  <2>1. a.pc = "push" /\ a.op \in ImportOps => ~current'
    BY <1>3, <1>10 DEF WentOn, FleetInv, Agreement
  <2> QED
    BY <2>1, <1>4, <1>1 DEF OwnMocks, Fits
<1>13. ActivationOK(a)
  BY <1>3 DEF WentOn
<1> QED
  BY <1>1, <1>6, <1>7, <1>8, <1>9, <1>10, <1>11, <1>12, <1>13, StepKeeps, Zenon

\* A call about one mock is answered, or it or its answer is lost.
LEMMA CallOneKeeps ==
  ASSUME FleetInv, NEW r \in Reqs, NEW e \in Engines, NEW id, <<e, id>> \in req[r].calls,
         NEW free, NEW lost, NEW after, NEW err \in BOOLEAN, Outcome(r, e, id, free, lost, after, err),
         NEW a, a = [req[r] EXCEPT !.calls = @ \ {<<e, id>>}, !.failed = Failed(r, e, id, err)],
         req' = [req EXCEPT ![r] = a], UNCHANGED <<heap, store, status, sync>>,
         req[r].op \notin ImportOps,
         Stores(engine[e], id, Result(req[r], engine[e], id, heap), CallResult(r, engine[e], id, free))
  PROVE  FleetInv'
<1> PICK q : q = req[r]
  OBVIOUS
<1> PICK E : E = engine[e]
  OBVIOUS
<1> PICK c : c = Result(q, E, id, heap)
  OBVIOUS
<1> PICK res : res = CallResult(r, E, id, free)
  OBVIOUS
<1>1. /\ ActivationOK(q) /\ DOMAIN engine = Engines /\ Sound(E) /\ id \in q.ids /\ q.ids \subseteq MockIDs
      /\ q.pc \in {"push", "predelete"} /\ q.calls \subseteq Engines \X q.ids
  BY WriteFacts DEF FleetInv, BaseInv, ActivationOK
<1>2. Stores(E, id, c, res)
  OBVIOUS
<1>3. /\ after = (IF lost = "call" THEN E ELSE res.engine)
      /\ err <=> (lost # "nothing" \/ res.err # "none")
      /\ lost \in {"nothing", "call", "answer"} /\ engine' = [engine EXCEPT ![e] = after]
  BY DEF Outcome
<1>4. Sound(after) /\ \A i \in MockIDs \ {id} : after.mocks[i] = E.mocks[i]
  <2>1. res.engine.mocks = E.mocks \/ res.engine.mocks = [E.mocks EXCEPT ![id] = c]
    BY <1>2 DEF Stores
  <2>2. E.mocks \in Table
    BY <1>1 DEF Sound, SoundBut, EngineStates
  <2> QED
    BY <2>1, <2>2, <1>1, <1>2, <1>3 DEF Stores, Table
<1>5. TouchedBy(q) = q.ids
  BY <1>1 DEF TouchedBy, Touches, ImportOps
<1> PICK f : f = Failed(r, e, id, err)
  OBVIOUS
<1>6. /\ a.pc = q.pc /\ a.op = q.op /\ a.ids = q.ids /\ a.obj = q.obj /\ a.old = q.old /\ a.was = q.was
      /\ a.calls = q.calls \ {<<e, id>>} /\ a.failed = f
  BY <1>1 DEF ActivationOK, Activations
<1>7. ASSUME NEW i \in TouchedBy(q) \ soiled', NEW x \in Engines, x = "remote" => current'
      PROVE  Expect(a, i, x, store[i], heap, engine'[x].mocks[i])
  <2>1. i \in MockIDs /\ i \in q.ids /\ i \notin soiled /\ (x = "remote" => current)
    BY <1>1, <1>5, <1>7, Zenon DEF Outcome
  <2>2. Expect(q, i, x, store[i], heap, engine[x].mocks[i])
    BY <2>1, <1>7, Owned
  <2>3. CASE x # e \/ i # id
    <3>1. engine'[x].mocks[i] = engine[x].mocks[i]
      BY <2>1, <2>3, <1>1, <1>3, <1>4
    <3>2. <<x, i>> \in a.calls <=> <<x, i>> \in q.calls
      BY <2>3, <1>6
    <3>3. x = "local" => (i \in a.failed <=> i \in q.failed)
      BY <2>3, <1>6 DEF Failed
    <3> HIDE <1>7
    <3> QED
      BY <2>2, <3>1, <3>2, <3>3, <1>1, <1>6 DEF Expect, Before
  <2>4. CASE x = e /\ i = id
    <3>1. /\ engine'[x].mocks[i] = after.mocks[id] /\ <<x, i>> \in q.calls /\ <<x, i>> \notin a.calls
      BY <2>4, <1>1, <1>3, <1>6
    <3>2. ~err => after.mocks[id] = c
      <4>1. E.mocks \in Table
        BY <1>1 DEF Sound, SoundBut, EngineStates
      <4>2. ASSUME ~err PROVE after.mocks = [E.mocks EXCEPT ![id] = c]
        BY <4>2, <1>2, <1>3 DEF Stores
      <4> QED
        BY <4>1, <4>2, <1>1 DEF Table
    <3>3. err => e = "local" /\ ~BestEffort(r) /\ after = E
      <4>1. id \in soiled' <=> \/ id \in soiled \/ (e = "local" /\ (lost = "answer" \/ (err /\ BestEffort(r))))
        BY <1>1 DEF Outcome, ImportMissed, ImportOps
      <4>2. err => e = "local" /\ ~BestEffort(r) /\ lost # "answer"
        BY <4>1, <1>7, <2>4, Zenon DEF Outcome, Engines
      <4>3. lost # "nothing" /\ lost # "answer" => lost = "call"
        BY <1>3
      <4> QED
        BY <4>2, <4>3, <1>2, <1>3 DEF Stores
    <3>4. CASE q.pc = "predelete"
      <4>1. store[i] = Nil
        BY <2>2, <3>4 DEF Expect
      <4>2. ~err /\ c = NoMock
        BY <3>3, <3>4 DEF BestEffort, Result
      <4> QED
        BY <3>1, <3>2, <3>4, <4>1, <4>2, <1>6 DEF Expect
    <3>5. CASE q.pc = "push"
      <4>1. /\ store[i] = q.obj[i]
            /\ q.op \in {"merge", "deleteAll"} \/ E.mocks[id] = Before(q, i, heap)
        BY <2>2, <2>4, <3>1, <3>5 DEF Expect
      <4>2. CASE err
        <5>1. q.op \notin {"merge", "deleteAll"} /\ e = "local" /\ after.mocks[id] = E.mocks[id] /\ i \in a.failed
          BY <4>2, <3>3, <2>4, <1>6 DEF BestEffort, Failed
        <5>2. Before(a, i, heap) = Before(q, i, heap)
          BY <1>6 DEF Before
        <5> QED
          BY <4>1, <5>1, <5>2, <3>1, <3>5, <2>4, <1>6 DEF Expect
      <4>3. CASE ~err
        <5>1. e = "local" => i \notin a.failed
          BY <4>3, <2>4, <1>1, <1>6, <3>1 DEF Failed, ActivationOK
        <5>2. c = Config(q.obj[i], heap)
          <6>1. CASE q.op \in {"delete", "deleteAll"}
            <7>1. q.obj[i] = Nil
              BY <6>1, <1>1, <2>1 DEF ActivationOK, Sends, One, ImportOps
            <7> QED
              BY <7>1, <6>1 DEF Config, Result
          <6>2. CASE q.op \notin {"delete", "deleteAll"}
            <7>1. q.op \in Sends
              BY <6>2, <1>1 DEF ActivationOK, Activations, Sends, One
            <7>2. q.obj[i] # Nil /\ heap[q.obj[i]] \in FleetConfig
              BY <7>1, <2>1, SentIsConfig
            <7>3. CASE q.op # "toggle"
              BY <7>2, <7>3, <6>2, <3>5, <2>4 DEF Result, Config
            <7>4. CASE q.op = "toggle"
              <8>1. E.mocks[id] = Toggled(heap[q.obj[i]], q.was)
                BY <4>1, <7>4 DEF Before
              <8>2. c = Toggled(E.mocks[id], heap[q.obj[i]].on)
                BY <7>4, <3>5, <2>4 DEF Result
              <8>3. \A k \in FleetConfig : Toggled(Toggled(k, q.was), k.on) = k
                BY ToggledBack
              <8>4. c = heap[q.obj[i]]
                BY <8>1, <8>2, <8>3, <7>2, Zenon
              <8> QED
                BY <8>4, <7>2 DEF Config
            <7> QED
              BY <7>3, <7>4
          <6> QED
            BY <6>1, <6>2
        <5> QED
          BY <4>1, <4>3, <5>1, <5>2, <3>1, <3>2, <3>5, <2>4, <1>6 DEF Expect
      <4> QED
        BY <4>2, <4>3
    <3> QED
      BY <3>4, <3>5, <1>1
  <2> QED
    BY <2>3, <2>4
<1>8. \A i \in MockIDs \ soiled' : i \notin TouchedBy(req[r]) => after.mocks[i] = engine[e].mocks[i]
  BY <1>1, <1>4, <1>5
<1>9. Fits(r, e, a, after)
  BY <1>4, <1>7, <1>8 DEF Fits
<1> QED
  BY <1>9, CallKeeps, Zenon

\* The deletions before a bulk create have been answered.
LEMMA ReplacedKeeps ==
  ASSUME FleetInv, NEW r \in Reqs, Replaced(r) PROVE FleetInv'
<1> PICK q : q = req[r]
  OBVIOUS
<1>1. /\ q.pc = "predelete" /\ q.calls = {} /\ Goto(r, "check", {})
      /\ UNCHANGED <<heap, store, engine, status, sync, faults, soiled, current>>
  BY DEF Replaced
<1>2. /\ ActivationOK(q) /\ store \in StoreStates /\ HeapOK(heap, store, req) /\ heap \in Heaps
      /\ DOMAIN req = Reqs /\ DOMAIN engine = Engines /\ (\A x \in Engines : Sound(engine[x]))
      /\ soiled \subseteq MockIDs /\ current \in BOOLEAN /\ faults \in 0 .. MaxFaults
  BY WriteFacts, Zenon DEF FleetInv, BaseInv
<1>3. q.op = "bulk" /\ q.failed = {}
  BY <1>1, <1>2, Zenon DEF ActivationOK
<1> PICK a : a = [q EXCEPT !.pc = "check", !.calls = {}]
  OBVIOUS
<1>4. WentOn(q, a, "check", {}, q.failed)
  <2>1. CallsOK(q, {})
    BY DEF CallsOK
  <2> QED
    BY <2>1, <1>1, <1>2, <1>3, GotoOK, Zenon
<1>5. req' = [req EXCEPT ![r] = a]
  BY <1>1, <1>2, Zenon DEF Goto
<1>6. TouchedBy(a) = TouchedBy(q)
  BY <1>1, <1>4 DEF WentOn, TouchedBy
<1>7. Moves(store, req, store, a, Nothing)
  BY <1>4 DEF WentOn, Moves, Reaches, Refers
<1>8. HeapFacts(heap', store', req', heap)
  BY <1>1, <1>2, <1>5, <1>7, HeapSame, Zenon
<1>9. LeftAlone(engine, store, heap, req, r, a, engine', store', heap, soiled')
  BY <1>1 DEF LeftAlone
<1>10. ASSUME NEW i \in TouchedBy(q) \ soiled, NEW e \in Engines, e = "remote" => current
       PROVE  Expect(a, i, e, store[i], heap, engine[e].mocks[i])
  <2>1. Expect(q, i, e, store[i], heap, engine[e].mocks[i])
    BY <1>10, Owned
  <2>2. store[i] = Nil /\ engine[e].mocks[i] = NoMock
    BY <2>1, <1>1 DEF Expect
  <2>3. engine[e].mocks[i] = Config(store[i], heap) /\ a.pc = "check"
    BY <2>2, <1>4 DEF Config, WentOn
  <2> QED
    BY <2>3 DEF Expect
<1>11. OwnMocks(req, r, a, engine', store', heap', soiled', current')
  <2>1. a.pc = "check"
    BY <1>4 DEF WentOn
  <2> QED
    BY <2>1, <1>1, <1>6, <1>10 DEF OwnMocks
<1>12. ActivationOK(a)
  BY <1>4 DEF WentOn
<1> QED
  BY <1>1, <1>2, <1>5, <1>8, <1>9, <1>11, <1>12, StepKeeps, Zenon

\* All calls were answered, none with an error that counts.
LEMMA AnsweredKeeps ==
  ASSUME FleetInv, NEW r \in Reqs, Answered(r) PROVE FleetInv'
<1> PICK q : q = req[r]
  OBVIOUS
<1>1. /\ q.pc = "push" /\ q.calls = {} /\ q.failed = {} /\ Done(r, "ok") /\ Heap(heap)
      /\ UNCHANGED <<store, engine, status, sync, faults, soiled, current>>
  BY Zenon DEF Answered
<1>2. StoreMoves(r)
  BY <1>1 DEF StoreMoves
<1>3. ASSUME NEW i \in TouchedBy(q) \ soiled', NEW e \in Engines, e = "remote" => current'
      PROVE  engine[e].mocks[i] = Config(store'[i], heap)
  <2>1. Expect(q, i, e, store[i], heap, engine[e].mocks[i])
    BY <1>1, <1>3, Owned, Zenon
  <2> QED
    BY <2>1, <1>1, Zenon DEF Expect
<1> QED
  BY <1>1, <1>2, <1>3, WriteFacts, FinishKeeps, Zenon

\* With heap g the store is undone for the mocks of r: the local engine agrees with it
Undone(r, g) ==
  /\ store' \in StoreStates /\ StoreMoves(r) /\ Spares(TouchedBy(req[r]), g)
  /\ \A o \in Objects, i \in MockIDs : Refers(store, req, o, i) => g[o] \in FleetConfig
  /\ \A i \in TouchedBy(req[r]) \ soiled' : engine["local"].mocks[i] = Config(store'[i], g)

\* The write of the store is undone.
LEMMA UndoKeeps ==
  ASSUME FleetInv, NEW r \in Reqs, Undo(r) PROVE FleetInv'
<1> PICK q : q = req[r]
  OBVIOUS
<1> DEFINE id == CHOOSE x \in req[r].ids : TRUE
           g == IF req[r].op = "toggle" THEN [heap EXCEPT ![req[r].obj[id]].on = req[r].was] ELSE heap
<1>0. Heap(g)
  BY DEF Undo
<1>1. /\ q.pc = "push" /\ q.calls = {} /\ q.failed # {} /\ Done(r, "undone") /\ current' = FALSE
      /\ UNCHANGED <<engine, status, sync, faults, soiled>>
      /\ store' =
           CASE q.op \in {"create", "convert", "bulk"} ->
                  [x \in MockIDs |-> IF x \in q.failed THEN Nil ELSE store[x]]
             [] q.op \in {"update", "patch", "toggle"} ->
                  [store EXCEPT ![id] = IF @ = Nil THEN Nil ELSE q.old]
             [] q.op = "delete" -> [store EXCEPT ![id] = IF @ = Nil THEN q.old ELSE @]
  BY DEF Undo
<1>2. /\ ActivationOK(q) /\ store \in StoreStates /\ HeapOK(heap, store, req) /\ heap \in Heaps
      /\ q.ids \subseteq MockIDs /\ q.failed \subseteq q.ids /\ current \in BOOLEAN /\ soiled \subseteq MockIDs
      /\ q.obj \in [MockIDs -> Objects \cup {Nil}] /\ q.old \in Objects \cup {Nil}
      /\ Spares(TouchedBy(q), heap)
      /\ \A o \in Objects, i \in MockIDs : Refers(store, req, o, i) => heap[o] \in FleetConfig
  BY WriteFacts, Zenon DEF FleetInv, BaseInv, ActivationOK
<1>3. q.op \in (One \ {"merge"}) \cup {"bulk"}
  BY <1>1, <1>2 DEF ActivationOK, Activations, One
<1>4. TouchedBy(q) = q.ids
  BY <1>1, <1>3 DEF TouchedBy, Touches, One
<1>5. q.op \in One => id \in MockIDs /\ q.ids = {id} /\ q.failed = {id}
  <2>1. ASSUME q.op \in One PROVE \E i \in MockIDs : q.ids = {i}
    BY <1>2, <2>1, Zenon DEF ActivationOK
  <2> QED
    BY <2>1, <1>1, <1>2
<1>14. g = IF q.op = "toggle" THEN [heap EXCEPT ![q.obj[id]].on = q.was] ELSE heap
  OBVIOUS
<1> HIDE DEF id, g
<1>6. ASSUME NEW i \in q.ids \ soiled
      PROVE  /\ store[i] = q.obj[i]
             /\ engine["local"].mocks[i] = IF i \in q.failed THEN Before(q, i, heap) ELSE Config(store[i], heap)
  <2>1. "local" \in Engines /\ q.op \notin ImportOps
    BY <1>3 DEF Engines, One, ImportOps
  <2>2. Expect(q, i, "local", store[i], heap, engine["local"].mocks[i])
    BY <1>4, <1>6, <2>1, Owned
  <2> QED
    BY <2>1, <2>2, <1>1 DEF Expect
<1>7. q.old # Nil <=> q.op \in {"update", "patch", "toggle", "delete"}
  BY <1>2, Zenon DEF ActivationOK
<1>8. \A i \in q.ids : q.obj[i] # Nil <=> q.op \in Sends
  BY <1>2, Zenon DEF ActivationOK
<1>9. ASSUME q.op \in {"create", "convert", "bulk"} PROVE Undone(r, g)
  <2>1. store' = [x \in MockIDs |-> IF x \in q.failed THEN Nil ELSE store[x]] /\ g = heap
    BY <1>1, <1>9, <1>14
  <2>2. store' \in StoreStates /\ StoreMoves(r)
    BY <2>1, <1>2, <1>4, Zenon DEF StoreStates, StoreMoves
  <2>3. ASSUME NEW i \in TouchedBy(q) \ soiled' PROVE engine["local"].mocks[i] = Config(store'[i], g)
    BY <2>1, <2>3, <1>1, <1>2, <1>4, <1>6, <1>9 DEF Before, Config
  <2> QED
    BY <2>1, <2>2, <2>3, <1>2, Zenon DEF Undone
<1>10. ASSUME q.op \in {"update", "patch", "delete"} PROVE Undone(r, g)
  <2>1. q.op \in One /\ g = heap /\ q.old # Nil
    BY <1>7, <1>10, <1>14 DEF One
  <2>2. store' = [store EXCEPT ![id] = IF q.op = "delete" THEN IF @ = Nil THEN q.old ELSE @
                                       ELSE IF @ = Nil THEN Nil ELSE q.old]
    BY <1>1, <1>10, Zenon
  <2>3. store' \in StoreStates /\ store'[id] \in {Nil, store[id], q.old} /\ \A i \in MockIDs \ {id} : store'[i] = store[i]
    BY <2>1, <2>2, <1>2, <1>5, Zenon DEF StoreStates
  <2>4. StoreMoves(r)
    BY <2>1, <2>3, <1>4, <1>5 DEF StoreMoves
  <2>5. ASSUME NEW i \in TouchedBy(q) \ soiled' PROVE engine["local"].mocks[i] = Config(store'[i], g)
    <3>1. i = id /\ i \in q.failed /\ i \in q.ids \ soiled
      BY <2>1, <2>5, <1>1, <1>4, <1>5
    <3>2. engine["local"].mocks[i] = heap[q.old] /\ store[i] = q.obj[i]
      BY <3>1, <1>6, <1>10 DEF Before
    <3>3. store[i] # Nil <=> q.op # "delete"
      BY <3>1, <3>2, <1>8, <1>10, Zenon DEF Sends, One, ImportOps
    <3>4. store'[i] = q.old
      BY <3>1, <3>3, <2>1, <2>2, <1>2, <1>5, Zenon DEF StoreStates
    <3> QED
      BY <3>2, <3>4, <2>1 DEF Config
  <2> QED
    BY <2>1, <2>3, <2>4, <2>5, <1>2, Zenon DEF Undone
<1>11. ASSUME q.op = "toggle" PROVE Undone(r, g)
  <2> PICK o : o = q.obj[id]
    OBVIOUS
  <2> PICK was : was = q.was
    OBVIOUS
  <2>1. q.op \in One /\ q.old = o /\ o # Nil /\ o \in Objects /\ was \in BOOLEAN
    BY <1>2, <1>5, <1>7, <1>11, Zenon DEF One, ActivationOK, Activations
  <2>2. heap[o] \in FleetConfig /\ Refers(store, req, o, id)
    <3>1. Refers(store, req, o, id)
      BY <2>1, <1>5 DEF Refers
    <3> QED
      BY <3>1, <2>1, <1>5, WriteFacts, Zenon
  <2>3. /\ Toggled(heap[o], was) \in FleetConfig /\ g[o] = Toggled(heap[o], was)
        /\ \A y \in Objects \ {o} : g[y] = heap[y]
    <3>1. g = [heap EXCEPT ![o] = Toggled(heap[o], was)]
      BY <1>11, <1>14 DEF Toggled
    <3>2. Toggled(heap[o], was) \in FleetConfig
      BY <2>1, <2>2 DEF Toggled, FleetConfig
    <3> QED
      BY <3>1, <3>2, <2>1, <1>2, Zenon DEF Heaps
  <2>4. store' = [store EXCEPT ![id] = IF @ = Nil THEN Nil ELSE q.old]
    BY <1>1, <1>11
  <2>5. store' \in StoreStates /\ store'[id] \in {Nil, store[id], q.old} /\ \A i \in MockIDs \ {id} : store'[i] = store[i]
    BY <2>1, <2>4, <1>2, <1>5, Zenon DEF StoreStates
  <2>6. StoreMoves(r)
    BY <2>1, <2>5, <1>4, <1>5 DEF StoreMoves
  <2>7. Spares(TouchedBy(q), g)
    <3>1. ASSUME NEW i \in MockIDs \ {id}, NEW y \in Objects, Refers(store, req, y, i) PROVE g[y] = heap[y]
      <4>1. y # o
        BY <3>1, <2>1, <2>2, <1>2, <1>5, Zenon DEF HeapOK
      <4> QED
        BY <4>1, <2>3, Zenon
    <3> QED
      BY <3>1, <2>1, <1>4, <1>5, Zenon DEF Spares
  <2>8. \A y \in Objects, i \in MockIDs : Refers(store, req, y, i) => g[y] \in FleetConfig
    BY <2>3, <1>2, Zenon
  <2>9. ASSUME NEW i \in TouchedBy(q) \ soiled' PROVE engine["local"].mocks[i] = Config(store'[i], g)
    <3>1. i = id /\ i \in q.failed /\ i \in q.ids \ soiled
      BY <2>1, <2>9, <1>1, <1>4, <1>5
    <3>2. engine["local"].mocks[i] = Toggled(heap[o], was) /\ store[i] = o
      BY <3>1, <1>6, <1>11, Zenon DEF Before
    <3>3. store'[i] = o
      BY <3>1, <3>2, <2>1, <2>4, <1>2, <1>5, Zenon DEF StoreStates
    <3> QED
      BY <3>2, <3>3, <2>1, <2>3, Zenon DEF Config
  <2> QED
    BY <2>5, <2>6, <2>7, <2>8, <2>9, Zenon DEF Undone
<1>12. Undone(r, g)
  BY <1>3, <1>9, <1>10, <1>11 DEF One
<1>13. ASSUME NEW i \in TouchedBy(q) \ soiled', NEW e \in Engines, e = "remote" => current'
       PROVE  engine[e].mocks[i] = Config(store'[i], g)
  <2>1. e = "local"
    BY <1>1, <1>13 DEF Engines
  <2> QED
    BY <2>1, <1>12, <1>13, Zenon DEF Undone
<1>15. /\ store' \in StoreStates /\ StoreMoves(r) /\ Spares(TouchedBy(q), g)
       /\ \A o \in Objects, i \in MockIDs : Refers(store, req, o, i) => g[o] \in FleetConfig
  BY <1>12, Zenon DEF Undone
<1> QED
  BY <1>0, <1>1, <1>2, <1>13, <1>15, FinishKeeps, Zenon

=============================================================================
