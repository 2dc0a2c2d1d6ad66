------------------------ MODULE StatefulResourceProofs ------------------------
(***************************************************************************)
(* For any resources, seed data, limits and histories of requests: items   *)
(* and counters keep their types, an ID above the sequence counter was     *)
(* chosen by a client, creates respect the limit, and Reset restores the   *)
(* state that registration gave.                                           *)
(*                                                                         *)
(* Seeding is a recursion over the seed list; what it computes is proved   *)
(* by the induction of IndexInduction.                                     *)
(***************************************************************************)
EXTENDS StatefulResource, FiniteSetTheorems, IndexInduction, TLAPS

SeedEntries   == [id : IDs \cup {NoId}, val : Vals]
StoredEntries == [id : IDs, val : Vals]

\* c is the largest ID of l, or 0 when l has none
Highest(c, l) ==
  /\ \A i \in 1 .. Len(l) : l[i].id <= c
  /\ c = 0 \/ \E i \in 1 .. Len(l) : l[i].id = c

\* What loadSeed has computed, after any number of iterations
Loaded == {r \in [counter : 0 .. MaxId, seed : Seq(StoredEntries), err : BOOLEAN] :
             Highest(r.counter, r.seed)}

-----------------------------------------------------------------------------
(* What loadSeed and Reset's recount compute *)

\* The ID of a stored entry is a positive number.
LEMMA StoredID == \A e \in StoredEntries : e.id \in Nat /\ e.id > 0
  BY ResourceAssumption DEF StoredEntries, IDs

\* Appending an entry moves the largest ID as trackSequenceID does.
LEMMA HighestAppend ==
  ASSUME NEW l \in Seq(StoredEntries), NEW c \in Nat, Highest(c, l),
         NEW e \in StoredEntries, NEW k \in Nat,
         k = IF e.id > c THEN e.id ELSE c
  PROVE  Highest(k, Append(l, e))
<1> DEFINE a == Append(l, e)
<1>1. /\ Len(l) \in Nat /\ Len(a) = Len(l) + 1 /\ a[Len(l) + 1] = e
      /\ \A i \in 1 .. Len(l) : a[i] = l[i] /\ l[i] \in StoredEntries
  OBVIOUS
<1>2. e.id \in Nat /\ \A i \in 1 .. Len(l) : l[i].id \in Nat
  BY <1>1, ResourceAssumption DEF StoredEntries, IDs
<1> HIDE DEF a
<1>3. ASSUME NEW i \in 1 .. Len(a) PROVE a[i].id <= k
  <2>1. CASE i = Len(l) + 1
    BY <2>1, <1>1, <1>2
  <2>2. CASE i \in 1 .. Len(l)
    BY <2>2, <1>1, <1>2 DEF Highest
  <2> QED
    BY <2>1, <2>2, <1>1
<1>4. k = 0 \/ \E i \in 1 .. Len(a) : a[i].id = k
  <2>1. CASE e.id > c
    BY <2>1, <1>1, <1>2
  <2>2. CASE ~(e.id > c)
    BY <2>2, <1>1, <1>2 DEF Highest
  <2> QED
    BY <2>1, <2>2
<1> QED
  BY <1>3, <1>4 DEF Highest, a

\* The largest ID is unique.
LEMMA HighestUnique ==
  ASSUME NEW l \in Seq(StoredEntries), NEW c \in Nat, NEW d \in Nat,
         Highest(c, l), Highest(d, l)
  PROVE  c = d
<1>1. c <= d
  BY DEF Highest
<1>2. d <= c
  BY DEF Highest
<1> QED
  BY <1>1, <1>2

\* One iteration of loadSeed keeps the counter at the largest ID stored.
LEMMA LoadStep ==
  ASSUME NEW r \in Loaded, NEW d \in SeedEntries
  PROVE  LoadSeedItem(r, d) \in Loaded
<1> DEFINE id == IF d.id = NoId THEN r.counter + 1 ELSE d.id
           new == [counter |-> IF d.id = NoId THEN id ELSE trackSequenceID(r.counter, id),
                   seed |-> Append(r.seed, [d EXCEPT !.id = id]), err |-> FALSE]
<1>1. LoadSeedItem(r, d) \in {[r EXCEPT !.err = TRUE], new}
      /\ (id > MaxId => LoadSeedItem(r, d) = [r EXCEPT !.err = TRUE])
  BY DEF LoadSeedItem
<1>2. /\ r \in [counter : 0 .. MaxId, seed : Seq(StoredEntries), err : BOOLEAN]
      /\ Highest(r.counter, r.seed)
  BY DEF Loaded
<1>3. [r EXCEPT !.err = TRUE] \in Loaded
  BY <1>2 DEF Loaded
<1>4. ASSUME ~(id > MaxId) PROVE new \in Loaded
  <2>1. id \in IDs /\ r.counter \in Nat
    BY <1>2, <1>4, ResourceAssumption DEF IDs, SeedEntries, NoId
  <2>2. new.counter = IF id > r.counter THEN id ELSE r.counter
    BY <2>1, <1>2 DEF trackSequenceID, IDs
  <2>3. [d EXCEPT !.id = id] \in StoredEntries /\ [d EXCEPT !.id = id].id = id
    BY <2>1 DEF SeedEntries, StoredEntries
  <2>4. id \in Nat /\ new.counter \in 0 .. MaxId /\ new.counter \in Nat
    BY <2>1, <2>2, <1>2, ResourceAssumption DEF IDs
  <2>5. Highest(new.counter, Append(r.seed, [d EXCEPT !.id = id]))
    <3> HIDE DEF id, new
    <3> QED
      BY <1>2, <2>1, <2>2, <2>3, <2>4, HighestAppend
  <2>6. new.seed = Append(r.seed, [d EXCEPT !.id = id]) /\ new.seed \in Seq(StoredEntries)
    BY <1>2, <2>3
  <2>7. new \in [counter : 0 .. MaxId, seed : Seq(StoredEntries), err : BOOLEAN]
    BY <2>4, <2>6
  <2> QED
    BY <2>5, <2>6, <2>7 DEF Loaded
<1> QED
  BY <1>1, <1>3, <1>4

\* loadSeed leaves the counter at the largest ID of the seed data it stored.
LEMMA LoadedSeed ==
  ASSUME NEW l \in Seq(SeedEntries)
  PROVE  loadSeed(l) \in Loaded
<1> DEFINE m == Len(l)
           zero == [counter |-> 0, seed |-> <<>>, err |-> FALSE]
           h == [p \in Loaded \X (1 .. m) |-> LoadSeedItem(p[1], l[p[2]])]
           Body(f) == [i \in 0 .. m |-> IF i = 0 THEN zero ELSE LoadSeedItem(f[i - 1], l[i])]
           load == CHOOSE f : f = Body(f)
<1>1. m \in Nat /\ \A i \in 1 .. m : l[i] \in SeedEntries
  OBVIOUS
<1>2. zero \in Loaded
  BY ResourceAssumption DEF Loaded, Highest
<1>3. h \in [Loaded \X (1 .. m) -> Loaded]
  BY <1>1, LoadStep
<1>4. \A r \in Loaded, i \in 1 .. m : h[<<r, i>>] = LoadSeedItem(r, l[i])
  OBVIOUS
<1> HIDE DEF m, zero, h
<1>5. Solvable(m, Loaded, zero, h)
  BY <1>1, <1>2, <1>3, Recursion
<1>6. PICK g \in [0 .. m -> Loaded] : Solves(g, m, zero, h)
  BY <1>5 DEF Solvable
<1>7. g = Body(g)
  <2>1. \A i \in 1 .. m : g[i - 1] \in Loaded
    BY <1>1
  <2>2. g[0] = zero /\ \A i \in 1 .. m : g[i] = LoadSeedItem(g[i - 1], l[i])
    BY <2>1, <1>4, <1>6 DEF Solves
  <2> QED
    BY <2>2, <1>1
<1>8. load = Body(load)
  BY <1>7
<1>9. loadSeed(l) = load[m]
  BY DEF loadSeed, m, zero
<1> HIDE DEF load
<1>10. load[0] = zero /\ \A i \in 1 .. m : load[i] = LoadSeedItem(load[i - 1], l[i])
  BY <1>1, <1>8
<1> DEFINE T == {i \in 0 .. m : load[i] \in Loaded}
<1>11. 0 \in T /\ \A i \in 1 .. m : i - 1 \in T => i \in T
  BY <1>1, <1>2, <1>10, LoadStep
<1>12. \A i \in 0 .. m : i \in T
  <2> HIDE DEF T
  <2> QED
    BY <1>1, <1>11, UpTo
<1> QED
  BY <1>1, <1>9, <1>12

\* Reset's recount of stored seed data is its largest ID too.
LEMMA Recounted ==
  ASSUME NEW l \in Seq(StoredEntries)
  PROVE  SeedCounter(0, l) \in Nat /\ Highest(SeedCounter(0, l), l)
<1> DEFINE m == Len(l)
           h == [p \in Nat \X (1 .. m) |-> trackSequenceID(p[1], l[p[2]].id)]
           Body(f) == [i \in 0 .. m |-> IF i = 0 THEN 0 ELSE trackSequenceID(f[i - 1], l[i].id)]
           count == CHOOSE f : f = Body(f)
<1>1. m \in Nat /\ \A i \in 1 .. m : l[i].id \in Nat
  <2>1. m \in Nat /\ \A i \in 1 .. m : l[i] \in StoredEntries
    OBVIOUS
  <2> QED
    BY <2>1, StoredID
<1>2. h \in [Nat \X (1 .. m) -> Nat]
  BY <1>1 DEF trackSequenceID
<1>3. \A r \in Nat, i \in 1 .. m : h[<<r, i>>] = trackSequenceID(r, l[i].id)
  OBVIOUS
<1> HIDE DEF m, h
<1>4. Solvable(m, Nat, 0, h)
  BY <1>1, <1>2, Recursion
<1>5. PICK g \in [0 .. m -> Nat] : Solves(g, m, 0, h)
  BY <1>4 DEF Solvable
<1>6. g = Body(g)
  <2>1. \A i \in 1 .. m : g[i - 1] \in Nat
    BY <1>1
  <2>2. g[0] = 0 /\ \A i \in 1 .. m : g[i] = trackSequenceID(g[i - 1], l[i].id)
    BY <2>1, <1>3, <1>5 DEF Solves
  <2> QED
    BY <2>2, <1>1
<1>7. count = Body(count)
  BY <1>6
<1>8. SeedCounter(0, l) = count[m]
  BY DEF SeedCounter, m
<1> HIDE DEF count
<1>9. count[0] = 0 /\ \A i \in 1 .. m : count[i] = trackSequenceID(count[i - 1], l[i].id)
  BY <1>1, <1>7
<1> DEFINE T == {i \in 0 .. m : /\ count[i] \in Nat
                                /\ \A j \in 1 .. i : l[j].id <= count[i]
                                /\ count[i] = 0 \/ \E j \in 1 .. i : l[j].id = count[i]}
<1>10. 0 \in T
  BY <1>1, <1>9
<1>11. ASSUME NEW i \in 1 .. m, i - 1 \in T PROVE i \in T
  <2>1. count[i] = IF l[i].id > count[i - 1] THEN l[i].id ELSE count[i - 1]
    BY <1>9 DEF trackSequenceID
  <2>2. /\ count[i - 1] \in Nat /\ l[i].id \in Nat
        /\ \A j \in 1 .. i - 1 : l[j].id <= count[i - 1]
        /\ count[i - 1] = 0 \/ \E j \in 1 .. i - 1 : l[j].id = count[i - 1]
    BY <1>1, <1>11
  <2>3. \A j \in 1 .. i : j \in 1 .. i - 1 \/ j = i
    BY <1>1
  <2>4. count[i] \in Nat /\ count[i] >= count[i - 1] /\ count[i] >= l[i].id
    BY <2>1, <2>2
  <2>5. ASSUME NEW j \in 1 .. i PROVE l[j].id <= count[i]
    <3>1. j \in 1 .. m /\ l[j].id \in Nat
      BY <1>1
    <3>2. CASE j = i
      BY <3>2, <2>4
    <3>3. CASE j \in 1 .. i - 1
      BY <3>1, <3>3, <2>2, <2>4
    <3> QED
      BY <2>3, <3>2, <3>3
  <2>6. count[i] = 0 \/ \E j \in 1 .. i : l[j].id = count[i]
    <3>1. CASE l[i].id > count[i - 1]
      BY <3>1, <2>1, <1>1
    <3>2. CASE ~(l[i].id > count[i - 1])
      BY <3>2, <2>1, <2>2, <1>1
    <3> QED
      BY <3>1, <3>2
  <2> QED
    BY <2>4, <2>5, <2>6
<1>12. \A i \in 0 .. m : i \in T
  <2> HIDE DEF T
  <2> QED
    BY <1>1, <1>10, <1>11, UpTo
<1>13. m \in T
  BY <1>1, <1>12
<1> QED
  BY <1>8, <1>13 DEF Highest, m

\* The first n numbers are n numbers.
LEMMA FirstNumbers == ASSUME NEW n \in Nat PROVE IsFiniteSet(1 .. n) /\ Cardinality(1 .. n) = n
<1>1. 1 \in Int /\ n \in Int
  OBVIOUS
<1>2. IsFiniteSet(1 .. n) /\ Cardinality(1 .. n) = IF 1 > n THEN 0 ELSE n - 1 + 1
  BY <1>1, FS_Interval
<1> QED
  BY <1>2

\* Loading stored seed data gives each item at most one of its entries, and no
\* ID above the recount.
LEMMA SeedState ==
  ASSUME NEW l \in Seq(StoredEntries)
  PROVE  /\ SeedItems(l) \in [IDs -> ItemOrNone]
         /\ SeedCounter(0, l) \in IDs \cup {0}
         /\ \A id \in IDs : SeedItems(l)[id] # NoItem => id <= SeedCounter(0, l)
         /\ Cardinality({id \in IDs : SeedItems(l)[id] # NoItem}) <= Len(l)
<1> DEFINE L == {id \in IDs : SeedItems(l)[id] # NoItem}
           c == SeedCounter(0, l)
           f == [id \in L |-> CHOOSE i \in 1 .. Len(l) : l[i].id = id]
<1>1. Len(l) \in Nat /\ DOMAIN l = 1 .. Len(l) /\ \A i \in 1 .. Len(l) : l[i] \in StoredEntries
  OBVIOUS
<1>2. c \in Nat /\ Highest(c, l)
  BY Recounted
<1>3. SeedItems(l) \in [IDs -> ItemOrNone]
  <2>1. ASSUME NEW id \in IDs
        PROVE  (IF \E v \in Vals : [id |-> id, val |-> v] \in Range(l)
                  THEN CHOOSE v \in Vals : [id |-> id, val |-> v] \in Range(l)
                  ELSE NoItem) \in ItemOrNone
    BY DEF ItemOrNone
  <2> QED
    BY <2>1, Zenon DEF SeedItems
<1>4. ASSUME NEW id \in L PROVE \E i \in 1 .. Len(l) : l[i].id = id
  <2>1. PICK v \in Vals : [id |-> id, val |-> v] \in Range(l)
    BY DEF SeedItems
  <2>2. PICK i \in 1 .. Len(l) : l[i] = [id |-> id, val |-> v]
    BY <2>1, <1>1 DEF Range
  <2> QED
    BY <2>2
<1>5. c \in IDs \cup {0}
  <2>1. c = 0 \/ \E i \in 1 .. Len(l) : l[i].id = c
    BY <1>2 DEF Highest
  <2>2. \A i \in 1 .. Len(l) : l[i].id \in IDs
    BY <1>1 DEF StoredEntries
  <2> QED
    BY <2>1, <2>2
<1>6. \A id \in L : id <= c
  BY <1>2, <1>4 DEF Highest
<1>7. f \in Injection(L, 1 .. Len(l))
  <2>1. \A id \in L : f[id] \in 1 .. Len(l) /\ l[f[id]].id = id
    BY <1>4
  <2>2. f \in [L -> 1 .. Len(l)]
    BY <2>1
  <2> HIDE DEF f, L
  <2>3. \A a, b \in L : f[a] = f[b] => a = b
    BY <2>1
  <2> QED
    BY <2>2, <2>3 DEF Injection, IsInjective
<1>8. IsFiniteSet(1 .. Len(l)) /\ Cardinality(1 .. Len(l)) = Len(l)
  BY <1>1, FirstNumbers
<1>9. Cardinality(L) <= Len(l)
  <2> HIDE DEF f, L
  <2> QED
    BY <1>7, <1>8, FS_Injection
<1> QED
  BY <1>3, <1>5, <1>6, <1>9

-----------------------------------------------------------------------------
(* What the operations do to the items of a resource *)

\* One item is stored or removed.
LEMMA PutLive ==
  ASSUME ResourceTypeOK, NEW n \in Names, NEW id \in IDs, NEW v \in ItemOrNone,
         items' = [items EXCEPT ![n][id] = v]
  PROVE  /\ items' \in [Names -> [IDs -> ItemOrNone]]
         /\ \A m \in Names \ {n} : Live(m)' = Live(m)
         /\ Live(n)' = IF v = NoItem THEN Live(n) \ {id} ELSE Live(n) \cup {id}
<1>1. items \in [Names -> [IDs -> ItemOrNone]]
  BY DEF ResourceTypeOK
<1>2. items' \in [Names -> [IDs -> ItemOrNone]]
  BY <1>1
<1>3. \A m \in Names \ {n} : items'[m] = items[m]
  BY <1>1
<1>4. items'[n] = [items[n] EXCEPT ![id] = v]
  BY <1>1
<1>5. \A i \in IDs : items'[n][i] = IF i = id THEN v ELSE items[n][i]
  BY <1>1, <1>4
<1>6. \A m \in Names \ {n} : Live(m)' = Live(m)
  BY <1>3 DEF Live
<1>7. Live(n)' = {i \in IDs : items'[n][i] # NoItem}
  BY DEF Live
<1>8. Live(n)' = IF v = NoItem THEN Live(n) \ {id} ELSE Live(n) \cup {id}
  BY <1>5, <1>7 DEF Live
<1> QED
  BY <1>2, <1>6, <1>8

\* The table of one resource is replaced.
LEMMA PutLives ==
  ASSUME ResourceTypeOK, NEW n \in Names, NEW t \in [IDs -> ItemOrNone],
         items' = [items EXCEPT ![n] = t]
  PROVE  /\ items' \in [Names -> [IDs -> ItemOrNone]]
         /\ \A m \in Names \ {n} : Live(m)' = Live(m)
         /\ Live(n)' = {id \in IDs : t[id] # NoItem}
  BY DEF ResourceTypeOK, Live

\* A table has finitely many items.
LEMMA LiveFinite ==
  ASSUME NEW n \in Names
  PROVE  Live(n) \subseteq IDs /\ IsFiniteSet(Live(n)) /\ Cardinality(Live(n)) \in Nat
<1>1. Live(n) \in SUBSET IDs
  BY DEF Live
<1>2. IsFiniteSet(IDs)
  BY ResourceAssumption, FirstNumbers DEF IDs
<1>3. IsFiniteSet(Live(n))
  BY <1>1, <1>2, FS_Subset
<1> QED
  BY <1>1, <1>3, FS_CardinalityType

\* Items and counter as the seed data gives them, whatever was there before.
FromSeed(n) == items[n] = SeedItems(seed[n]) /\ counter[n] = SeedCounter(0, seed[n])

\* A resource's own share of the invariant.
Tracked(n) == \A id \in Live(n) : id <= counter[n] \/ id \in explicit[n]
Capped(n) == MaxItems > 0 =>
               Cardinality(Live(n)) <= MaxItems \/ Cardinality(Live(n)) <= Len(seed[n])

\* A freshly seeded resource is tracked and capped.
LEMMA SeededIsGood ==
  ASSUME NEW n \in Names, seed[n] \in Seq(StoredEntries), FromSeed(n)
  PROVE  Tracked(n) /\ Capped(n)
<1>1. Live(n) = {id \in IDs : SeedItems(seed[n])[id] # NoItem}
  BY DEF Live, FromSeed
<1>2. \A id \in Live(n) : id <= counter[n]
  BY <1>1, SeedState DEF FromSeed
<1>3. Cardinality(Live(n)) <= Len(seed[n])
  BY <1>1, SeedState
<1> QED
  BY <1>2, <1>3 DEF Tracked, Capped

\* Registration gives every resource its seed data.
LEMMA InitSeeds ==
  ASSUME ResourceInit
  PROVE  /\ ResourceTypeOK
         /\ \A n \in Names : FromSeed(n) /\ registered[n] = <<items[n], counter[n]>>
<1>1. PICK lists \in [Names -> {l \in SeedLists : ~loadSeed(l).err}] :
        /\ items = [n \in Names |-> SeedItems(loadSeed(lists[n]).seed)]
        /\ counter = [n \in Names |-> loadSeed(lists[n]).counter]
        /\ seed = [n \in Names |-> loadSeed(lists[n]).seed]
        /\ registered = [n \in Names |-> <<items[n], counter[n]>>]
        /\ explicit = [n \in Names |-> {}]
  BY DEF ResourceInit
<1>2. ASSUME NEW n \in Names
      PROVE  /\ seed[n] \in Seq(StoredEntries) /\ FromSeed(n)
             /\ registered[n] = <<items[n], counter[n]>>
  <2>1. lists[n] \in Seq(SeedEntries)
    BY <1>1, ResourceAssumption DEF SeedEntries
  <2>2. PICK r \in Loaded : r = loadSeed(lists[n])
    BY <2>1, LoadedSeed
  <2>3. items[n] = SeedItems(r.seed) /\ counter[n] = r.counter /\ seed[n] = r.seed
    BY <1>1, <2>2
  <2>4. r.seed \in Seq(StoredEntries) /\ r.counter \in Nat /\ Highest(r.counter, r.seed)
    BY ResourceAssumption DEF Loaded
  <2>5. r.counter = SeedCounter(0, r.seed)
    BY <2>4, Recounted, HighestUnique
  <2> QED
    BY <1>1, <2>3, <2>4, <2>5 DEF FromSeed
<1>3. ASSUME NEW n \in Names
      PROVE  items[n] \in [IDs -> ItemOrNone] /\ counter[n] \in IDs \cup {0}
  BY <1>2, SeedState DEF FromSeed
<1>4. ResourceTypeOK
  <2>1. items \in [Names -> [IDs -> ItemOrNone]]
    BY <1>1, <1>3
  <2>2. counter \in [Names -> IDs \cup {0}]
    BY <1>1, <1>3
  <2>3. seed \in [Names -> Seq([id : IDs, val : Vals])]
    BY <1>1, <1>2 DEF StoredEntries
  <2>4. explicit \in [Names -> SUBSET IDs]
    BY <1>1
  <2> QED
    BY <2>1, <2>2, <2>3, <2>4 DEF ResourceTypeOK
<1> QED
  BY <1>2, <1>4

\* What an operation on n promises: types, the seed data, the other resources,
\* and n's own share of the invariant.
Keeps(n) ==
  /\ ResourceTypeOK' /\ UNCHANGED <<seed, registered>>
  /\ \A m \in Names \ {n} :
       Live(m)' = Live(m) /\ counter'[m] = counter[m] /\ explicit'[m] = explicit[m]
  /\ Tracked(n) => Tracked(n)'
  /\ Capped(n) => Capped(n)'

\* A stored item has an ID that was generated, and counted, or chosen; there was
\* room for it.
LEMMA CreateKeeps ==
  ASSUME ResourceTypeOK, NEW n \in Names, NEW id \in IDs \cup {NoId}, NEW v \in Vals,
         Create(n, id, v)
  PROVE  Keeps(n)
<1>0. /\ items \in [Names -> [IDs -> ItemOrNone]] /\ counter \in [Names -> IDs \cup {0}]
      /\ explicit \in [Names -> SUBSET IDs] /\ seed \in [Names -> Seq([id : IDs, val : Vals])]
  BY DEF ResourceTypeOK
<1>1. PICK new \in IDs : new = CreateID(n, id)
  BY DEF Create
<1>2. ~Full(n) /\ UNCHANGED <<seed, registered>>
  BY DEF Create
<1>3. counter' = IF id = NoId THEN [counter EXCEPT ![n] = new] ELSE counter
  BY <1>1 DEF Create
<1>4. id = NoId => new = counter[n] + 1
  BY <1>1 DEF CreateID
<1>5. id # NoId => new = id
  BY <1>1 DEF CreateID
<1>6. counter' \in [Names -> IDs \cup {0}] /\ \A m \in Names \ {n} : counter'[m] = counter[m]
  BY <1>0, <1>3
<1>7. counter'[n] = IF id = NoId THEN new ELSE counter[n]
  BY <1>0, <1>3
<1>8. counter[n] \in Nat /\ new \in Nat /\ IDs \subseteq Nat
  BY <1>0, ResourceAssumption DEF IDs
<1>9. counter'[n] >= counter[n] /\ counter'[n] \in Nat
  BY <1>4, <1>7, <1>8
<1>10. CASE CreateOK(n, id)
  <2>1. /\ items' = [items EXCEPT ![n][new] = v]
        /\ explicit' = [explicit EXCEPT ![n] = @ \cup ({id} \ {NoId})]
    BY <1>1, <1>10 DEF Create
  <2>2. v \in ItemOrNone /\ v # NoItem
    BY ResourceAssumption DEF ItemOrNone
  <2>3. /\ items' \in [Names -> [IDs -> ItemOrNone]]
        /\ \A m \in Names \ {n} : Live(m)' = Live(m)
        /\ Live(n)' = Live(n) \cup {new}
    BY <2>1, <2>2, PutLive
  <2>4. /\ explicit' \in [Names -> SUBSET IDs] /\ explicit'[n] = explicit[n] \cup ({id} \ {NoId})
        /\ \A m \in Names \ {n} : explicit'[m] = explicit[m]
    BY <1>0, <2>1
  <2>5. new \notin Live(n)
    BY <1>1, <1>10 DEF CreateOK, Live
  <2>6. Tracked(n) => Tracked(n)'
    <3>1. new <= counter'[n] \/ new \in explicit'[n]
      BY <1>5, <1>7, <1>8, <2>4
    <3>2. \A i \in Live(n) : i \in Nat
      BY <1>8 DEF Live
    <3> QED
      BY <1>8, <1>9, <2>3, <2>4, <3>1, <3>2 DEF Tracked
  <2>7. Cardinality(Live(n)') = Cardinality(Live(n)) + 1 /\ Cardinality(Live(n)) \in Nat
    <3>1. IsFiniteSet(Live(n)) /\ Cardinality(Live(n)) \in Nat
      BY LiveFinite
    <3> QED
      BY <2>3, <2>5, <3>1, FS_AddElement
  <2>8. Capped(n)'
    <3>1. ASSUME MaxItems > 0 PROVE Cardinality(Live(n)') <= MaxItems
      BY <1>2, <2>7, <3>1, ResourceAssumption DEF Full
    <3> QED
      BY <3>1 DEF Capped
  <2>9. ResourceTypeOK'
    BY <1>0, <1>2, <1>6, <2>3, <2>4 DEF ResourceTypeOK
  <2> QED
    BY <1>2, <1>6, <2>3, <2>4, <2>6, <2>8, <2>9 DEF Keeps
<1>11. CASE ~CreateOK(n, id)
  <2>1. UNCHANGED <<items, explicit>>
    BY <1>11 DEF Create
  <2>2. \A m \in Names : Live(m)' = Live(m)
    BY <2>1 DEF Live
  <2>3. Tracked(n) => Tracked(n)'
    <3>1. \A i \in Live(n) : i \in Nat
      BY <1>8 DEF Live
    <3> QED
      BY <1>8, <1>9, <2>1, <2>2, <3>1 DEF Tracked
  <2>4. Capped(n) => Capped(n)'
    BY <1>2, <2>2 DEF Capped
  <2>5. ResourceTypeOK'
    BY <1>0, <1>2, <1>6, <2>1 DEF ResourceTypeOK
  <2> QED
    BY <1>2, <1>6, <2>1, <2>2, <2>3, <2>4, <2>5 DEF Keeps
<1> QED
  BY <1>10, <1>11

\* An operation that changes the items of n only, and adds none.
LEMMA ShrinkKeeps ==
  ASSUME ResourceTypeOK, NEW n \in Names, UNCHANGED <<counter, seed, registered, explicit>>,
         items' \in [Names -> [IDs -> ItemOrNone]],
         \A m \in Names \ {n} : Live(m)' = Live(m),
         Live(n)' \subseteq Live(n)
  PROVE  Keeps(n)
<1>1. ResourceTypeOK'
  BY DEF ResourceTypeOK
<1>2. Tracked(n) => Tracked(n)'
  BY DEF Tracked
<1>3. Live(n)' \in SUBSET Live(n) /\ IsFiniteSet(Live(n)) /\ Cardinality(Live(n)) \in Nat
  BY LiveFinite
<1>4. Cardinality(Live(n)') <= Cardinality(Live(n)) /\ IsFiniteSet(Live(n)')
  BY <1>3, FS_Subset
<1>5. Cardinality(Live(n)') \in Nat
  BY <1>4, FS_CardinalityType
<1>6. Len(seed[n]) \in Nat
  BY DEF ResourceTypeOK
<1>7. Capped(n) => Capped(n)'
  BY <1>3, <1>4, <1>5, <1>6, ResourceAssumption DEF Capped
<1> QED
  BY <1>1, <1>2, <1>7 DEF Keeps

\* Update, Delete and Clear add no item; Reset begins again from the seed data.
LEMMA OtherKeeps ==
  ASSUME ResourceTypeOK, NEW n \in Names,
         \/ \E id \in IDs, v \in Vals : Update(n, id, v)
         \/ \E id \in IDs : Delete(n, id)
         \/ Clear(n) \/ Reset(n)
  PROVE  Keeps(n)
<1>1. ASSUME NEW id \in IDs, NEW v \in Vals, Update(n, id, v) PROVE Keeps(n)
  <2>1. v \in ItemOrNone /\ v # NoItem
    BY ResourceAssumption DEF ItemOrNone
  <2>2. /\ items' = [items EXCEPT ![n][id] = v] /\ id \in Live(n)
        /\ UNCHANGED <<counter, seed, registered, explicit>>
    BY <1>1 DEF Update, Live
  <2>3. /\ items' \in [Names -> [IDs -> ItemOrNone]]
        /\ \A m \in Names \ {n} : Live(m)' = Live(m)
        /\ Live(n)' = Live(n) \cup {id}
    BY <2>1, <2>2, PutLive
  <2>4. Live(n)' \subseteq Live(n)
    BY <2>2, <2>3
  <2> QED
    BY <2>2, <2>3, <2>4, ShrinkKeeps
<1>2. ASSUME NEW id \in IDs, Delete(n, id) PROVE Keeps(n)
  <2>1. NoItem \in ItemOrNone
    BY DEF ItemOrNone
  <2>2. /\ items' = [items EXCEPT ![n][id] = NoItem]
        /\ UNCHANGED <<counter, seed, registered, explicit>>
    BY <1>2 DEF Delete
  <2> QED
    BY <2>1, <2>2, PutLive, ShrinkKeeps
<1>3. CASE Clear(n)
  <2>1. Empty \in [IDs -> ItemOrNone] /\ \A id \in IDs : Empty[id] = NoItem
    BY DEF Empty, ItemOrNone
  <2>2. /\ items' = [items EXCEPT ![n] = Empty]
        /\ UNCHANGED <<counter, seed, registered, explicit>>
    BY <1>3 DEF Clear
  <2>3. /\ items' \in [Names -> [IDs -> ItemOrNone]]
        /\ \A m \in Names \ {n} : Live(m)' = Live(m)
        /\ Live(n)' = {id \in IDs : Empty[id] # NoItem}
    BY <2>1, <2>2, PutLives
  <2>4. Live(n)' \subseteq Live(n)
    BY <2>1, <2>3
  <2> QED
    BY <2>2, <2>3, <2>4, ShrinkKeeps
<1>4. CASE Reset(n)
  <2>0. /\ items \in [Names -> [IDs -> ItemOrNone]] /\ counter \in [Names -> IDs \cup {0}]
        /\ explicit \in [Names -> SUBSET IDs] /\ seed[n] \in Seq(StoredEntries)
    BY DEF ResourceTypeOK, StoredEntries
  <2>1. /\ items' = [items EXCEPT ![n] = SeedItems(seed[n])]
        /\ counter' = [counter EXCEPT ![n] = SeedCounter(0, seed[n])]
        /\ explicit' = [explicit EXCEPT ![n] = {}]
        /\ UNCHANGED <<seed, registered>>
    BY <1>4 DEF Reset
  <2>2. SeedItems(seed[n]) \in [IDs -> ItemOrNone] /\ SeedCounter(0, seed[n]) \in IDs \cup {0}
    BY <2>0, SeedState
  <2>3. /\ items' \in [Names -> [IDs -> ItemOrNone]]
        /\ \A m \in Names \ {n} : Live(m)' = Live(m)
        /\ Live(n)' = {id \in IDs : SeedItems(seed[n])[id] # NoItem}
    BY <2>1, <2>2, PutLives
  <2>4. /\ counter' \in [Names -> IDs \cup {0}] /\ explicit' \in [Names -> SUBSET IDs]
        /\ \A m \in Names \ {n} : counter'[m] = counter[m] /\ explicit'[m] = explicit[m]
    BY <2>0, <2>1, <2>2
  <2>5. counter'[n] = SeedCounter(0, seed[n])
    BY <2>0, <2>1
  <2>6. Tracked(n)' /\ Capped(n)'
    <3>1. \A id \in Live(n)' : id <= counter'[n]
      BY <2>0, <2>3, <2>5, SeedState
    <3>2. Cardinality(Live(n)') <= Len(seed[n])
      BY <2>0, <2>3, SeedState
    <3> QED
      BY <2>1, <3>1, <3>2 DEF Tracked, Capped
  <2>7. ResourceTypeOK'
    BY <2>1, <2>3, <2>4 DEF ResourceTypeOK
  <2> QED
    BY <2>1, <2>3, <2>4, <2>6, <2>7 DEF Keeps
<1> QED
  BY <1>1, <1>2, <1>3, <1>4

-----------------------------------------------------------------------------
(* The theorems *)

\* Registration left each resource as its seed data says.
SeedRegistered ==
  \A n \in Names : registered[n] = <<SeedItems(seed[n]), SeedCounter(0, seed[n])>>

ResourceInv == ResourceTypeOK /\ GeneratedIDsTracked /\ WithinCapacity /\ SeedRegistered

\* The invariant, resource by resource.
LEMMA InvPerResource ==
  /\ GeneratedIDsTracked <=> \A n \in Names : Tracked(n)
  /\ WithinCapacity <=> \A n \in Names : Capped(n)
  BY DEF GeneratedIDsTracked, WithinCapacity, Tracked, Capped

\* Registration establishes the invariant.
LEMMA ResourceStart == ResourceInit => ResourceInv
<1> SUFFICES ASSUME ResourceInit PROVE ResourceInv
  OBVIOUS
<1>1. /\ ResourceTypeOK
      /\ \A n \in Names : FromSeed(n) /\ registered[n] = <<items[n], counter[n]>>
  BY InitSeeds
<1>2. \A n \in Names : seed[n] \in Seq(StoredEntries)
  BY <1>1 DEF ResourceTypeOK, StoredEntries
<1>3. \A n \in Names : Tracked(n) /\ Capped(n)
  BY <1>1, <1>2, SeededIsGood
<1>4. SeedRegistered
  BY <1>1 DEF SeedRegistered, FromSeed
<1> QED
  BY <1>1, <1>3, <1>4, InvPerResource DEF ResourceInv

\* Every operation preserves it.
LEMMA ResourceStep == ResourceInv /\ [ResourceNext]_resourceVars => ResourceInv'
<1> SUFFICES ASSUME ResourceInv, [ResourceNext]_resourceVars PROVE ResourceInv'
  OBVIOUS
<1>1. ASSUME NEW n \in Names, Keeps(n) PROVE ResourceInv'
  <2>1. \A m \in Names : Tracked(m) /\ Capped(m)
    BY InvPerResource DEF ResourceInv
  <2>2. ASSUME NEW m \in Names PROVE Tracked(m)' /\ Capped(m)'
    <3>1. CASE m = n
      BY <1>1, <2>1, <3>1 DEF Keeps
    <3>2. CASE m # n
      <4>1. /\ Live(m)' = Live(m) /\ counter'[m] = counter[m] /\ explicit'[m] = explicit[m]
            /\ seed' = seed
        BY <1>1, <3>2 DEF Keeps
      <4> QED
        BY <2>1, <4>1 DEF Tracked, Capped
    <3> QED
      BY <3>1, <3>2
  <2>3. GeneratedIDsTracked' /\ WithinCapacity'
    BY <2>2 DEF GeneratedIDsTracked, WithinCapacity, Tracked, Capped
  <2>4. SeedRegistered'
    BY <1>1 DEF Keeps, ResourceInv, SeedRegistered
  <2> QED
    BY <1>1, <2>3, <2>4 DEF Keeps, ResourceInv
<1>2. CASE UNCHANGED resourceVars
  BY <1>2 DEF resourceVars, ResourceInv, ResourceTypeOK, GeneratedIDsTracked, WithinCapacity,
              SeedRegistered, Live
<1>3. CASE ResourceNext
  <2>1. PICK n \in Names :
          \/ \E id \in IDs \cup {NoId}, v \in Vals : Create(n, id, v)
          \/ \E id \in IDs, v \in Vals : Update(n, id, v)
          \/ \E id \in IDs : Delete(n, id)
          \/ Clear(n) \/ Reset(n)
    BY <1>3 DEF ResourceNext
  <2>2. ResourceTypeOK
    BY DEF ResourceInv
  <2>3. Keeps(n)
    BY <2>1, <2>2, CreateKeeps, OtherKeeps
  <2> QED
    BY <1>1, <2>3
<1> QED
  BY <1>2, <1>3

\* The invariant holds throughout.
LEMMA ResourceInvariant == ResourceSpec => []ResourceInv
  BY ResourceStart, ResourceStep, PTL DEF ResourceSpec

\* Items, counters, seed data and chosen IDs always have their types: loadSeed
\* stores only entries with an ID, and the counter never leaves the IDs.
THEOREM ResourceTypes == ResourceSpec => []ResourceTypeOK
<1>1. ResourceInv => ResourceTypeOK
  BY DEF ResourceInv
<1> QED
  BY <1>1, ResourceInvariant, PTL

\* An item whose ID is above the sequence counter has an ID that a client chose,
\* after any history of creates, deletes, clears and resets.
THEOREM IDsAreTracked == ResourceSpec => []GeneratedIDsTracked
<1>1. ResourceInv => GeneratedIDsTracked
  BY DEF ResourceInv
<1> QED
  BY <1>1, ResourceInvariant, PTL

\* Creates never take a resource above maxItems; only its seed data may.
THEOREM CapacityKept == ResourceSpec => []WithinCapacity
<1>1. ResourceInv => WithinCapacity
  BY DEF ResourceInv
<1> QED
  BY <1>1, ResourceInvariant, PTL

\* Reset restores the items and the sequence position that registration gave,
\* for every seed list: the IDs registration generated were written back into
\* the seed data, and the recount ends where the first count did.
THEOREM ResetIsDeterministic == ResourceSpec => ResetRestoresSeed
<1>1. ASSUME ResourceInv, NEW n \in Names, Reset(n)
      PROVE  <<items'[n], counter'[n]>> = registered[n]
  <2>1. items'[n] = SeedItems(seed[n]) /\ counter'[n] = SeedCounter(0, seed[n])
    BY <1>1 DEF Reset, ResourceInv, ResourceTypeOK
  <2> QED
    BY <1>1, <2>1 DEF ResourceInv, SeedRegistered
<1>2. ResourceInv /\ [ResourceNext]_resourceVars =>
        [\A n \in Names : Reset(n) => <<items'[n], counter'[n]>> = registered[n]]_resourceVars
  BY <1>1
<1> QED
  BY <1>2, ResourceInvariant, PTL DEF ResourceSpec, ResetRestoresSeed

=============================================================================
