--------------------------- MODULE StatefulResource ---------------------------
(***************************************************************************)
(* Stateful resources (pkg/stateful/resource.go): named tables of items    *)
(* with seed data, an item limit and sequence IDs.  Every operation of a   *)
(* resource is one critical section of its mutex.                          *)
(*                                                                         *)
(* IDs are the numbers the "sequence" strategy generates and clients may   *)
(* also choose; an item is the version its last writer gave it.            *)
(***************************************************************************)
EXTENDS Naturals, FiniteSets, Sequences, Functions

CONSTANTS
  Names,      \* resource names
  MaxItems,   \* maxItems of every resource, 0 = unlimited
  MaxId,      \* bound: largest numeric ID
  Vals,       \* versions an item can be written with
  NoItem,     \* no item under this ID
  SeedLists   \* seed data a resource may be configured with

IDs == 1 .. MaxId
NoId == 0      \* a payload without an ID field

ASSUME ResourceAssumption ==
  /\ MaxItems \in Nat /\ MaxId \in Nat
  /\ NoItem \notin Vals
  /\ \A l \in SeedLists : l \in Seq([id : IDs \cup {NoId}, val : Vals])

VARIABLES
  items,      \* name -> ID -> the item under it
  counter,    \* name -> sequenceCounter
  seed,       \* name -> seedData
  registered, \* auxiliary: name -> items and counter as registration left them
  explicit    \* auxiliary: name -> IDs that clients chose, or a rollback put back

resourceVars == <<items, counter, seed, registered, explicit>>

Empty == [id \in IDs |-> NoItem]
ItemOrNone == Vals \cup {NoItem}

-----------------------------------------------------------------------------
(* Seeding *)

\* Mutant: the IDs of the seed data are not tracked
trackNothing(c, id) == c

\* trackSequenceID: the counter follows the largest numeric ID it is shown
trackSequenceID(c, id) == IF id > c THEN id ELSE c

\* One iteration of loadSeed: generate a missing ID and write it back into the
\* seed data, or track the ID; refuse an ID that is already there.  Seed lists
\* that need an ID above the bound MaxId are left out like refused ones.
LoadSeedItem(r, d) ==
  LET id == IF d.id = NoId THEN r.counter + 1 ELSE d.id IN
  IF r.err \/ id > MaxId \/ \E s \in Range(r.seed) : s.id = id
    THEN [r EXCEPT !.err = TRUE]
    ELSE [counter |-> IF d.id = NoId THEN id ELSE trackSequenceID(r.counter, id),
          seed |-> Append(r.seed, [d EXCEPT !.id = id]), err |-> FALSE]

loadSeed(l) ==
  LET load[i \in 0 .. Len(l)] ==
        IF i = 0 THEN [counter |-> 0, seed |-> <<>>, err |-> FALSE]
                 ELSE LoadSeedItem(load[i - 1], l[i])
  IN  load[Len(l)]

\* The items stampAndStore stores for seed data whose IDs are all there
SeedItems(l) ==
  [id \in IDs |-> IF \E v \in Vals : [id |-> id, val |-> v] \in Range(l)
                    THEN CHOOSE v \in Vals : [id |-> id, val |-> v] \in Range(l)
                    ELSE NoItem]

\* Where the sequence stands after the seed data
SeedCounter(c, l) ==
  LET count[i \in 0 .. Len(l)] ==
        IF i = 0 THEN c ELSE trackSequenceID(count[i - 1], l[i].id)
  IN  count[Len(l)]

\* Registration seeds every resource, and is refused on a duplicate ID
ResourceInit ==
  \E lists \in [Names -> {l \in SeedLists : ~loadSeed(l).err}] :
    /\ items = [n \in Names |-> SeedItems(loadSeed(lists[n]).seed)]
    /\ counter = [n \in Names |-> loadSeed(lists[n]).counter]
    /\ seed = [n \in Names |-> loadSeed(lists[n]).seed]
    /\ registered = [n \in Names |-> <<items[n], counter[n]>>]
    /\ explicit = [n \in Names |-> {}]

-----------------------------------------------------------------------------
(* Operations *)

Live(n) == {id \in IDs : items[n][id] # NoItem}

\* Mutant: off by one
FullOffByOne(n) == MaxItems > 0 /\ Cardinality(Live(n)) > MaxItems

Full(n) == MaxItems > 0 /\ Cardinality(Live(n)) >= MaxItems

\* The ID Create uses: the client's, or the next of the sequence
CreateID(n, id) == IF id = NoId THEN counter[n] + 1 ELSE id

\* Room for the item, and its ID not taken
CreateOK(n, id) == ~Full(n) /\ items[n][CreateID(n, id)] = NoItem

\* A capacity error comes before an ID is generated, and leaves everything
\* alone.  A generated ID is used up even when it turns out to be taken.
Create(n, id, v) ==
  LET new == CreateID(n, id) IN
  /\ new \in IDs /\ ~Full(n)
  /\ counter' = IF id = NoId THEN [counter EXCEPT ![n] = new] ELSE counter
  /\ IF CreateOK(n, id)
       THEN /\ items' = [items EXCEPT ![n][new] = v]
            /\ explicit' = [explicit EXCEPT ![n] = @ \cup ({id} \ {NoId})]
       ELSE UNCHANGED <<items, explicit>>
  /\ UNCHANGED <<seed, registered>>

\* Update and Patch of an existing item
Update(n, id, v) ==
  /\ items[n][id] # NoItem
  /\ items' = [items EXCEPT ![n][id] = v]
  /\ UNCHANGED <<counter, seed, registered, explicit>>

Delete(n, id) ==
  /\ items[n][id] # NoItem
  /\ items' = [items EXCEPT ![n][id] = NoItem]
  /\ UNCHANGED <<counter, seed, registered, explicit>>

\* Mutant: the map is dropped and not made again
ClearToNil(n) ==
  /\ items' = [items EXCEPT ![n] = <<>>]
  /\ UNCHANGED <<counter, seed, registered, explicit>>

\* Clear keeps the sequence counter
Clear(n) ==
  /\ items' = [items EXCEPT ![n] = Empty]
  /\ UNCHANGED <<counter, seed, registered, explicit>>

\* Mutant: Reset forgets to start the sequence again
ResetKeepsCounter(n) ==
  /\ items' = [items EXCEPT ![n] = SeedItems(seed[n])]
  /\ counter' = [counter EXCEPT ![n] = SeedCounter(@, seed[n])]
  /\ explicit' = [explicit EXCEPT ![n] = {}]
  /\ UNCHANGED <<seed, registered>>

\* Reset loads the seed data again; registration gave every item of it an ID,
\* so that none is generated here
Reset(n) ==
  /\ items' = [items EXCEPT ![n] = SeedItems(seed[n])]
  /\ counter' = [counter EXCEPT ![n] = SeedCounter(0, seed[n])]
  /\ explicit' = [explicit EXCEPT ![n] = {}]
  /\ UNCHANGED <<seed, registered>>

ResourceNext ==
  \E n \in Names :
    \/ \E id \in IDs \cup {NoId}, v \in Vals : Create(n, id, v)
    \/ \E id \in IDs, v \in Vals : Update(n, id, v)
    \/ \E id \in IDs : Delete(n, id)
    \/ Clear(n)
    \/ Reset(n)

ResourceSpec == ResourceInit /\ [][ResourceNext]_resourceVars

-----------------------------------------------------------------------------
(* Properties *)

\* Items, counter, seed data and chosen IDs have their types.
ResourceTypeOK ==
  /\ items \in [Names -> [IDs -> ItemOrNone]]
  /\ counter \in [Names -> IDs \cup {0}]
  /\ seed \in [Names -> Seq([id : IDs, val : Vals])]
  /\ explicit \in [Names -> SUBSET IDs]

\* An ID above the sequence counter was chosen by a client: IDs that were
\* generated or seeded stay below it, through deletes, clears and resets, so
\* the next generated ID cannot collide with one of them.
GeneratedIDsTracked ==
  \A n \in Names : \A id \in Live(n) : id <= counter[n] \/ id \in explicit[n]

\* Creates keep a resource within maxItems; only seed data, which no limit
\* applies to, may exceed it.
WithinCapacity ==
  \A n \in Names : MaxItems > 0 =>
    \/ Cardinality(Live(n)) <= MaxItems
    \/ Cardinality(Live(n)) <= Len(seed[n])

\* Reset brings a resource back to the very state registration gave it, items,
\* generated IDs and sequence position alike ("deterministic across resets").
ResetRestoresSeed ==
  [][\A n \in Names : Reset(n) => <<items'[n], counter'[n]>> = registered[n]]_resourceVars

=============================================================================
