---------------------------- MODULE WriteBackStore ----------------------------
(***************************************************************************)
(* What the file store promises: a document that clients change in a       *)
(* cache, and a durable copy that is replaced as a whole, in one step, by  *)
(* what the cache held when a save took it.  One save is under way at a    *)
(* time.  A save may be given up, and a crash loses the cache and the      *)
(* save, never the durable document.  Read-only, nothing is ever changed.  *)
(***************************************************************************)
CONSTANTS
  Documents,   \* what a store can hold
  Blank        \* the document of a store that was never saved

VARIABLES
  frozen,      \* the store is read-only
  cache,       \* the document in memory
  durable,     \* the document on disk
  taken        \* {the document being saved}, or {}

abstractVars == <<frozen, cache, durable, taken>>

Init ==
  /\ frozen \in BOOLEAN
  /\ cache = Blank /\ durable = Blank /\ taken = {}

\* A client changes the document
Write ==
  /\ ~frozen /\ cache' \in Documents
  /\ UNCHANGED <<frozen, durable, taken>>

\* Open and Transaction.Rollback
Reload ==
  /\ cache' = durable
  /\ UNCHANGED <<frozen, durable, taken>>

\* A save begins, and takes the document as it is now
Take ==
  /\ ~frozen /\ taken = {} /\ taken' = {cache}
  /\ UNCHANGED <<frozen, cache, durable>>

\* The save succeeds, however the cache was changed since then
Replace ==
  /\ \E d \in taken : durable' = d
  /\ taken' = {}
  /\ UNCHANGED <<frozen, cache>>

\* The save fails
GiveUp ==
  /\ taken' = {}
  /\ UNCHANGED <<frozen, cache, durable>>

\* The process dies and a new one begins
Restart ==
  /\ cache' = Blank /\ taken' = {}
  /\ UNCHANGED <<frozen, durable>>

Next == Write \/ Reload \/ Take \/ Replace \/ GiveUp \/ Restart

Spec == Init /\ [][Next]_abstractVars

=============================================================================
