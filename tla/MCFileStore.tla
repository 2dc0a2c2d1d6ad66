---------------------------- MODULE MCFileStore ----------------------------
(***************************************************************************)
(* Instances of FileStore for TLC.  A behaviour is about faults (one       *)
(* change, one callback at a time, ForceSave, a failing system call or a   *)
(* crash), or about changes alone, with callbacks that overlap.            *)
(***************************************************************************)
EXTENDS FileStore

VARIABLE kind    \* "faults" or "changes"

OneCallback(s) ==
  \A k \in Callbacks \ {CHOOSE c \in Callbacks : TRUE} : pc'[s][k] = "idle"

MCInit == Init /\ kind \in {"faults", "changes"}

MCNext ==
  /\ UNCHANGED kind
  /\ Next
  /\ (kind = "faults" => /\ clock' <= 1 /\ failures' + crashes' <= 1
                         /\ \A s \in Stores : OneCallback(s))
  /\ (kind = "changes" => /\ failures' = 0 /\ crashes' = 0
                          /\ \A s \in Stores, k \in Forcers : pc'[s][k] = "idle")

MCSpec == MCInit /\ [][MCNext]_<<vars, kind>>
MCFairSpec == MCSpec /\ Fairness

=============================================================================
