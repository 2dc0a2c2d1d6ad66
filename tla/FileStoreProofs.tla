-------------------------- MODULE FileStoreProofs --------------------------
(***************************************************************************)
(* Theorems about FileStore, for every set of stores, savers, IDs, types   *)
(* and inodes, and every bound.                                            *)
(***************************************************************************)
EXTENDS FileStore, TLAPS

-----------------------------------------------------------------------------
(* Types *)

\* A fresh storeData is a document.
LEMMA FreshType == Fresh \in Contents
  BY DEF Fresh, Contents

\* What data.json reads as is a document or torn.
LEMMA DiskType == TypeOK => Disk \in Contents \cup {Torn}
  BY FreshType DEF TypeOK, Disk

\* The saveLoop goroutine is one of the savers.
LEMMA LoopIsSaver == Loop \in Savers
  BY DEF Savers

\* InWindow is a truth value, also as a value of raced.
LEMMA InWindowType == \A s : InWindow(s) \in BOOLEAN
  BY DEF InWindow

\* A jump inside doSave keeps the type of pc.
LEMMA GotoType ==
  ASSUME TypeOK, NEW s \in Stores, NEW k \in Savers, NEW to \in PCs, Goto(s, k, to)
  PROVE  pc' \in [Stores -> [Savers -> PCs]]
  BY DEF TypeOK, Goto

\* Every mutator stores a function from IDs to types.
LEMMA MutateIsChange ==
  ASSUME TypeOK, NEW s \in Stores, Mutate(s)
  PROVE  \E m \in [IDs -> Types \cup {NoMock}] : Change(s, m)
<1> mem[s].mocks \in [IDs -> Types \cup {NoMock}]
  BY DEF TypeOK, Contents
<1>1. CASE \E id \in IDs, t \in Types : Create(s, id, t) \/ Update(s, id, t)
  BY <1>1 DEF Create, Update
<1>2. CASE \E id \in IDs : Delete(s, id)
  BY <1>2 DEF Delete
<1>3. CASE \E t \in Types : DeleteByType(s, t)
  <2> PICK t \in Types : DeleteByType(s, t)
    BY <1>3
  <2> DEFINE m == [id \in IDs |-> IF mem[s].mocks[id] = t THEN NoMock ELSE mem[s].mocks[id]]
  <2>1. m \in [IDs -> Types \cup {NoMock}]
    OBVIOUS
  <2>2. Change(s, m)
    BY DEF DeleteByType
  <2> QED
    BY <2>1, <2>2
<1>4. CASE DeleteAll(s)
  <2> DEFINE m == [id \in IDs |-> NoMock]
  <2>1. m \in [IDs -> Types \cup {NoMock}]
    OBVIOUS
  <2>2. Change(s, m)
    BY <1>4 DEF DeleteAll
  <2> QED
    BY <2>1, <2>2
<1>5. CASE \E batch \in SUBSET IDs, t \in Types :
             BulkCreate(s, batch, t) \/ BulkUpdate(s, batch, t)
  <2> PICK batch \in SUBSET IDs, t \in Types :
             BulkCreate(s, batch, t) \/ BulkUpdate(s, batch, t)
    BY <1>5
  <2> DEFINE m == [id \in IDs |-> IF id \in batch THEN t ELSE mem[s].mocks[id]]
  <2>1. m \in [IDs -> Types \cup {NoMock}]
    OBVIOUS
  <2>2. Change(s, m)
    BY DEF BulkCreate, BulkUpdate
  <2> QED
    BY <2>1, <2>2
<1> QED
  BY <1>1, <1>2, <1>3, <1>4, <1>5 DEF Mutate

\* Every step preserves the types.
LEMMA TypeStep == TypeOK /\ [Next]_vars => TypeOK'
<1> SUFFICES ASSUME TypeOK, [Next]_vars PROVE TypeOK'
  OBVIOUS
<1>d. Disk \in Contents \cup {Torn}
  BY DiskType
<1>1. ASSUME NEW s \in Stores, Open(s) PROVE TypeOK'
  <2>1. CASE Disk = Torn
    BY <1>1, <2>1 DEF TypeOK, Open, saveVars, files
  <2>2. CASE Disk # Torn
    <3>1. mem' \in [Stores -> Contents]
      BY <1>1, <1>d, <2>2 DEF TypeOK, Open
    <3>2. /\ loop' \in [Stores -> {"none", "select", "final", "exited"}]
          /\ phase' \in [Stores -> {"new", "open", "failed"}]
      BY <1>1, <2>2 DEF TypeOK, Open, StartLoop
    <3>3. raced' \in [Stores -> BOOLEAN]
      <4>1. raced' = [raced EXCEPT ![s] = InWindow(s)]
        BY <1>1, <2>2 DEF Open
      <4> QED
        BY <4>1, InWindowType DEF TypeOK
    <3>4. dirty' \in [Stores -> BOOLEAN]
      <4>1. dirty' = dirty \/ dirty' = [dirty EXCEPT ![s] = FALSE]
        BY <1>1, <2>2 DEF TypeOK, Open
      <4> QED
        BY <4>1 DEF TypeOK
    <3> QED
      BY <1>1, <3>1, <3>2, <3>3, <3>4 DEF TypeOK, Open, saveVars, files
  <2> QED
    BY <2>1, <2>2
<1>2. ASSUME NEW s \in Stores, Mutate(s) PROVE TypeOK'
  <2> PICK m \in [IDs -> Types \cup {NoMock}] : Change(s, m)
    BY <1>2, MutateIsChange
  <2>1. [rev |-> clock + 1, mocks |-> m] \in Contents
    BY DEF TypeOK, Contents
  <2> QED
    BY <2>1, InWindowType DEF TypeOK, Change, markDirty, saveVars, files
<1>3. ASSUME NEW s \in Stores, Rollback(s) PROVE TypeOK'
  BY <1>3, <1>d, InWindowType DEF TypeOK, Rollback, saveVars, loopVars, files
<1>4. ASSUME NEW s \in Stores, Close(s) PROVE TypeOK'
  BY <1>4 DEF TypeOK, Close, StartLoop, saveVars, files, Contents
<1>5. ASSUME NEW s \in Stores, Debounce(s) \/ LoopExit(s) PROVE TypeOK'
  BY <1>5 DEF TypeOK, Debounce, LoopExit, saveVars, files, aux
<1>6. ASSUME NEW s \in Stores, FinalSave(s) PROVE TypeOK'
  <2>1. pc' \in [Stores -> [Savers -> PCs]]
    BY <1>6, GotoType, LoopIsSaver DEF FinalSave, PCs
  <2> QED
    BY <1>6, <2>1 DEF TypeOK, FinalSave, files, aux
<1>7. ASSUME NEW s \in Stores, NEW k \in Savers, SaveStep(s, k) PROVE TypeOK'
  <2>p. pc' \in [Stores -> [Savers -> PCs]]
    BY <1>7, GotoType DEF PCs, SaveStep, CheckDirty, BeginSave, Marshal, OpenTmp,
       WriteTmp, RenameTmp, ClearDirty, EndSave
  <2>1. CASE CheckDirty(s, k)
    BY <2>1, <2>p DEF TypeOK, CheckDirty, loopVars, files, aux
  <2>2. CASE BeginSave(s, k)
    BY <2>2, <2>p DEF TypeOK, BeginSave, loopVars, files, aux
  <2>3. CASE Marshal(s, k)
    <3>a. snap' = snap \/ snap' = [snap EXCEPT ![s][k] = mem[s]]
      BY <2>3 DEF Marshal
    <3>b. mem[s] \in Contents /\ snap \in [Stores -> [Savers -> Contents]]
      BY DEF TypeOK
    <3>1. snap' \in [Stores -> [Savers -> Contents]]
      BY <3>a, <3>b
    <3> QED
      BY <2>3, <2>p, <3>1 DEF TypeOK, Marshal, loopVars, files, aux
  <2>4. CASE OpenTmp(s, k)
    <3> PICK i \in Inodes : /\ tmpName' = i
                            /\ inode' = [inode EXCEPT ![i] = Torn]
                            /\ fd' = [fd EXCEPT ![s][k] = i]
      BY <2>4 DEF OpenTmp
    <3>1. fd' \in [Stores -> [Savers -> Inodes \cup {NoFile}]]
      BY DEF TypeOK
    <3>2. inode' \in [Inodes -> Contents \cup {Torn}]
      BY DEF TypeOK
    <3> QED
      BY <2>4, <2>p, <3>1, <3>2 DEF TypeOK, OpenTmp, loopVars, aux
  <2>5. CASE WriteTmp(s, k)
    <3> PICK c \in {snap[s][k], Torn} : inode' = [inode EXCEPT ![fd[s][k]] = c]
      BY <2>5 DEF WriteTmp
    <3>0. c \in Contents \cup {Torn}
      BY DEF TypeOK
    <3>1. inode' \in [Inodes -> Contents \cup {Torn}]
      BY <3>0 DEF TypeOK
    <3> QED
      BY <2>5, <2>p, <3>1 DEF TypeOK, WriteTmp, loopVars, aux
  <2>6. CASE RenameTmp(s, k)
    BY <2>6, <2>p DEF TypeOK, RenameTmp, loopVars, files, aux
  <2>7. CASE ClearDirty(s, k)
    BY <2>7, <2>p DEF TypeOK, ClearDirty, loopVars, files, aux
  <2>8. CASE EndSave(s, k)
    <3>1. /\ snap' \in [Stores -> [Savers -> Contents]]
          /\ fd' \in [Stores -> [Savers -> Inodes \cup {NoFile}]]
      BY <2>8, FreshType DEF TypeOK, EndSave
    <3> QED
      BY <2>8, <2>p, <3>1 DEF TypeOK, EndSave, loopVars, files, aux
  <2> QED
    BY <1>7, <2>1, <2>2, <2>3, <2>4, <2>5, <2>6, <2>7, <2>8 DEF SaveStep
<1>8. ASSUME NEW s \in Stores, NEW k \in Savers,
             SaveFails(s, k) \/ Fire(s, k) \/ ForceSave(s, k)
      PROVE  TypeOK'
  <2>p. pc' \in [Stores -> [Savers -> PCs]]
    BY <1>8, GotoType DEF PCs, SaveFails, Fire, ForceSave
  <2>1. CASE SaveFails(s, k)
    BY <2>1, <2>p DEF TypeOK, SaveFails, loopVars
  <2>2. CASE Fire(s, k) \/ ForceSave(s, k)
    BY <2>2, <2>p DEF TypeOK, Fire, ForceSave, loopVars, files, aux
  <2> QED
    BY <1>8, <2>1, <2>2
<1>9. CASE Crash
  BY <1>9, FreshType DEF TypeOK, Crash, files, PCs
<1>10. CASE UNCHANGED vars
  BY <1>10 DEF TypeOK, vars, saveVars, loopVars, files, aux
<1> QED
  BY <1>1, <1>2, <1>3, <1>4, <1>5, <1>6, <1>7, <1>8, <1>9, <1>10 DEF Next

\* The variables keep their types in every behaviour of the store.
THEOREM TypeCorrect == Spec => []TypeOK
<1>1. Init => TypeOK
  BY FreshType DEF Init, TypeOK, PCs
<1> QED
  BY <1>1, TypeStep, PTL DEF Spec

-----------------------------------------------------------------------------
(* Mutual exclusion of savers, for any number of stores *)

\* s.saving is up while anyone is in the critical part of doSave, and only one
\* saver is: the second conjunct is not inductive without the first.
ExclusionInv ==
  \A s \in Stores, k \in Savers :
    pc[s][k] \in Critical =>
      /\ saving[s]
      /\ \A j \in Savers : pc[s][j] \in Critical => j = k

\* A jump moves one saver of one store and no other.
LEMMA GotoAt ==
  ASSUME TypeOK, NEW s \in Stores, NEW k \in Savers, NEW to, Goto(s, k, to)
  PROVE  \A t \in Stores, j \in Savers :
           pc'[t][j] = IF t = s /\ j = k THEN to ELSE pc[t][j]
  BY DEF TypeOK, Goto

\* Savers enter doSave only past the compare-and-swap.
LEMMA ExclusionStep == TypeOK /\ ExclusionInv /\ [Next]_vars => ExclusionInv'
<1> SUFFICES ASSUME TypeOK, ExclusionInv, [Next]_vars PROVE ExclusionInv'
  OBVIOUS
<1> USE DEF Critical
<1>1. ASSUME UNCHANGED <<pc, saving>> PROVE ExclusionInv'
  BY <1>1 DEF ExclusionInv
<1>2. ASSUME NEW s \in Stores, FinalSave(s) PROVE ExclusionInv'
  <2>1. \A t \in Stores, j \in Savers : pc'[t][j] \in Critical => pc[t][j] \in Critical
    BY <1>2, GotoAt, LoopIsSaver DEF FinalSave
  <2> QED
    BY <1>2, <2>1 DEF ExclusionInv, FinalSave
<1>3. ASSUME NEW s \in Stores, NEW k \in Savers,
             Fire(s, k) \/ ForceSave(s, k) \/ CheckDirty(s, k)
      PROVE  ExclusionInv'
  <2>1. \A t \in Stores, j \in Savers : pc'[t][j] \in Critical => pc[t][j] \in Critical
    BY <1>3, GotoAt DEF Fire, ForceSave, CheckDirty
  <2> QED
    BY <1>3, <2>1 DEF ExclusionInv, Fire, ForceSave, CheckDirty
<1>4. ASSUME NEW s \in Stores, NEW k \in Savers,
             \/ Marshal(s, k) \/ OpenTmp(s, k) \/ WriteTmp(s, k)
             \/ RenameTmp(s, k) \/ ClearDirty(s, k) \/ SaveFails(s, k)
      PROVE  ExclusionInv'
  <2>1. \A t \in Stores, j \in Savers : pc'[t][j] \in Critical => pc[t][j] \in Critical
    <3>1. pc[s][k] \in Critical
      BY <1>4 DEF Marshal, OpenTmp, WriteTmp, RenameTmp, ClearDirty, SaveFails
    <3>2. \E to \in PCs : Goto(s, k, to)
      BY <1>4 DEF Marshal, OpenTmp, WriteTmp, RenameTmp, ClearDirty, SaveFails, PCs
    <3>3. pc \in [Stores -> [Savers -> PCs]]
      BY DEF TypeOK
    <3> QED
      BY <3>1, <3>2, <3>3 DEF Goto
  <2>2. saving' = saving
    BY <1>4 DEF Marshal, OpenTmp, WriteTmp, RenameTmp, ClearDirty, SaveFails
  <2> QED
    BY <2>1, <2>2 DEF ExclusionInv
<1>5. ASSUME NEW s \in Stores, NEW k \in Savers, BeginSave(s, k) PROVE ExclusionInv'
  <2>1. CASE saving[s]
    <3>0. Goto(s, k, "idle")
      BY <1>5, <2>1 DEF BeginSave
    <3>1. \A t \in Stores, j \in Savers : pc'[t][j] \in Critical => pc[t][j] \in Critical
      BY <3>0, GotoAt
    <3>2. \A t \in Stores : saving'[t] = saving[t]
      BY <1>5, <2>1 DEF BeginSave, TypeOK
    <3> QED
      BY <3>1, <3>2 DEF ExclusionInv
  <2>2. CASE ~saving[s]
    <3>1. \A j \in Savers : pc[s][j] \notin Critical
      BY <2>2 DEF ExclusionInv
    <3>2. \A t \in Stores, j \in Savers :
            pc'[t][j] = IF t = s /\ j = k THEN "lock" ELSE pc[t][j]
      <4>1. Goto(s, k, "lock")
        BY <1>5, <2>2 DEF BeginSave
      <4> QED
        BY <4>1, GotoAt
    <3>3. /\ saving'[s]
          /\ \A t \in Stores : t # s => saving'[t] = saving[t]
      BY <1>5 DEF BeginSave, TypeOK
    <3> QED
      BY <3>1, <3>2, <3>3 DEF ExclusionInv
  <2> QED
    BY <2>1, <2>2
<1>6. ASSUME NEW s \in Stores, NEW k \in Savers, EndSave(s, k) PROVE ExclusionInv'
  <2>1. \A j \in Savers : pc[s][j] \in Critical => j = k
    BY <1>6 DEF ExclusionInv, EndSave
  <2>2. \A t \in Stores, j \in Savers :
          pc'[t][j] = IF t = s /\ j = k THEN "idle" ELSE pc[t][j]
    BY <1>6, GotoAt DEF EndSave
  <2>3. \A t \in Stores : t # s => saving'[t] = saving[t]
    BY <1>6 DEF EndSave, TypeOK
  <2> QED
    BY <2>1, <2>2, <2>3 DEF ExclusionInv
<1>7. CASE Crash
  BY <1>7 DEF Crash, ExclusionInv
<1>8. ASSUME NEW s \in Stores,
             \/ Open(s) \/ Mutate(s) \/ Rollback(s) \/ Close(s)
             \/ Debounce(s) \/ LoopExit(s)
      PROVE  UNCHANGED <<pc, saving>>
  <2>1. CASE Mutate(s)
    BY <2>1, MutateIsChange DEF Change, saveVars
  <2> QED
    BY <1>8, <2>1 DEF Open, Rollback, Close, Debounce, LoopExit, saveVars
<1>9. CASE UNCHANGED vars
  BY <1>1, <1>9 DEF vars, saveVars
<1> QED
  BY <1>1, <1>2, <1>3, <1>4, <1>5, <1>6, <1>7, <1>8, <1>9 DEF Next, SaveStep

\* Timer callbacks, ForceSave and the final save of Close exclude each other
\* inside doSave, for any number of them and of stores.
THEOREM Exclusion == Spec => []SaversExclude
<1>1. Init => ExclusionInv
  BY DEF Init, ExclusionInv, Critical
<1>2. ExclusionInv => SaversExclude
  BY DEF ExclusionInv, SaversExclude
<1> QED
  BY <1>1, <1>2, TypeCorrect, ExclusionStep, PTL DEF Spec

-----------------------------------------------------------------------------
(* The data file, when one instance owns the directory *)

\* One FileStore instance per data directory.
Single == \A s, t \in Stores : s = t

\* What a saver may rely on about the temp file, the data file and memory.
SaverInv(s, k) ==
  /\ pc[s][k] \in {"write", "rename"} => tmpName # NoFile
  /\ pc[s][k] = "write" => fd[s][k] = tmpName /\ inode[tmpName] = Torn
  /\ pc[s][k] = "rename" => inode[tmpName] = snap[s][k]
  /\ pc[s][k] = "clear" => Disk = snap[s][k]
  /\ pc[s][k] \in {"open", "write", "rename", "clear"} =>
        raced[s] \/ snap[s][k] = mem[s]

\* The inode being written is never the one named data.json.
FileInv ==
  /\ tmpName # NoFile => tmpName # dataName
  /\ DataFileComplete
  /\ StaleOnlyIfRaced
  /\ \A s \in Stores, k \in Savers : SaverInv(s, k)

\* Steps that leave memory, the files and every saver's window alone.
LEMMA QuietStep ==
  ASSUME FileInv, UNCHANGED <<phase, mem, raced, tmpName, dataName, inode>>,
         \A s \in Stores : dirty[s] => dirty'[s],
         \A s \in Stores, k \in Savers :
           pc'[s][k] \in {"open", "write", "rename", "clear"} =>
             pc'[s][k] = pc[s][k] /\ snap'[s][k] = snap[s][k] /\ fd'[s][k] = fd[s][k]
  PROVE  FileInv'
<1>1. Disk' = Disk
  BY DEF Disk
<1>2. (tmpName # NoFile => tmpName # dataName)' /\ DataFileComplete' /\ StaleOnlyIfRaced'
  BY <1>1 DEF FileInv, DataFileComplete, StaleOnlyIfRaced
<1>3. ASSUME NEW s \in Stores, NEW k \in Savers PROVE SaverInv(s, k)'
  <2>1. SaverInv(s, k)
    BY DEF FileInv
  <2> QED
    BY <1>1, <2>1 DEF SaverInv
<1> QED
  BY <1>2, <1>3 DEF FileInv

\* Steps that replace memory: inside a save window they leave the mark raced.
LEMMA MemoryStep ==
  ASSUME TypeOK, FileInv, NEW s \in Stores,
         UNCHANGED <<pc, snap, fd, tmpName, dataName, inode>>,
         raced' = [raced EXCEPT ![s] = InWindow(s)],
         \A t \in Stores : t # s =>
           mem'[t] = mem[t] /\ dirty'[t] = dirty[t] /\ phase'[t] = phase[t],
         dirty'[s] \/ mem'[s] = Disk
  PROVE  FileInv'
<1>1. Disk' = Disk
  BY DEF Disk
<1>2. /\ raced'[s] = InWindow(s)
      /\ \A t \in Stores : t # s => raced'[t] = raced[t]
  BY DEF TypeOK
<1>3. (tmpName # NoFile => tmpName # dataName)' /\ DataFileComplete' /\ StaleOnlyIfRaced'
  BY <1>1, <1>2 DEF FileInv, DataFileComplete, StaleOnlyIfRaced
<1>4. ASSUME NEW t \in Stores, NEW k \in Savers PROVE SaverInv(t, k)'
  <2>1. SaverInv(t, k)
    BY DEF FileInv
  <2>2. pc[s][k] \in {"open", "write", "rename", "clear"} => InWindow(s)
    BY DEF InWindow, Window
  <2>3. t = s /\ pc[t][k] \in {"open", "write", "rename", "clear"} => raced'[t]
    BY <1>2, <2>2
  <2> QED
    BY <1>1, <1>2, <2>1, <2>3 DEF SaverInv
<1> QED
  BY <1>3, <1>4 DEF FileInv

\* Steps inside the window of the only saver there is.
LEMMA WindowStep ==
  ASSUME Single, TypeOK, ExclusionInv, FileInv, NEW s \in Stores, NEW k \in Savers,
         \/ Marshal(s, k) \/ OpenTmp(s, k) \/ WriteTmp(s, k)
         \/ RenameTmp(s, k) \/ SaveFails(s, k) \/ ClearDirty(s, k)
  PROVE  FileInv'
<1> USE DEF Critical
<1>0. pc \in [Stores -> [Savers -> PCs]]
  BY DEF TypeOK
<1>1. pc[s][k] \in Critical
  BY DEF Marshal, OpenTmp, WriteTmp, RenameTmp, SaveFails, ClearDirty
<1>2. /\ UNCHANGED <<phase, mem, raced>>
      /\ \A t \in Stores : t = s
      /\ \A j \in Savers : j # k => pc[s][j] \notin Critical
  <2>1. UNCHANGED <<phase, mem, raced>>
    BY DEF Marshal, OpenTmp, WriteTmp, RenameTmp, SaveFails, ClearDirty, aux
  <2>2. \A t \in Stores : t = s
    BY DEF Single
  <2>3. \A j \in Savers : j # k => pc[s][j] \notin Critical
    BY <1>1 DEF ExclusionInv
  <2> QED
    BY <2>1, <2>2, <2>3
<1>3. \A j \in Savers : j # k => pc'[s][j] = pc[s][j]
  <2>1. \E to \in PCs : Goto(s, k, to)
    BY DEF Marshal, OpenTmp, WriteTmp, RenameTmp, SaveFails, ClearDirty, PCs
  <2>2. PICK to \in PCs : Goto(s, k, to)
    BY <2>1
  <2> QED
    BY <2>2, <1>0 DEF Goto
<1>4. ASSUME SaverInv(s, k)' PROVE \A t \in Stores, j \in Savers : SaverInv(t, j)'
  <2>1. \A j \in Savers : j # k => pc'[s][j] \notin Critical
    BY <1>2, <1>3
  <2>2. ASSUME NEW j \in Savers, j # k PROVE SaverInv(s, j)'
    BY <2>1, <2>2 DEF SaverInv
  <2>3. \A j \in Savers : SaverInv(s, j)'
    BY <1>4, <2>2
  <2> QED
    BY <1>2, <2>3
<1>5. tmpName \in Inodes \cup {NoFile} /\ dataName \in Inodes \cup {NoFile} /\ NoFile \notin Inodes
  BY FileStoreAssumption DEF TypeOK
<1>6. SaverInv(s, k) /\ DataFileComplete /\ StaleOnlyIfRaced
      /\ (tmpName # NoFile => tmpName # dataName)
  BY DEF FileInv
<1>7. mem[s] \in Contents /\ snap[s][k] \in Contents /\ Torn \notin Contents
  BY FileStoreAssumption DEF TypeOK
<1>a. CASE Marshal(s, k)
  <2>1. UNCHANGED <<dirty, fd, tmpName, dataName, inode>> /\ Disk' = Disk
    BY <1>a DEF Marshal, files, Disk
  <2>2. pc'[s][k] = "release" \/ (pc'[s][k] = "open" /\ snap'[s][k] = mem[s])
    <3>1. CASE readOnly
      <4>1. Goto(s, k, "release")
        BY <1>a, <3>1 DEF Marshal
      <4> QED
        BY <4>1, <1>0 DEF Goto
    <3>2. CASE ~readOnly
      <4>1. Goto(s, k, "open") /\ snap' = [snap EXCEPT ![s][k] = mem[s]]
        BY <1>a, <3>2 DEF Marshal
      <4>2. snap \in [Stores -> [Savers -> Contents]]
        BY DEF TypeOK
      <4>3. snap'[s][k] = mem[s]
        BY <4>1, <4>2
      <4>4. pc'[s][k] = "open"
        BY <4>1, <1>0 DEF Goto
      <4> QED
        BY <4>3, <4>4
    <3> QED
      BY <3>1, <3>2
  <2>3. SaverInv(s, k)'
    BY <1>2, <2>1, <2>2 DEF SaverInv
  <2>4. DataFileComplete' /\ StaleOnlyIfRaced' /\ (tmpName # NoFile => tmpName # dataName)'
    BY <1>2, <1>6, <2>1 DEF DataFileComplete, StaleOnlyIfRaced
  <2> QED
    BY <1>4, <2>3, <2>4 DEF FileInv
<1>b. CASE OpenTmp(s, k)
  <2>1. PICK i \in Inodes : /\ i # dataName
                            /\ tmpName' = i
                            /\ inode' = [inode EXCEPT ![i] = Torn]
                            /\ fd' = [fd EXCEPT ![s][k] = i]
    BY <1>b, <1>5, <1>6 DEF OpenTmp, FreeInode
  <2>2. UNCHANGED <<dirty, snap, dataName>> /\ pc'[s][k] = "write" /\ pc[s][k] = "open"
    <3>1. UNCHANGED <<dirty, snap, dataName>> /\ Goto(s, k, "write") /\ pc[s][k] = "open"
      BY <1>b DEF OpenTmp
    <3> QED
      BY <3>1, <1>0 DEF Goto
  <2>3. inode'[i] = Torn /\ fd'[s][k] = i /\ i # NoFile
    BY <2>1, <1>5 DEF TypeOK
  <2>4. dataName # NoFile => inode'[dataName] = inode[dataName]
    BY <2>1, <1>5 DEF TypeOK
  <2>5. Disk' = Disk
    BY <2>2, <2>4 DEF Disk
  <2>6. SaverInv(s, k)'
    BY <1>2, <1>6, <2>1, <2>2, <2>3 DEF SaverInv
  <2>7. DataFileComplete' /\ StaleOnlyIfRaced' /\ (tmpName # NoFile => tmpName # dataName)'
    BY <1>2, <1>6, <2>1, <2>2, <2>4, <2>5 DEF DataFileComplete, StaleOnlyIfRaced
  <2> QED
    BY <1>4, <2>6, <2>7 DEF FileInv
<1>c. CASE WriteTmp(s, k)
  <2>1. fd[s][k] = tmpName /\ inode[tmpName] = Torn /\ tmpName \in Inodes /\ tmpName # dataName
    BY <1>c, <1>5, <1>6 DEF SaverInv, WriteTmp
  <2>2. inode' = [inode EXCEPT ![tmpName] = snap[s][k]]
    BY <1>c, <2>1 DEF WriteTmp
  <2>3. UNCHANGED <<dirty, snap, fd, tmpName, dataName>> /\ pc'[s][k] = "rename" /\ pc[s][k] = "write"
    <3>1. /\ UNCHANGED <<dirty, snap, fd, tmpName, dataName>>
          /\ Goto(s, k, "rename") /\ pc[s][k] = "write"
      BY <1>c DEF WriteTmp
    <3> QED
      BY <3>1, <1>0 DEF Goto
  <2>4. /\ inode'[tmpName] = snap[s][k]
        /\ dataName # NoFile => inode'[dataName] = inode[dataName]
    BY <2>1, <2>2, <1>5 DEF TypeOK
  <2>5. Disk' = Disk
    BY <2>3, <2>4 DEF Disk
  <2>6. SaverInv(s, k)'
    BY <1>2, <1>5, <1>6, <2>1, <2>3, <2>4 DEF SaverInv
  <2>7. DataFileComplete' /\ StaleOnlyIfRaced' /\ (tmpName # NoFile => tmpName # dataName)'
    BY <1>2, <1>6, <2>3, <2>4, <2>5 DEF DataFileComplete, StaleOnlyIfRaced
  <2> QED
    BY <1>4, <2>6, <2>7 DEF FileInv
<1>d. CASE RenameTmp(s, k)
  <2>1. inode[tmpName] = snap[s][k] /\ tmpName \in Inodes /\ tmpName # dataName /\ tmpName # NoFile
    BY <1>d, <1>5, <1>6 DEF SaverInv, RenameTmp
  <2>2. /\ dataName' = tmpName /\ tmpName' = NoFile
        /\ inode' = [i \in Inodes |-> IF i = dataName THEN Torn ELSE inode[i]]
        /\ UNCHANGED <<dirty, snap>> /\ pc'[s][k] = "clear" /\ pc[s][k] = "rename"
    <3>1. /\ dataName' = tmpName /\ tmpName' = NoFile
          /\ inode' = [i \in Inodes |-> IF i = dataName THEN Torn ELSE inode[i]]
          /\ UNCHANGED <<dirty, snap>> /\ Goto(s, k, "clear") /\ pc[s][k] = "rename"
      BY <1>d, <2>1 DEF RenameTmp
    <3> QED
      BY <3>1, <1>0 DEF Goto
  <2>3. inode'[dataName'] = snap[s][k] /\ Disk' = snap[s][k]
    BY <2>1, <2>2, <1>5 DEF Disk
  <2>4. SaverInv(s, k)'
    BY <1>2, <1>6, <2>2, <2>3 DEF SaverInv
  <2>5. StaleOnlyIfRaced'
    BY <1>2, <1>6, <2>2, <2>3 DEF SaverInv, StaleOnlyIfRaced
  <2>6. DataFileComplete' /\ (tmpName # NoFile => tmpName # dataName)'
    BY <1>7, <2>2, <2>3 DEF DataFileComplete
  <2> QED
    BY <1>4, <2>4, <2>5, <2>6 DEF FileInv
<1>e. CASE SaveFails(s, k)
  <2>1. /\ UNCHANGED <<dirty, dataName, inode>> /\ Disk' = Disk
        /\ tmpName' = tmpName \/ tmpName' = NoFile
        /\ pc'[s][k] = "release"
    <3>1. UNCHANGED <<dirty, dataName, inode>> /\ Goto(s, k, "release")
      BY <1>e DEF SaveFails
    <3>2. tmpName' = tmpName \/ tmpName' = NoFile
      BY <1>e DEF SaveFails
    <3>3. Disk' = Disk
      BY <3>1 DEF Disk
    <3>4. pc'[s][k] = "release"
      BY <3>1, <1>0 DEF Goto
    <3> QED
      BY <3>1, <3>2, <3>3, <3>4
  <2>2. SaverInv(s, k)'
    BY <2>1 DEF SaverInv
  <2>3. DataFileComplete' /\ StaleOnlyIfRaced' /\ (tmpName # NoFile => tmpName # dataName)'
    BY <1>2, <1>6, <2>1 DEF DataFileComplete, StaleOnlyIfRaced
  <2> QED
    BY <1>4, <2>2, <2>3 DEF FileInv
<1>f. CASE ClearDirty(s, k)
  <2>1. /\ UNCHANGED <<tmpName, dataName, inode>> /\ Disk' = Disk
        /\ pc[s][k] = "clear" /\ pc'[s][k] = "release"
    <3>1. UNCHANGED <<tmpName, dataName, inode>> /\ pc[s][k] = "clear" /\ Goto(s, k, "release")
      BY <1>f DEF ClearDirty, files
    <3>2. Disk' = Disk
      BY <3>1 DEF Disk
    <3>3. pc'[s][k] = "release"
      BY <3>1, <1>0 DEF Goto
    <3> QED
      BY <3>1, <3>2, <3>3
  <2>2. Disk = snap[s][k] /\ (raced[s] \/ snap[s][k] = mem[s])
    BY <1>6, <2>1 DEF SaverInv
  <2>3. SaverInv(s, k)' /\ StaleOnlyIfRaced'
    BY <1>2, <2>1, <2>2 DEF SaverInv, StaleOnlyIfRaced
  <2>4. DataFileComplete' /\ (tmpName # NoFile => tmpName # dataName)'
    BY <1>6, <2>1 DEF DataFileComplete
  <2> QED
    BY <1>4, <2>3, <2>4 DEF FileInv
<1> QED
  BY <1>a, <1>b, <1>c, <1>d, <1>e, <1>f

\* Every step of a single instance preserves FileInv.
LEMMA FileStep ==
  ASSUME Single
  PROVE  TypeOK /\ ExclusionInv /\ FileInv /\ [Next]_vars => FileInv'
<1> SUFFICES ASSUME TypeOK, ExclusionInv, FileInv, [Next]_vars PROVE FileInv'
  OBVIOUS
<1>0. pc \in [Stores -> [Savers -> PCs]]
  BY DEF TypeOK
<1>1. ASSUME NEW s \in Stores, Open(s) PROVE FileInv'
  <2>1. Disk # Torn
    BY FileStoreAssumption, FreshType DEF FileInv, DataFileComplete, Disk
  <2>2. /\ UNCHANGED <<pc, snap, fd, tmpName, dataName, inode>>
        /\ raced' = [raced EXCEPT ![s] = InWindow(s)]
        /\ mem'[s] = Disk
        /\ \A t \in Stores : t # s =>
             mem'[t] = mem[t] /\ dirty'[t] = dirty[t] /\ phase'[t] = phase[t]
    <3>1. UNCHANGED <<pc, snap, fd, tmpName, dataName, inode>>
      BY <1>1 DEF Open, saveVars, files
    <3>2. /\ raced' = [raced EXCEPT ![s] = InWindow(s)]
          /\ phase' = [phase EXCEPT ![s] = "open"] /\ mem' = [mem EXCEPT ![s] = Disk]
          /\ dirty' = [dirty EXCEPT ![s] = IF dataName = NoFile THEN @ ELSE FALSE]
      BY <1>1, <2>1 DEF Open
    <3>3. mem \in [Stores -> Contents] /\ DOMAIN dirty = Stores /\ DOMAIN phase = Stores
      BY DEF TypeOK
    <3> QED
      BY <3>1, <3>2, <3>3
  <2> QED
    BY <2>2, MemoryStep
<1>2. ASSUME NEW s \in Stores, Mutate(s) PROVE FileInv'
  <2> PICK m \in [IDs -> Types \cup {NoMock}] : Change(s, m)
    BY <1>2, MutateIsChange
  <2>1. /\ UNCHANGED <<pc, snap, fd, tmpName, dataName, inode>>
        /\ raced' = [raced EXCEPT ![s] = InWindow(s)]
        /\ dirty'[s]
        /\ \A t \in Stores : t # s =>
             mem'[t] = mem[t] /\ dirty'[t] = dirty[t] /\ phase'[t] = phase[t]
    BY DEF Change, markDirty, TypeOK, saveVars, files
  <2> QED
    BY <2>1, MemoryStep
<1>3. ASSUME NEW s \in Stores, Rollback(s) PROVE FileInv'
  <2>1. /\ UNCHANGED <<pc, snap, fd, tmpName, dataName, inode>>
        /\ raced' = [raced EXCEPT ![s] = InWindow(s)]
        /\ mem'[s] = Disk
        /\ \A t \in Stores : t # s =>
             mem'[t] = mem[t] /\ dirty'[t] = dirty[t] /\ phase'[t] = phase[t]
    BY <1>3 DEF Rollback, TypeOK, saveVars, files
  <2> QED
    BY <2>1, MemoryStep
<1>4. ASSUME NEW s \in Stores,
             Close(s) \/ Debounce(s) \/ LoopExit(s) \/ FinalSave(s)
      PROVE  FileInv'
  <2>1. UNCHANGED <<phase, mem, raced, dirty, snap, fd, tmpName, dataName, inode>>
    BY <1>4 DEF Close, Debounce, LoopExit, FinalSave, saveVars, files, aux
  <2>2. \A t \in Stores, j \in Savers : pc'[t][j] = "check" \/ pc'[t][j] = pc[t][j]
    <3>1. pc' = pc \/ Goto(s, Loop, "check")
      BY <1>4 DEF Close, Debounce, LoopExit, FinalSave, saveVars
    <3>2. CASE Goto(s, Loop, "check")
      BY <3>2, <1>0, LoopIsSaver DEF Goto
    <3> QED
      BY <3>1, <3>2
  <2> QED
    BY <2>1, <2>2, QuietStep
<1>5. ASSUME NEW s \in Stores, NEW k \in Savers,
             \/ CheckDirty(s, k) \/ BeginSave(s, k) \/ EndSave(s, k)
             \/ Fire(s, k) \/ ForceSave(s, k)
      PROVE  FileInv'
  <2>1. UNCHANGED <<phase, mem, raced, tmpName, dataName, inode>>
    BY <1>5 DEF CheckDirty, BeginSave, EndSave, Fire, ForceSave, files, aux
  <2>2. \A t \in Stores : dirty[t] => dirty'[t]
    BY <1>5 DEF CheckDirty, BeginSave, EndSave, Fire, ForceSave, TypeOK
  <2>3. \A t \in Stores, j \in Savers :
          \/ pc'[t][j] \in {"idle", "check", "cas", "lock"}
          \/ pc'[t][j] = pc[t][j] /\ (t # s \/ j # k)
    <3>1. \E to \in {"idle", "check", "cas", "lock"} : Goto(s, k, to)
      BY <1>5 DEF CheckDirty, BeginSave, EndSave, Fire, ForceSave
    <3>2. PICK to \in {"idle", "check", "cas", "lock"} : Goto(s, k, to)
      BY <3>1
    <3>3. \A t \in Stores, j \in Savers :
            pc'[t][j] = IF t = s /\ j = k THEN to ELSE pc[t][j]
      BY <3>2, <1>0 DEF Goto
    <3> QED
      BY <3>3
  <2>4. \A t \in Stores, j \in Savers : t # s \/ j # k =>
          snap'[t][j] = snap[t][j] /\ fd'[t][j] = fd[t][j]
    <3>1. CASE EndSave(s, k)
      <4>1. /\ snap' = [snap EXCEPT ![s][k] = Fresh]
            /\ fd' = [fd EXCEPT ![s][k] = NoFile]
        BY <3>1 DEF EndSave
      <4>2. /\ snap \in [Stores -> [Savers -> Contents]]
            /\ fd \in [Stores -> [Savers -> Inodes \cup {NoFile}]]
        BY DEF TypeOK
      <4> QED
        BY <4>1, <4>2
    <3>2. CASE ~EndSave(s, k)
      BY <1>5, <3>2 DEF CheckDirty, BeginSave, Fire, ForceSave
    <3> QED
      BY <3>1, <3>2
  <2>5. \A t \in Stores, j \in Savers :
          pc'[t][j] \in {"open", "write", "rename", "clear"} =>
            pc'[t][j] = pc[t][j] /\ snap'[t][j] = snap[t][j] /\ fd'[t][j] = fd[t][j]
    <3>1. TAKE t \in Stores, j \in Savers
    <3>2. HAVE pc'[t][j] \in {"open", "write", "rename", "clear"}
    <3>3. pc'[t][j] = pc[t][j] /\ (t # s \/ j # k)
      BY <2>3, <3>2
    <3> QED
      BY <2>4, <3>3
  <2> QED
    BY <2>1, <2>2, <2>5, QuietStep
<1>6. CASE Crash
  <2>1. UNCHANGED <<tmpName, dataName, inode>> /\ \A s \in Stores : phase'[s] = "new"
    BY <1>6 DEF Crash, files
  <2>2. \A s \in Stores, k \in Savers : pc'[s][k] = "idle"
    BY <1>6 DEF Crash
  <2> QED
    BY <2>1, <2>2 DEF FileInv, DataFileComplete, StaleOnlyIfRaced, SaverInv
<1>7. CASE UNCHANGED vars
  <2>1. UNCHANGED <<phase, mem, raced, dirty, pc, snap, fd, tmpName, dataName, inode>>
    BY <1>7 DEF vars, saveVars, files, aux
  <2> QED
    BY <2>1, QuietStep
<1> QED
  BY <1>1, <1>2, <1>3, <1>4, <1>5, <1>6, <1>7, WindowStep DEF Next, SaveStep

\* FileInv holds throughout.
LEMMA FileInvariant == Single => (Spec => []FileInv)
<1> SUFFICES ASSUME Single PROVE Spec => []FileInv
  OBVIOUS
<1>1. Init => FileInv
  <2> SUFFICES ASSUME Init PROVE FileInv
    OBVIOUS
  <2>1. tmpName = NoFile /\ dataName = NoFile /\ \A s \in Stores : phase[s] = "new"
    BY DEF Init
  <2>2. \A s \in Stores, k \in Savers : pc[s][k] = "idle"
    BY DEF Init
  <2>3. \A s \in Stores, k \in Savers : SaverInv(s, k)
    BY <2>2 DEF SaverInv
  <2> QED
    BY <2>1, <2>3 DEF FileInv, DataFileComplete, StaleOnlyIfRaced
<1>2. Init => ExclusionInv
  BY DEF Init, ExclusionInv, Critical
<1> QED
  BY <1>1, <1>2, TypeCorrect, ExclusionStep, FileStep, PTL DEF Spec

\* With one instance per directory, a crash at any point of any save leaves a
\* data.json that Open can load.
THEOREM DataFileAlwaysComplete == Single => (Spec => []DataFileComplete)
<1>1. FileInv => DataFileComplete
  BY DEF FileInv
<1> QED
  BY <1>1, FileInvariant, PTL

\* With one instance per directory, a clean store differs from its file only
\* after a change that raced with a save.
THEOREM CleanUnlessRaced == Single => (Spec => []StaleOnlyIfRaced)
<1>1. FileInv => StaleOnlyIfRaced
  BY DEF FileInv
<1> QED
  BY <1>1, FileInvariant, PTL

-----------------------------------------------------------------------------
(* Refinement: the store implements WriteBackStore *)

\* A saver that holds marshalled bytes which are not in place yet.
Holds(k) == pc[TheStore][k] \in {"open", "write", "rename"}

\* TheStore is a store.
LEMMA TheStoreIsOne ==
  ASSUME Stores # {}
  PROVE  TheStore \in Stores
  BY DEF TheStore

\* At most one saver holds bytes: what is being saved is one document or none.
LEMMA UnsavedIs ==
  ASSUME Stores # {}, ExclusionInv
  PROVE  /\ \A k \in Savers : Holds(k) => Unsaved = {snap[TheStore][k]}
         /\ (\A k \in Savers : ~Holds(k)) => Unsaved = {}
<1>1. ASSUME NEW j \in Savers, NEW k \in Savers, Holds(j), Holds(k) PROVE j = k
  BY <1>1, TheStoreIsOne DEF ExclusionInv, Holds, Critical
<1>2. Unsaved = {snap[TheStore][j] : j \in {i \in Savers : Holds(i)}}
  BY DEF Unsaved, Holds
<1>3. ASSUME NEW k \in Savers, Holds(k) PROVE {i \in Savers : Holds(i)} = {k}
  BY <1>1, <1>3
<1>4. ASSUME NEW k \in Savers, Holds(k) PROVE Unsaved = {snap[TheStore][k]}
  BY <1>2, <1>3, <1>4
<1>5. ASSUME \A k \in Savers : ~Holds(k) PROVE Unsaved = {}
  BY <1>2, <1>5
<1> QED
  BY <1>4, <1>5

\* A step that moves no saver into or out of a save, and changes no bytes a saver holds.
LEMMA UnsavedKept ==
  ASSUME \A k \in Savers : Holds(k)' <=> Holds(k),
         \A k \in Savers : Holds(k) => snap'[TheStore][k] = snap[TheStore][k]
  PROVE  Unsaved' = Unsaved
<1>1. Unsaved = {snap[TheStore][j] : j \in {i \in Savers : Holds(i)}}
  BY DEF Unsaved, Holds
<1>2. Unsaved' = {snap'[TheStore][j] : j \in {i \in Savers : Holds(i)'}}
  BY DEF Unsaved, Holds
<1> QED
  BY <1>1, <1>2

\* A step that leaves memory, the data file and what is being saved alone.
LEMMA StutterStep ==
  ASSUME UNCHANGED <<readOnly, mem, dataName, inode>>,
         \A k \in Savers : Holds(k)' <=> Holds(k),
         \A k \in Savers : Holds(k) => snap'[TheStore][k] = snap[TheStore][k]
  PROVE  UNCHANGED WriteBack!abstractVars
<1>1. Unsaved' = Unsaved
  BY UnsavedKept
<1>2. Disk' = Disk
  BY DEF Disk
<1> QED
  BY <1>1, <1>2 DEF WriteBack!abstractVars

\* Open, the mutators and Rollback write or reload the cache.
LEMMA CacheRefines ==
  ASSUME Stores # {}, TypeOK, FileInv,
         Open(TheStore) \/ Mutate(TheStore) \/ Rollback(TheStore)
  PROVE  WriteBack!Write \/ WriteBack!Reload
<1>0. TheStore \in Stores /\ mem \in [Stores -> Contents]
  BY TheStoreIsOne DEF TypeOK
<1>1. UNCHANGED <<readOnly, pc, snap, dataName, inode>>
  <2>1. CASE Open(TheStore) \/ Rollback(TheStore)
    BY <2>1 DEF Open, Rollback, saveVars, files
  <2>2. CASE Mutate(TheStore)
    <3> PICK m \in [IDs -> Types \cup {NoMock}] : Change(TheStore, m)
      BY <2>2, <1>0, MutateIsChange
    <3> QED
      BY DEF Change, saveVars, files
  <2> QED
    BY <2>1, <2>2
<1>2. UNCHANGED <<Disk, Unsaved>>
  BY <1>1 DEF Disk, Unsaved
<1>3. CASE Open(TheStore)
  <2>1. Disk # Torn
    BY FileStoreAssumption, FreshType DEF FileInv, DataFileComplete, Disk
  <2>2. mem'[TheStore] = Disk
    BY <1>0, <1>3, <2>1 DEF Open
  <2> QED
    BY <1>1, <1>2, <2>2 DEF WriteBack!Reload
<1>4. CASE Rollback(TheStore)
  <2>1. mem'[TheStore] = Disk
    BY <1>0, <1>4 DEF Rollback
  <2> QED
    BY <1>1, <1>2, <2>1 DEF WriteBack!Reload
<1>5. CASE Mutate(TheStore)
  <2> PICK m \in [IDs -> Types \cup {NoMock}] : Change(TheStore, m)
    BY <1>0, <1>5, MutateIsChange
  <2>1. ~readOnly /\ mem' = [mem EXCEPT ![TheStore] = [rev |-> clock + 1, mocks |-> m]]
        /\ clock < MaxRevs
    BY DEF Change
  <2>2. [rev |-> clock + 1, mocks |-> m] \in Contents
    BY <2>1, FileStoreAssumption DEF TypeOK, Contents
  <2>3. mem'[TheStore] \in Contents
    BY <1>0, <2>1, <2>2
  <2> QED
    BY <1>1, <1>2, <2>1, <2>3 DEF WriteBack!Write
<1> QED
  BY <1>3, <1>4, <1>5

\* Where a saver that is moved ends up, and that the others stay.
LEMMA GotoHolds ==
  ASSUME Stores # {}, TypeOK, NEW k \in Savers, NEW to, Goto(TheStore, k, to)
  PROVE  /\ pc'[TheStore][k] = to
         /\ \A j \in Savers : j # k => (Holds(j)' <=> Holds(j))
<1>1. TheStore \in Stores /\ pc \in [Stores -> [Savers -> PCs]]
  BY TheStoreIsOne DEF TypeOK
<1>2. pc'[TheStore] = [pc[TheStore] EXCEPT ![k] = to]
  BY <1>1 DEF Goto
<1>3. \A j \in Savers : j # k => pc'[TheStore][j] = pc[TheStore][j]
  BY <1>1, <1>2
<1>4. pc'[TheStore][k] = to
  BY <1>1, <1>2
<1> QED
  BY <1>3, <1>4 DEF Holds

\* The steps before the snapshot and after the rename are invisible.
LEMMA OutsideRefines ==
  ASSUME Stores # {}, TypeOK, NEW k \in Savers,
         \/ CheckDirty(TheStore, k) \/ BeginSave(TheStore, k) \/ ClearDirty(TheStore, k)
         \/ EndSave(TheStore, k) \/ Fire(TheStore, k) \/ ForceSave(TheStore, k)
  PROVE  UNCHANGED WriteBack!abstractVars
<1>1. UNCHANGED <<readOnly, mem, dataName, inode>>
  BY DEF CheckDirty, BeginSave, ClearDirty, EndSave, Fire, ForceSave, files
<1>2. \E to \in {"idle", "check", "cas", "lock", "release"} : Goto(TheStore, k, to)
  BY DEF CheckDirty, BeginSave, ClearDirty, EndSave, Fire, ForceSave
<1>3. ~Holds(k)
  BY DEF CheckDirty, BeginSave, ClearDirty, EndSave, Fire, ForceSave, Holds
<1>4. PICK to \in {"idle", "check", "cas", "lock", "release"} : Goto(TheStore, k, to)
  BY <1>2
<1>5. ~Holds(k)'
  BY <1>4, GotoHolds DEF Holds
<1>6. \A j \in Savers : Holds(j)' <=> Holds(j)
  BY <1>3, <1>4, <1>5, GotoHolds
<1>7. \A j \in Savers : Holds(j) => snap'[TheStore][j] = snap[TheStore][j]
  <2>1. CASE EndSave(TheStore, k)
    <3>1. snap' = [snap EXCEPT ![TheStore][k] = Fresh]
      BY <2>1 DEF EndSave
    <3>2. snap \in [Stores -> [Savers -> Contents]] /\ TheStore \in Stores
      BY TheStoreIsOne DEF TypeOK
    <3>3. \A j \in Savers : j # k => snap'[TheStore][j] = snap[TheStore][j]
      BY <3>1, <3>2
    <3> QED
      BY <1>3, <3>3
  <2>2. CASE ~EndSave(TheStore, k)
    BY <2>2 DEF CheckDirty, BeginSave, ClearDirty, Fire, ForceSave
  <2> QED
    BY <2>1, <2>2
<1> QED
  BY <1>1, <1>6, <1>7, StutterStep

\* Close and the save loop's own steps are invisible too; if the loop were in the
\* middle of a save when it began the final one, the save would be given up.
LEMMA LoopRefines ==
  ASSUME Stores # {}, TypeOK, ExclusionInv,
         \/ Close(TheStore) \/ Debounce(TheStore)
         \/ LoopExit(TheStore) \/ FinalSave(TheStore)
  PROVE  UNCHANGED WriteBack!abstractVars \/ WriteBack!GiveUp
<1>1. UNCHANGED <<readOnly, mem, snap, dataName, inode>>
  BY DEF Close, Debounce, LoopExit, FinalSave, saveVars, files
<1>2. pc' = pc \/ Goto(TheStore, Loop, "check")
  BY DEF Close, Debounce, LoopExit, FinalSave, saveVars
<1>3. CASE pc' = pc
  <2>1. \A j \in Savers : Holds(j)' <=> Holds(j)
    BY <1>3 DEF Holds
  <2> QED
    BY <1>1, <2>1, StutterStep
<1>4. CASE Goto(TheStore, Loop, "check")
  <2>1. ~Holds(Loop)' /\ \A j \in Savers : j # Loop => (Holds(j)' <=> Holds(j))
    BY <1>4, LoopIsSaver, GotoHolds DEF Holds
  <2>2. CASE ~Holds(Loop)
    <3>1. \A j \in Savers : Holds(j)' <=> Holds(j)
      BY <2>1, <2>2
    <3> QED
      BY <1>1, <3>1, StutterStep
  <2>3. CASE Holds(Loop)
    <3>1. \A j \in Savers : j # Loop => ~Holds(j)
      BY <2>3, LoopIsSaver, TheStoreIsOne DEF ExclusionInv, Holds, Critical
    <3>2. \A j \in Savers : ~Holds(j)'
      BY <2>1, <3>1
    <3>3. Unsaved' = {}
      BY <3>2 DEF Unsaved, Holds
    <3>4. Disk' = Disk
      BY <1>1 DEF Disk
    <3> QED
      BY <1>1, <3>3, <3>4 DEF WriteBack!GiveUp
  <2> QED
    BY <2>2, <2>3
<1> QED
  BY <1>2, <1>3, <1>4

\* Marshalling takes the cache; a read-only store takes nothing.
LEMMA TakeRefines ==
  ASSUME Stores # {}, TypeOK, ExclusionInv, NEW k \in Savers,
         Marshal(TheStore, k)
  PROVE  UNCHANGED WriteBack!abstractVars \/ WriteBack!Take
<1>0. /\ TheStore \in Stores /\ pc[TheStore][k] = "lock"
      /\ UNCHANGED <<readOnly, mem, dataName, inode>>
  BY TheStoreIsOne DEF Marshal, files
<1>1. \A j \in Savers : ~Holds(j)
  BY <1>0 DEF ExclusionInv, Holds, Critical
<1>2. CASE readOnly
  <2>1. Goto(TheStore, k, "release") /\ snap' = snap
    BY <1>2 DEF Marshal
  <2>2. ~Holds(k)'
    BY <2>1, GotoHolds DEF Holds
  <2>3. \A j \in Savers : Holds(j)' <=> Holds(j)
    BY <1>1, <2>1, <2>2, GotoHolds
  <2> QED
    BY <1>0, <2>1, <2>3, StutterStep
<1>3. CASE ~readOnly
  <2>1. Goto(TheStore, k, "open") /\ snap' = [snap EXCEPT ![TheStore][k] = mem[TheStore]]
    BY <1>3 DEF Marshal
  <2>2. snap \in [Stores -> [Savers -> Contents]]
    BY DEF TypeOK
  <2>3. snap'[TheStore][k] = mem[TheStore]
    BY <1>0, <2>1, <2>2
  <2>4. Holds(k)' /\ \A j \in Savers : j # k => ~Holds(j)'
    BY <1>1, <2>1, GotoHolds DEF Holds
  <2>5. {j \in Savers : Holds(j)'} = {k}
    BY <2>4
  <2>6. Unsaved' = {snap'[TheStore][j] : j \in {i \in Savers : Holds(i)'}}
    BY DEF Unsaved, Holds
  <2>7. Unsaved' = {mem[TheStore]}
    BY <2>3, <2>5, <2>6
  <2>8. Unsaved = {} /\ Disk' = Disk
    BY <1>0, <1>1, UnsavedIs DEF Disk
  <2> QED
    BY <1>0, <1>3, <2>7, <2>8 DEF WriteBack!Take
<1> QED
  BY <1>2, <1>3

\* Writing the temp file is invisible: data.json is another inode.
LEMMA TmpRefines ==
  ASSUME Stores # {}, TypeOK, FileInv, NEW k \in Savers,
         OpenTmp(TheStore, k) \/ WriteTmp(TheStore, k)
  PROVE  UNCHANGED WriteBack!abstractVars
<1>0. /\ TheStore \in Stores /\ SaverInv(TheStore, k)
      /\ tmpName # NoFile => tmpName # dataName
      /\ tmpName \in Inodes \cup {NoFile} /\ dataName \in Inodes \cup {NoFile}
      /\ DOMAIN inode = Inodes /\ NoFile \notin Inodes
  BY TheStoreIsOne, FileStoreAssumption DEF FileInv, TypeOK
<1>1. Holds(k) /\ UNCHANGED <<readOnly, mem, snap, dataName>>
  BY DEF OpenTmp, WriteTmp, Holds
<1>2. Holds(k)' /\ \A j \in Savers : j # k => (Holds(j)' <=> Holds(j))
  <2>1. \E to \in {"write", "rename"} : Goto(TheStore, k, to)
    BY DEF OpenTmp, WriteTmp
  <2>2. PICK to \in {"write", "rename"} : Goto(TheStore, k, to)
    BY <2>1
  <2> QED
    BY <2>2, GotoHolds DEF Holds
<1>3. dataName # NoFile => inode'[dataName] = inode[dataName]
  <2>1. CASE OpenTmp(TheStore, k)
    <3>1. PICK i \in Inodes : i # dataName /\ inode' = [inode EXCEPT ![i] = Torn]
      BY <1>0, <2>1 DEF OpenTmp, FreeInode
    <3> QED
      BY <1>0, <3>1
  <2>2. CASE WriteTmp(TheStore, k)
    <3>1. fd[TheStore][k] = tmpName /\ tmpName # dataName
      BY <1>0, <2>2 DEF SaverInv, WriteTmp
    <3>2. PICK c : inode' = [inode EXCEPT ![tmpName] = c]
      BY <2>2, <3>1 DEF WriteTmp
    <3> QED
      BY <1>0, <3>1, <3>2
  <2> QED
    BY <2>1, <2>2
<1>4. Disk' = Disk
  BY <1>1, <1>3 DEF Disk
<1>5. Unsaved' = Unsaved
  BY <1>1, <1>2, UnsavedKept
<1> QED
  BY <1>1, <1>4, <1>5 DEF WriteBack!abstractVars

\* The rename replaces the durable document by the one that was taken, and a
\* failed system call gives the save up.
LEMMA OutcomeRefines ==
  ASSUME Stores # {}, TypeOK, ExclusionInv, FileInv, NEW k \in Savers,
         RenameTmp(TheStore, k) \/ SaveFails(TheStore, k)
  PROVE  WriteBack!Replace \/ WriteBack!GiveUp
<1>0. /\ TheStore \in Stores /\ SaverInv(TheStore, k)
      /\ tmpName # NoFile => tmpName # dataName
      /\ tmpName \in Inodes \cup {NoFile}
  BY TheStoreIsOne DEF FileInv, TypeOK
<1>1. Holds(k) /\ UNCHANGED <<readOnly, mem, snap>>
  BY DEF RenameTmp, SaveFails, Holds
<1>2. \A j \in Savers : j # k => ~Holds(j)
  BY <1>0, <1>1 DEF ExclusionInv, Holds, Critical
<1>3. \E to \in {"clear", "release"} : Goto(TheStore, k, to)
  BY DEF RenameTmp, SaveFails
<1>4. PICK to \in {"clear", "release"} : Goto(TheStore, k, to)
  BY <1>3
<1>5. \A j \in Savers : ~Holds(j)'
  BY <1>2, <1>4, GotoHolds DEF Holds
<1>6. Unsaved' = {}
  BY <1>5 DEF Unsaved, Holds
<1>7. Unsaved = {snap[TheStore][k]}
  BY <1>1, UnsavedIs
<1>8. CASE RenameTmp(TheStore, k)
  <2>1. inode[tmpName] = snap[TheStore][k] /\ tmpName # NoFile
    BY <1>0, <1>8 DEF SaverInv, RenameTmp
  <2>2. /\ dataName' = tmpName
        /\ inode' = [i \in Inodes |-> IF i = dataName THEN Torn ELSE inode[i]]
    BY <1>8, <2>1 DEF RenameTmp
  <2>3. Disk' = snap[TheStore][k]
    BY <1>0, <2>1, <2>2 DEF Disk
  <2> QED
    BY <1>1, <1>6, <1>7, <2>3 DEF WriteBack!Replace
<1>9. CASE SaveFails(TheStore, k)
  <2>1. Disk' = Disk
    BY <1>9 DEF SaveFails, Disk
  <2> QED
    BY <1>1, <1>6, <2>1 DEF WriteBack!GiveUp
<1> QED
  BY <1>8, <1>9

\* Every step of the only instance is a step of the write-back store, or none of its.
LEMMA RefinementStep ==
  ASSUME Single, Stores # {}, TypeOK, ExclusionInv, FileInv, [Next]_vars
  PROVE  [WriteBack!Next]_(WriteBack!abstractVars)
<1>0. TheStore \in Stores /\ \A s \in Stores : s = TheStore
  BY TheStoreIsOne DEF Single
<1>1. CASE Crash
  <2>1. UNCHANGED <<readOnly, dataName, inode>> /\ mem'[TheStore] = Fresh
    BY <1>0, <1>1 DEF Crash, files
  <2>2. \A k \in Savers : ~Holds(k)'
    BY <1>0, <1>1 DEF Crash, Holds
  <2>3. Unsaved' = {}
    BY <2>2 DEF Unsaved, Holds
  <2>4. Disk' = Disk
    BY <2>1 DEF Disk
  <2> QED
    BY <2>1, <2>3, <2>4 DEF WriteBack!Restart, WriteBack!Next
<1>2. CASE UNCHANGED vars
  <2>1. UNCHANGED <<readOnly, mem, pc, snap, dataName, inode>>
    BY <1>2 DEF vars, saveVars, files
  <2>2. \A k \in Savers : Holds(k)' <=> Holds(k)
    BY <2>1 DEF Holds
  <2> QED
    BY <2>1, <2>2, StutterStep
<1>3. CASE Open(TheStore) \/ Mutate(TheStore) \/ Rollback(TheStore)
  BY <1>3, CacheRefines DEF WriteBack!Next
<1>4. CASE \/ Close(TheStore) \/ Debounce(TheStore)
           \/ LoopExit(TheStore) \/ FinalSave(TheStore)
  BY <1>4, LoopRefines DEF WriteBack!Next
<1>5. ASSUME NEW k \in Savers, SaveStep(TheStore, k)
      PROVE  [WriteBack!Next]_(WriteBack!abstractVars)
  <2>1. CASE \/ CheckDirty(TheStore, k) \/ BeginSave(TheStore, k)
             \/ ClearDirty(TheStore, k) \/ EndSave(TheStore, k)
    BY <2>1, OutsideRefines
  <2>2. CASE Marshal(TheStore, k)
    BY <2>2, TakeRefines DEF WriteBack!Next
  <2>3. CASE OpenTmp(TheStore, k) \/ WriteTmp(TheStore, k)
    BY <2>3, TmpRefines
  <2>4. CASE RenameTmp(TheStore, k)
    BY <2>4, OutcomeRefines DEF WriteBack!Next
  <2> QED
    BY <1>5, <2>1, <2>2, <2>3, <2>4 DEF SaveStep
<1>6. ASSUME NEW k \in Savers, SaveFails(TheStore, k)
      PROVE  [WriteBack!Next]_(WriteBack!abstractVars)
  BY <1>6, OutcomeRefines DEF WriteBack!Next
<1>7. ASSUME NEW k \in Savers, Fire(TheStore, k) \/ ForceSave(TheStore, k)
      PROVE  [WriteBack!Next]_(WriteBack!abstractVars)
  BY <1>7, OutsideRefines
<1> QED
  BY <1>0, <1>1, <1>2, <1>3, <1>4, <1>5, <1>6, <1>7 DEF Next

\* One instance per directory is a write-back store: however saves, crashes,
\* failed system calls and rollbacks interleave, data.json only ever changes in
\* one step, to the whole document one save took from memory.
THEOREM Refinement == Single /\ Stores # {} => (Spec => ImplementsWriteBack)
<1> SUFFICES ASSUME Single, Stores # {} PROVE Spec => ImplementsWriteBack
  OBVIOUS
<1>1. Init => WriteBack!Init
  <2> SUFFICES ASSUME Init PROVE WriteBack!Init
    OBVIOUS
  <2>1. readOnly \in BOOLEAN /\ mem[TheStore] = Fresh /\ Disk = Fresh
    BY TheStoreIsOne DEF Init, Disk
  <2>2. \A k \in Savers : ~Holds(k)
    BY TheStoreIsOne DEF Init, Holds
  <2>3. Unsaved = {}
    BY <2>2 DEF Unsaved, Holds
  <2> QED
    BY <2>1, <2>3 DEF WriteBack!Init
<1>2. Init => ExclusionInv
  BY DEF Init, ExclusionInv, Critical
<1>3. TypeOK /\ ExclusionInv /\ FileInv /\ [Next]_vars
        => [WriteBack!Next]_(WriteBack!abstractVars)
  BY RefinementStep
<1> QED
  BY <1>1, <1>2, <1>3, TypeCorrect, ExclusionStep, FileInvariant, PTL
     DEF Spec, ImplementsWriteBack, WriteBack!Spec

=============================================================================
