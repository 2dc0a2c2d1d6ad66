----------------------------- MODULE FileStore -----------------------------
(***************************************************************************)
(* The JSON file store (pkg/store/file): an in-memory copy of data.json,   *)
(* mutated under one mutex, and a debounced writer that saves it with      *)
(* "write data.json.tmp, then rename".                                     *)
(*                                                                         *)
(* Several FileStore instances may be open on one directory: the admin API *)
(* and the engine each open their own.  Everything volatile is therefore a *)
(* function of the instance; the directory is shared.                      *)
(*                                                                         *)
(* Files are modelled by inodes, because WriteFile keeps writing to the    *)
(* inode it opened even when another saver renames it meanwhile.           *)
(***************************************************************************)
EXTENDS Naturals

CONSTANTS
  Stores,       \* the FileStore instances sharing one data directory
  IDs,          \* mock IDs
  Types,        \* mock types (http, websocket, ...)
  Callbacks,    \* debounce-timer callbacks that can be running at once
  Forcers,      \* goroutines that call ForceSave (Transaction.Commit)
  Loop,         \* the saveLoop goroutine, which does the final save
  Inodes,       \* inodes of the data directory
  NoMock,       \* no mock under this ID
  NoFile,       \* no file under this name
  Torn,         \* content of a truncated or half-written file
  MaxRevs,      \* bound: mutations of memory
  MaxFailures,  \* bound: failed system calls
  MaxCrashes    \* bound: process crashes

Savers == Callbacks \cup Forcers \cup {Loop}

Contents == [rev : Nat, mocks : [IDs -> Types \cup {NoMock}]]

ASSUME FileStoreAssumption ==
  /\ Loop \notin Callbacks \cup Forcers
  /\ Callbacks \cap Forcers = {}
  /\ NoMock \notin Types
  /\ NoFile \notin Inodes
  /\ Torn \notin Contents
  /\ MaxRevs \in Nat /\ MaxFailures \in Nat /\ MaxCrashes \in Nat

VARIABLES
  readOnly,   \* cfg.ReadOnly
  phase,      \* per store: "new" | "open" | "failed" (Open returned an error)
  mem,        \* per store: s.data
  dirty,      \* per store: s.dirty
  saving,     \* per store: s.saving
  saveCh,     \* per store: the one-place channel s.saveCh holds a token
  timer,      \* per store: the debounce timer is armed
  loop,       \* per store: saveLoop "none" | "select" | "final" | "exited"
  closeCh,    \* per store: s.closeCh is closed
  pc,         \* per store and saver: where it is in doSave
  snap,       \* per store and saver: the marshalled bytes
  fd,         \* per store and saver: the inode WriteFile opened
  tmpName,    \* inode named data.json.tmp, or NoFile
  dataName,   \* inode named data.json, or NoFile
  inode,      \* content of every inode
  clock,      \* auxiliary: number of mutations so far
  raced,      \* auxiliary, per store: last change of memory fell in a save
  closeRev,   \* auxiliary, per store: revision Close has to save
  failures,   \* auxiliary: failed system calls so far
  crashes     \* auxiliary: crashes so far

files    == <<tmpName, dataName, inode>>
saveVars == <<pc, snap, fd>>
loopVars == <<saveCh, timer, loop, closeCh>>
aux      == <<clock, raced, closeRev, failures, crashes>>
vars     == <<readOnly, phase, mem, dirty, saving, loopVars, saveVars, files, aux>>

PCs == {"idle", "check", "cas", "lock", "open", "write", "rename", "clear", "release"}

\* doSave from the compare-and-swap to the deferred reset of s.saving
Critical == {"lock", "open", "write", "rename", "clear", "release"}

\* doSave after its snapshot of memory
Window == {"open", "write", "rename", "clear", "release"}

\* &storeData{Version: dataVersion}
Fresh == [rev |-> 0, mocks |-> [i \in IDs |-> NoMock]]

\* What ReadFile and Unmarshal make of data.json; a missing file reads as Fresh
Disk == IF dataName = NoFile THEN Fresh ELSE inode[dataName]

InWindow(s) == \E k \in Savers : pc[s][k] \in Window

-----------------------------------------------------------------------------
Init ==
  /\ readOnly \in BOOLEAN
  /\ phase = [s \in Stores |-> "new"]
  /\ mem = [s \in Stores |-> Fresh]
  /\ dirty = [s \in Stores |-> FALSE]
  /\ saving = [s \in Stores |-> FALSE]
  /\ saveCh = [s \in Stores |-> FALSE]
  /\ timer = [s \in Stores |-> FALSE]
  /\ loop = [s \in Stores |-> "none"]
  /\ closeCh = [s \in Stores |-> FALSE]
  /\ pc = [s \in Stores |-> [k \in Savers |-> "idle"]]
  /\ snap = [s \in Stores |-> [k \in Savers |-> Fresh]]
  /\ fd = [s \in Stores |-> [k \in Savers |-> NoFile]]
  /\ raced = [s \in Stores |-> FALSE]
  /\ closeRev = [s \in Stores |-> 0]
  /\ tmpName = NoFile /\ dataName = NoFile
  /\ inode = [i \in Inodes |-> Torn]
  /\ clock = 0 /\ failures = 0 /\ crashes = 0

-----------------------------------------------------------------------------
(* Open, and the collections' mutators, each one critical section of s.mu. *)

\* saveLoopOnce.Do(func() { go s.saveLoop() })
StartLoop(s) ==
  loop' = [loop EXCEPT ![s] = IF @ = "none" THEN "select" ELSE @]

Open(s) ==
  /\ phase[s] = "new" /\ ~closeCh[s]
  /\ IF Disk = Torn
       THEN /\ phase' = [phase EXCEPT ![s] = "failed"]
            /\ UNCHANGED <<mem, dirty, loop, raced>>
       ELSE /\ phase' = [phase EXCEPT ![s] = "open"]
            /\ mem' = [mem EXCEPT ![s] = Disk]
            /\ dirty' = [dirty EXCEPT ![s] = IF dataName = NoFile THEN @ ELSE FALSE]
            /\ raced' = [raced EXCEPT ![s] = InWindow(s)]
            /\ StartLoop(s)
  /\ UNCHANGED <<readOnly, saving, saveCh, timer, closeCh, saveVars, files,
                 clock, closeRev, failures, crashes>>

\* dirty.Store(true), then a non-blocking send on the one-place channel
markDirty(s) ==
  /\ dirty' = [dirty EXCEPT ![s] = TRUE]
  /\ saveCh' = [saveCh EXCEPT ![s] = TRUE]

\* A mutator that got past its checks: store the new collection, markDirty
Change(s, mocks) ==
  /\ phase[s] # "new" /\ ~readOnly /\ clock < MaxRevs
  /\ mem' = [mem EXCEPT ![s] = [rev |-> clock + 1, mocks |-> mocks]]
  /\ clock' = clock + 1
  /\ raced' = [raced EXCEPT ![s] = InWindow(s)]
  /\ markDirty(s)
  /\ UNCHANGED <<readOnly, phase, saving, timer, loop, closeCh, saveVars, files,
                 closeRev, failures, crashes>>

Has(s, id) == mem[s].mocks[id] # NoMock

Create(s, id, t) ==
  /\ ~Has(s, id)
  /\ Change(s, [mem[s].mocks EXCEPT ![id] = t])

Update(s, id, t) ==
  /\ Has(s, id)
  /\ Change(s, [mem[s].mocks EXCEPT ![id] = t])

Delete(s, id) ==
  /\ Has(s, id)
  /\ Change(s, [mem[s].mocks EXCEPT ![id] = NoMock])

\* Nothing is marked dirty when no mock has the type
DeleteByType(s, t) ==
  /\ \E id \in IDs : mem[s].mocks[id] = t
  /\ Change(s, [id \in IDs |-> IF mem[s].mocks[id] = t THEN NoMock ELSE mem[s].mocks[id]])

\* Marks the store dirty even when it is empty already
DeleteAll(s) == Change(s, [id \in IDs |-> NoMock])

\* All IDs are checked before the first mock is inserted
BulkCreate(s, batch, t) ==
  /\ \A id \in batch : ~Has(s, id)
  /\ Change(s, [id \in IDs |-> IF id \in batch THEN t ELSE mem[s].mocks[id]])

BulkUpdate(s, batch, t) ==
  /\ \A id \in batch : Has(s, id)
  /\ Change(s, [id \in IDs |-> IF id \in batch THEN t ELSE mem[s].mocks[id]])

\* Mutant: the reload prefers a left-over data.json.tmp
RollbackFromTmp(s) ==
  /\ phase[s] = "open"
  /\ mem' = [mem EXCEPT ![s] = IF tmpName = NoFile THEN Disk ELSE inode[tmpName]]
  /\ dirty' = [dirty EXCEPT ![s] = FALSE]
  /\ raced' = [raced EXCEPT ![s] = InWindow(s)]
  /\ closeRev' = [closeRev EXCEPT ![s] = 0]
  /\ UNCHANGED <<readOnly, phase, saving, loopVars, saveVars, files,
                 clock, failures, crashes>>

\* reloadFromDisk: Transaction.Rollback drops everything that is not on disk
Rollback(s) ==
  /\ phase[s] = "open" /\ Disk # Torn
  /\ mem' = [mem EXCEPT ![s] = Disk]
  /\ dirty' = [dirty EXCEPT ![s] = FALSE]
  /\ raced' = [raced EXCEPT ![s] = InWindow(s)]
  /\ closeRev' = [closeRev EXCEPT ![s] = 0]
  /\ UNCHANGED <<readOnly, phase, saving, loopVars, saveVars, files,
                 clock, failures, crashes>>

Mutate(s) ==
  \/ \E id \in IDs, t \in Types : Create(s, id, t) \/ Update(s, id, t)
  \/ \E id \in IDs : Delete(s, id)
  \/ \E t \in Types : DeleteByType(s, t)
  \/ DeleteAll(s)
  \/ \E batch \in SUBSET IDs, t \in Types :
        BulkCreate(s, batch, t) \/ BulkUpdate(s, batch, t)

-----------------------------------------------------------------------------
(* doSave, one action per step another goroutine can observe. *)

Goto(s, k, to) == pc' = [pc EXCEPT ![s][k] = to]

\* dirty.Load() of the timer callback and of the final save
CheckDirty(s, k) ==
  /\ pc[s][k] = "check"
  /\ Goto(s, k, IF dirty[s] THEN "cas" ELSE "idle")
  /\ UNCHANGED <<readOnly, phase, mem, dirty, saving, loopVars, snap, fd, files, aux>>

\* Mutant: s.saving is stored without the compare
BeginSaveNoCompare(s, k) ==
  /\ pc[s][k] = "cas"
  /\ Goto(s, k, "lock")
  /\ saving' = [saving EXCEPT ![s] = TRUE]
  /\ UNCHANGED <<readOnly, phase, mem, dirty, loopVars, snap, fd, files, aux>>

\* saving.CompareAndSwap(false, true): the loser returns nil without saving.
\* The callback's own saving.Load() before it gives the same two outcomes.
BeginSave(s, k) ==
  /\ pc[s][k] = "cas"
  /\ Goto(s, k, IF saving[s] THEN "idle" ELSE "lock")
  /\ saving' = [saving EXCEPT ![s] = TRUE]
  /\ UNCHANGED <<readOnly, phase, mem, dirty, loopVars, snap, fd, files, aux>>

\* Marshal under s.mu; ErrReadOnly leaves the store dirty
Marshal(s, k) ==
  /\ pc[s][k] = "lock"
  /\ IF readOnly
       THEN Goto(s, k, "release") /\ UNCHANGED snap
       ELSE Goto(s, k, "open") /\ snap' = [snap EXCEPT ![s][k] = mem[s]]
  /\ UNCHANGED <<readOnly, phase, mem, dirty, saving, loopVars, fd, files, aux>>

\* An inode no name and no open file refers to
FreeInode(i) ==
  /\ i # tmpName /\ i # dataName
  /\ \A s \in Stores, k \in Savers : pc[s][k] = "write" => fd[s][k] # i

\* Mutant: an existing data.json is rewritten in place
OpenInPlace(s, k) ==
  /\ pc[s][k] = "open"
  /\ \E i \in Inodes :
       /\ IF dataName = NoFile THEN FreeInode(i) ELSE i = dataName
       /\ tmpName' = i
       /\ inode' = [inode EXCEPT ![i] = Torn]
       /\ fd' = [fd EXCEPT ![s][k] = i]
  /\ Goto(s, k, "write")
  /\ UNCHANGED <<readOnly, phase, mem, dirty, saving, loopVars, snap, dataName, aux>>

\* WriteFile opens data.json.tmp with O_CREATE|O_TRUNC
OpenTmp(s, k) ==
  /\ pc[s][k] = "open"
  /\ \E i \in Inodes :
       /\ IF tmpName = NoFile THEN FreeInode(i) ELSE i = tmpName
       /\ tmpName' = i
       /\ inode' = [inode EXCEPT ![i] = Torn]
       /\ fd' = [fd EXCEPT ![s][k] = i]
  /\ Goto(s, k, "write")
  /\ UNCHANGED <<readOnly, phase, mem, dirty, saving, loopVars, snap, dataName, aux>>

\* Mutant: memory is read again, without its lock, for the bytes to write
WriteTmpCurrent(s, k) ==
  /\ pc[s][k] = "write"
  /\ inode' = [inode EXCEPT ![fd[s][k]] = mem[s]]
  /\ Goto(s, k, "rename")
  /\ UNCHANGED <<readOnly, phase, mem, dirty, saving, loopVars, snap, fd,
                 tmpName, dataName, aux>>

\* The bytes go to the opened inode from offset 0.  Over the longer content
\* another writer put there meanwhile, the result is not a document.
WriteTmp(s, k) ==
  /\ pc[s][k] = "write"
  /\ \E c \in {snap[s][k]} \cup (IF inode[fd[s][k]] = Torn THEN {} ELSE {Torn}) :
       inode' = [inode EXCEPT ![fd[s][k]] = c]
  /\ Goto(s, k, "rename")
  /\ UNCHANGED <<readOnly, phase, mem, dirty, saving, loopVars, snap, fd,
                 tmpName, dataName, aux>>

\* rename(2): ENOENT when another saver renamed the temp file first; the inode
\* that was data.json is unlinked
RenameTmp(s, k) ==
  /\ pc[s][k] = "rename"
  /\ IF tmpName = NoFile
       THEN Goto(s, k, "release") /\ UNCHANGED files
       ELSE /\ Goto(s, k, "clear")
            /\ dataName' = tmpName /\ tmpName' = NoFile
            /\ inode' = [i \in Inodes |-> IF i = dataName THEN Torn ELSE inode[i]]
  /\ UNCHANGED <<readOnly, phase, mem, dirty, saving, loopVars, snap, fd, aux>>

\* Mutant: the dirty flag is dropped on the error paths too
SaveFailsClean(s, k) ==
  /\ pc[s][k] \in {"open", "write", "rename"} /\ failures < MaxFailures
  /\ failures' = failures + 1
  /\ tmpName' = IF pc[s][k] = "rename" THEN NoFile ELSE tmpName
  /\ dirty' = [dirty EXCEPT ![s] = FALSE]
  /\ Goto(s, k, "release")
  /\ UNCHANGED <<readOnly, phase, mem, saving, loopVars, snap, fd,
                 dataName, inode, clock, raced, closeRev, crashes>>

\* MkdirAll, WriteFile or Rename fails; only Rename removes the temp file
SaveFails(s, k) ==
  /\ pc[s][k] \in {"open", "write", "rename"} /\ failures < MaxFailures
  /\ failures' = failures + 1
  /\ tmpName' = IF pc[s][k] = "rename" THEN NoFile ELSE tmpName
  /\ Goto(s, k, "release")
  /\ UNCHANGED <<readOnly, phase, mem, dirty, saving, loopVars, snap, fd,
                 dataName, inode, clock, raced, closeRev, crashes>>

ClearDirty(s, k) ==
  /\ pc[s][k] = "clear"
  /\ dirty' = [dirty EXCEPT ![s] = FALSE]
  /\ Goto(s, k, "release")
  /\ UNCHANGED <<readOnly, phase, mem, saving, loopVars, snap, fd, files, aux>>

\* defer s.saving.Store(false); the locals of doSave are gone
EndSave(s, k) ==
  /\ pc[s][k] = "release"
  /\ saving' = [saving EXCEPT ![s] = FALSE]
  /\ snap' = [snap EXCEPT ![s][k] = Fresh]
  /\ fd' = [fd EXCEPT ![s][k] = NoFile]
  /\ Goto(s, k, "idle")
  /\ UNCHANGED <<readOnly, phase, mem, dirty, loopVars, files, aux>>

SaveStep(s, k) ==
  \/ CheckDirty(s, k) \/ BeginSave(s, k) \/ Marshal(s, k)
  \/ OpenTmp(s, k) \/ WriteTmp(s, k) \/ RenameTmp(s, k)
  \/ ClearDirty(s, k) \/ EndSave(s, k)

-----------------------------------------------------------------------------
(* The goroutines that call doSave. *)

\* Mutant: a pending timer is stopped and not armed again
DebounceStopOnly(s) ==
  /\ loop[s] = "select" /\ saveCh[s]
  /\ saveCh' = [saveCh EXCEPT ![s] = FALSE]
  /\ timer' = [timer EXCEPT ![s] = ~@]
  /\ UNCHANGED <<readOnly, phase, mem, dirty, saving, loop, closeCh, saveVars, files, aux>>

\* case <-s.saveCh: stop the old timer, arm a new one
Debounce(s) ==
  /\ loop[s] = "select" /\ saveCh[s]
  /\ saveCh' = [saveCh EXCEPT ![s] = FALSE]
  /\ timer' = [timer EXCEPT ![s] = TRUE]
  /\ UNCHANGED <<readOnly, phase, mem, dirty, saving, loop, closeCh, saveVars, files, aux>>

\* The timer fires: its callback runs in a goroutine of its own
Fire(s, k) ==
  /\ timer[s] /\ k \in Callbacks /\ pc[s][k] = "idle"
  /\ timer' = [timer EXCEPT ![s] = FALSE]
  /\ Goto(s, k, "check")
  /\ UNCHANGED <<readOnly, phase, mem, dirty, saving, saveCh, loop, closeCh, snap, fd, files, aux>>

\* ForceSave marks the store dirty, without a token in saveCh, and calls doSave
ForceSave(s, k) ==
  /\ phase[s] # "new" /\ k \in Forcers /\ pc[s][k] = "idle"
  /\ dirty' = [dirty EXCEPT ![s] = TRUE]
  /\ Goto(s, k, "cas")
  /\ UNCHANGED <<readOnly, phase, mem, saving, loopVars, snap, fd, files, aux>>

\* Mutant: Close relies on Open having started the loop
CloseNoStart(s) ==
  /\ ~closeCh[s]
  /\ closeCh' = [closeCh EXCEPT ![s] = TRUE]
  /\ closeRev' = [closeRev EXCEPT ![s] = mem[s].rev]
  /\ UNCHANGED <<readOnly, phase, mem, dirty, saving, saveCh, timer, loop, saveVars,
                 files, clock, raced, failures, crashes>>

\* Close starts the loop if Open never did, and closes closeCh once
Close(s) ==
  /\ ~closeCh[s]
  /\ closeCh' = [closeCh EXCEPT ![s] = TRUE]
  /\ StartLoop(s)
  /\ closeRev' = [closeRev EXCEPT ![s] = mem[s].rev]
  /\ UNCHANGED <<readOnly, phase, mem, dirty, saving, saveCh, timer, saveVars, files,
                 clock, raced, failures, crashes>>

\* case <-s.closeCh: timer.Stop does not wait for a callback that has started
FinalSave(s) ==
  /\ loop[s] = "select" /\ closeCh[s]
  /\ timer' = [timer EXCEPT ![s] = FALSE]
  /\ loop' = [loop EXCEPT ![s] = "final"]
  /\ Goto(s, Loop, "check")
  /\ UNCHANGED <<readOnly, phase, mem, dirty, saving, saveCh, closeCh, snap, fd, files, aux>>

\* saveLoop returns and closes closedCh; every Close returns
LoopExit(s) ==
  /\ loop[s] = "final" /\ pc[s][Loop] = "idle"
  /\ loop' = [loop EXCEPT ![s] = "exited"]
  /\ UNCHANGED <<readOnly, phase, mem, dirty, saving, saveCh, timer, closeCh,
                 saveVars, files, aux>>

\* The process dies; the directory survives.  A later Open is a new instance.
Crash ==
  /\ crashes < MaxCrashes
  /\ crashes' = crashes + 1
  /\ phase' = [s \in Stores |-> "new"]
  /\ mem' = [s \in Stores |-> Fresh]
  /\ dirty' = [s \in Stores |-> FALSE]
  /\ saving' = [s \in Stores |-> FALSE]
  /\ saveCh' = [s \in Stores |-> FALSE]
  /\ timer' = [s \in Stores |-> FALSE]
  /\ loop' = [s \in Stores |-> "none"]
  /\ closeCh' = [s \in Stores |-> FALSE]
  /\ pc' = [s \in Stores |-> [k \in Savers |-> "idle"]]
  /\ snap' = [s \in Stores |-> [k \in Savers |-> Fresh]]
  /\ fd' = [s \in Stores |-> [k \in Savers |-> NoFile]]
  /\ raced' = [s \in Stores |-> FALSE]
  /\ closeRev' = [s \in Stores |-> 0]
  /\ UNCHANGED <<readOnly, files, clock, failures>>

Next ==
  \/ \E s \in Stores :
       \/ Open(s) \/ Mutate(s) \/ Rollback(s) \/ Close(s)
       \/ Debounce(s) \/ FinalSave(s) \/ LoopExit(s)
       \/ \E k \in Savers : \/ SaveStep(s, k) \/ SaveFails(s, k)
                            \/ Fire(s, k) \/ ForceSave(s, k)
  \/ Crash

Spec == Init /\ [][Next]_vars

(***************************************************************************)
(* Fairness: goroutines that can run do run, and an armed timer fires.     *)
(* Go's select picks among ready cases at random, so a closed closeCh is   *)
(* not passed over for ever: strong fairness of FinalSave.                 *)
(***************************************************************************)
Fairness ==
  \A s \in Stores :
    /\ \A k \in Savers : WF_vars(SaveStep(s, k))
    /\ WF_vars(Debounce(s)) /\ SF_vars(FinalSave(s)) /\ WF_vars(LoopExit(s))
    /\ WF_vars(\E k \in Callbacks : Fire(s, k))

FairSpec == Spec /\ Fairness

-----------------------------------------------------------------------------
(* Properties *)

\* Every variable has its type; in particular what a store holds in memory is
\* always a document, never the content of a half-written file.
TypeOK ==
  /\ readOnly \in BOOLEAN
  /\ phase \in [Stores -> {"new", "open", "failed"}]
  /\ mem \in [Stores -> Contents]
  /\ dirty \in [Stores -> BOOLEAN] /\ saving \in [Stores -> BOOLEAN]
  /\ saveCh \in [Stores -> BOOLEAN] /\ timer \in [Stores -> BOOLEAN]
  /\ loop \in [Stores -> {"none", "select", "final", "exited"}]
  /\ closeCh \in [Stores -> BOOLEAN]
  /\ pc \in [Stores -> [Savers -> PCs]]
  /\ snap \in [Stores -> [Savers -> Contents]]
  /\ fd \in [Stores -> [Savers -> Inodes \cup {NoFile}]]
  /\ tmpName \in Inodes \cup {NoFile} /\ dataName \in Inodes \cup {NoFile}
  /\ inode \in [Inodes -> Contents \cup {Torn}]
  /\ clock \in Nat /\ failures \in Nat /\ crashes \in Nat
  /\ raced \in [Stores -> BOOLEAN] /\ closeRev \in [Stores -> Nat]

\* A timer callback, the final save of Close and ForceSave are never inside
\* doSave of one store together, whatever order they start in: the
\* compare-and-swap on s.saving is the only thing that keeps them apart.
SaversExclude ==
  \A s \in Stores : \A j, k \in Savers :
    pc[s][j] \in Critical /\ pc[s][k] \in Critical => j = k

\* data.json is missing or a complete document at every moment, so Open after
\* a crash at any point of a save loads it ("Atomic write: write to temp
\* file, then rename").
DataFileComplete == dataName # NoFile => inode[dataName] # Torn

\* The dirty flag may be down over unsaved changes for one reason only: the
\* last change of memory fell between a save's snapshot and its end.  A
\* failed save, a rollback, a skipped callback or a restart never hides one.
StaleOnlyIfRaced ==
  \A s \in Stores :
    phase[s] = "open" /\ ~dirty[s] /\ mem[s] # Disk => raced[s]

\* "Close saves any pending changes and closes the store": once saveLoop has
\* exited, and so Close has returned, and even the callbacks it does not wait
\* for are done, what memory held when Close was called is on disk, unless a
\* system call failed.
CloseSavesPending ==
  \A s \in Stores :
    loop[s] = "exited" /\ ~saving[s] /\ failures = 0 => closeRev[s] <= Disk.rev

\* Close always returns: also before Open, with a save in progress, with
\* clients that go on writing.
CloseReturns ==
  \A s \in Stores : closeCh[s] ~> loop[s] = "exited" \/ ~closeCh[s]

\* An open store writes every change out after the debounce, if system calls
\* succeed, unless the change raced with the end of another save.
EventuallySaved ==
  \A s \in Stores :
    phase[s] = "open" /\ mem[s] # Disk
      ~> mem[s] = Disk \/ raced[s] \/ closeCh[s] \/ phase[s] = "new" \/ failures > 0

-----------------------------------------------------------------------------
(* Refinement, for one store per directory *)

TheStore == CHOOSE s \in Stores : TRUE

\* The bytes that a save has marshalled and not yet renamed into place
Unsaved ==
  {snap[TheStore][k] : k \in {j \in Savers : pc[TheStore][j] \in {"open", "write", "rename"}}}

WriteBack == INSTANCE WriteBackStore WITH
  Documents <- Contents, Blank <- Fresh,
  frozen <- readOnly, cache <- mem[TheStore], durable <- Disk, taken <- Unsaved

\* doSave, its callers and the mutators implement a write-back store: writing a temporary
\* file and renaming it, among other savers, failures and crashes, is one atomic step that
\* replaces the whole document by what memory held when the save took its snapshot.
ImplementsWriteBack == WriteBack!Spec

=============================================================================
