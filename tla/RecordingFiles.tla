---------------------------- MODULE RecordingFiles ----------------------------
(***************************************************************************)
(* Recordings that outlive a process or a protocol handler, two machines.  *)
(*                                                                         *)
(* Rd: the session directories of `mockd proxy start` (pkg/cli/proxy.go,   *)
(* recordings.go, convert.go, pkg/recording/loader.go).  A directory name  *)
(* is a sequence of parts, a session's name and a time stamp; parts are    *)
(* numbers in the order of their spelling, time stamps first.              *)
(*                                                                         *)
(* Gr: the bounded stores of MQTT and SOAP recordings (generic_store.go)   *)
(* and their managers in the admin API.  A recording is the time it was    *)
(* made; its topic or operation is a function of that.                     *)
(***************************************************************************)
EXTENDS Integers, Sequences, SequencesExt, FiniteSets

CONSTANTS
  RdProcs,      \* `proxy start` processes
  RdNames,      \* session names
  RdClock,      \* bound: seconds
  RdRecs,       \* bound: recordings of a process
  RdClears,     \* bound: clear and import commands
  GrMax,        \* capacity of a store
  GrTimes,      \* bound: recordings made
  GrKey         \* time -> topic or operation

ASSUME RdAssumption == RdClock \in Nat /\ GrMax \in Nat \ {0}

RdImported == 99    \* the part "imported", after every time stamp and name

VARIABLES
  rdNow, rdProc,    \* process -> [at, dir, mem]: memory holds the recordings made
  rdDisk,           \* existing directories -> [meta, files]
  rdLatest,         \* what the link "latest" names, <<>> if there is none
  rdCmd,            \* a clear waiting for its answer [kind, dirs]
  rdRead,           \* the session asked for and the recordings found by the last convert
  rdLeft, rdGone    \* commands left; auxiliary: recordings that were cleared

rdVars == <<rdRead, rdNow, rdProc, rdDisk, rdLatest, rdCmd, rdLeft, rdGone>>

RdDirs == {n \o <<t>> : n \in RdNames, t \in (1 .. RdClock) \cup {RdImported}}
RdNoCmd == [kind |-> "none", name |-> <<>>, dirs |-> {}]
RdNoRead == [name |-> <<>>, recs |-> {}]

RdInit ==
  /\ rdNow = 1 /\ rdProc = [p \in RdProcs |-> [at |-> "none", dir |-> <<>>, mem |-> {}]]
  /\ rdDisk = [d \in {} |-> 0] /\ rdLatest = <<>> /\ rdCmd = RdNoCmd
  /\ rdLeft = RdClears /\ rdGone = {} /\ rdRead = RdNoRead

-----------------------------------------------------------------------------
(* Directories *)

RdIsDir(d) == d \in DOMAIN rdDisk

\* MkdirAll and a write: an existing directory is shared
RdWith(d, meta, files) ==
  LET old == IF RdIsDir(d) THEN rdDisk[d] ELSE [meta |-> -1, files |-> {}]
      new == [meta |-> IF meta = -1 THEN old.meta ELSE meta, files |-> old.files \cup files] IN
  [x \in DOMAIN rdDisk \cup {d} |-> IF x = d THEN new ELSE rdDisk[x]]

RdWithout(ds) == [x \in DOMAIN rdDisk \ ds |-> rdDisk[x]]

\* The order of sort.Strings
RdBefore(d, e) ==
  LET k == CHOOSE i \in 1 .. Len(d) + 1 : (i > Len(d) \/ i > Len(e) \/ d[i] # e[i]) /\
                                          SubSeq(d, 1, i - 1) = SubSeq(e, 1, i - 1) IN
  IF k > Len(d) THEN k <= Len(e) ELSE k <= Len(e) /\ d[k] < e[k]

RdLast(ds) == CHOOSE d \in ds : \A e \in ds \ {d} : RdBefore(e, d)

\* Mutant: the link is not followed
resolveNewest == IF rdDisk = <<>> THEN {} ELSE {RdLast(DOMAIN rdDisk)}

resolveLatest ==
  IF RdIsDir(rdLatest) THEN {rdLatest} ELSE IF rdDisk = <<>> THEN {} ELSE {RdLast(DOMAIN rdDisk)}

\* Mutant: a name that matches nothing means the latest session
resolveAny(name) ==
  LET ms == {d \in DOMAIN rdDisk : IsPrefix(name, d)} IN
  IF RdIsDir(name) THEN {name} ELSE IF ms = {} THEN resolveLatest ELSE {RdLast(ms)}

\* The directory of that name, or the last one whose name starts with it and a dash
ResolveSessionDir(name) ==
  LET ms == {d \in DOMAIN rdDisk : IsPrefix(name, d)} IN
  IF name = <<>> THEN resolveLatest
  ELSE IF RdIsDir(name) THEN {name} ELSE IF ms = {} THEN {} ELSE {RdLast(ms)}

LoadFromDir(d) == rdDisk[d].files

-----------------------------------------------------------------------------
(* mockd proxy start *)

RdTick ==
  /\ rdNow < RdClock /\ rdNow' = rdNow + 1
  /\ UNCHANGED <<rdRead, rdProc, rdDisk, rdLatest, rdCmd, rdLeft, rdGone>>

\* The directory and its meta file; listening may fail
proxyStartCmd(p, name, ok) ==
  LET d == name \o <<rdNow>> IN
  /\ rdProc[p].at = "none" /\ rdDisk' = RdWith(d, 0, {})
  /\ rdProc' = [rdProc EXCEPT ![p].at = IF ok THEN "serving" ELSE "ended", ![p].dir = d]
  /\ UNCHANGED <<rdRead, rdNow, rdLatest, rdCmd, rdLeft, rdGone>>

RdNew(p) == <<p, Cardinality(rdProc[p].mem) + 1>>


persistToDisk(p) == RdWith(rdProc[p].dir, -1, {RdNew(p)})

\* A request: the file is written before the memory store knows the recording
RdPersist(p) ==
  /\ rdProc[p].at = "serving" /\ Cardinality(rdProc[p].mem) < RdRecs
  /\ rdDisk' = persistToDisk(p) /\ rdProc' = [rdProc EXCEPT ![p].at = "adding"]
  /\ UNCHANGED <<rdRead, rdNow, rdLatest, rdCmd, rdLeft, rdGone>>

RdAdd(p) ==
  /\ rdProc[p].at = "adding"
  /\ rdProc' = [rdProc EXCEPT ![p].at = "serving", ![p].mem = @ \cup {RdNew(p)}]
  /\ UNCHANGED <<rdRead, rdNow, rdDisk, rdLatest, rdCmd, rdLeft, rdGone>>

\* Ctrl+C: writeSessionMeta fails when the directory is gone ...
RdStop(p) ==
  /\ rdProc[p].at = "serving"
  /\ rdDisk' = IF RdIsDir(rdProc[p].dir)
                 THEN RdWith(rdProc[p].dir, Cardinality(rdProc[p].mem), {}) ELSE rdDisk
  /\ rdProc' = [rdProc EXCEPT ![p].at = "unlink"]
  /\ UNCHANGED <<rdRead, rdNow, rdLatest, rdCmd, rdLeft, rdGone>>

\* ... and updateLatestSymlink removes the link, then makes it or overwrites the other's
updateLatestSymlink(p) ==
  /\ rdProc[p].at \in {"unlink", "link"}
  /\ rdProc' = [rdProc EXCEPT ![p].at = IF @ = "unlink" THEN "link" ELSE "ended"]
  /\ rdLatest' = IF rdProc[p].at = "unlink" THEN <<>> ELSE rdProc[p].dir
  /\ UNCHANGED <<rdRead, rdNow, rdDisk, rdCmd, rdLeft, rdGone>>

-----------------------------------------------------------------------------
(* mockd recordings *)

recordingsImportCmd(name) ==
  /\ rdLeft > 0 /\ rdLeft' = rdLeft - 1
  /\ rdDisk' = RdWith(name \o <<RdImported>>, -1, {<<0, 1>>})
  /\ UNCHANGED <<rdRead, rdNow, rdProc, rdLatest, rdCmd, rdGone>>

CountRecordingsInDir(d) == Cardinality(rdDisk[d].files)

ListSessions == DOMAIN rdDisk

\* clear --session: resolve and count, ask ...
recordingsClearCmd(name) ==
  /\ rdCmd.kind = "none" /\ rdLeft > 0 /\ rdLeft' = rdLeft - 1
  /\ \E d \in ResolveSessionDir(name) :
       CountRecordingsInDir(d) > 0 /\ rdCmd' = [kind |-> "one", name |-> name, dirs |-> {d}]
  /\ UNCHANGED <<rdRead, rdNow, rdProc, rdDisk, rdLatest, rdGone>>

RdClearAll ==
  /\ rdCmd.kind = "none" /\ rdLeft > 0 /\ rdLeft' = rdLeft - 1 /\ ListSessions # {}
  /\ rdCmd' = [kind |-> "all", name |-> <<>>, dirs |-> ListSessions]
  /\ UNCHANGED <<rdRead, rdNow, rdProc, rdDisk, rdLatest, rdGone>>

\* ... and delete, or not
RdConfirm(yes) ==
  /\ rdCmd.kind # "none" /\ rdCmd' = RdNoCmd
  /\ rdDisk' = IF yes THEN RdWithout(rdCmd.dirs) ELSE rdDisk
  /\ rdGone' = IF yes THEN rdGone \cup UNION {LoadFromDir(d) : d \in rdCmd.dirs \cap DOMAIN rdDisk}
               ELSE rdGone
  /\ rdLatest' = IF yes /\ rdCmd.kind = "all" THEN <<>> ELSE rdLatest
  /\ UNCHANGED <<rdRead, rdNow, rdProc, rdLeft>>

\* The recordings that convert, list and export work on
loadRecordingsFromFlags(name) == UNION {LoadFromDir(d) : d \in ResolveSessionDir(name)}

\* The conversion itself is ConvertRecordingsWithOptions of ProxyRecorder
convertCmd(name) ==
  /\ rdLeft > 0 /\ rdLeft' = rdLeft - 1 /\ loadRecordingsFromFlags(name) # {}
  /\ rdRead' = [name |-> name, recs |-> loadRecordingsFromFlags(name)]
  /\ UNCHANGED <<rdNow, rdProc, rdDisk, rdLatest, rdCmd, rdGone>>

RdNext ==
  \/ RdTick \/ RdClearAll \/ \E yes \in BOOLEAN : RdConfirm(yes)
  \/ \E n \in RdNames : recordingsImportCmd(n) \/ recordingsClearCmd(n)
  \/ \E n \in RdNames \cup {<<>>} : convertCmd(n)
  \/ \E p \in RdProcs :
       \/ RdPersist(p) \/ RdAdd(p) \/ RdStop(p) \/ updateLatestSymlink(p)
       \/ \E n \in RdNames, ok \in BOOLEAN : proxyStartCmd(p, n, ok)

RdSpec == RdInit /\ [][RdNext]_rdVars

-----------------------------------------------------------------------------
(* Properties of Rd *)

RdTypeOK ==
  /\ DOMAIN rdDisk \subseteq RdDirs /\ rdLatest \in RdDirs \cup {<<>>}
  /\ \A p \in RdProcs : rdProc[p].at \in {"none", "serving", "adding", "unlink", "link", "ended"}

\* Whatever a running proxy reports as captured is on disk in its session, unless a
\* clear command took it, even when the session was cleared under the proxy.
RdCapturedOnDisk ==
  \A p \in RdProcs : \A r \in rdProc[p].mem :
    \/ r \in rdGone
    \/ RdIsDir(rdProc[p].dir) /\ r \in rdDisk[rdProc[p].dir].files

\* `recordings clear --session NAME` deletes recordings only of sessions whose name is
\* NAME or starts with NAME and a dash.
RdClearsNamed ==
  \A d \in DOMAIN rdDisk \ DOMAIN rdDisk' :
    rdCmd.kind = "all" \/ IsPrefix(rdCmd.name, d)

\* `convert` without --session finds everything that the proxy which ended last
\* reported as captured and nobody cleared (its directory is what "latest" names).
RdConvertsLatest ==
  \A p \in RdProcs :
    /\ rdRead' # rdRead /\ rdRead'.name = <<>>
    /\ rdProc[p].at = "ended" /\ rdProc[p].dir = rdLatest
    => rdProc[p].mem \ rdGone \subseteq rdRead'.recs

-----------------------------------------------------------------------------
(* Gr: a store of MQTT or SOAP recordings, its manager and one handler *)

VARIABLES
  grKind,       \* "mqtt" or "soap"
  grOrder,      \* the recordings in memory, oldest first
  grFiles,      \* those with a file
  grAt,         \* "up", "saving" inside Add, "down"
  grHandler,    \* the handler [registered, enabled, starting]
  grNow,        \* recordings made
  grAlive,      \* auxiliary: recordings neither deleted nor lost in a crash
  grConfig      \* the last conversion: the recordings and key -> recordings used

grVars == <<grKind, grOrder, grFiles, grAt, grHandler, grNow, grAlive, grConfig>>

GrInit ==
  /\ grKind \in {"mqtt", "soap"}
  /\ grOrder = <<>> /\ grFiles = {} /\ grAt = "up" /\ grNow = 0 /\ grAlive = <<>>
  /\ grHandler = [registered |-> FALSE, enabled |-> FALSE, starting |-> FALSE]
  /\ grConfig = [from |-> <<>>, topics |-> <<>>]

\* Mutant: the newest gives way
GrEvictNewest == Front(grOrder)

\* A full store loses its oldest recording
GrEvict == Tail(grOrder)

\* soapStoreAdapter.Add, mqttStoreAdapter.Add: memory and the oldest file ...
GrAdd ==
  LET full == Len(grOrder) >= GrMax IN
  /\ grAt = "up" /\ grHandler.enabled /\ grNow < GrTimes /\ grNow' = grNow + 1
  /\ grOrder' = Append(IF full THEN GrEvict ELSE grOrder, grNow + 1)
  /\ grFiles' = IF full THEN grFiles \ {grOrder[1]} ELSE grFiles
  /\ grAlive' = Append(grAlive, grNow + 1) /\ grAt' = "saving"
  /\ UNCHANGED <<grKind, grHandler, grConfig>>

\* ... then the new file
GrSave ==
  /\ grAt = "saving" /\ grAt' = "up" /\ grFiles' = grFiles \cup {Last(grOrder)}
  /\ UNCHANGED <<grKind, grOrder, grHandler, grNow, grAlive, grConfig>>

GrDelete(r) ==
  /\ grAt = "up" /\ r \in ToSet(grOrder)
  /\ grOrder' = SelectSeq(grOrder, LAMBDA x : x # r) /\ grFiles' = grFiles \ {r}
  /\ grAlive' = SelectSeq(grAlive, LAMBDA x : x # r)
  /\ UNCHANGED <<grKind, grAt, grHandler, grNow, grConfig>>

GrClear ==
  /\ grAt = "up" /\ grOrder # <<>> /\ grOrder' = <<>> /\ grFiles' = {} /\ grAlive' = <<>>
  /\ UNCHANGED <<grKind, grAt, grHandler, grNow, grConfig>>

\* A crash inside Add leaves no file or an unreadable one
GrCrash ==
  /\ grAt # "down" /\ grAt' = "down" /\ grOrder' = <<>>
  /\ grAlive' = IF grAt = "saving" THEN Front(grAlive) ELSE grAlive
  /\ grHandler' = [registered |-> FALSE, enabled |-> FALSE, starting |-> FALSE]
  /\ UNCHANGED <<grKind, grFiles, grNow, grConfig>>

\* Mutant: in the order of the directory
GrLoadUnsorted == SetToSeqs(grFiles)

\* Sorted by time
GrLoaded == {SetToSortSeq(grFiles, <)}

loadFromDisk ==
  /\ grAt = "down" /\ grAt' = "up" /\ grOrder' \in GrLoaded
  /\ UNCHANGED <<grKind, grFiles, grHandler, grNow, grAlive, grConfig>>

\* RegisterBroker, RegisterHandler
GrRegister ==
  /\ grAt # "down" /\ ~grHandler.registered /\ grHandler' = [grHandler EXCEPT !.registered = TRUE]
  /\ UNCHANGED <<grKind, grOrder, grFiles, grAt, grNow, grAlive, grConfig>>

GrUnregister ==
  /\ grHandler.registered
  /\ grHandler' = [grHandler EXCEPT !.registered = FALSE, !.enabled = FALSE]
  /\ UNCHANGED <<grKind, grOrder, grFiles, grAt, grNow, grAlive, grConfig>>

\* Start finds the handler under the lock and enables it after
GrStart ==
  /\ grAt # "down" /\ (grHandler.registered \/ grHandler.starting)
  /\ grHandler' = [grHandler EXCEPT !.enabled = @ \/ grHandler.starting,
                                    !.starting = ~@]
  /\ UNCHANGED <<grKind, grOrder, grFiles, grAt, grNow, grAlive, grConfig>>

GrStop ==
  /\ grHandler.registered /\ grHandler' = [grHandler EXCEPT !.enabled = FALSE]
  /\ UNCHANGED <<grKind, grOrder, grFiles, grAt, grNow, grAlive, grConfig>>

\* ListFiltered: the newest first
ListFiltered(kept) == Reverse(SelectSeq(grOrder, LAMBDA r : r \in kept))

ListByTopic(topic) == ListFiltered({r \in DOMAIN GrKey : topic = "" \/ GrKey[r] = topic})
ListByOperation(operation) == ListFiltered({r \in DOMAIN GrKey : operation = "" \/ GrKey[r] = operation})

GrGroup(rs, k) == SelectSeq(rs, LAMBDA r : GrKey[r] = k)
GrKeys(rs) == {GrKey[r] : r \in ToSet(rs)}

\* A topic answers with its first recording or, not deduplicated, with all
ToMQTTConfig(rs, dedup) ==
  [k \in GrKeys(rs) |-> IF dedup THEN <<GrGroup(rs, k)[1]>> ELSE GrGroup(rs, k)]

\* An operation answers with its first recording or, not deduplicated, with the last
ToSOAPConfig(rs, dedup) ==
  [k \in GrKeys(rs) |-> <<IF dedup THEN GrGroup(rs, k)[1] ELSE Last(GrGroup(rs, k))>>]

GrConvert(rs, config) ==
  /\ grAt = "up" /\ rs # <<>> /\ grConfig' = [from |-> rs, topics |-> config]
  /\ UNCHANGED <<grKind, grOrder, grFiles, grAt, grHandler, grNow, grAlive>>

\* The handlers of the two managers
mqttStoreAdapterAdd == grKind = "mqtt" /\ GrAdd
soapStoreAdapterAdd == grKind = "soap" /\ GrAdd
RegisterBroker == grKind = "mqtt" /\ GrRegister
GrRegisterHandler == grKind = "soap" /\ GrRegister
UnregisterBroker == grKind = "mqtt" /\ GrUnregister
GrUnregisterHandler == grKind = "soap" /\ GrUnregister
\* A broker that is not running may refuse
handleStartMQTTRecording == grKind = "mqtt" /\ GrStart
handleStartSOAPRecording == grKind = "soap" /\ GrStart
handleStopMQTTRecording == grKind = "mqtt" /\ GrStop
handleStopSOAPRecording == grKind = "soap" /\ GrStop
handleDeleteMQTTRecording(r) == grKind = "mqtt" /\ GrDelete(r)
handleDeleteSOAPRecording(r) == grKind = "soap" /\ GrDelete(r)
handleClearMQTTRecordings == grKind = "mqtt" /\ GrClear
handleClearSOAPRecordings == grKind = "soap" /\ GrClear

handleConvertMQTTRecording(r) ==
  grKind = "mqtt" /\ r \in ToSet(grOrder) /\ GrConvert(<<r>>, ToMQTTConfig(<<r>>, TRUE))

handleConvertSOAPRecording(r) ==
  grKind = "soap" /\ r \in ToSet(grOrder) /\ GrConvert(<<r>>, ToSOAPConfig(<<r>>, TRUE))

handleConvertMQTTRecordings(key, dedup) ==
  grKind = "mqtt" /\ GrConvert(ListByTopic(key), ToMQTTConfig(ListByTopic(key), dedup))

handleConvertSOAPRecordings(key, dedup) ==
  grKind = "soap" /\ GrConvert(ListByOperation(key), ToSOAPConfig(ListByOperation(key), dedup))

GrManage ==
  \/ mqttStoreAdapterAdd \/ soapStoreAdapterAdd \/ handleClearMQTTRecordings \/ handleClearSOAPRecordings
  \/ RegisterBroker \/ GrRegisterHandler \/ UnregisterBroker \/ GrUnregisterHandler
  \/ handleStartMQTTRecording \/ handleStartSOAPRecording
  \/ handleStopMQTTRecording \/ handleStopSOAPRecording
  \/ \E r \in 1 .. GrTimes :
       \/ handleDeleteMQTTRecording(r) \/ handleDeleteSOAPRecording(r)
       \/ handleConvertMQTTRecording(r) \/ handleConvertSOAPRecording(r)
  \/ \E k \in {GrKey[r] : r \in 1 .. GrTimes} \cup {""}, d \in BOOLEAN :
       handleConvertMQTTRecordings(k, d) \/ handleConvertSOAPRecordings(k, d)

GrNext == GrManage \/ GrSave \/ GrCrash \/ loadFromDisk

GrSpec == GrInit /\ [][GrNext]_grVars

\* The store is full at most, and keeps the newest of the recordings that were neither
\* deleted nor lost in a crash, in the order they were made, across restarts.
GrNewestKept ==
  /\ Len(grOrder) <= GrMax
  /\ grAt # "down" => IsSuffix(grOrder, grAlive)
  /\ grAt = "up" => ToSet(grOrder) = grFiles

=============================================================================
