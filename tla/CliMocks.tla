------------------------------- MODULE CliMocks -------------------------------
(***************************************************************************)
(* The commands of the CLI that edit the mocks of a running server (pkg/cli *)
(* add.go, delete.go, update.go, bridge.go, through client.go): several     *)
(* terminals run them at the same time.  A command is a sequence of calls   *)
(* of the admin API, and what it read in one call it uses in the next.      *)
(*                                                                          *)
(* An ID is a sequence, since a command may name it by a prefix.  What a    *)
(* mock serves is a set: the operations of a SOAP mock; for an HTTP mock    *)
(* the one thing it answers with.  The admin API is external here; what it  *)
(* does inside is the subject of MockFleet.                                 *)
(***************************************************************************)
EXTENDS Naturals, FiniteSets, SequencesExt

CONSTANTS
  CmClients,   \* terminals
  CmRoutes,    \* what --method and --path (or --path-pattern) may name
  CmFlags,     \* sets of the other flags given to add
  CmOps,       \* SOAP operation names
  CmIDs,       \* IDs the server may generate (random: none of CmFile)
  CmPrefixes,  \* what delete may be given
  CmFile,      \* an import file: mocks by ID
  CmRounds     \* bound: commands run

VARIABLES
  cmMocks,     \* the server's mocks by ID
  cmUsed,      \* IDs handed out
  cmCli,       \* the command each terminal runs
  cmLeft       \* commands that may still be run

cmVars == <<cmMocks, cmUsed, cmCli, cmLeft>>

CmIdle == [pc |-> "idle", cmd |-> [op |-> "none"], ids |-> {}, got |-> {}]

CmInit ==
  /\ cmMocks = << >> /\ cmUsed = {} /\ cmLeft = CmRounds
  /\ cmCli = [c \in CmClients |-> CmIdle]

-----------------------------------------------------------------------------
(* What the flags of add say *)

\* The flags buildHTTPMock refuses
CmHTTPFlagsOK(r, f) ==
  /\ r.path # "" \/ r.pattern # ""
  /\ "table" \in f <=> "bind" \in f
  /\ "bind" \in f => f \cap {"body", "sse", "operation"} = {}
  /\ "operation" \in f => f \cap {"body", "sse"} = {}

\* The one answer an HTTP mock gets: --sse wins over --body
CmHTTPServes(f) ==
  CASE "table" \in f -> {"binding"}
    [] "operation" \in f -> {"operation"}
    [] "sse" \in f -> {"sse"}
    [] OTHER -> {"response"}

CmHTTP(r, serves) == [type |-> "http", route |-> r, serves |-> serves]

buildHTTPMock(r, f) == CmHTTP(r, CmHTTPServes(f))

buildSOAPMock(path, o) ==
  [type |-> "soap", route |-> [method |-> "", path |-> path, pattern |-> ""], serves |-> {o}]


\* findExistingHTTPMock and findExistingSOAPMock: the method and the path are
\* compared, the pattern is not
CmSameRoute(m, type, r) ==
  m.type = type /\ m.route.method = r.method /\ m.route.path = r.path

-----------------------------------------------------------------------------
(* The admin API: external *)

CmPut(id, m) == [x \in DOMAIN cmMocks \cup {id} |-> IF x = id THEN m ELSE cmMocks[x]]
CmDrop(ids) == [x \in DOMAIN cmMocks \ ids |-> cmMocks[x]]
CmFresh == CmIDs \ cmUsed

\* A call of PUT, PATCH or DELETE is refused when the mock is not there
CmUpdateMock(id, m) == cmMocks' = IF id \in DOMAIN cmMocks THEN CmPut(id, m) ELSE cmMocks
CmDeleteMock(id) == cmMocks' = CmDrop({id})
CmCreateMock(m) ==
  \E id \in CmFresh : cmMocks' = CmPut(id, m) /\ cmUsed' = cmUsed \cup {id}

\* ImportConfig replaces the mocks with the same IDs, or all of them
CmImport(file, replace) ==
  cmMocks' = file @@ IF replace THEN << >> ELSE cmMocks

-----------------------------------------------------------------------------
(* The commands *)

CmSet(c, cli) == cmCli' = [cmCli EXCEPT ![c] = cli]
CmAt(c, pc, ops) == cmCli[c].pc = pc /\ cmCli[c].cmd.op \in ops
CmEnd(c) == CmSet(c, CmIdle) /\ UNCHANGED cmLeft

CmCommands ==
       UNION {{[op |-> "add", mock |-> buildHTTPMock(r, f)] :
                 f \in {g \in CmFlags : CmHTTPFlagsOK(r, g)}} : r \in CmRoutes}
  \cup {[op |-> "addDuplicate", mock |-> buildHTTPMock(r, {})] : r \in CmRoutes}
  \cup {[op |-> "soap", mock |-> buildSOAPMock(r.path, o)] : r \in CmRoutes, o \in CmOps}
  \cup {[op |-> "update", id |-> id, serves |-> s] :
          id \in CmPrefixes, s \in {{"response"}, {"binding"}}}
  \cup {[op |-> "deleteID", id |-> id] : id \in CmPrefixes}
  \cup {[op |-> "deletePath", path |-> r.path, method |-> m] :
          r \in {q \in CmRoutes : q.path # ""}, m \in {""} \cup {q.method : q \in CmRoutes}}
  \cup {[op |-> "import", replace |-> b] : b \in BOOLEAN}

CmStart(c) ==
  /\ cmCli[c].pc = "idle" /\ cmLeft > 0 /\ cmLeft' = cmLeft - 1
  /\ \E cmd \in CmCommands : CmSet(c, [CmIdle EXCEPT !.pc = "run", !.cmd = cmd])
  /\ UNCHANGED <<cmMocks, cmUsed>>

\* add: list the mocks and look for the first with the route
CmFind(c) ==
  LET cli == cmCli[c]
      same == {id \in DOMAIN cmMocks :
                 CmSameRoute(cmMocks[id], cli.cmd.mock.type, cli.cmd.mock.route)} IN
  /\ CmAt(c, "run", {"add", "soap"})
  /\ IF same = {} THEN CmSet(c, [cli EXCEPT !.pc = "create"])
     ELSE \E id \in same : CmSet(c, [cli EXCEPT !.pc = "found", !.ids = {id}])
  /\ UNCHANGED <<cmMocks, cmUsed, cmLeft>>

CmAddCreates(c) ==
  /\ CmAt(c, "create", {"add", "soap"}) \/ CmAt(c, "run", {"addDuplicate"})
  /\ CmCreateMock(cmCli[c].cmd.mock)
  /\ CmEnd(c)

\* add: overwrite the mock that was found
CmAddUpdates(c) ==
  /\ CmAt(c, "found", {"add"})
  /\ \E id \in cmCli[c].ids : CmUpdateMock(id, cmCli[c].cmd.mock)
  /\ CmEnd(c) /\ UNCHANGED cmUsed

\* mergeSOAPIfExists: get the mock that was found, put it back with the operation
CmSoapGet(c) ==
  LET cli == cmCli[c] IN
  /\ CmAt(c, "found", {"soap"})
  /\ \E id \in cli.ids :
       IF id \in DOMAIN cmMocks
         THEN CmSet(c, [cli EXCEPT !.pc = "got", !.got = cmMocks[id].serves]) /\ UNCHANGED cmLeft
         ELSE CmEnd(c)
  /\ UNCHANGED <<cmMocks, cmUsed>>

\* Mutant: the operation replaces those that are there
CmSoapOverwrites(c) ==
  LET cli == cmCli[c] IN
  /\ CmAt(c, "got", {"soap"})
  /\ \E id \in cli.ids : CmUpdateMock(id, cli.cmd.mock)
  /\ CmEnd(c) /\ UNCHANGED cmUsed

CmSoapMerge(c) ==
  LET cli == cmCli[c] IN
  /\ CmAt(c, "got", {"soap"})
  /\ \E id \in cli.ids :
       CmUpdateMock(id, [cli.cmd.mock EXCEPT !.serves = @ \cup cli.got])
  /\ CmEnd(c) /\ UNCHANGED cmUsed

\* update: a patch of what the mock serves; --table takes the response away, a
\* response is merged into what is there
CmUpdate(c) ==
  LET cmd == cmCli[c].cmd IN
  /\ CmAt(c, "run", {"update"})
  /\ cmMocks' = IF cmd.id \in DOMAIN cmMocks /\ cmMocks[cmd.id].type = "http"
                  THEN [cmMocks EXCEPT ![cmd.id].serves =
                          IF "binding" \in cmd.serves THEN cmd.serves ELSE @ \cup cmd.serves]
                  ELSE cmMocks
  /\ CmEnd(c) /\ UNCHANGED cmUsed

\* delete <id>: the ID as given; when it is not found, as a prefix
CmDeleteByID(c) ==
  LET cli == cmCli[c] IN
  /\ CmAt(c, "run", {"deleteID"})
  /\ CmDeleteMock(cli.cmd.id)
  /\ IF cli.cmd.id \in DOMAIN cmMocks THEN CmEnd(c)
     ELSE CmSet(c, [cli EXCEPT !.pc = "prefix"]) /\ UNCHANGED cmLeft
  /\ UNCHANGED cmUsed

\* Mutant: the first match is taken
CmPrefixFirst(c) ==
  LET cli == cmCli[c]
      matches == {id \in DOMAIN cmMocks : IsPrefix(cli.cmd.id, id)} IN
  /\ CmAt(c, "prefix", {"deleteID"})
  /\ IF matches # {} THEN CmSet(c, [cli EXCEPT !.pc = "delete", !.ids = {CHOOSE id \in matches : TRUE},
                                              !.got = matches]) /\ UNCHANGED cmLeft
     ELSE CmEnd(c)
  /\ UNCHANGED <<cmMocks, cmUsed>>

\* deleteByPrefix lists the mocks; an ambiguous prefix is refused
CmPrefix(c) ==
  LET cli == cmCli[c]
      matches == {id \in DOMAIN cmMocks : IsPrefix(cli.cmd.id, id)} IN
  /\ CmAt(c, "prefix", {"deleteID"})
  /\ IF Cardinality(matches) = 1
       THEN CmSet(c, [cli EXCEPT !.pc = "delete", !.ids = matches, !.got = matches])
            /\ UNCHANGED cmLeft
       ELSE CmEnd(c)
  /\ UNCHANGED <<cmMocks, cmUsed>>

\* deleteByPath lists the mocks; with several the user is asked
CmByPath(c) ==
  LET cli == cmCli[c]
      matches == {id \in DOMAIN cmMocks :
                    /\ cmMocks[id].route.path = cli.cmd.path
                    /\ cli.cmd.method \in {"", cmMocks[id].route.method}} IN
  /\ CmAt(c, "run", {"deletePath"})
  /\ IF matches = {} THEN CmEnd(c)
     ELSE \/ CmSet(c, [cli EXCEPT !.pc = "delete", !.ids = matches, !.got = matches])
             /\ UNCHANGED cmLeft
          \/ Cardinality(matches) > 1 /\ CmEnd(c)
  /\ UNCHANGED <<cmMocks, cmUsed>>

\* One call for each mock that matched; a failure does not stop the loop
CmDeleteOne(c) ==
  LET cli == cmCli[c] IN
  /\ CmAt(c, "delete", {"deleteID", "deletePath"})
  /\ \E id \in cli.ids :
       /\ CmDeleteMock(id)
       /\ CmSet(c, IF cli.ids = {id} THEN CmIdle ELSE [cli EXCEPT !.ids = @ \ {id}])
  /\ UNCHANGED <<cmUsed, cmLeft>>

\* import and add --stateful: one call, whatever the file holds
CmImportFile(c) ==
  /\ CmAt(c, "run", {"import"})
  /\ CmImport(CmFile, cmCli[c].cmd.replace)
  /\ cmUsed' = cmUsed \cup DOMAIN CmFile
  /\ CmEnd(c)

\* A call fails: the command reports it and ends with what it has done so far;
\* only the loop of deleteByPath goes on
CmFails(c) ==
  LET cli == cmCli[c] IN
  /\ cli.pc # "idle"
  /\ CmSet(c, IF cli.pc = "delete" /\ cli.cmd.op = "deletePath" /\ Cardinality(cli.ids) > 1
                THEN [cli EXCEPT !.ids = @ \ {CHOOSE id \in @ : TRUE}] ELSE CmIdle)
  /\ UNCHANGED <<cmMocks, cmUsed, cmLeft>>

CmNext == \E c \in CmClients :
  \/ CmStart(c) \/ CmFind(c) \/ CmAddCreates(c) \/ CmAddUpdates(c) \/ CmSoapGet(c)
  \/ CmSoapMerge(c) \/ CmUpdate(c) \/ CmDeleteByID(c) \/ CmPrefix(c) \/ CmByPath(c)
  \/ CmDeleteOne(c) \/ CmImportFile(c) \/ CmFails(c)

-----------------------------------------------------------------------------
(* Properties *)

CmMock(m) == m.type \in {"http", "soap"} /\ m.serves # {}

CmTypeOK ==
  /\ \A id \in DOMAIN cmMocks : CmMock(cmMocks[id]) /\ id \in cmUsed
  /\ cmLeft \in 0 .. CmRounds
  /\ \A c \in CmClients : cmCli[c].pc = "delete" => cmCli[c].ids # {} /\ cmCli[c].ids \subseteq cmCli[c].got

\* Is the mock with this ID one the command was told to change?
CmNames(cmd, id, m) ==
  CASE cmd.op \in {"add", "soap"} -> m.type = cmd.mock.type /\ m.route = cmd.mock.route
    [] cmd.op = "update" -> id = cmd.id
    [] cmd.op = "deleteID" -> IsPrefix(cmd.id, id)
    [] cmd.op = "deletePath" -> m.route.path = cmd.path /\ cmd.method \in {"", m.route.method}
    [] cmd.op = "import" -> cmd.replace \/ id \in DOMAIN CmFile
    [] OTHER -> FALSE

\* A command changes or removes only the mocks it names: those of the route given
\* to add ("if a mock already exists with the same method and path (or equivalent
\* identifiers), it is updated in place"), of the path given to delete, of the ID;
\* and the prefix of an ID only if it named a single mock when delete looked.
CmOnlyNamed ==
  \A id \in DOMAIN cmMocks :
    id \notin DOMAIN cmMocks' \/ cmMocks'[id] # cmMocks[id] =>
      \E c \in CmClients :
        /\ cmCli'[c] # cmCli[c]
        /\ CmNames(cmCli[c].cmd, id, cmMocks[id])
        /\ cmCli[c].cmd.op = "deleteID" /\ cmCli[c].pc = "delete" =>
             Cardinality(cmCli[c].got) = 1

\* Adding a SOAP operation to a service keeps what the command saw there.
CmMergeKeeps ==
  \A c \in CmClients : \A id \in DOMAIN cmMocks \cap DOMAIN cmMocks' :
    cmCli[c].pc = "got" /\ cmCli'[c] # cmCli[c] /\ cmMocks'[id] # cmMocks[id] =>
      cmCli[c].got \subseteq cmMocks'[id].serves

=============================================================================
