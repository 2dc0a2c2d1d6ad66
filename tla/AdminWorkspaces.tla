--------------------------- MODULE AdminWorkspaces ---------------------------
(***************************************************************************)
(* The admin API's workspaces and folders.                                 *)
(*                                                                         *)
(* Workspaces (pkg/admin/workspace_handlers.go, workspace_routing.go): a   *)
(* workspace reserves a base path, and the engine sees its mocks below it. *)
(* A handler reads the stores, checks for overlaps and collisions, and     *)
(* writes afterwards, with no lock held in between; the workspace store    *)
(* hands out its live objects, so a refused update may leave a trace.      *)
(*                                                                         *)
(* Folders (pkg/admin/folders.go): the same pattern for a forest of        *)
(* folders, every tree within one workspace.                               *)
(*                                                                         *)
(* A path is the sequence of its segments: "" is <<>> and "/" is <<"">>.   *)
(* All mocks are HTTP mocks of one method.  Requests that are refused      *)
(* without having changed anything are left out.                           *)
(***************************************************************************)
EXTENDS Naturals, SequencesExt

CONSTANTS
  WkIDs,      \* IDs that workspaces get, each at most once
  WkNames,    \* names: [slug, spelling], two spellings may have one slug
  WkBases,    \* base paths as given by a client, "" and "/" included
  WkMockIDs,  \* IDs of mocks
  WkPaths,    \* paths of mocks
  WkReqs,     \* concurrent requests
  WkRounds    \* bound: requests served

VARIABLES
  wkStore,    \* workspace ID -> the workspace
  wkMocks,    \* mock ID -> the mock in the admin store
  wkReq,      \* request -> what it checked and is about to write
  wkLeft,     \* requests still to come
  wkOrderly,  \* auxiliary: nothing was written after a check that others' writes made stale
  wkRebased   \* auxiliary: some workspace's base path was changed

wkVars == <<wkStore, wkMocks, wkReq, wkLeft, wkOrderly, wkRebased>>

WkRoot == "default"                 \* the engine's root workspace, always there
WkAbsent == [name |-> <<>>, base |-> <<>>, live |-> FALSE]
WkNoMock == [ws |-> WkRoot, path |-> <<>>]    \* no mock: every mock has a path
WkIdle == [pc |-> "idle", fresh |-> TRUE]

WkInit ==
  /\ wkStore = [w \in WkIDs |-> WkAbsent]
  /\ wkMocks = [m \in WkMockIDs |-> WkNoMock]
  /\ wkReq = [r \in WkReqs |-> WkIdle]
  /\ wkLeft = WkRounds
  /\ wkOrderly = TRUE /\ wkRebased = FALSE

WkLive == {w \in WkIDs : wkStore[w].live}
WkIsMock(m) == wkMocks[m].path # <<>>

-----------------------------------------------------------------------------
(* Paths *)

\* A name without a letter or a digit slugs to "", and "/" is its base path
SlugifyWorkspaceName(name) == name.slug

\* "/" loses its trailing slash
validateBasePath(b) == IF b = <<"">> THEN <<>> ELSE b

\* Mutant: only identical base paths conflict
overlapIfEqual(a, b) == a # <<>> /\ b # <<>> /\ a = b

basePathsOverlap(a, b) == a # <<>> /\ b # <<>> /\ (IsPrefix(a, b) \/ IsPrefix(b, a))

checkBasePathConflict(b, self) ==
  \E w \in WkLive \ {self} : basePathsOverlap(b, wkStore[w].base)

\* The path the engine sees, for a workspace that exists
effectiveMockPath(ws, path) ==
  IF ws = WkRoot \/ wkStore[ws].base \in {<<>>, <<"">>} THEN path ELSE wkStore[ws].base \o path

\* Mutant: the paths are compared as they stand in the admin store
collideUnprefixed(ws, path) ==
  \E m \in WkMockIDs : WkIsMock(m) /\ wkMocks[m].ws # ws /\ wkMocks[m].path = path

checkRouteCollision(ws, path) ==
  \E m \in WkMockIDs : /\ WkIsMock(m) /\ wkMocks[m].ws # ws
                       /\ effectiveMockPath(wkMocks[m].ws, wkMocks[m].path) = effectiveMockPath(ws, path)

\* Mocks whose workspace the collision check looks up in vain, and dereferences
WkDangling(ws) ==
  {m \in WkMockIDs : WkIsMock(m) /\ wkMocks[m].ws \notin WkLive \cup {WkRoot, ws}}

-----------------------------------------------------------------------------
(* A handler: it checks, and later it writes *)

WkChecked(r, job) ==
  /\ wkReq[r].pc = "idle" /\ wkLeft > 0
  /\ wkReq' = [wkReq EXCEPT ![r] = job]
  /\ wkLeft' = wkLeft - 1

\* The write makes the checks of the other requests stale
WkWritten(r) ==
  /\ wkReq' = [q \in WkReqs |-> IF q = r \/ wkReq[q].pc = "idle" THEN WkIdle
                               ELSE [wkReq[q] EXCEPT !.fresh = FALSE]]
  /\ wkOrderly' = (wkOrderly /\ wkReq[r].fresh)
  /\ UNCHANGED wkLeft

CreateWorkspaceCheck(r) ==
  \E w \in WkIDs, name \in WkNames, given \in WkBases \cup {<<"absent">>} :
    LET base == IF given = <<"absent">> THEN <<SlugifyWorkspaceName(name)>>
                ELSE validateBasePath(given) IN
    /\ ~wkStore[w].live /\ wkStore[w].name = <<>>        \* IDs are fresh
    /\ \A q \in WkReqs : wkReq[q].pc = "create" => wkReq[q].ws # w
    /\ \A v \in WkLive : wkStore[v].name # name
    /\ ~checkBasePathConflict(base, w)
    /\ WkChecked(r, [pc |-> "create", fresh |-> TRUE, ws |-> w, name |-> name, base |-> base])
    /\ UNCHANGED <<wkStore, wkMocks, wkOrderly, wkRebased>>

CreateWorkspaceWrite(r) ==
  /\ wkReq[r].pc = "create"
  /\ wkStore' = [wkStore EXCEPT ![wkReq[r].ws] =
                   [name |-> wkReq[r].name, base |-> wkReq[r].base, live |-> TRUE]]
  /\ WkWritten(r)
  /\ UNCHANGED <<wkMocks, wkRebased>>

\* The name is set on the store's own object, before the base path is validated and
\* checked; a refusal leaves it there.  The other fields go with the name.
UpdateWorkspaceCheck(r) ==
  \E w \in WkLive, name \in WkNames, given \in WkBases :
    LET base == validateBasePath(given)
        refused == base = <<>> \/ checkBasePathConflict(base, w) IN
    /\ wkStore' = [wkStore EXCEPT ![w].name = name]
    /\ WkChecked(r, IF refused THEN WkIdle
                    ELSE [pc |-> "update", fresh |-> TRUE, ws |-> w, base |-> base])
    /\ UNCHANGED <<wkMocks, wkOrderly, wkRebased>>

\* The object may have been deleted meanwhile, and the update finds nothing
UpdateWorkspaceWrite(r) ==
  /\ wkReq[r].pc = "update"
  /\ LET w == wkReq[r].ws IN
     /\ wkStore' = IF wkStore[w].live THEN [wkStore EXCEPT ![w].base = wkReq[r].base] ELSE wkStore
     /\ wkRebased' = (wkRebased \/ (wkStore[w].live /\ wkStore[w].base # wkReq[r].base))
  /\ WkWritten(r)
  /\ UNCHANGED wkMocks

\* The mocks of the workspace go first, from the admin store only
DeleteWorkspaceMocks(r) ==
  \E w \in WkLive :
    /\ wkMocks' = [m \in WkMockIDs |-> IF wkMocks[m].ws = w THEN WkNoMock ELSE wkMocks[m]]
    /\ WkChecked(r, [pc |-> "delete", fresh |-> TRUE, ws |-> w])
    /\ UNCHANGED <<wkStore, wkOrderly, wkRebased>>

DeleteWorkspaceWrite(r) ==
  /\ wkReq[r].pc = "delete"
  /\ wkStore' = [wkStore EXCEPT ![wkReq[r].ws].live = FALSE, ![wkReq[r].ws].base = <<>>]
  /\ WkWritten(r)
  /\ UNCHANGED <<wkMocks, wkRebased>>

\* A mock may name a workspace that is gone, and then it is not checked at all
CreateMockCheck(r) ==
  \E m \in WkMockIDs, ws \in {w \in WkIDs : wkStore[w].name # <<>>} \cup {WkRoot}, path \in WkPaths :
    LET known == ws \in WkLive \cup {WkRoot} IN
    /\ ~WkIsMock(m)
    /\ known => WkDangling(ws) = {} /\ ~checkRouteCollision(ws, path)
    /\ WkChecked(r, [pc |-> "mock", fresh |-> TRUE, id |-> m, ws |-> ws, path |-> path])
    /\ UNCHANGED <<wkStore, wkMocks, wkOrderly, wkRebased>>

\* The request dies in the check, which dereferences the missing workspace
CreateMockPanics(r) ==
  /\ \E ws \in WkLive \cup {WkRoot} : WkDangling(ws) # {}
  /\ WkChecked(r, WkIdle)
  /\ UNCHANGED <<wkStore, wkMocks, wkOrderly, wkRebased>>

CreateMockWrite(r) ==
  /\ wkReq[r].pc = "mock"
  /\ wkMocks' = IF WkIsMock(wkReq[r].id) THEN wkMocks
                ELSE [wkMocks EXCEPT ![wkReq[r].id] = [ws |-> wkReq[r].ws, path |-> wkReq[r].path]]
  /\ WkWritten(r)
  /\ UNCHANGED <<wkStore, wkRebased>>

WkNext == \E r \in WkReqs :
  \/ CreateWorkspaceCheck(r) \/ CreateWorkspaceWrite(r)
  \/ UpdateWorkspaceCheck(r) \/ UpdateWorkspaceWrite(r)
  \/ DeleteWorkspaceMocks(r) \/ DeleteWorkspaceWrite(r)
  \/ CreateMockCheck(r) \/ CreateMockPanics(r) \/ CreateMockWrite(r)

-----------------------------------------------------------------------------
(* Properties of workspaces *)

WkTypeOK ==
  /\ \A w \in WkIDs : wkStore[w].live => wkStore[w].name \in WkNames
  /\ \A m \in WkMockIDs : WkIsMock(m) => wkMocks[m].path \in WkPaths
  /\ wkLeft \in 0 .. WkRounds

\* The conflict checks of the handlers suffice when no check is made stale by another
\* request: live workspaces' base paths do not overlap, and, unless a workspace was
\* given another base path, no two mocks of different workspaces answer on one path.
WkSeparate ==
  wkOrderly =>
    /\ \A v, w \in WkLive : v # w /\ wkStore[v].base # <<>> => ~IsPrefix(wkStore[v].base, wkStore[w].base)
    /\ wkRebased \/ \A m, n \in {k \in WkMockIDs : WkIsMock(k) /\ wkMocks[k].ws \in WkLive \cup {WkRoot}} :
         wkMocks[m].ws # wkMocks[n].ws =>
           effectiveMockPath(wkMocks[m].ws, wkMocks[m].path) # effectiveMockPath(wkMocks[n].ws, wkMocks[n].path)

-----------------------------------------------------------------------------
(* Folders *)

CONSTANTS FdIDs, FdWorkspaces, FdReqs, FdRounds

VARIABLES
  fdFolder,   \* folder ID -> [ws, parent, live]; parent "" is none
  fdReq,      \* request -> what it is about to write
  fdLeft,     \* requests still to come
  fdOrderly   \* auxiliary, as wkOrderly

fdVars == <<fdFolder, fdReq, fdLeft, fdOrderly>>

FdIdle == [pc |-> "idle", fresh |-> TRUE]

FdInit ==
  /\ fdFolder = [f \in FdIDs |-> [ws |-> "", parent |-> "", live |-> FALSE]]
  /\ fdReq = [r \in FdReqs |-> FdIdle]
  /\ fdLeft = FdRounds
  /\ fdOrderly = TRUE

FdLive == {f \in FdIDs : fdFolder[f].live}

FdChecked(r, job) ==
  /\ fdReq[r].pc = "idle" /\ fdLeft > 0
  /\ fdReq' = [fdReq EXCEPT ![r] = job]
  /\ fdLeft' = fdLeft - 1

FdWritten(r) ==
  /\ fdReq' = [q \in FdReqs |-> IF q = r \/ fdReq[q].pc = "idle" THEN FdIdle
                               ELSE [fdReq[q] EXCEPT !.fresh = FALSE]]
  /\ fdOrderly' = (fdOrderly /\ fdReq[r].fresh)
  /\ UNCHANGED fdLeft

CreateFolderCheck(r) ==
  \E f \in FdIDs, ws \in FdWorkspaces, parent \in FdLive \cup {""} :
    /\ fdFolder[f].ws = "" /\ \A q \in FdReqs : fdReq[q].pc = "create" => fdReq[q].id # f
    /\ parent # "" => fdFolder[parent].ws = ws
    /\ FdChecked(r, [pc |-> "create", fresh |-> TRUE, id |-> f, ws |-> ws, parent |-> parent])
    /\ UNCHANGED <<fdFolder, fdOrderly>>

CreateFolderWrite(r) ==
  /\ fdReq[r].pc = "create"
  /\ fdFolder' = [fdFolder EXCEPT ![fdReq[r].id] =
                    [ws |-> fdReq[r].ws, parent |-> fdReq[r].parent, live |-> TRUE]]
  /\ FdWritten(r)

\* The folder n steps above each one: "" above a root and above a deleted folder
FdAbove[n \in 0 .. Cardinality(FdIDs)] ==
  [f \in FdIDs |-> IF n = 0 THEN f
                   ELSE LET p == FdAbove[n - 1][f] IN IF p \in FdLive THEN fdFolder[p].parent ELSE ""]

\* Mutant: only the direct parent is looked at
descendantDirect(target, ancestor) == target = ancestor \/ FdAbove[1][target] = ancestor

isDescendant(target, ancestor) == \E n \in DOMAIN FdAbove : FdAbove[n][target] = ancestor

UpdateFolderCheck(r) ==
  \E f \in FdLive, parent \in FdLive \cup {""} :
    /\ parent # "" => /\ ~isDescendant(parent, f)
                      /\ fdFolder[parent].ws = fdFolder[f].ws
    /\ FdChecked(r, [pc |-> "update", fresh |-> TRUE, id |-> f, parent |-> parent])
    /\ UNCHANGED <<fdFolder, fdOrderly>>

UpdateFolderWrite(r) ==
  /\ fdReq[r].pc = "update"
  /\ fdFolder' = [fdFolder EXCEPT ![fdReq[r].id].parent =
                    IF fdFolder[fdReq[r].id].live THEN fdReq[r].parent ELSE @]
  /\ FdWritten(r)

\* Children become roots, then the folder is deleted
DeleteFolderReparent(r) ==
  \E f \in FdLive :
    /\ fdFolder' = [g \in FdIDs |-> IF fdFolder[g].parent = f
                                      THEN [fdFolder[g] EXCEPT !.parent = ""] ELSE fdFolder[g]]
    /\ FdChecked(r, [pc |-> "delete", fresh |-> TRUE, id |-> f])
    /\ UNCHANGED fdOrderly

DeleteFolderWrite(r) ==
  /\ fdReq[r].pc = "delete"
  /\ fdFolder' = [fdFolder EXCEPT ![fdReq[r].id].live = FALSE, ![fdReq[r].id].parent = ""]
  /\ FdWritten(r)

FdNext == \E r \in FdReqs :
  \/ CreateFolderCheck(r) \/ CreateFolderWrite(r)
  \/ UpdateFolderCheck(r) \/ UpdateFolderWrite(r)
  \/ DeleteFolderReparent(r) \/ DeleteFolderWrite(r)

\* A folder is always in the workspace of its parent, whatever requests overlap; and
\* if none was made stale by another, the folders are a forest whose parents exist.
FdForest ==
  /\ \A f \in FdLive : fdFolder[f].parent \in FdLive =>
       fdFolder[fdFolder[f].parent].ws = fdFolder[f].ws
  /\ fdOrderly => \A f \in FdLive :
       /\ fdFolder[f].parent \in FdLive \cup {""}
       /\ \A n \in DOMAIN FdAbove \ {0} : FdAbove[n][f] # f

=============================================================================
