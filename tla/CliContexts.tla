----------------------------- MODULE CliContexts -----------------------------
(***************************************************************************)
(* The contexts file of the CLI (pkg/cliconfig/context.go) and the commands *)
(* that edit it (pkg/cli/context.go, workspace.go): which admin server, and *)
(* which workspace of it, the other commands speak to.  A command loads the *)
(* file, may ask the user or a server, changes what it loaded and writes    *)
(* the whole file; several terminals may do so at once.                     *)
(*                                                                          *)
(* A URL stands for its server.  os.WriteFile truncates the file and then   *)
(* writes it, so a command, or the end of one, may fall in between.         *)
(***************************************************************************)
EXTENDS Naturals, FiniteSets, Functions, TLC

CONSTANTS
  CxClients,     \* terminals
  CxNames,       \* names a context may be given, CxDefault among them
  CxURLs,        \* admin URLs, CxDefaultURL among them
  CxDefault,     \* DefaultContextName
  CxDefaultURL,  \* DefaultAdminURL
  CxWorkspaces,  \* workspace IDs
  CxEnv,         \* what MOCKD_ADMIN_URL may hold: "" or a URL
  CxConfigs,     \* what the adminUrl of a configuration file may hold: "" or a URL
  CxRounds       \* bound: commands run

VARIABLES
  cxFile,    \* the contexts file, or that it has no content
  cxLive,    \* workspaces of each server
  cxRun,     \* the command each terminal runs
  cxSet,     \* environment variable, global and local configuration file
  cxLeft     \* commands that may still be run

cxVars == <<cxFile, cxLive, cxRun, cxSet, cxLeft>>

CxIdle == [pc |-> "idle"]

-----------------------------------------------------------------------------
(* cliconfig *)

NewDefaultContextConfig ==
  [current |-> CxDefault, contexts |-> CxDefault :> [url |-> CxDefaultURL, ws |-> ""]]

CxEmpty == [current |-> "", contexts |-> << >>]

\* LoadContextConfig: a file without contexts has the default one
LoadContextConfig ==
  IF DOMAIN cxFile.contexts = {} THEN NewDefaultContextConfig ELSE cxFile

CxInit ==
  /\ cxFile = CxEmpty /\ cxLeft = CxRounds
  /\ cxLive = [u \in CxURLs |-> CxWorkspaces]
  /\ cxRun = [c \in CxClients |-> CxIdle]
  /\ cxSet \in [env : CxEnv, global : CxConfigs, local : CxConfigs]

CxHasCurrent(cfg) == cfg.current \in DOMAIN cfg.contexts
GetCurrentContext(cfg) == cfg.contexts[cfg.current]

SetCurrentContext(cfg, name) == [cfg EXCEPT !.current = name]
AddContext(cfg, name, ctx) == [cfg EXCEPT !.contexts = name :> ctx @@ @]
SetWorkspace(cfg, ws) == [cfg EXCEPT !.contexts[cfg.current].ws = ws]

\* Mutant: any context may be removed
CxRemovableAny(cfg, name) == name \in DOMAIN cfg.contexts

\* RemoveContext: the context must exist and not be the current one
CxRemovable(cfg, name) == name \in DOMAIN cfg.contexts /\ cfg.current # name

RemoveContext(cfg, name) ==
  [cfg EXCEPT !.contexts = Restrict(@, DOMAIN @ \ {name})]

\* MergeConfig over the built-in default, the global file and the local file
CxMerge(under, over) == IF over # "" THEN over ELSE under
LoadAll == CxMerge(CxMerge("", cxSet.global), cxSet.local)

\* The current context's URL, unless it is the built-in default
GetAdminURLFromContext ==
  LET cfg == LoadContextConfig IN
  IF CxHasCurrent(cfg) /\ GetCurrentContext(cfg).url # CxDefaultURL
    THEN GetCurrentContext(cfg).url ELSE ""

\* Mutant: the configuration files before the context
CxConfigFirst ==
  IF cxSet.env # "" THEN cxSet.env
  ELSE CxMerge(CxMerge(CxDefaultURL, GetAdminURLFromContext), LoadAll)

\* Environment, then context, then configuration files, then the default
GetAdminURL ==
  IF cxSet.env # "" THEN cxSet.env
  ELSE CxMerge(CxMerge(CxDefaultURL, LoadAll), GetAdminURLFromContext)

ResolveAdminURL(flag) == IF flag # "" THEN flag ELSE GetAdminURL

-----------------------------------------------------------------------------
(* Running a command *)

CxGo(c, run) == cxRun' = [cxRun EXCEPT ![c] = run]
CxSaving(c, cfg) == CxGo(c, [pc |-> "truncate", cfg |-> cfg])
CxStop(c) == CxGo(c, CxIdle)
CxStarts(c) == cxRun[c].pc = "idle" /\ cxLeft > 0 /\ cxLeft' = cxLeft - 1

\* SaveContextConfig
CxTruncate(c) ==
  /\ cxRun[c].pc = "truncate"
  /\ cxFile' = CxEmpty
  /\ CxGo(c, [cxRun[c] EXCEPT !.pc = "write"])
  /\ UNCHANGED <<cxLive, cxSet, cxLeft>>

SaveContextConfig(c) ==
  /\ cxRun[c].pc = "write"
  /\ cxFile' = cxRun[c].cfg
  /\ CxStop(c)
  /\ UNCHANGED <<cxLive, cxSet, cxLeft>>

\* The terminal is closed, or a call fails: the command ends where it is
CxDies(c) ==
  /\ cxRun[c].pc # "idle"
  /\ CxStop(c)
  /\ UNCHANGED <<cxFile, cxLive, cxSet, cxLeft>>

contextUseCmd(c) ==
  LET cfg == LoadContextConfig IN
  /\ CxStarts(c)
  /\ \E name \in DOMAIN cfg.contexts : CxSaving(c, SetCurrentContext(cfg, name))
  /\ UNCHANGED <<cxFile, cxLive, cxSet>>

\* An existing name is refused; --use makes it the current one
contextAddCmd(c) ==
  LET cfg == LoadContextConfig IN
  /\ CxStarts(c)
  /\ \E name \in CxNames \ DOMAIN cfg.contexts, url \in CxURLs, use \in BOOLEAN :
       LET added == AddContext(cfg, name, [url |-> url, ws |-> ""]) IN
       CxSaving(c, IF use THEN SetCurrentContext(added, name) ELSE added)
  /\ UNCHANGED <<cxFile, cxLive, cxSet>>

\* The file is loaded, the user asked, and what was loaded is written back
contextRemoveCmd(c) ==
  /\ CxStarts(c)
  /\ \E name \in DOMAIN LoadContextConfig.contexts :
       CxGo(c, [pc |-> "confirm", cfg |-> LoadContextConfig, name |-> name])
  /\ UNCHANGED <<cxFile, cxLive, cxSet>>

CxConfirmed(c) ==
  LET run == cxRun[c] IN
  /\ run.pc = "confirm"
  /\ IF CxRemovable(run.cfg, run.name)
       THEN CxSaving(c, RemoveContext(run.cfg, run.name)) ELSE CxStop(c)
  /\ UNCHANGED <<cxFile, cxLive, cxSet, cxLeft>>

\* workspace use: the file is loaded, then a server is asked for the workspace
workspaceUseCmd(c) ==
  LET cfg == LoadContextConfig IN
  /\ CxStarts(c) /\ CxHasCurrent(cfg)
  /\ \E ws \in CxWorkspaces, flag \in {""} \cup CxURLs :
       CxGo(c, [pc |-> "verify", cfg |-> cfg, ws |-> ws, url |-> ResolveAdminURL(flag)])
  /\ UNCHANGED <<cxFile, cxLive, cxSet>>

CxVerified(c) ==
  LET run == cxRun[c] IN
  /\ run.pc = "verify"
  /\ IF run.ws \in cxLive[run.url] THEN CxSaving(c, SetWorkspace(run.cfg, run.ws)) ELSE CxStop(c)
  /\ UNCHANGED <<cxFile, cxLive, cxSet, cxLeft>>

\* workspace delete: the server first; then the current context alone, if it
\* has the workspace selected
workspaceDeleteCmd(c) ==
  /\ CxStarts(c)
  /\ \E ws \in CxWorkspaces, flag \in {""} \cup CxURLs :
       /\ ws \in cxLive[ResolveAdminURL(flag)]
       /\ cxLive' = [cxLive EXCEPT ![ResolveAdminURL(flag)] = @ \ {ws}]
       /\ CxGo(c, [pc |-> "deselect", ws |-> ws])
  /\ UNCHANGED <<cxFile, cxSet>>

CxDeselect(c) ==
  LET cfg == LoadContextConfig IN
  /\ cxRun[c].pc = "deselect"
  /\ IF CxHasCurrent(cfg) /\ GetCurrentContext(cfg).ws = cxRun[c].ws
       THEN CxSaving(c, SetWorkspace(cfg, "")) ELSE CxStop(c)
  /\ UNCHANGED <<cxFile, cxLive, cxSet, cxLeft>>

\* workspace create --use: the ID comes from the server that was asked
workspaceCreateCmd(c) ==
  /\ CxStarts(c)
  /\ \E ws \in CxWorkspaces, flag \in {""} \cup CxURLs :
       /\ ws \notin cxLive[ResolveAdminURL(flag)]
       /\ cxLive' = [cxLive EXCEPT ![ResolveAdminURL(flag)] = @ \cup {ws}]
       /\ CxGo(c, [pc |-> "select", ws |-> ws])
  /\ UNCHANGED <<cxFile, cxSet>>

CxSelect(c) ==
  /\ cxRun[c].pc = "select"
  /\ IF CxHasCurrent(LoadContextConfig)
       THEN CxSaving(c, SetWorkspace(LoadContextConfig, cxRun[c].ws)) ELSE CxStop(c)
  /\ UNCHANGED <<cxFile, cxLive, cxSet, cxLeft>>

workspaceClearCmd(c) ==
  LET cfg == LoadContextConfig IN
  /\ CxStarts(c)
  /\ CxHasCurrent(cfg) /\ GetCurrentContext(cfg).ws # ""
  /\ CxSaving(c, SetWorkspace(cfg, ""))
  /\ UNCHANGED <<cxFile, cxLive, cxSet>>

CxNext == \E c \in CxClients :
  \/ CxTruncate(c) \/ SaveContextConfig(c) \/ CxDies(c) \/ contextUseCmd(c)
  \/ contextAddCmd(c) \/ contextRemoveCmd(c) \/ CxConfirmed(c)
  \/ workspaceUseCmd(c) \/ CxVerified(c) \/ workspaceDeleteCmd(c) \/ CxDeselect(c)
  \/ workspaceCreateCmd(c) \/ CxSelect(c) \/ workspaceClearCmd(c)

-----------------------------------------------------------------------------
(* Properties *)

CxConfig(cfg) ==
  /\ DOMAIN cfg.contexts \subseteq CxNames
  /\ \A n \in DOMAIN cfg.contexts :
       cfg.contexts[n].url \in CxURLs /\ cfg.contexts[n].ws \in CxWorkspaces \cup {""}

CxTypeOK ==
  /\ CxConfig(cxFile)
  /\ cxLive \in [CxURLs -> SUBSET CxWorkspaces]
  /\ cxLeft \in 0 .. CxRounds

\* Whatever commands overlap or die, a command that loads the file finds a current
\* context that exists, so it has a server to speak to; and that server is the one
\* of the context, unless the environment says otherwise or the context is the
\* built-in one.
CxAlwaysSomewhere ==
  LET cfg == LoadContextConfig IN
  /\ CxHasCurrent(cfg)
  /\ cxSet.env = "" /\ GetCurrentContext(cfg).url # CxDefaultURL =>
       ResolveAdminURL("") = GetCurrentContext(cfg).url

=============================================================================
