----------------------------- MODULE CliProcesses -----------------------------
(***************************************************************************)
(* The mockd processes of one machine and the PID file they share          *)
(* (pkg/cli): serve, start, up and engine bring a process up stage by      *)
(* stage, a failing stage takes it down again; stop and down find the      *)
(* process through the PID file; a detached start waits for the file.      *)
(*                                                                         *)
(* All servers use the default ports, so a part (the engine's or the       *)
(* admin's listener) runs in one process at a time.  A process ID is not   *)
(* used again.  Flags, configuration files and what is printed are not     *)
(* modelled: a stage that can fail may fail.                               *)
(***************************************************************************)
EXTENDS Naturals, Sequences

CONSTANTS
  CpProcs,   \* the process IDs, positive numbers
  CpCmds,    \* runs of stop, down or a detached start
  CpKinds    \* the server commands used, of serve, start, up and engine

VARIABLES
  cpProc,    \* process -> where it is, its running parts, whether it was told to end
  cpFile,    \* the process that the PID file names, CpNoFile if there is none
  cpCmd      \* command -> where it is and the process it is about

cpVars == <<cpProc, cpFile, cpCmd>>

CpNoFile == 0

CpIdle == [kind |-> "none", pc |-> "idle", parts |-> {}, cancelled |-> FALSE, deferred |-> FALSE,
           left |-> {}]

CpInit ==
  /\ cpProc = [p \in CpProcs |-> CpIdle]
  /\ cpFile = CpNoFile
  /\ cpCmd = [c \in CpCmds |-> [pc |-> "idle", kind |-> "none", target |-> CpNoFile]]

CpAt(p, kind, pc) == cpProc[p].kind = kind /\ cpProc[p].pc = pc

CpAlive(p) == p \in CpProcs /\ cpProc[p].pc \notin {"idle", "done"}

\* Another process listens where the part would
CpTaken(part) == \E q \in CpProcs : part \in cpProc[q].parts

CpGo(p, pc) == cpProc' = [cpProc EXCEPT ![p].pc = pc]

CpRun(p, part, pc) == cpProc' = [cpProc EXCEPT ![p].pc = pc, ![p].parts = @ \cup {part}]

CpHalt(p, part, pc) == cpProc' = [cpProc EXCEPT ![p].pc = pc, ![p].parts = @ \ {part}]

\* The command returns and the process ends, having stopped the given parts; what
\* still runs is cut off
CpExit(p, stopped) ==
  cpProc' = [cpProc EXCEPT ![p].pc = "done", ![p].parts = {}, ![p].left = @ \cup (cpProc[p].parts \ stopped)]

\* The process is killed: it stops nothing and cleans up nothing
CpDies(p) == cpProc' = [cpProc EXCEPT ![p].pc = "done", ![p].parts = {}]

CpBoth == {"engine", "admin"}

\* A part is started, unless that fails: its port was taken since it was checked, or it
\* never becomes healthy; then the given parts are stopped
CpStartPart(p, part, pc, stopped) ==
  \/ ~CpTaken(part) /\ CpRun(p, part, pc)
  \/ CpExit(p, stopped)

CpMayFail(p, pc, stopped) == CpGo(p, pc) \/ CpExit(p, stopped)

CpKeep == UNCHANGED <<cpFile, cpCmd>>

-----------------------------------------------------------------------------
(* The PID file *)

WritePIDFile(p) == cpFile' = p

\* Whatever the file says
RemovePIDFile == cpFile' = CpNoFile

-----------------------------------------------------------------------------
(* Start-up: launch, flags and port check *)

CpLaunch(p, kind) ==
  /\ cpProc[p].pc = "idle"
  /\ cpProc' = [cpProc EXCEPT ![p] = [CpIdle EXCEPT !.kind = kind, !.pc = "check"]]

CpShell(p, kind) == CpLaunch(p, kind) /\ CpKeep

\* validateServeFlags and checkPortConflicts; the ports are free again at once
CpServeCheck(p) ==
  /\ CpAt(p, "serve", "check")
  /\ \/ ~CpTaken("engine") /\ ~CpTaken("admin") /\ CpGo(p, "build")
     \/ CpExit(p, {})
  /\ CpKeep

\* The server configuration, with its certificates; the store is opened, or else there
\* is none
CpServeBuild(p) == CpAt(p, "serve", "build") /\ CpMayFail(p, "engine", {}) /\ CpKeep

CpStartCheck(p) ==
  /\ CpAt(p, "start", "check")
  /\ \/ ~CpTaken("engine") /\ ~CpTaken("admin") /\ CpGo(p, "engine")
     \/ CpExit(p, {})
  /\ CpKeep

\* The project configuration is loaded and validated, and all its ports checked
CpUpCheck(p) ==
  /\ CpAt(p, "up", "check")
  /\ \/ ~CpTaken("engine") /\ ~CpTaken("admin") /\ CpGo(p, "admin")
     \/ CpExit(p, {})
  /\ CpKeep

-----------------------------------------------------------------------------
(* serve *)

\* startServers: engine, admin API, health of the engine, chaos
CpServeEngine(p) ==
  /\ CpAt(p, "serve", "engine")
  /\ CpStartPart(p, "engine", "admin", {})
  /\ CpKeep

CpServeAdmin(p) ==
  /\ CpAt(p, "serve", "admin")
  /\ CpStartPart(p, "admin", "health", {"engine"})
  /\ CpKeep

CpServeHealth(p) == CpAt(p, "serve", "health") /\ CpMayFail(p, "mode", CpBoth) /\ CpKeep

\* Register with a control plane, pull or load the mocks
handleOperatingMode(p) == CpAt(p, "serve", "mode") /\ CpMayFail(p, "pid", CpBoth) /\ CpKeep

CpServePid(p) ==
  /\ CpAt(p, "serve", "pid")
  /\ \/ CpGo(p, "mcp") /\ WritePIDFile(p)
     \/ CpExit(p, CpBoth) /\ UNCHANGED cpFile
  /\ UNCHANGED cpCmd


\* The MCP server, if enabled; when it fails the PID file stays
CpServeMcp(p) ==
  /\ CpAt(p, "serve", "mcp")
  /\ CpRun(p, "mcp", "ready") \/ CpExit(p, CpBoth)
  /\ CpKeep

\* Mutant: the parts are stopped first
CpServeStopFirst(p) ==
  \/ /\ CpAt(p, "serve", "unpid") /\ CpHalt(p, "mcp", "stopAdmin")
     /\ CpKeep
  \/ /\ CpAt(p, "serve", "stopAdmin") /\ CpHalt(p, "admin", "stopEngine")
     /\ CpKeep
  \/ /\ CpAt(p, "serve", "stopEngine") /\ CpHalt(p, "engine", "last")
     /\ CpKeep
  \/ CpAt(p, "serve", "last") /\ CpExit(p, {}) /\ RemovePIDFile /\ UNCHANGED cpCmd

\* runMainLoop after the signal: the PID file goes before anything is stopped
CpServeStop(p) ==
  \/ CpAt(p, "serve", "unpid") /\ CpGo(p, "stopMcp") /\ RemovePIDFile /\ UNCHANGED cpCmd
  \/ CpAt(p, "serve", "stopMcp") /\ CpHalt(p, "mcp", "stopAdmin") /\ CpKeep
  \/ CpAt(p, "serve", "stopAdmin") /\ CpHalt(p, "admin", "stopEngine") /\ CpKeep
  \/ CpAt(p, "serve", "stopEngine") /\ CpExit(p, {"engine"}) /\ CpKeep

-----------------------------------------------------------------------------
(* start *)

CpStartEngine(p) ==
  /\ CpAt(p, "start", "engine")
  /\ CpStartPart(p, "engine", "admin", {"engine"})
  /\ CpKeep

CpStartAdmin(p) ==
  /\ CpAt(p, "start", "admin")
  /\ CpStartPart(p, "admin", "config", {"engine"})
  /\ CpKeep

\* --config: every failure stops both servers
CpStartConfig(p) == CpAt(p, "start", "config") /\ CpMayFail(p, "load", CpBoth) /\ CpKeep

\* --load and --watch: an error returns at once
CpStartLoad(p) == CpAt(p, "start", "load") /\ CpMayFail(p, "register", {}) /\ CpKeep

\* --register: likewise
CpStartRegister(p) == CpAt(p, "start", "register") /\ CpMayFail(p, "pid", {}) /\ CpKeep

\* A PID file that cannot be written is a warning
CpStartPid(p) ==
  /\ CpAt(p, "start", "pid")
  /\ CpGo(p, "ready")
  /\ WritePIDFile(p) \/ UNCHANGED cpFile
  /\ UNCHANGED cpCmd

\* WaitForShutdown, and the deferred removal of the PID file when it has returned
CpStartStop(p) ==
  \/ CpAt(p, "start", "unpid") /\ CpHalt(p, "admin", "stopEngine") /\ CpKeep
  \/ CpAt(p, "start", "stopEngine") /\ CpHalt(p, "engine", "late") /\ CpKeep
  \/ CpAt(p, "start", "late") /\ CpExit(p, {}) /\ RemovePIDFile /\ UNCHANGED cpCmd

-----------------------------------------------------------------------------
(* engine: no admin API, no PID file *)

runEngine(p) ==
  /\ \/ CpAt(p, "engine", "check") /\ CpStartPart(p, "engine", "import", {})
     \/ CpAt(p, "engine", "import") /\ CpMayFail(p, "ready", {"engine"})
     \/ CpAt(p, "engine", "unpid") /\ CpExit(p, {"engine"})
  /\ CpKeep

-----------------------------------------------------------------------------
(* up: one local admin, one engine *)

\* startAll stops nothing itself: run cancels, then stopAll stops what is there, once
\* the heartbeats have ended
CpUpFails(p) == cpProc' = [cpProc EXCEPT ![p].pc = "stopAll", ![p].cancelled = TRUE]

startAdmin(p) ==
  /\ CpAt(p, "up", "admin")
  /\ \/ ~CpTaken("admin") /\ CpRun(p, "admin", "engine")
     \/ CpUpFails(p)
  /\ CpKeep

startEngine(p) ==
  /\ CpAt(p, "up", "engine")
  /\ \/ ~CpTaken("engine") /\ CpRun(p, "engine", "connect")
     \/ CpUpFails(p)
  /\ CpKeep

\* Registered, the engine beats until the context is cancelled
connectEngineToAdmin(p) ==
  /\ CpAt(p, "up", "connect")
  /\ CpRun(p, "heartbeat", "workspaces") \/ CpUpFails(p)
  /\ CpKeep

createWorkspaces(p) ==
  /\ CpAt(p, "up", "workspaces")
  /\ CpGo(p, "tunnel") \/ CpUpFails(p)
  /\ CpKeep

\* A tunnel that fails is a warning
startTunnel(p) ==
  /\ CpAt(p, "up", "tunnel")
  /\ CpRun(p, "tunnel", "mocks") \/ CpGo(p, "mocks")
  /\ CpKeep

loadAndApplyMocks(p) ==
  /\ CpAt(p, "up", "mocks")
  /\ CpGo(p, "pid") \/ CpUpFails(p)
  /\ CpKeep

CpUpPid(p) ==
  /\ CpAt(p, "up", "pid")
  /\ cpProc' = [cpProc EXCEPT ![p].pc = "ready", ![p].deferred = TRUE]
  /\ WritePIDFile(p) \/ UNCHANGED cpFile
  /\ UNCHANGED cpCmd

\* Mutant: the heartbeats are waited for before they are told to end
CpUpSignalledLate(p) == CpAt(p, "up", "unpid") /\ CpGo(p, "stopAll") /\ CpKeep

\* run after the signal: cancel
CpUpSignalled(p) == CpAt(p, "up", "unpid") /\ CpUpFails(p) /\ CpKeep

runEngineHeartbeatLoop(p) ==
  /\ "heartbeat" \in cpProc[p].parts /\ cpProc[p].cancelled
  /\ cpProc' = [cpProc EXCEPT ![p].parts = @ \ {"heartbeat"}]
  /\ CpKeep

\* heartbeatWG.Wait, then tunnels, engines and admins; the deferred removal of the PID
\* file is last, and there only if up came that far
stopAll(p) ==
  \/ /\ CpAt(p, "up", "stopAll") /\ "heartbeat" \notin cpProc[p].parts
     /\ cpProc' = [cpProc EXCEPT ![p].pc = "late", ![p].parts = {}]
     /\ CpKeep
  \/ /\ CpAt(p, "up", "late") /\ CpExit(p, {})
     /\ IF cpProc[p].deferred THEN RemovePIDFile ELSE UNCHANGED cpFile
     /\ UNCHANGED cpCmd

-----------------------------------------------------------------------------
(* Signals *)

\* SIGTERM ends a process that does not wait for it yet, starts the shutdown of one
\* that does, and is not noticed by one that is shutting down
CpTerm(p) ==
  CASE cpProc[p].pc = "ready" -> CpGo(p, "unpid")
    [] cpProc[p].pc \in {"check", "build", "engine", "admin", "health", "mode", "pid", "mcp", "config",
                         "load", "register", "import", "connect", "workspaces", "tunnel", "mocks"} -> CpDies(p)
    [] OTHER -> UNCHANGED cpProc

\* From the terminal
CpInterrupt(p) == cpProc[p].pc = "ready" /\ CpTerm(p) /\ CpKeep

CpCrash(p) == cpProc[p].pc = "ready" /\ CpDies(p) /\ CpKeep

-----------------------------------------------------------------------------
(* stop and down *)

CpCmdGo(c, pc) == cpCmd' = [cpCmd EXCEPT ![c].pc = pc]

\* Both read the file and look whether its process runs
CpStopRead(c, kind) ==
  /\ cpCmd[c].pc = "idle"
  /\ cpCmd' = [cpCmd EXCEPT ![c] =
                 [kind |-> kind, target |-> cpFile,
                  pc |-> CASE cpFile = CpNoFile -> "none"
                           [] cpFile # CpNoFile /\ CpAlive(cpFile) -> "signal"
                           [] OTHER -> "stale"]]
  /\ UNCHANGED <<cpProc, cpFile>>

CpStopStale(c) == cpCmd[c].pc = "stale" /\ RemovePIDFile /\ CpCmdGo(c, "none") /\ UNCHANGED cpProc

\* The process may have ended since
CpStopSignal(c) ==
  /\ cpCmd[c].pc = "signal"
  /\ IF CpAlive(cpCmd[c].target)
       THEN /\ CpTerm(cpCmd[c].target)
            /\ CpCmdGo(c, "wait")
       ELSE CpCmdGo(c, "error") /\ UNCHANGED cpProc
  /\ UNCHANGED cpFile

\* stop --force: no waiting
CpStopForce(c) ==
  /\ cpCmd[c].pc = "signal" /\ cpCmd[c].kind = "stop"
  /\ CpAlive(cpCmd[c].target)
  /\ CpDies(cpCmd[c].target)
  /\ CpCmdGo(c, "remove")
  /\ UNCHANGED cpFile

CpStopPoll(c) ==
  /\ cpCmd[c].pc = "wait" /\ ~CpAlive(cpCmd[c].target)
  /\ CpCmdGo(c, "remove")
  /\ UNCHANGED <<cpProc, cpFile>>

\* Mutant: down reports what it asked for
CpDownGivesUp(c) ==
  /\ cpCmd[c].pc = "wait" /\ CpAlive(cpCmd[c].target)
  /\ CpCmdGo(c, IF cpCmd[c].kind = "stop" THEN "error" ELSE "remove")
  /\ UNCHANGED <<cpProc, cpFile>>

\* The deadline: stop gives up, down kills
CpStopTimeout(c) ==
  /\ cpCmd[c].pc = "wait" /\ CpAlive(cpCmd[c].target)
  /\ IF cpCmd[c].kind = "stop"
       THEN CpCmdGo(c, "error") /\ UNCHANGED cpProc
       ELSE CpCmdGo(c, "remove") /\ CpDies(cpCmd[c].target)
  /\ UNCHANGED cpFile

CpStopRemove(c) == cpCmd[c].pc = "remove" /\ RemovePIDFile /\ CpCmdGo(c, "stopped") /\ UNCHANGED cpProc

-----------------------------------------------------------------------------
(* A detached serve or start *)

daemonize(c, p, kind) ==
  /\ cpCmd[c].pc = "idle" /\ kind \in {"serve", "start"}
  /\ CpLaunch(p, kind)
  /\ CpCmdGo(c, "poll")
  /\ UNCHANGED cpFile

\* Any PID file ends the wait, one left by an earlier process included; so does time
CpDetachedRead(c) ==
  /\ cpCmd[c].pc = "poll"
  /\ cpCmd' = [cpCmd EXCEPT ![c].target = cpFile,
                            ![c].pc = IF cpFile = CpNoFile THEN "none"
                                      ELSE IF CpAlive(cpFile) THEN "started" ELSE "error"]
  /\ UNCHANGED <<cpProc, cpFile>>

-----------------------------------------------------------------------------

CpServe(p) ==
  \/ CpServeCheck(p) \/ CpServeBuild(p) \/ CpServeEngine(p) \/ CpServeAdmin(p)
  \/ CpServeHealth(p) \/ handleOperatingMode(p) \/ CpServePid(p) \/ CpServeMcp(p) \/ CpServeStop(p)

CpStart(p) ==
  \/ CpStartCheck(p) \/ CpStartEngine(p) \/ CpStartAdmin(p) \/ CpStartConfig(p)
  \/ CpStartLoad(p) \/ CpStartRegister(p) \/ CpStartPid(p) \/ CpStartStop(p)

CpUp(p) ==
  \/ CpUpCheck(p) \/ startAdmin(p) \/ startEngine(p) \/ connectEngineToAdmin(p)
  \/ createWorkspaces(p) \/ startTunnel(p) \/ loadAndApplyMocks(p) \/ CpUpPid(p)
  \/ CpUpSignalled(p) \/ runEngineHeartbeatLoop(p) \/ stopAll(p)

CpCommand(c) ==
  \/ \E kind \in {"stop", "down"} : CpStopRead(c, kind)
  \/ CpStopStale(c) \/ CpStopSignal(c) \/ CpStopForce(c) \/ CpStopPoll(c)
  \/ CpStopTimeout(c) \/ CpStopRemove(c) \/ CpDetachedRead(c)

\* Process IDs are given out in order
CpFresh(p) == \A q \in CpProcs : q < p => cpProc[q].pc # "idle"

\* A step the process makes by itself
CpGoesOn(p) == CpServe(p) \/ CpStart(p) \/ CpUp(p) \/ runEngine(p)

CpNext ==
  \/ \E p \in CpProcs : CpGoesOn(p)
  \/ \E p \in CpProcs : CpInterrupt(p) \/ CpCrash(p)
  \/ \E c \in CpCmds : CpCommand(c)
  \/ \E p \in CpProcs, kind \in CpKinds :
       CpFresh(p) /\ (CpShell(p, kind) \/ \E c \in CpCmds : daemonize(c, p, kind))

-----------------------------------------------------------------------------
(* Properties *)

\* Processes, the PID file and commands have their types.
CpTypeOK ==
  /\ \A p \in CpProcs :
       /\ cpProc[p].kind \in CpKinds \cup {"none"} /\ {cpProc[p].cancelled, cpProc[p].deferred} \subseteq BOOLEAN
       /\ cpProc[p].parts \subseteq {"engine", "admin", "mcp", "heartbeat", "tunnel"}
  /\ cpFile \in CpProcs \cup {CpNoFile}
  /\ \A c \in CpCmds : cpCmd[c].target \in CpProcs \cup {CpNoFile}

\* The PID file that a serve process removes as it shuts down is its own, if there is
\* one: its successor cannot have written its file yet, for serve removes the file while
\* it still holds its ports.
CpServeFileOwn ==
  \A p \in CpProcs :
    CpAlive(p) /\ cpProc[p].kind = "serve" /\ cpProc'[p] # cpProc[p] /\ cpFile' = CpNoFile =>
      cpFile \in {p, CpNoFile}

\* Whatever stage of serve or up fails, or a signal ends them: the process ends having
\* stopped all it had started.
CpCleanExit == \A p \in CpProcs : cpProc[p].kind # "start" => cpProc[p].left = {}

\* When stop or down reports that mockd was stopped, its process is gone.
CpStoppedGone == \A c \in CpCmds : cpCmd[c].pc = "stopped" => ~CpAlive(cpCmd[c].target)

\* A process that has been told to end, or whose start-up failed, ends: stopAll does not
\* wait for heartbeats that go on.
CpShutdownEnds ==
  \A p \in CpProcs : cpProc[p].pc \in {"unpid", "stopAll"} ~> cpProc[p].pc = "done"

=============================================================================
