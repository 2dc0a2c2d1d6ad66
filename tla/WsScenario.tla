----------------------------- MODULE WsScenario -----------------------------
(***************************************************************************)
(* A scenario of a WebSocket connection (pkg/websocket/scenario.go): Run,  *)
(* in a goroutine of its own, performs the steps; HandleMessage, called by *)
(* the connection's read loop, matches a client message against the step   *)
(* that is current.  The scenario's state has a mutex that each access     *)
(* takes separately; matchCh tells Run of a match.                         *)
(***************************************************************************)
EXTENDS Naturals, Sequences

CONSTANT ScSteps    \* the steps: [type, optional]

VARIABLES
  scLoop,    \* whether the scenario starts again after the last step
  scCur,     \* currentStep, from 1
  scDone,    \* completed
  scMatchCh, \* the buffered channel of one element
  scRun,     \* Run: where it is and the step it read
  scMsg,     \* HandleMessage: the step it read, 0 = not running
  scStopped  \* the context is cancelled

scVars == <<scLoop, scCur, scDone, scMatchCh, scRun, scMsg, scStopped>>

ScTypes == {"send", "expect", "wait"}

\* newScenarioStep accepts these steps only
newScenarioStep(s) == s.type \in ScTypes /\ s.optional \in BOOLEAN

ASSUME ScAssumption == \A i \in DOMAIN ScSteps : newScenarioStep(ScSteps[i])

NewScenarioExecutor ==
  /\ scLoop \in BOOLEAN
  /\ scCur = 1 /\ scDone = FALSE /\ scMatchCh = FALSE /\ scStopped = FALSE
  /\ scRun = [pc |-> "top", step |-> 0] /\ scMsg = 0

\* The current step, 0 when there is none
GetCurrentStepConfig == IF scDone \/ scCur > Len(ScSteps) THEN 0 ELSE scCur

\* The steps completed, a scenario that loops begins again; otherwise a late
\* caller may count on beyond the last step (which nothing tells apart)
AdvanceStep ==
  IF scCur < Len(ScSteps) THEN scCur' = scCur + 1 /\ UNCHANGED scDone
  ELSE IF scLoop THEN scCur' = 1 /\ UNCHANGED scDone
  ELSE scCur' = Len(ScSteps) + 1 /\ scDone' = TRUE

ScGoto(pc) == scRun' = [scRun EXCEPT !.pc = pc]

-----------------------------------------------------------------------------
(* Run *)

\* The context is looked at, then the step is read
ScTop ==
  /\ scRun.pc = "top"
  /\ scRun' = IF scStopped \/ GetCurrentStepConfig = 0
                THEN [pc |-> "end", step |-> 0]
                ELSE [pc |-> ScSteps[scCur].type, step |-> scCur]
  /\ UNCHANGED <<scCur, scDone, scMatchCh, scMsg, scStopped>>

\* executeSend, which waits for the message's delay, and fails when the
\* connection is closed or the context cancelled
ScExecuteSend ==
  /\ scRun.pc = "send"
  /\ \/ ScGoto("sent") \/ ScGoto("end")
  /\ UNCHANGED <<scCur, scDone, scMatchCh, scMsg, scStopped>>

\* A send or wait step is over
ScAdvance ==
  /\ scRun.pc \in {"sent", "waited", "skip"}
  /\ AdvanceStep
  /\ scRun' = [pc |-> "top", step |-> 0]
  /\ UNCHANGED <<scMatchCh, scMsg, scStopped>>

ScWait ==
  /\ scRun.pc = "wait"
  /\ \/ ScGoto("waited")
     \/ scStopped /\ ScGoto("end")
  /\ UNCHANGED <<scCur, scDone, scMatchCh, scMsg, scStopped>>

\* Mutant: Run advances as well
ScExpectAdvances ==
  /\ scRun.pc = "expect"
  /\ \/ scMatchCh /\ scMatchCh' = FALSE /\ ScGoto("skip")
     \/ ScGoto("timeout") /\ UNCHANGED scMatchCh
     \/ scStopped /\ ScGoto("end") /\ UNCHANGED scMatchCh
  /\ UNCHANGED <<scCur, scDone, scMsg, scStopped>>

\* An expect step: HandleMessage has advanced the state when it signals
ScExpect ==
  /\ scRun.pc = "expect"
  /\ \/ scMatchCh /\ scMatchCh' = FALSE /\ ScGoto("top")
     \/ ScGoto("timeout") /\ UNCHANGED scMatchCh
     \/ scStopped /\ ScGoto("end") /\ UNCHANGED scMatchCh
  /\ UNCHANGED <<scCur, scDone, scMsg, scStopped>>

\* After the timeout the channel is looked at once more; an optional step is
\* skipped, any other ends the scenario
ScTimeout ==
  /\ scRun.pc = "timeout"
  /\ IF scMatchCh THEN scMatchCh' = FALSE /\ ScGoto("top")
     ELSE /\ ScGoto(IF ScSteps[scRun.step].optional THEN "skip" ELSE "end")
          /\ UNCHANGED scMatchCh
  /\ UNCHANGED <<scCur, scDone, scMsg, scStopped>>

-----------------------------------------------------------------------------
(* HandleMessage *)

\* A message that the current step expects; any other leaves no trace
ScMatches ==
  /\ scMsg = 0 /\ ~scStopped
  /\ GetCurrentStepConfig # 0 /\ ScSteps[scCur].type = "expect"
  /\ scMsg' = scCur
  /\ UNCHANGED <<scCur, scDone, scMatchCh, scRun, scStopped>>

ScHandled ==
  /\ scMsg # 0
  /\ AdvanceStep /\ scMatchCh' = TRUE /\ scMsg' = 0
  /\ UNCHANGED <<scRun, scStopped>>

\* Stop, or the connection closes
ScStop ==
  /\ ~scStopped /\ scStopped' = TRUE
  /\ UNCHANGED <<scCur, scDone, scMatchCh, scRun, scMsg>>

ScNext ==
  /\ UNCHANGED scLoop
  /\ \/ ScTop \/ ScExecuteSend \/ ScAdvance \/ ScWait \/ ScExpect \/ ScTimeout
     \/ ScMatches \/ ScHandled \/ ScStop

ScSpec == NewScenarioExecutor /\ [][ScNext]_scVars

-----------------------------------------------------------------------------
(* Properties *)

\* Run's and HandleMessage's steps are steps of the scenario.
ScTypeOK ==
  /\ scCur \in 1 .. Len(ScSteps) + 1 /\ {scDone, scMatchCh, scStopped} \subseteq BOOLEAN
  /\ scRun.pc \in ScTypes \cup {"top", "sent", "waited", "timeout", "skip", "end"}
  /\ scRun.step \in 0 .. Len(ScSteps) /\ scMsg \in 0 .. Len(ScSteps)

\* HandleMessage "is safe to call concurrently with Run()": whichever of the two
\* moves the scenario on, a step is left by the one that performed it - a send or
\* wait by Run after it was carried out, an expect by a message matched against
\* that very step or by its own timeout.
ScNoStepSkipped ==
  scCur' # scCur =>
    \/ scRun.pc \in {"sent", "waited", "skip"} /\ scRun.step = scCur
    \/ scMsg = scCur /\ ScSteps[scCur].type = "expect"

=============================================================================
