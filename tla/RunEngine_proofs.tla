--------------------------- MODULE RunEngine_proofs ---------------------------
(***************************************************************************)
(* Theorems about RunEngine, for every set of configurations, every bound  *)
(* on setup commands and every set of exit codes.                          *)
(*                                                                         *)
(* The first half is about the types, the sandbox, what Run has to close,  *)
(* and the exit code.  Each property is reached through an invariant of    *)
(* its own that says, for every place the engine can stand at, what the    *)
(* calls before it have established; that is what makes it inductive.      *)
(*                                                                         *)
(* The second half is about what a run leaves behind: the entries of its   *)
(* phases, the result, the three files a consumer reads, and the abstract  *)
(* run of RunLifecycle they show.  The invariant behind all of it is       *)
(* TraceInv: the main part leaves one entry per enabled phase, in order,   *)
(* up to the one it ends with, and collect adds its own behind them.       *)
(***************************************************************************)
EXTENDS RunEngine, TLAPS

AllSteps == PrepareSteps \cup SetupSteps \cup ExecuteSteps \cup VerifySteps
              \cup CollectSteps \cup {"finish"} \cup Over

-----------------------------------------------------------------------------
(* Types *)

\* A step that runs no command passes on a well-formed, empty command result.
LEMMA NoExecIsResult == NoExec \in ExecResults
BY RunAssumption DEF NoExec, ExecResults

\* What a failed main phase leaves behind is well typed, and the engine stands
\* at collect with no span of that phase open.
LEMMA FailMainTypes ==
  ASSUME TypeOK, NEW p \in Phases, NEW code \in Errors, NEW status \in Statuses,
         NEW exec \in ExecResults, FailMain(p, code, status, exec)
  PROVE  /\ result' \in Outcome /\ phaseResults' \in Seq(Outcome)
         /\ runErr' \in Errors /\ uploadErr' \in BOOLEAN
         /\ pc' = "collect"
         /\ open' = open \ {p}
<1> DEFINE end == [phase |-> p, status |-> status, error |-> code,
                   exit |-> exec.exit, timedOut |-> exec.timedOut]
<1>1. exec.exit \in ExitCodes /\ exec.timedOut \in BOOLEAN
  BY DEF ExecResults
<1>2. end \in Outcome
  BY <1>1 DEF Outcome
<1>3. result' = end /\ phaseResults' = Append(phaseResults, end)
  BY DEF FailMain, FailPhase
<1>4. QED
  BY <1>2, <1>3 DEF FailMain, FailPhase, TypeOK

\* The same of a failure in collect, after which only Finish is left.
LEMMA FailCollectTypes ==
  ASSUME TypeOK, FailCollect
  PROVE  /\ result' \in Outcome /\ phaseResults' \in Seq(Outcome)
         /\ runErr' \in Errors /\ uploadErr' \in BOOLEAN
         /\ pc' = "finish"
         /\ open' = open \ {"collect"}
<1> DEFINE end == [phase |-> "collect", status |-> "FAILED", error |-> "collect",
                   exit |-> 0, timedOut |-> FALSE]
<1>1. end \in Outcome
  BY RunAssumption DEF Outcome, Phases, Statuses, Errors
<1>2. result' = end /\ phaseResults' = Append(phaseResults, end)
  BY DEF FailCollect, FailPhase, NoExec
<1>3. QED
  BY <1>1, <1>2 DEF FailCollect, FailPhase, TypeOK, Errors

\* A successful entry keeps state.phaseResults a list of outcomes.
LEMMA AddSuccessTypes ==
  ASSUME TypeOK, NEW p \in Phases, NEW exec \in ExecResults, AddSuccess(p, exec)
  PROVE  phaseResults' \in Seq(Outcome)
<1> DEFINE end == [phase |-> p, status |-> "SUCCEEDED", error |-> "none",
                   exit |-> exec.exit, timedOut |-> exec.timedOut]
<1>1. end \in Outcome
  BY DEF ExecResults, Outcome, Statuses, Errors
<1>2. phaseResults' = Append(phaseResults, end)
  BY DEF AddSuccess
<1>3. QED
  BY <1>1, <1>2 DEF TypeOK

\* Updating the fields of a result keeps it a result.
LEMMA ResultUpdate ==
  ASSUME NEW r \in Outcome, NEW s \in Statuses, NEW p \in Phases, NEW e \in Errors,
         NEW x \in ExitCodes
  PROVE  /\ [r EXCEPT !.status = s, !.phase = p, !.error = e] \in Outcome
         /\ [r EXCEPT !.status = s, !.phase = p, !.exit = x] \in Outcome
         /\ [r EXCEPT !.status = s, !.error = e] \in Outcome
         /\ [r EXCEPT !.status = s, !.phase = p] \in Outcome
         /\ [r EXCEPT !.phase = p, !.status = s] \in Outcome
         /\ [r EXCEPT !.status = s] \in Outcome
BY DEF Outcome

\* The phase after each main phase starts with a call the engine can stand at.
LEMMA AfterTypes ==
  /\ AfterExecute \in {"verify", "collect"}
  /\ AfterSetup \in {"execute", "verify", "collect"}
  /\ AfterPrepare \in {"setup", "execute", "verify", "collect"}
  /\ {"setup", "execute", "verify", "collect"} \subseteq AllSteps
BY DEF AfterExecute, AfterSetup, AfterPrepare, AllSteps, SetupSteps, ExecuteSteps,
       VerifySteps, CollectSteps

-----------------------------------------------------------------------------

\* Init gives every variable a value of its type.
LEMMA InitTypeOK == Init => TypeOK
<1> SUFFICES ASSUME Init PROVE TypeOK
  OBVIOUS
<1>1. Blank \in Outcome
  BY RunAssumption DEF Blank, Outcome, Phases, Statuses, Errors
<1>2. "absent" \in FileStates
  BY DEF FileStates
<1>3. /\ results \in [state : FileStates, outcome : Outcome]
      /\ index \in [state : FileStates, outcome : Outcome]
      /\ phases \in [state : FileStates, entries : Seq(Outcome)]
  BY <1>1, <1>2 DEF Init
<1>4. pc \in PrepareSteps /\ runErr \in Errors /\ stepsLeft \in 0 .. MaxSetupSteps
  BY RunAssumption DEF Init, PrepareSteps, Errors
<1>5. phaseResults \in Seq(Outcome) /\ result \in Outcome
  BY <1>1 DEF Init
<1>6. /\ ready \subseteq {"writer", "emitter", "backend"}
      /\ open \subseteq {"writer", "run", "collector"} \cup Phases
      /\ sandbox \in {"none", "created", "running", "paused", "stopped", "deleted",
                      "expired"}
      /\ exitCode \in Int
  BY DEF Init
<1>7. /\ known \in BOOLEAN /\ pulled \in BOOLEAN /\ settled \in BOOLEAN
      /\ uploadErr \in BOOLEAN /\ ioFailed \in BOOLEAN /\ cfg \in Configs
  BY DEF Init
<1>8. QED
  BY <1>3, <1>4, <1>5, <1>6, <1>7 DEF TypeOK

\* The steps of prepare keep the types.
LEMMA PrepareTypeOK == TypeOK /\ PrepareNext => TypeOK'
<1> SUFFICES ASSUME TypeOK, PrepareNext PROVE TypeOK'
  OBVIOUS
<1> USE NoExecIsResult DEF vars, provider, report, files
<1>0. /\ "prepare" \in Phases /\ "prepare" \in Errors /\ "FAILED" \in Statuses
  BY DEF Phases, Errors, Statuses
<1>1. CASE Probe
  <2>1. [result EXCEPT !.status = "FAILED", !.phase = "prepare", !.error = "prepare"]
          \in Outcome
    BY <1>0, RunAssumption DEF TypeOK, Outcome
  <2>2. QED
    BY <1>0, <1>1, <2>1 DEF Probe, TypeOK, PrepareSteps, Over
<1>2. CASE StartCollector
  BY <1>0, <1>2, FailMainTypes DEF StartCollector, Bootstrap, TypeOK, PrepareSteps, CollectSteps
<1>3. CASE StartTelemetry
  BY <1>0, <1>3, FailMainTypes DEF StartTelemetry, TypeOK, PrepareSteps, CollectSteps
<1>4. CASE ResolveBackend
  BY <1>0, <1>4, FailMainTypes DEF ResolveBackend, TypeOK, PrepareSteps, CollectSteps
<1>5. CASE CreateSandbox
  BY <1>0, <1>5, FailMainTypes DEF CreateSandbox, TypeOK, PrepareSteps, CollectSteps
<1>6. CASE StartSandbox
  BY <1>0, <1>6, FailMainTypes DEF StartSandbox, TypeOK, PrepareSteps, CollectSteps
<1>7. CASE SyncWorkspaceIn
  BY <1>0, <1>7, FailMainTypes DEF SyncWorkspaceIn, TypeOK, PrepareSteps, CollectSteps
<1>8. CASE WriteContext
  <2>1. CASE AddSuccess("prepare", NoExec)
             /\ result' = [result EXCEPT !.status = "SUCCEEDED", !.phase = "prepare",
                                         !.exit = 0]
             /\ open' = open \ {"prepare"} /\ pc' = AfterPrepare
             /\ UNCHANGED <<runErr, uploadErr, ioFailed>>
    <3>1. result' \in Outcome
      BY <1>0, <2>1, RunAssumption, ResultUpdate DEF TypeOK, Statuses
    <3>2. phaseResults' \in Seq(Outcome)
      BY <1>0, <2>1, AddSuccessTypes
    <3>3. QED
      BY <1>8, <2>1, <3>1, <3>2, AfterTypes DEF WriteContext, TypeOK, AllSteps
  <2>2. CASE FailMain("prepare", "prepare", "FAILED", NoExec) /\ ioFailed' = TRUE
    BY <1>0, <1>8, <2>2, FailMainTypes DEF WriteContext, TypeOK, CollectSteps
  <2>3. QED
    BY <1>8, <2>1, <2>2 DEF WriteContext
<1>9. QED
  BY <1>1, <1>2, <1>3, <1>4, <1>5, <1>6, <1>7, <1>8 DEF PrepareNext

\* The steps of setup, execute and verify keep the types.
LEMMA MainTypeOK == TypeOK /\ MainNext => TypeOK'
<1> SUFFICES ASSUME TypeOK, MainNext PROVE TypeOK'
  OBVIOUS
<1> USE NoExecIsResult DEF vars, provider, report, files
<1>0. /\ {"setup", "execute", "verify"} \subseteq Phases
      /\ {"setup", "execute", "timeout", "verify"} \subseteq Errors
      /\ {"SUCCEEDED", "FAILED", "TIMED_OUT"} \subseteq Statuses
  BY DEF Phases, Errors, Statuses
<1>1. CASE PlanSetup
  BY <1>0, <1>1, FailMainTypes DEF PlanSetup, TypeOK, SetupSteps, CollectSteps
<1>2. CASE RunSetupStep
  <2>1. CASE stepsLeft > 0 /\ stepsLeft' = StepDone /\ UNCHANGED <<pc, open, report>>
    BY <1>2, <2>1, RunAssumption DEF RunSetupStep, TypeOK, StepDone
  <2>2. CASE \E r \in ExecResults : /\ stepsLeft > 0 /\ stepsLeft' = StepDone
                                   /\ FailMain("setup", "setup", "FAILED", r)
    <3>1. PICK r \in ExecResults : /\ stepsLeft > 0 /\ stepsLeft' = StepDone
                                   /\ FailMain("setup", "setup", "FAILED", r)
      BY <2>2
    <3>2. stepsLeft' \in 0 .. MaxSetupSteps
      BY <3>1, RunAssumption DEF StepDone, TypeOK
    <3>3. QED
      BY <1>0, <1>2, <3>1, <3>2, FailMainTypes DEF RunSetupStep, TypeOK, CollectSteps
  <2>3. CASE /\ stepsLeft = 0 /\ AddSuccess("setup", NoExec)
             /\ open' = open \ {"setup"} /\ pc' = AfterSetup
             /\ UNCHANGED <<stepsLeft, result, runErr, uploadErr>>
    <3>1. phaseResults' \in Seq(Outcome)
      BY <1>0, <2>3, AddSuccessTypes
    <3>2. QED
      BY <1>2, <2>3, <3>1, AfterTypes DEF RunSetupStep, TypeOK, AllSteps
  <2>4. QED
    BY <1>2, <2>1, <2>2, <2>3 DEF RunSetupStep
<1>3. CASE PrepareCommand
  BY <1>0, <1>3, FailMainTypes DEF PrepareCommand, TypeOK, ExecuteSteps, CollectSteps, Phases
<1>4. CASE RunCommand
  <2>1. PICK r \in ExecResults :
          \/ /\ AddSuccess("execute", r)
             /\ result' = [result EXCEPT !.status = "SUCCEEDED", !.phase = "execute",
                                         !.exit = 0]
             /\ open' = open \ {"execute"} /\ pc' = AfterExecute
             /\ UNCHANGED <<runErr, uploadErr>>
          \/ FailMain("execute", "timeout", "TIMED_OUT", r)
          \/ FailMain("execute", "execute", "FAILED", r)
    BY <1>4 DEF RunCommand
  <2>2. UNCHANGED <<cfg, stepsLeft, ready, provider, files, exitCode>>
    BY <1>4 DEF RunCommand
  <2>3. CASE /\ AddSuccess("execute", r)
             /\ result' = [result EXCEPT !.status = "SUCCEEDED", !.phase = "execute",
                                         !.exit = 0]
             /\ open' = open \ {"execute"} /\ pc' = AfterExecute
             /\ UNCHANGED <<runErr, uploadErr>>
    <3>1. result' \in Outcome
      BY <1>0, <2>3, RunAssumption DEF TypeOK, Outcome
    <3>2. phaseResults' \in Seq(Outcome)
      BY <1>0, <2>3, AddSuccessTypes
    <3>3. QED
      BY <2>2, <2>3, <3>1, <3>2, AfterTypes DEF TypeOK, AllSteps
  <2>4. CASE FailMain("execute", "timeout", "TIMED_OUT", r)
    BY <1>0, <2>2, <2>4, FailMainTypes DEF TypeOK, CollectSteps
  <2>5. CASE FailMain("execute", "execute", "FAILED", r)
    BY <1>0, <2>2, <2>5, FailMainTypes DEF TypeOK, CollectSteps
  <2>6. QED
    BY <2>1, <2>3, <2>4, <2>5
<1>5. CASE CheckSmoke
  BY <1>0, <1>5, FailMainTypes DEF CheckSmoke, TypeOK, VerifySteps, CollectSteps, Phases
<1>6. CASE RunSmoke
  BY <1>0, <1>6, FailMainTypes DEF RunSmoke, TypeOK, VerifySteps, CollectSteps
<1>7. CASE CheckArtifacts
  <2>1. CASE /\ AddSuccess("verify", NoExec)
             /\ result' = [result EXCEPT !.status = "SUCCEEDED", !.phase = "verify"]
             /\ open' = open \ {"verify"} /\ pc' = "collect"
             /\ UNCHANGED <<runErr, uploadErr>>
    <3>1. result' \in Outcome
      BY <1>0, <2>1 DEF TypeOK, Outcome
    <3>2. phaseResults' \in Seq(Outcome)
      BY <1>0, <2>1, AddSuccessTypes
    <3>3. QED
      BY <1>7, <2>1, <3>1, <3>2 DEF CheckArtifacts, TypeOK, CollectSteps
  <2>2. CASE FailMain("verify", "verify", "FAILED", NoExec)
    BY <1>0, <1>7, <2>2, FailMainTypes DEF CheckArtifacts, TypeOK, CollectSteps
  <2>3. QED
    BY <1>7, <2>1, <2>2 DEF CheckArtifacts
<1>8. QED
  BY <1>1, <1>2, <1>3, <1>4, <1>5, <1>6, <1>7 DEF MainNext

\* The steps of collect keep the types.
LEMMA CollectTypeOK == TypeOK /\ CollectNext => TypeOK'
<1> SUFFICES ASSUME TypeOK, CollectNext PROVE TypeOK'
  OBVIOUS
<1> USE NoExecIsResult DEF vars, provider, report, files
<1>0. /\ "collect" \in Phases /\ {"none", "upload"} \subseteq Errors
      /\ {"SUCCEEDED", "PARTIAL"} \subseteq Statuses
      /\ {"whole", "torn"} \subseteq FileStates
  BY DEF Phases, Errors, Statuses, FileStates
<1>a. Unclean \in Outcome /\ Degraded \in Outcome
  BY <1>0 DEF Unclean, Degraded, TypeOK, Outcome
<1>b. [state |-> "whole", outcome |-> result] \in [state : FileStates, outcome : Outcome]
  BY <1>0 DEF TypeOK
<1>c. /\ TornWrite(results) => results' \in [state : FileStates, outcome : Outcome]
      /\ TornWrite(index) => index' \in [state : FileStates, outcome : Outcome]
      /\ TornWrite(phases) => phases' \in [state : FileStates, entries : Seq(Outcome)]
  BY <1>0 DEF TornWrite, TypeOK
<1>1. CASE BeginCollect
  BY <1>0, <1>1 DEF BeginCollect, TypeOK, CollectSteps
<1>2. CASE Cleanup
  <2>1. CleanedUp \in {"none", "created", "running", "paused", "stopped", "deleted",
                      "expired"}
    <3>1. cfg.cleanup \in {"keep", "delete", "pause", "stop"}
      BY RunAssumption DEF TypeOK, ConfigType, CleanupModes
    <3>2. CleanupCall \in {"keep", "delete", "pause", "stop"}
      BY <3>1 DEF CleanupCall
    <3>3. QED
      BY <3>2 DEF CleanedUp, TypeOK
  <2>2. QED
    BY <1>a, <1>2, <2>1 DEF Cleanup, TypeOK, CollectSteps
<1>3. CASE WriteReplay
  <2>1. CASE /\ AddSuccess("collect", NoExec)
             /\ result' = [result EXCEPT !.phase = "collect",
                  !.status = IF @ = "CREATED" THEN "SUCCEEDED" ELSE @]
             /\ pc' = "phases"
             /\ UNCHANGED <<open, runErr, uploadErr, ioFailed>>
    <3>1. result' \in Outcome
      BY <1>0, <2>1 DEF TypeOK, Outcome
    <3>2. phaseResults' \in Seq(Outcome)
      BY <1>0, <2>1, AddSuccessTypes
    <3>3. QED
      BY <1>3, <2>1, <3>1, <3>2 DEF WriteReplay, TypeOK, CollectSteps
  <2>2. CASE FailCollect /\ ioFailed' = TRUE
    BY <1>3, <2>2, FailCollectTypes DEF WriteReplay, TypeOK
  <2>3. QED
    BY <1>3, <2>1, <2>2 DEF WriteReplay
<1>4. CASE WritePhases
  <2>1. [state |-> "whole", entries |-> phaseResults]
          \in [state : FileStates, entries : Seq(Outcome)]
    BY <1>0 DEF TypeOK
  <2>2. QED
    BY <1>c, <1>4, <2>1, FailCollectTypes DEF WritePhases, TypeOK, CollectSteps
<1>5. CASE WriteResults
  BY <1>b, <1>c, <1>5, FailCollectTypes DEF WriteResults, TypeOK, CollectSteps
<1>6. CASE WriteIndex
  BY <1>b, <1>c, <1>6, FailCollectTypes DEF WriteIndex, TypeOK, CollectSteps
<1>7. CASE Upload
  BY <1>a, <1>7 DEF Upload, TypeOK, CollectSteps
<1>8. CASE WriteFinalResults
  BY <1>b, <1>c, <1>8, FailCollectTypes DEF WriteFinalResults, TypeOK, CollectSteps
<1>9. CASE WriteFinalIndex
  <2>1. CASE /\ index' = [state |-> "whole", outcome |-> result]
             /\ UNCHANGED <<result, phaseResults, uploadErr, ioFailed>>
             /\ pc' \in {"summary", "finish"}
             /\ open' \subseteq open
             /\ runErr' \in {runErr, "upload"}
    BY <1>0, <1>b, <1>9, <2>1 DEF WriteFinalIndex, TypeOK, CollectSteps
  <2>2. CASE TornWrite(index) /\ FailCollect /\ ioFailed' = TRUE
    BY <1>c, <1>9, <2>2, FailCollectTypes DEF WriteFinalIndex, TypeOK
  <2>3. QED
    BY <1>9, <2>1, <2>2 DEF WriteFinalIndex
<1>10. CASE UploadSummary
  <2>1. [state |-> "whole", outcome |-> Degraded] \in [state : FileStates, outcome : Outcome]
    BY <1>0, <1>a
  <2>2. /\ results' \in [state : FileStates, outcome : Outcome]
        /\ index' \in [state : FileStates, outcome : Outcome]
        /\ phases' = phases
    BY <1>10, <1>c, <2>1 DEF UploadSummary, TypeOK
  <2>3. result' \in Outcome /\ runErr' \in Errors /\ ioFailed' \in BOOLEAN
    BY <1>0, <1>a, <1>10 DEF UploadSummary, TypeOK
  <2>4. QED
    BY <1>10, <2>2, <2>3 DEF UploadSummary, TypeOK
<1>11. QED
  BY <1>1, <1>2, <1>3, <1>4, <1>5, <1>6, <1>7, <1>8, <1>9, <1>10 DEF CollectNext

\* Every variable keeps the type of the Go value it stands for, in every run of
\* the engine with every configuration.
THEOREM TypeCorrect == Spec => []TypeOK
<1>1. TypeOK /\ [Next]_vars => TypeOK'
  <2> SUFFICES ASSUME TypeOK, [Next]_vars PROVE TypeOK'
    OBVIOUS
  <2> USE DEF vars, provider, report, files
  <2>1. CASE Finish
    BY <2>1 DEF Finish, TypeOK, Over
  <2>2. CASE Exit
    <3>1. result.exit \in Int /\ ExitCodeForResult \in Int
      BY RunAssumption DEF TypeOK, Outcome, ExitCodeForResult
    <3>2. exitCode' \in Int
      BY <2>2, <3>1 DEF Exit
    <3>3. QED
      BY <2>2, <3>2 DEF Exit, TypeOK, Over
  <2>3. CASE Expire
    BY <2>3 DEF Expire, TypeOK
  <2>4. CASE UNCHANGED vars
    BY <2>4 DEF TypeOK
  <2>5. QED
    BY <2>1, <2>2, <2>3, <2>4, PrepareTypeOK, MainTypeOK, CollectTypeOK
       DEF Next, EngineStep, Done
<1>2. QED
  BY <1>1, InitTypeOK, PTL DEF Spec

-----------------------------------------------------------------------------
(* The inductive invariants *)

MainSteps == PrepareSteps \cup SetupSteps \cup ExecuteSteps \cup VerifySteps

\* Collect after cleanupBackend, and after the collect entry is written.
AfterCleanup == (CollectSteps \ {"collect", "cleanup"}) \cup {"finish"} \cup Over
AfterReplay == AfterCleanup \ {"replay"}

\* SandboxSettled, made inductive.
SettleInv ==
  /\ pc = "probe" => ~known
  /\ pc = "cleanup" /\ known => pulled
  /\ settled => known /\ pulled
  /\ pc \in AfterCleanup /\ known => settled

\* The spans the engine may have open at c.
SpanAt(c) ==
  CASE c \in PrepareSteps -> {"prepare"}
    [] c = "setupStep" -> {"setup"}
    [] c = "run" -> {"execute"}
    [] c \in {"smoke", "expected"} -> {"verify"}
    [] c \in CollectSteps \ {"collect"} -> {"collect"}
    [] OTHER -> {}

\* NothingLeftOpen, made inductive.
OpenInv ==
  /\ open \subseteq {"writer", "collector", "run"} \cup SpanAt(pc)
  /\ "run" \in open => "emitter" \in ready
  /\ pc = "probe" \/ pc \in Over => open = {}

\* The result and the error of Run, as far as the exit code depends on them.
ReportInv ==
  /\ pc \in MainSteps =>
       runErr = "none" /\ ~uploadErr /\ result.status \in {"CREATED", "SUCCEEDED"}
  /\ runErr = "none" =>
       result.exit = 0 /\ result.status \in {"CREATED", "SUCCEEDED", "PARTIAL"}
  /\ runErr # "none" => result.status \in {"FAILED", "TIMED_OUT", "PARTIAL"}
  /\ uploadErr => result.status \notin {"CREATED", "SUCCEEDED"}
  /\ pc \in AfterReplay => result.status # "CREATED"
  /\ ExitCodeTellsTruth

-----------------------------------------------------------------------------
(* Failures *)

\* What a step that fails a phase does, whatever the phase.
LEMMA FailMainEffect ==
  ASSUME NEW p, NEW code, NEW status, NEW exec, FailMain(p, code, status, exec)
  PROVE  /\ pc' = "collect" /\ runErr' = code /\ uploadErr' = uploadErr
         /\ open' = open \ {p}
         /\ result'.status = status /\ result'.exit = exec.exit
BY DEF FailMain, FailPhase

\* What a failure in collect does: its span is ended and an error is returned.
LEMMA FailCollectEffect ==
  ASSUME FailCollect
  PROVE  /\ pc' = "finish" /\ runErr' # "none" /\ uploadErr' = uploadErr
         /\ open' = open \ {"collect"}
         /\ result'.status = "FAILED" /\ result'.exit = 0
BY DEF FailCollect, FailPhase, NoExec

-----------------------------------------------------------------------------
(* SandboxSettled *)

\* Before collect the engine may learn of a sandbox; it never settles one.
LEMMA SettleMain ==
  SettleInv /\ (PrepareNext \/ MainNext) => SettleInv'
<1> SUFFICES ASSUME SettleInv, PrepareNext \/ MainNext PROVE SettleInv'
  OBVIOUS
<1> USE DEF vars, provider, report, files
<1>1. CASE Probe
  BY <1>1 DEF Probe, SettleInv, AfterCleanup, CollectSteps, Over
<1>2. ASSUME PrepareNext \/ MainNext, ~Probe
      PROVE  /\ pc' \in (MainSteps \ {"probe"}) \cup {"collect"}
             /\ pulled' = pulled /\ settled' = settled /\ (known => known')
  <2> USE FailMainEffect DEF MainSteps, PrepareSteps, SetupSteps, ExecuteSteps, VerifySteps
  <2>1. CASE StartCollector
    BY <2>1 DEF StartCollector, Bootstrap
  <2>2. CASE StartTelemetry
    BY <2>2 DEF StartTelemetry
  <2>3. CASE ResolveBackend
    BY <2>3 DEF ResolveBackend
  <2>4. CASE CreateSandbox
    BY <2>4 DEF CreateSandbox
  <2>5. CASE StartSandbox
    BY <2>5 DEF StartSandbox
  <2>6. CASE SyncWorkspaceIn
    BY <2>6 DEF SyncWorkspaceIn
  <2>7. CASE WriteContext
    BY <2>7, AfterTypes DEF WriteContext
  <2>8. CASE PlanSetup
    BY <2>8 DEF PlanSetup
  <2>9. CASE RunSetupStep
    BY <2>9, AfterTypes DEF RunSetupStep
  <2>10. CASE PrepareCommand
    BY <2>10 DEF PrepareCommand
  <2>11. CASE RunCommand
    BY <2>11, AfterTypes DEF RunCommand
  <2>12. CASE CheckSmoke
    BY <2>12 DEF CheckSmoke
  <2>13. CASE RunSmoke
    BY <2>13 DEF RunSmoke
  <2>14. CASE CheckArtifacts
    BY <2>14 DEF CheckArtifacts
  <2>15. QED
    BY <1>2, <2>1, <2>2, <2>3, <2>4, <2>5, <2>6, <2>7, <2>8, <2>9, <2>10, <2>11,
       <2>12, <2>13, <2>14 DEF PrepareNext, MainNext
<1>3. CASE ~Probe
  <2>1. pc' # "probe" /\ pc' # "cleanup" /\ pc' \notin AfterCleanup
    BY <1>2, <1>3 DEF AfterCleanup, MainSteps, CollectSteps, Over,
       PrepareSteps, SetupSteps, ExecuteSteps, VerifySteps
  <2>2. QED
    BY <1>2, <1>3, <2>1 DEF SettleInv
<1>4. QED
  BY <1>1, <1>3

\* Collect fetches the workspace, then settles the sandbox, then does the rest.
LEMMA SettleCollect ==
  SettleInv /\ (CollectNext \/ Finish \/ Exit \/ Expire) => SettleInv'
<1> SUFFICES ASSUME SettleInv, CollectNext \/ Finish \/ Exit \/ Expire PROVE SettleInv'
  OBVIOUS
<1> USE DEF vars, provider, report, files
<1>1. CASE BeginCollect
  BY <1>1 DEF BeginCollect, SettleInv, AfterCleanup, CollectSteps, Over
<1>2. CASE Cleanup
  BY <1>2 DEF Cleanup, SettleInv
<1>3. CASE Expire
  BY <1>3 DEF Expire, SettleInv
<1>4. ASSUME ~BeginCollect, ~Cleanup, ~Expire
      PROVE  /\ pc \in AfterCleanup /\ pc' \in AfterCleanup
             /\ pulled' = pulled /\ settled' = settled /\ known' = known
  <2> USE FailCollectEffect DEF AfterCleanup, CollectSteps, Over
  <2>1. CASE WriteReplay
    BY <2>1 DEF WriteReplay
  <2>2. CASE WritePhases
    BY <2>2 DEF WritePhases
  <2>3. CASE WriteResults
    BY <2>3 DEF WriteResults
  <2>4. CASE WriteIndex
    BY <2>4 DEF WriteIndex
  <2>5. CASE Upload
    BY <2>5 DEF Upload
  <2>6. CASE WriteFinalResults
    BY <2>6 DEF WriteFinalResults
  <2>7. CASE WriteFinalIndex
    BY <2>7 DEF WriteFinalIndex
  <2>8. CASE UploadSummary
    BY <2>8 DEF UploadSummary
  <2>9. CASE Finish
    BY <2>9 DEF Finish
  <2>10. CASE Exit
    BY <2>10 DEF Exit
  <2>11. QED
    BY <1>4, <2>1, <2>2, <2>3, <2>4, <2>5, <2>6, <2>7, <2>8, <2>9, <2>10 DEF CollectNext
<1>5. CASE ~BeginCollect /\ ~Cleanup /\ ~Expire
  <2>1. pc' # "probe" /\ pc' # "cleanup"
    BY <1>4, <1>5 DEF AfterCleanup, CollectSteps, Over
  <2>2. QED
    BY <1>4, <1>5, <2>1 DEF SettleInv
<1>6. QED
  BY <1>1, <1>2, <1>3, <1>5

\* Every run keeps SettleInv.
LEMMA SettleAlways == Spec => []SettleInv
<1>1. Init => SettleInv
  BY DEF Init, SettleInv, AfterCleanup, CollectSteps, Over
<1>2. SettleInv /\ [Next]_vars => SettleInv'
  <2>1. SettleInv /\ UNCHANGED vars => SettleInv'
    BY DEF SettleInv, vars, provider
  <2>2. QED
    BY <2>1, SettleMain, SettleCollect DEF Next, EngineStep, Done
<1>3. QED
  BY <1>1, <1>2, PTL DEF Spec

\* In every run, whatever fails, a sandbox whose ID the engine holds has been
\* dealt with when Run returns, and its workspace was fetched before that.
THEOREM SandboxAlwaysSettled == Spec => []SandboxSettled
<1>1. SettleInv => SandboxSettled
  BY DEF SettleInv, SandboxSettled, AfterCleanup
<1>2. QED
  BY <1>1, SettleAlways, PTL

-----------------------------------------------------------------------------
(* NothingLeftOpen *)

\* The span of each part of the code.
LEMMA Spans ==
  ASSUME NEW c
  PROVE  /\ c \in PrepareSteps => SpanAt(c) = {"prepare"}
         /\ c \in {"setup", "execute", "verify", "collect", "finish"} \cup Over
              => SpanAt(c) = {}
         /\ c = "setupStep" => SpanAt(c) = {"setup"}
         /\ c = "run" => SpanAt(c) = {"execute"}
         /\ c \in {"smoke", "expected"} => SpanAt(c) = {"verify"}
         /\ c \in CollectSteps \ {"collect"} => SpanAt(c) = {"collect"}
BY DEF SpanAt, PrepareSteps, CollectSteps, Over

\* Failing a phase ends the one span that can be open.
LEMMA FailMainCloses ==
  ASSUME OpenInv, NEW p, NEW code, NEW status, NEW exec, FailMain(p, code, status, exec),
         SpanAt(pc) \subseteq {p}, p \in Phases, ready \subseteq ready'
  PROVE  OpenInv'
<1>1. pc' = "collect" /\ open' = open \ {p}
  BY FailMainEffect
<1>2. SpanAt(pc') = {} /\ pc' # "probe" /\ pc' \notin Over
  BY <1>1, Spans DEF Over
<1>3. QED
  BY <1>1, <1>2 DEF OpenInv

\* Prepare opens the writer, the collector and two spans, and closes its own.
LEMMA OpenPrepare == OpenInv /\ PrepareNext => OpenInv'
<1> SUFFICES ASSUME OpenInv, PrepareNext PROVE OpenInv'
  OBVIOUS
<1> USE DEF vars, provider, report, files
<1>0. "prepare" \in Phases /\ (pc \in PrepareSteps => SpanAt(pc) \subseteq {"prepare"})
  BY Spans DEF Phases
<1>1. CASE Probe
  BY <1>1 DEF Probe, OpenInv, Over
<1>2. CASE StartCollector
  <2>1. \A started \in Bootstrap : started \subseteq {"collector"}
    BY DEF Bootstrap
  <2> QED
    BY <1>0, <1>2, <2>1, Spans, FailMainCloses DEF StartCollector, OpenInv, PrepareSteps, Over
<1>3. CASE StartTelemetry
  <2>1. CASE /\ ready' = ready \cup {"emitter"} /\ open' = open \cup {"run", "prepare"}
             /\ pc' = "backend"
    <3>1. SpanAt(pc) = {"prepare"} /\ SpanAt(pc') = {"prepare"} /\ pc' # "probe" /\ pc' \notin Over
      BY <1>3, <2>1, Spans DEF StartTelemetry, PrepareSteps, Over
    <3>2. QED
      BY <2>1, <3>1 DEF OpenInv
  <2>2. CASE FailMain("prepare", "prepare", "FAILED", NoExec) /\ UNCHANGED ready
    BY <1>0, <1>3, <2>2, FailMainCloses DEF StartTelemetry, PrepareSteps
  <2>3. QED
    BY <1>3, <2>1, <2>2 DEF StartTelemetry
<1>4. CASE ResolveBackend
  BY <1>0, <1>4, Spans, FailMainCloses DEF ResolveBackend, OpenInv, PrepareSteps, Over
<1>5. CASE CreateSandbox
  BY <1>0, <1>5, Spans, FailMainCloses DEF CreateSandbox, OpenInv, PrepareSteps, Over
<1>6. CASE StartSandbox
  BY <1>0, <1>6, Spans, FailMainCloses DEF StartSandbox, OpenInv, PrepareSteps, Over
<1>7. CASE SyncWorkspaceIn
  BY <1>0, <1>7, Spans, FailMainCloses DEF SyncWorkspaceIn, OpenInv, PrepareSteps, Over
<1>8. CASE WriteContext
  BY <1>0, <1>8, Spans, FailMainCloses, AfterTypes
     DEF WriteContext, OpenInv, PrepareSteps, CollectSteps, Over
<1>9. QED
  BY <1>1, <1>2, <1>3, <1>4, <1>5, <1>6, <1>7, <1>8 DEF PrepareNext

\* Setup, execute and verify each open and close one span.
LEMMA OpenMain == OpenInv /\ MainNext => OpenInv'
<1> SUFFICES ASSUME OpenInv, MainNext PROVE OpenInv'
  OBVIOUS
<1> USE DEF vars, provider, report, files
<1>0. /\ {"setup", "execute", "verify"} \subseteq Phases
      /\ pc \in SetupSteps => SpanAt(pc) \subseteq {"setup"}
      /\ pc \in ExecuteSteps => SpanAt(pc) \subseteq {"execute"}
      /\ pc \in VerifySteps => SpanAt(pc) \subseteq {"verify"}
  BY Spans DEF Phases, SetupSteps, ExecuteSteps, VerifySteps
<1>1. CASE PlanSetup
  BY <1>0, <1>1, Spans, FailMainCloses
     DEF PlanSetup, OpenInv, PrepareSteps, SetupSteps, CollectSteps, Over
<1>2. CASE RunSetupStep
  BY <1>0, <1>2, Spans, FailMainCloses, AfterTypes
     DEF RunSetupStep, OpenInv, PrepareSteps, SetupSteps, CollectSteps, Over
<1>3. CASE PrepareCommand
  BY <1>0, <1>3, Spans, FailMainCloses
     DEF PrepareCommand, OpenInv, PrepareSteps, ExecuteSteps, CollectSteps, Over
<1>4. CASE RunCommand
  BY <1>0, <1>4, Spans, FailMainCloses, AfterTypes
     DEF RunCommand, OpenInv, PrepareSteps, ExecuteSteps, CollectSteps, Over
<1>5. CASE CheckSmoke
  BY <1>0, <1>5, Spans, FailMainCloses
     DEF CheckSmoke, OpenInv, PrepareSteps, VerifySteps, CollectSteps, Over
<1>6. CASE RunSmoke
  BY <1>0, <1>6, Spans, FailMainCloses
     DEF RunSmoke, OpenInv, PrepareSteps, VerifySteps, CollectSteps, Over
<1>7. CASE CheckArtifacts
  BY <1>0, <1>7, Spans, FailMainCloses
     DEF CheckArtifacts, OpenInv, PrepareSteps, VerifySteps, CollectSteps, Over
<1>8. QED
  BY <1>1, <1>2, <1>3, <1>4, <1>5, <1>6, <1>7 DEF MainNext

\* Every way out of collect ends its span.
LEMMA OpenCollect == OpenInv /\ (CollectNext \/ Finish \/ Exit \/ Expire) => OpenInv'
<1> SUFFICES ASSUME OpenInv, CollectNext \/ Finish \/ Exit \/ Expire PROVE OpenInv'
  OBVIOUS
<1> USE DEF vars, provider, report, files
<1>1. CASE BeginCollect
  BY <1>1, Spans DEF BeginCollect, OpenInv, PrepareSteps, CollectSteps, Over
<1>2. CASE Finish
  BY <1>2, Spans DEF Finish, OpenInv, PrepareSteps, CollectSteps, Over
<1>3. CASE Exit
  BY <1>3 DEF Exit, OpenInv, Over
<1>4. CASE Expire
  BY <1>4 DEF Expire, OpenInv
<1>5. ASSUME CollectNext, ~BeginCollect
      PROVE  /\ pc \in CollectSteps \ {"collect"} /\ ready' = ready
             /\ \/ pc' \in CollectSteps \ {"collect"} /\ open' = open
                \/ pc' = "finish" /\ open' = open \ {"collect"}
  <2> USE FailCollectEffect DEF CollectSteps
  <2>1. CASE Cleanup
    BY <2>1 DEF Cleanup
  <2>2. CASE WriteReplay
    BY <2>2 DEF WriteReplay
  <2>3. CASE WritePhases
    BY <2>3 DEF WritePhases
  <2>4. CASE WriteResults
    BY <2>4 DEF WriteResults
  <2>5. CASE WriteIndex
    BY <2>5 DEF WriteIndex
  <2>6. CASE Upload
    BY <2>6 DEF Upload
  <2>7. CASE WriteFinalResults
    BY <2>7 DEF WriteFinalResults
  <2>8. CASE WriteFinalIndex
    BY <2>8 DEF WriteFinalIndex
  <2>9. CASE UploadSummary
    BY <2>9 DEF UploadSummary
  <2>10. QED
    BY <1>5, <2>1, <2>2, <2>3, <2>4, <2>5, <2>6, <2>7, <2>8, <2>9 DEF CollectNext
<1>6. CASE CollectNext /\ ~BeginCollect
  BY <1>5, <1>6, Spans DEF OpenInv, PrepareSteps, CollectSteps, Over
<1>7. QED
  BY <1>1, <1>2, <1>3, <1>4, <1>6

\* When Run returns, after whatever failures, its files are closed, its spans
\* ended and its collector process stopped.
THEOREM NothingStaysOpen == Spec => []NothingLeftOpen
<1>1. Init => OpenInv
  BY DEF Init, OpenInv
<1>2. OpenInv /\ [Next]_vars => OpenInv'
  <2>1. OpenInv /\ UNCHANGED vars => OpenInv'
    BY DEF OpenInv, vars
  <2>2. QED
    BY <2>1, OpenPrepare, OpenMain, OpenCollect DEF Next, EngineStep, Done
<1>3. OpenInv => NothingLeftOpen
  BY DEF OpenInv, NothingLeftOpen
<1>4. QED
  BY <1>1, <1>2, <1>3, PTL DEF Spec

-----------------------------------------------------------------------------
(* ExitCodeTellsTruth and FailureIsFinal *)

Bad == {"FAILED", "TIMED_OUT"}

\* What the updates of the result in the code do to its status and exit code.
LEMMA ResultFields ==
  ASSUME TypeOK, NEW s, NEW p
  PROVE  /\ \A e : result' = [result EXCEPT !.status = s, !.phase = p, !.error = e]
                  => result'.status = s /\ result'.exit = result.exit
         /\ result' = [result EXCEPT !.status = s, !.phase = p, !.exit = 0]
              => result'.status = s /\ result'.exit = 0
         /\ result' = [result EXCEPT !.status = s, !.phase = p]
              => result'.status = s /\ result'.exit = result.exit
BY DEF TypeOK, Outcome

\* Cleanup and upload only take away from success.
LEMMA DegradedFields ==
  ASSUME TypeOK
  PROVE  /\ Unclean.exit = result.exit /\ Degraded.exit = result.exit
         /\ Unclean.status = IF result.status = "SUCCEEDED" THEN "PARTIAL" ELSE result.status
         /\ Degraded.status = IF result.status = "SUCCEEDED" THEN "PARTIAL" ELSE result.status
BY DEF TypeOK, Outcome, Unclean, Degraded

\* A failed main phase is reported with an error and a status that agree.
LEMMA FailMainReports ==
  ASSUME NEW p, NEW code, NEW status, NEW exec, FailMain(p, code, status, exec),
         code # "none", status \in Bad
  PROVE  ReportInv' /\ result'.status \in Bad
<1>1. pc' = "collect" /\ runErr' = code /\ result'.status = status
  BY FailMainEffect
<1>2. pc' \notin MainSteps \cup AfterReplay /\ pc' # "exited"
  BY <1>1 DEF MainSteps, PrepareSteps, SetupSteps, ExecuteSteps, VerifySteps,
     AfterReplay, AfterCleanup, Over
<1>3. QED
  BY <1>1, <1>2 DEF ReportInv, Bad, ExitCodeTellsTruth

\* A failure in collect is reported as a failed run.
LEMMA FailCollectReports ==
  ASSUME FailCollect
  PROVE  ReportInv' /\ result'.status \in Bad
<1>1. pc' = "finish" /\ runErr' # "none" /\ result'.status = "FAILED"
  BY FailCollectEffect
<1>2. pc' \notin MainSteps /\ pc' # "exited"
  BY <1>1 DEF MainSteps, PrepareSteps, SetupSteps, ExecuteSteps, VerifySteps
<1>3. QED
  BY <1>1, <1>2 DEF ReportInv, Bad, ExitCodeTellsTruth

\* A step of the main part either fails the run for good or goes on with
\* nothing to report.
LEMMA ReportMain ==
  TypeOK /\ ReportInv /\ (PrepareNext \/ MainNext) => ReportInv'
<1> SUFFICES ASSUME TypeOK, ReportInv, PrepareNext \/ MainNext PROVE ReportInv'
  OBVIOUS
<1> USE DEF vars, provider, report, files
<1>1. CASE Probe
  <2>1. CASE pc' = "collector" /\ UNCHANGED report
    BY <1>1, <2>1 DEF Probe, ReportInv, MainSteps, PrepareSteps, AfterReplay,
       AfterCleanup, CollectSteps, Over, ExitCodeTellsTruth
  <2>2. CASE /\ pc' = "returned" /\ runErr' = "prepare" /\ uploadErr' = uploadErr
             /\ result' = [result EXCEPT !.status = "FAILED", !.phase = "prepare",
                                         !.error = "prepare"]
    <3>1. result'.status = "FAILED"
      BY <2>2, ResultFields
    <3>2. pc' \notin MainSteps /\ pc' # "exited"
      BY <2>2 DEF MainSteps, PrepareSteps, SetupSteps, ExecuteSteps, VerifySteps
    <3>3. QED
      BY <2>2, <3>1, <3>2 DEF ReportInv, ExitCodeTellsTruth
  <2>3. QED
    BY <1>1, <2>1, <2>2 DEF Probe
<1>2. ASSUME ~Probe
      PROVE  \/ ReportInv'
             \/ /\ pc \in MainSteps /\ pc' \in MainSteps \cup {"collect"}
                /\ runErr' = runErr /\ uploadErr' = uploadErr
                /\ result'.status \in {result.status, "SUCCEEDED"}
                /\ result'.exit \in {result.exit, 0}
  <2> USE DEF MainSteps, PrepareSteps, SetupSteps, ExecuteSteps, VerifySteps, Bad
  <2>1. CASE StartCollector
    BY <2>1, FailMainReports DEF StartCollector, Bootstrap
  <2>2. CASE StartTelemetry
    BY <2>2, FailMainReports DEF StartTelemetry
  <2>3. CASE ResolveBackend
    BY <2>3, FailMainReports DEF ResolveBackend
  <2>4. CASE CreateSandbox
    BY <2>4, FailMainReports DEF CreateSandbox
  <2>5. CASE StartSandbox
    BY <2>5, FailMainReports DEF StartSandbox
  <2>6. CASE SyncWorkspaceIn
    BY <2>6, FailMainReports DEF SyncWorkspaceIn
  <2>7. CASE WriteContext
    <3>1. CASE /\ result' = [result EXCEPT !.status = "SUCCEEDED", !.phase = "prepare",
                                           !.exit = 0]
               /\ pc' = AfterPrepare /\ UNCHANGED <<runErr, uploadErr>>
      BY <2>7, <3>1, ResultFields, AfterTypes DEF WriteContext
    <3>2. CASE FailMain("prepare", "prepare", "FAILED", NoExec)
      BY <3>2, FailMainReports
    <3>3. QED
      BY <2>7, <3>1, <3>2 DEF WriteContext
  <2>8. CASE PlanSetup
    BY <2>8, FailMainReports DEF PlanSetup
  <2>9. CASE RunSetupStep
    BY <2>9, FailMainReports, AfterTypes DEF RunSetupStep
  <2>10. CASE PrepareCommand
    BY <2>10, FailMainReports DEF PrepareCommand
  <2>11. CASE RunCommand
    <3>1. CASE /\ result' = [result EXCEPT !.status = "SUCCEEDED", !.phase = "execute",
                                           !.exit = 0]
               /\ pc' = AfterExecute /\ UNCHANGED <<runErr, uploadErr>>
      BY <2>11, <3>1, ResultFields, AfterTypes DEF RunCommand
    <3>2. CASE \E r \in ExecResults : \/ FailMain("execute", "timeout", "TIMED_OUT", r)
                                      \/ FailMain("execute", "execute", "FAILED", r)
      BY <3>2, FailMainReports
    <3>3. QED
      BY <2>11, <3>1, <3>2 DEF RunCommand
  <2>12. CASE CheckSmoke
    BY <2>12, FailMainReports DEF CheckSmoke
  <2>13. CASE RunSmoke
    BY <2>13, FailMainReports DEF RunSmoke
  <2>14. CASE CheckArtifacts
    <3>1. CASE /\ result' = [result EXCEPT !.status = "SUCCEEDED", !.phase = "verify"]
               /\ pc' = "collect" /\ UNCHANGED <<runErr, uploadErr>>
      BY <2>14, <3>1, ResultFields DEF CheckArtifacts
    <3>2. CASE FailMain("verify", "verify", "FAILED", NoExec)
      BY <3>2, FailMainReports
    <3>3. QED
      BY <2>14, <3>1, <3>2 DEF CheckArtifacts
  <2>15. QED
    BY <1>2, <2>1, <2>2, <2>3, <2>4, <2>5, <2>6, <2>7, <2>8, <2>9, <2>10, <2>11,
       <2>12, <2>13, <2>14 DEF PrepareNext, MainNext
<1>3. CASE ~Probe
  <2>1. pc' \in MainSteps \cup {"collect"} => pc' \notin AfterReplay /\ pc' # "exited"
    BY DEF MainSteps, PrepareSteps, SetupSteps, ExecuteSteps, VerifySteps,
       AfterReplay, AfterCleanup, CollectSteps, Over
  <2>2. QED
    BY <1>2, <1>3, <2>1 DEF ReportInv, ExitCodeTellsTruth
<1>4. QED
  BY <1>1, <1>3

\* Collect never improves a result, and turns CREATED into SUCCEEDED only when
\* nothing has gone wrong.
LEMMA ReportCollect ==
  TypeOK /\ ReportInv /\ (CollectNext \/ Finish \/ Exit \/ Expire)
    => /\ ReportInv'
       /\ result.status \in Bad => result'.status \in Bad
<1> SUFFICES ASSUME TypeOK, ReportInv, CollectNext \/ Finish \/ Exit \/ Expire
             PROVE  ReportInv' /\ (result.status \in Bad => result'.status \in Bad)
  OBVIOUS
<1> USE DEF vars, provider, report, files
<1>0. CollectSteps \cup {"finish"} \cup Over \subseteq
        (AfterReplay \cup {"collect", "cleanup", "replay"}) \ MainSteps
  BY DEF AfterReplay, AfterCleanup, CollectSteps, Over, MainSteps, PrepareSteps,
     SetupSteps, ExecuteSteps, VerifySteps
<1>1. CASE BeginCollect
  BY <1>0, <1>1 DEF BeginCollect, ReportInv, CollectSteps, AfterReplay, AfterCleanup, Over,
     ExitCodeTellsTruth
<1>2. CASE Cleanup
  <2>1. result'.exit = result.exit /\ result'.status \in {result.status, Unclean.status}
    BY <1>2, DegradedFields DEF Cleanup
  <2>2. pc' \notin MainSteps /\ pc' \notin AfterReplay /\ pc' # "exited"
    BY <1>0, <1>2 DEF Cleanup, CollectSteps, AfterReplay, AfterCleanup, Over
  <2>3. QED
    BY <1>2, <2>1, <2>2, DegradedFields DEF Cleanup, ReportInv, Bad, ExitCodeTellsTruth
<1>3. CASE WriteReplay
  <2>1. CASE /\ result' = [result EXCEPT !.phase = "collect",
                  !.status = IF @ = "CREATED" THEN "SUCCEEDED" ELSE @]
             /\ pc' = "phases" /\ UNCHANGED <<runErr, uploadErr>>
    <3>1. /\ result'.exit = result.exit
          /\ result'.status = IF result.status = "CREATED" THEN "SUCCEEDED" ELSE result.status
      BY <2>1 DEF TypeOK, Outcome
    <3>2. QED
      BY <1>0, <2>1, <3>1 DEF ReportInv, Bad, CollectSteps, ExitCodeTellsTruth
  <2>2. CASE FailCollect
    BY <2>2, FailCollectReports
  <2>3. QED
    BY <1>3, <2>1, <2>2 DEF WriteReplay
<1>4. ASSUME CollectNext, ~BeginCollect, ~Cleanup, ~WriteReplay
      PROVE  \/ ReportInv' /\ result'.status \in Bad
             \/ /\ pc \in AfterReplay /\ pc' \in AfterReplay \ {"exited"}
                /\ pc' \notin MainSteps
                /\ \/ UNCHANGED <<result, runErr, uploadErr>>
                   \/ result' = Degraded /\ uploadErr' /\ runErr' = runErr
                   \/ /\ result' = Degraded /\ uploadErr' = uploadErr
                      /\ runErr' = IF runErr = "none" THEN "upload" ELSE runErr
                   \/ /\ UNCHANGED <<result, uploadErr>> /\ uploadErr
                      /\ runErr' = IF runErr = "none" THEN "upload" ELSE runErr
  <2> USE <1>0, FailCollectReports DEF AfterReplay, AfterCleanup, CollectSteps, Over
  <2>1. CASE WritePhases
    BY <2>1 DEF WritePhases
  <2>2. CASE WriteResults
    BY <2>2 DEF WriteResults
  <2>3. CASE WriteIndex
    BY <2>3 DEF WriteIndex
  <2>4. CASE Upload
    BY <2>4 DEF Upload
  <2>5. CASE WriteFinalResults
    BY <2>5 DEF WriteFinalResults
  <2>6. CASE WriteFinalIndex
    BY <2>6 DEF WriteFinalIndex
  <2>7. CASE UploadSummary
    BY <2>7 DEF UploadSummary
  <2>8. QED
    BY <1>4, <2>1, <2>2, <2>3, <2>4, <2>5, <2>6, <2>7 DEF CollectNext
<1>5. CASE CollectNext /\ ~BeginCollect /\ ~Cleanup /\ ~WriteReplay
  <2> SUFFICES ASSUME ~(ReportInv' /\ result'.status \in Bad)
               PROVE  ReportInv' /\ (result.status \in Bad => result'.status \in Bad)
    OBVIOUS
  <2>1. pc \in AfterReplay /\ pc' \in AfterReplay \ {"exited"} /\ pc' \notin MainSteps
    BY <1>4, <1>5
  <2>2. CASE UNCHANGED <<result, runErr, uploadErr>>
    BY <2>1, <2>2 DEF ReportInv, ExitCodeTellsTruth
  <2>3. CASE result' = Degraded /\ uploadErr' /\ runErr' = runErr
    BY <2>1, <2>3, DegradedFields DEF ReportInv, Bad, ExitCodeTellsTruth
  <2>4. CASE /\ result' = Degraded /\ uploadErr' = uploadErr
             /\ runErr' = IF runErr = "none" THEN "upload" ELSE runErr
    BY <2>1, <2>4, DegradedFields DEF ReportInv, Bad, ExitCodeTellsTruth
  <2>5. CASE /\ UNCHANGED <<result, uploadErr>> /\ uploadErr
             /\ runErr' = IF runErr = "none" THEN "upload" ELSE runErr
    BY <2>1, <2>5 DEF ReportInv, Bad, ExitCodeTellsTruth
  <2>6. QED
    BY <1>4, <1>5, <2>2, <2>3, <2>4, <2>5
<1>6. CASE Finish
  BY <1>0, <1>6 DEF Finish, ReportInv, ExitCodeTellsTruth, AfterReplay, AfterCleanup, Over
<1>7. CASE Exit
  <2>1. exitCode' = 0 => runErr = "none" /\ result.exit = 0
    BY <1>7 DEF Exit
  <2>2. runErr = "none" => exitCode' = result.exit
    BY <1>7 DEF Exit
  <2>3. pc \in AfterReplay /\ pc' \in AfterReplay /\ pc' \notin MainSteps
    BY <1>0, <1>7 DEF Exit, AfterReplay, AfterCleanup, CollectSteps, Over
  <2>4. QED
    BY <1>7, <2>1, <2>2, <2>3 DEF Exit, ReportInv, ExitCodeTellsTruth
<1>8. CASE Expire
  BY <1>8 DEF Expire, ReportInv, ExitCodeTellsTruth
<1>9. QED
  BY <1>1, <1>2, <1>3, <1>5, <1>6, <1>7, <1>8

\* ReportInv is inductive, given the types.
LEMMA ReportStep == TypeOK /\ ReportInv /\ [Next]_vars => ReportInv'
<1>1. ReportInv /\ UNCHANGED vars => ReportInv'
  BY DEF ReportInv, ExitCodeTellsTruth, vars, report
<1>2. QED
  BY <1>1, ReportMain, ReportCollect DEF Next, EngineStep, Done

\* Every run keeps ReportInv.
LEMMA ReportAlways == Spec => []ReportInv
<1>1. Init => ReportInv
  BY DEF Init, ReportInv, Blank, AfterReplay, AfterCleanup, CollectSteps, Over,
     ExitCodeTellsTruth
<1>2. QED
  BY <1>1, ReportStep, TypeCorrect, PTL DEF Spec

\* The process exits with 0 only for a run without an error whose status is
\* SUCCEEDED or PARTIAL, and always for a successful one.
THEOREM ExitCodeIsTrue == Spec => []ExitCodeTellsTruth
<1>1. ReportInv => ExitCodeTellsTruth
  BY DEF ReportInv
<1>2. QED
  BY <1>1, ReportAlways, PTL

\* No step of any run turns a FAILED or TIMED_OUT result into a better one.
THEOREM FailureStays == Spec => FailureIsFinal
<1>1. TypeOK /\ ReportInv /\ [Next]_vars =>
        [result.status \in {"FAILED", "TIMED_OUT"}
           => result'.status \in {"FAILED", "TIMED_OUT"}]_vars
  <2> SUFFICES ASSUME TypeOK, ReportInv, Next, result.status \in Bad
               PROVE  result'.status \in Bad
    BY DEF Bad
  <2>1. pc \notin MainSteps
    BY DEF ReportInv, Bad
  <2>2. ~PrepareNext /\ ~MainNext
    BY <2>1 DEF MainSteps, PrepareSteps, SetupSteps, ExecuteSteps, VerifySteps,
       PrepareNext, Probe, StartCollector, StartTelemetry, ResolveBackend, CreateSandbox,
       StartSandbox, SyncWorkspaceIn, WriteContext, MainNext, PlanSetup, RunSetupStep,
       PrepareCommand, RunCommand, CheckSmoke, RunSmoke, CheckArtifacts
  <2>3. CASE Done
    BY <2>3 DEF Done, vars, report
  <2>4. QED
    BY <2>2, <2>3, ReportCollect DEF Next, EngineStep
<1>2. QED
  BY <1>1, TypeCorrect, ReportAlways, PTL DEF Spec, FailureIsFinal

-----------------------------------------------------------------------------
(* The phases of a run and their places *)

\* One if b holds, to count the enabled phases.
One(b) == IF b THEN 1 ELSE 0

\* The place of a phase among those of this run, if it is enabled.
Place(p) ==
  CASE p = "prepare" -> 1
    [] p = "setup" -> 2
    [] p = "execute" -> 2 + One(cfg.setup)
    [] p = "verify" -> 2 + One(cfg.setup) + One(cfg.execute)
    [] p = "collect" -> 2 + One(cfg.setup) + One(cfg.execute) + One(cfg.verify)

Enabled(p) == p \in {"setup", "execute", "verify"} => cfg[p]

\* The places, one by one.
LEMMA PlaceValues ==
  /\ Place("prepare") = 1 /\ Place("setup") = 2
  /\ Place("execute") = 2 + One(cfg.setup)
  /\ Place("verify") = 2 + One(cfg.setup) + One(cfg.execute)
  /\ Place("collect") = 2 + One(cfg.setup) + One(cfg.execute) + One(cfg.verify)
  /\ \A b : One(b) \in {0, 1}
BY DEF Place, One

\* EnabledPhases lists the enabled phases, each at its place, and nothing else.
LEMMA PhasesInOrder ==
  ASSUME TypeOK
  PROVE  /\ Len(EnabledPhases) = Place("collect")
         /\ \A p \in Phases : Enabled(p) =>
              Place(p) \in 1 .. Place("collect") /\ EnabledPhases[Place(p)] = p
         /\ \A i \in 1 .. Place("collect") :
              /\ EnabledPhases[i] \in Phases /\ Enabled(EnabledPhases[i])
              /\ Place(EnabledPhases[i]) = i
<1> USE DEF Place, One, Enabled, Phases, EnabledPhases
<1>1. CASE cfg.setup /\ cfg.execute /\ cfg.verify
  BY <1>1
<1>2. CASE cfg.setup /\ cfg.execute /\ ~cfg.verify
  BY <1>2
<1>3. CASE cfg.setup /\ ~cfg.execute /\ cfg.verify
  BY <1>3
<1>4. CASE cfg.setup /\ ~cfg.execute /\ ~cfg.verify
  BY <1>4
<1>5. CASE ~cfg.setup /\ cfg.execute /\ cfg.verify
  BY <1>5
<1>6. CASE ~cfg.setup /\ cfg.execute /\ ~cfg.verify
  BY <1>6
<1>7. CASE ~cfg.setup /\ ~cfg.execute /\ cfg.verify
  BY <1>7
<1>8. CASE ~cfg.setup /\ ~cfg.execute /\ ~cfg.verify
  BY <1>8
<1>9. QED
  BY <1>1, <1>2, <1>3, <1>4, <1>5, <1>6, <1>7, <1>8

\* The phase the engine is in at c.
PhaseAt(c) ==
  CASE c \in PrepareSteps -> "prepare"
    [] c \in SetupSteps -> "setup"
    [] c \in ExecuteSteps -> "execute"
    [] c \in VerifySteps -> "verify"
    [] OTHER -> "collect"

\* Where the engine goes on after p has ended well.
Follows(p) ==
  CASE p = "prepare" -> AfterPrepare
    [] p = "setup" -> AfterSetup
    [] p = "execute" -> AfterExecute
    [] p = "verify" -> "collect"

\* A step of a main phase goes on with it, ends it well, or fails it and the main part with it.
GoesOn ==
  /\ pc' \in MainSteps \ {"probe"} /\ PhaseAt(pc') = PhaseAt(pc)
  /\ phaseResults' = phaseResults /\ result' = result

EndsWell ==
  \E e \in Outcome :
    /\ e.phase = PhaseAt(pc) /\ e.status = "SUCCEEDED"
    /\ phaseResults' = Append(phaseResults, e)
    /\ pc' = Follows(PhaseAt(pc))
    /\ result'.status = "SUCCEEDED" \/ (pc = "setupStep" /\ result' = result)

Fails ==
  \E e \in Outcome :
    /\ e.phase = PhaseAt(pc) /\ e.status \in Bad
    /\ phaseResults' = Append(phaseResults, e)
    /\ pc' = "collect" /\ result' = e /\ runErr' = e.error

\* The phase of each call of the engine.
LEMMA PhaseAtSteps ==
  ASSUME NEW c
  PROVE  /\ c \in PrepareSteps => PhaseAt(c) = "prepare"
         /\ c \in SetupSteps => PhaseAt(c) = "setup"
         /\ c \in ExecuteSteps => PhaseAt(c) = "execute"
         /\ c \in VerifySteps => PhaseAt(c) = "verify"
         /\ c = "collect" => PhaseAt(c) = "collect"
         /\ PhaseAt(c) \in Phases
         /\ c \in MainSteps => PhaseAt(c) # "collect"
<1> USE DEF PrepareSteps, SetupSteps, ExecuteSteps, VerifySteps, MainSteps, Phases
<1>1. c \in PrepareSteps => PhaseAt(c) = "prepare"
  BY DEF PhaseAt
<1>2. c \in SetupSteps => PhaseAt(c) = "setup"
  BY DEF PhaseAt
<1>3. c \in ExecuteSteps => PhaseAt(c) = "execute"
  BY DEF PhaseAt
<1>4. c \in VerifySteps => PhaseAt(c) = "verify"
  BY DEF PhaseAt
<1>5. c \notin MainSteps => PhaseAt(c) = "collect"
  BY DEF PhaseAt
<1>6. QED
  BY <1>1, <1>2, <1>3, <1>4, <1>5

\* The phase that follows is enabled and has the next place: none is skipped, none
\* is run twice.
LEMMA FollowsPlace ==
  ASSUME NEW p \in Phases \ {"collect"}, Enabled(p)
  PROVE  /\ Follows(p) \in {"setup", "execute", "verify", "collect"}
         /\ Enabled(PhaseAt(Follows(p)))
         /\ Place(PhaseAt(Follows(p))) = Place(p) + 1
<1> USE DEF Follows, AfterPrepare, AfterSetup, AfterExecute, Enabled, Phases
<1>1. /\ PhaseAt("setup") = "setup" /\ PhaseAt("execute") = "execute"
      /\ PhaseAt("verify") = "verify" /\ PhaseAt("collect") = "collect"
  BY PhaseAtSteps DEF SetupSteps, ExecuteSteps, VerifySteps
<1>2. CASE p = "prepare"
  BY <1>1, <1>2 DEF Place, One
<1>3. CASE p = "setup"
  BY <1>1, <1>3 DEF Place, One
<1>4. CASE p = "execute"
  BY <1>1, <1>4 DEF Place, One
<1>5. CASE p = "verify"
  BY <1>1, <1>5 DEF Place, One
<1>6. QED
  BY <1>2, <1>3, <1>4, <1>5

\* FailMain adds the entry of the phase that failed and reports it as it is.
LEMMA FailMainFails ==
  ASSUME TypeOK, NEW p \in Phases, NEW code \in Errors, NEW status \in Bad,
         NEW exec \in ExecResults, FailMain(p, code, status, exec), PhaseAt(pc) = p
  PROVE  Fails
<1> DEFINE end == [phase |-> p, status |-> status, error |-> code,
                   exit |-> exec.exit, timedOut |-> exec.timedOut]
<1>1. exec.exit \in ExitCodes /\ exec.timedOut \in BOOLEAN
  BY DEF ExecResults
<1>2. end \in Outcome
  BY <1>1 DEF Outcome, Bad, Statuses
<1>3. result' = end /\ phaseResults' = Append(phaseResults, end) /\ runErr' = code /\ pc' = "collect"
  BY DEF FailMain, FailPhase
<1>4. end.phase = PhaseAt(pc) /\ end.status \in Bad /\ end.error = code
  OBVIOUS
<1>5. QED
  BY <1>2, <1>3, <1>4 DEF Fails

\* AddSuccess adds the entry of the phase that the engine is in.
LEMMA AddSuccessEnds ==
  ASSUME TypeOK, NEW p \in Phases, NEW exec \in ExecResults, AddSuccess(p, exec), PhaseAt(pc) = p,
         pc' = Follows(p), result'.status = "SUCCEEDED" \/ (pc = "setupStep" /\ result' = result)
  PROVE  EndsWell
<1> DEFINE end == [phase |-> p, status |-> "SUCCEEDED", error |-> "none",
                   exit |-> exec.exit, timedOut |-> exec.timedOut]
<1>1. end \in Outcome
  BY DEF ExecResults, Outcome, Statuses, Errors
<1>2. phaseResults' = Append(phaseResults, end)
  BY DEF AddSuccess
<1>3. end.phase = PhaseAt(pc) /\ end.status = "SUCCEEDED"
  OBVIOUS
<1>4. QED
  BY <1>1, <1>2, <1>3 DEF EndsWell

\* Every step of prepare behind the probe goes on, ends it well or fails it.
LEMMA PrepareEffect ==
  ASSUME TypeOK, PrepareNext, ~Probe
  PROVE  pc \in PrepareSteps \ {"probe"} /\ (GoesOn \/ EndsWell \/ Fails)
<1> USE NoExecIsResult DEF vars, provider, report, files
<1>0. /\ "prepare" \in Phases /\ "prepare" \in Errors /\ "FAILED" \in Bad
      /\ \A c \in PrepareSteps : PhaseAt(c) = "prepare" /\ c \in MainSteps
      /\ Follows("prepare") = AfterPrepare
  BY PhaseAtSteps DEF Phases, Errors, Bad, MainSteps, Follows
<1>f. ASSUME pc \in PrepareSteps, FailMain("prepare", "prepare", "FAILED", NoExec)
      PROVE  Fails
  BY <1>0, <1>f, FailMainFails
<1>2. CASE StartCollector
  BY <1>0, <1>f, <1>2 DEF StartCollector, GoesOn, PrepareSteps
<1>3. CASE StartTelemetry
  BY <1>0, <1>f, <1>3 DEF StartTelemetry, GoesOn, PrepareSteps
<1>4. CASE ResolveBackend
  BY <1>0, <1>f, <1>4 DEF ResolveBackend, GoesOn, PrepareSteps
<1>5. CASE CreateSandbox
  BY <1>0, <1>f, <1>5 DEF CreateSandbox, GoesOn, PrepareSteps
<1>6. CASE StartSandbox
  BY <1>0, <1>f, <1>6 DEF StartSandbox, GoesOn, PrepareSteps
<1>7. CASE SyncWorkspaceIn
  BY <1>0, <1>f, <1>7 DEF SyncWorkspaceIn, GoesOn, PrepareSteps
<1>8. CASE WriteContext
  <2>1. pc \in PrepareSteps \ {"probe"} /\ PhaseAt(pc) = "prepare"
    BY <1>0, <1>8 DEF WriteContext, PrepareSteps
  <2>2. CASE AddSuccess("prepare", NoExec) /\ pc' = AfterPrepare
             /\ result' = [result EXCEPT !.status = "SUCCEEDED", !.phase = "prepare", !.exit = 0]
    BY <1>0, <2>1, <2>2, ResultFields, AddSuccessEnds
  <2>3. QED
    BY <1>f, <1>8, <2>1, <2>2 DEF WriteContext
<1>9. QED
  BY <1>2, <1>3, <1>4, <1>5, <1>6, <1>7, <1>8 DEF PrepareNext

\* So does every step of setup, execute and verify, with its own phase.
LEMMA MainEffect ==
  ASSUME TypeOK, MainNext
  PROVE  pc \in MainSteps \ PrepareSteps /\ (GoesOn \/ EndsWell \/ Fails)
<1> USE NoExecIsResult DEF vars, provider, report, files
<1>0. /\ {"setup", "execute", "verify"} \subseteq Phases
      /\ {"setup", "execute", "timeout", "verify"} \subseteq Errors
      /\ "FAILED" \in Bad /\ "TIMED_OUT" \in Bad
      /\ Follows("setup") = AfterSetup /\ Follows("execute") = AfterExecute
      /\ Follows("verify") = "collect"
  BY DEF Phases, Errors, Bad, Follows
<1>p. /\ PhaseAt("setup") = "setup" /\ PhaseAt("setupStep") = "setup"
      /\ PhaseAt("execute") = "execute" /\ PhaseAt("run") = "execute"
      /\ PhaseAt("verify") = "verify" /\ PhaseAt("smoke") = "verify"
      /\ PhaseAt("expected") = "verify"
      /\ {"setup", "setupStep", "execute", "run", "verify", "smoke", "expected"}
           \subseteq MainSteps \ PrepareSteps
  BY PhaseAtSteps DEF SetupSteps, ExecuteSteps, VerifySteps, MainSteps, PrepareSteps
<1>1. CASE PlanSetup
  BY <1>0, <1>p, <1>1, FailMainFails DEF PlanSetup, GoesOn
<1>2. CASE RunSetupStep
  <2>1. CASE UNCHANGED <<pc, open, report>>
    BY <1>p, <1>2, <2>1 DEF RunSetupStep, GoesOn
  <2>2. CASE \E r \in ExecResults : FailMain("setup", "setup", "FAILED", r)
    BY <1>0, <1>p, <1>2, <2>2, FailMainFails DEF RunSetupStep
  <2>3. CASE AddSuccess("setup", NoExec) /\ pc' = AfterSetup /\ result' = result
    BY <1>0, <1>p, <1>2, <2>3, AddSuccessEnds DEF RunSetupStep
  <2>4. QED
    BY <1>2, <1>p, <2>1, <2>2, <2>3 DEF RunSetupStep
<1>3. CASE PrepareCommand
  BY <1>0, <1>p, <1>3, FailMainFails DEF PrepareCommand, GoesOn
<1>4. CASE RunCommand
  <2>1. PICK r \in ExecResults :
          \/ /\ AddSuccess("execute", r)
             /\ result' = [result EXCEPT !.status = "SUCCEEDED", !.phase = "execute",
                                         !.exit = 0]
             /\ pc' = AfterExecute
          \/ FailMain("execute", "timeout", "TIMED_OUT", r)
          \/ FailMain("execute", "execute", "FAILED", r)
    BY <1>4 DEF RunCommand
  <2>2. pc = "run"
    BY <1>4 DEF RunCommand
  <2>3. CASE /\ AddSuccess("execute", r)
             /\ result' = [result EXCEPT !.status = "SUCCEEDED", !.phase = "execute",
                                         !.exit = 0]
             /\ pc' = AfterExecute
    BY <1>0, <1>p, <2>2, <2>3, ResultFields, AddSuccessEnds
  <2>4. CASE \/ FailMain("execute", "timeout", "TIMED_OUT", r)
             \/ FailMain("execute", "execute", "FAILED", r)
    BY <1>0, <1>p, <2>2, <2>4, FailMainFails
  <2>5. QED
    BY <1>p, <2>1, <2>2, <2>3, <2>4
<1>5. CASE CheckSmoke
  BY <1>0, <1>p, <1>5, FailMainFails DEF CheckSmoke, GoesOn
<1>6. CASE RunSmoke
  BY <1>0, <1>p, <1>6, FailMainFails DEF RunSmoke, GoesOn
<1>7. CASE CheckArtifacts
  <2>1. CASE /\ AddSuccess("verify", NoExec) /\ pc' = "collect"
             /\ result' = [result EXCEPT !.status = "SUCCEEDED", !.phase = "verify"]
    BY <1>0, <1>p, <1>7, <2>1, ResultFields, AddSuccessEnds DEF CheckArtifacts
  <2>2. CASE FailMain("verify", "verify", "FAILED", NoExec)
    BY <1>0, <1>p, <1>7, <2>2, FailMainFails DEF CheckArtifacts
  <2>3. QED
    BY <1>7, <1>p, <2>1, <2>2 DEF CheckArtifacts
<1>8. QED
  BY <1>1, <1>2, <1>3, <1>4, <1>5, <1>6, <1>7 DEF MainNext

-----------------------------------------------------------------------------
(* The entries of the phases *)

\* The first n entries are those of the first n enabled phases, all successful.
WentWell(n) ==
  \A i \in 1 .. n : /\ phaseResults[i].phase = EnabledPhases[i]
                    /\ phaseResults[i].status = "SUCCEEDED"

\* The main part ended with entry k: it failed there, or it is the last one.
MainEnded(k) ==
  /\ k \in 1 .. Place("collect") - 1 /\ k <= Len(phaseResults)
  /\ WentWell(k - 1)
  /\ phaseResults[k].phase = EnabledPhases[k]
  /\ \/ phaseResults[k].status \in Bad
     \/ k = Place("collect") - 1 /\ phaseResults[k].status = "SUCCEEDED"

\* If entry k failed, it is what Run reports, as the result of phase p.
Reported(k, p) ==
  phaseResults[k].status \in Bad =>
    result = [phaseResults[k] EXCEPT !.phase = p] /\ runErr = phaseResults[k].error

\* Behind entry k stands the entry of a collect that has not failed.
CollectOk(k) ==
  /\ Len(phaseResults) = k + 1
  /\ phaseResults[k + 1].phase = "collect" /\ phaseResults[k + 1].status = "SUCCEEDED"
  /\ Reported(k, "collect")

\* Behind entry k stand entries of collect, the last of them a failure.
CollectFailed(k) ==
  /\ Len(phaseResults) > k
  /\ \A i \in k + 1 .. Len(phaseResults) : phaseResults[i].phase = "collect"
  /\ phaseResults[Len(phaseResults)].status = "FAILED"
  /\ result.status = "FAILED"

\* Run returned before there was an artifact directory.
Refused ==
  pc \in Over /\ phaseResults = <<>> /\ result.status = "FAILED" /\ "writer" \notin ready

Returning == {"finish"} \cup Over

\* What phases.json will say, and how the result follows from it.
TraceInv ==
  /\ pc = "probe" => ready = {}
  /\ pc \notin {"probe"} \cup Over => "writer" \in ready
  /\ pc \in MainSteps =>
       /\ Enabled(PhaseAt(pc))
       /\ Len(phaseResults) = Place(PhaseAt(pc)) - 1 /\ WentWell(Len(phaseResults))
       /\ PhaseAt(pc) # "prepare" => result.status # "CREATED"
  /\ pc \in {"collect", "cleanup", "replay"} =>
       /\ MainEnded(Len(phaseResults)) /\ result.status # "CREATED"
       /\ Reported(Len(phaseResults), phaseResults[Len(phaseResults)].phase)
  /\ pc \in AfterReplay \ Returning => \E k \in Nat : MainEnded(k) /\ CollectOk(k)
  /\ pc \in Returning =>
       \/ Refused
       \/ \E k \in Nat : MainEnded(k) /\ (CollectOk(k) \/ CollectFailed(k))

\* Entries that have been appended stay where they are.
LEMMA Appended ==
  ASSUME TypeOK, NEW e \in Outcome, phaseResults' = Append(phaseResults, e)
  PROVE  /\ Len(phaseResults) \in Nat /\ Len(phaseResults') = Len(phaseResults) + 1
         /\ \A i \in 1 .. Len(phaseResults) : phaseResults'[i] = phaseResults[i]
         /\ phaseResults'[Len(phaseResults) + 1] = e
BY DEF TypeOK

\* The places of the phases do not change in a run.
LEMMA SamePlaces ==
  ASSUME cfg' = cfg
  PROVE  /\ EnabledPhases' = EnabledPhases
         /\ \A p : Place(p)' = Place(p) /\ Enabled(p)' = Enabled(p)
BY DEF EnabledPhases, Place, Enabled

\* What has been said of the first entries stays true.
LEMMA TraceGrows ==
  ASSUME TypeOK, cfg' = cfg,
         phaseResults' = phaseResults \/ \E e \in Outcome : phaseResults' = Append(phaseResults, e)
  PROVE  /\ \A n \in Nat : n <= Len(phaseResults) /\ WentWell(n) => WentWell(n)'
         /\ \A k \in Nat : MainEnded(k) => MainEnded(k)'
<1>1. /\ Len(phaseResults) \in Nat /\ Len(phaseResults') >= Len(phaseResults)
      /\ Len(phaseResults') \in Nat
      /\ \A i \in 1 .. Len(phaseResults) : phaseResults'[i] = phaseResults[i]
  BY Appended DEF TypeOK
<1>2. /\ EnabledPhases' = EnabledPhases /\ Place("collect")' = Place("collect")
      /\ Place("collect") \in Nat
  BY SamePlaces, PlaceValues
<1>3. \A n \in Nat : n <= Len(phaseResults) /\ WentWell(n) => WentWell(n)'
  BY <1>1, <1>2 DEF WentWell
<1>4. ASSUME NEW k \in Nat, MainEnded(k) PROVE MainEnded(k)'
  <2>1. /\ k \in 1 .. Place("collect") - 1 /\ k <= Len(phaseResults)
        /\ WentWell(k - 1) /\ phaseResults[k].phase = EnabledPhases[k]
        /\ \/ phaseResults[k].status \in Bad
           \/ k = Place("collect") - 1 /\ phaseResults[k].status = "SUCCEEDED"
    BY <1>4 DEF MainEnded
  <2>2. k - 1 \in Nat /\ k - 1 <= Len(phaseResults) /\ phaseResults'[k] = phaseResults[k]
        /\ k <= Len(phaseResults')
    BY <1>1, <2>1
  <2>3. WentWell(k - 1)'
    BY <1>3, <2>1, <2>2
  <2>4. QED
    BY <1>2, <2>1, <2>2, <2>3 DEF MainEnded
<1>5. QED
  BY <1>3, <1>4

\* What a step of the main part leaves alone.
LEMMA MainFrame ==
  ASSUME PrepareNext \/ MainNext
  PROVE  /\ UNCHANGED <<cfg, settled, results, index, phases, exitCode>>
         /\ ~Probe => ready \subseteq ready'
<1> USE DEF vars, provider, report, files
<1>1. CASE PrepareNext
  BY <1>1 DEF PrepareNext, Probe, StartCollector, StartTelemetry, ResolveBackend, CreateSandbox,
       StartSandbox, SyncWorkspaceIn, WriteContext
<1>2. CASE MainNext
  BY <1>2 DEF MainNext, PlanSetup, RunSetupStep, PrepareCommand, RunCommand, CheckSmoke,
       RunSmoke, CheckArtifacts
<1>3. QED
  BY <1>1, <1>2

\* Places in the code, apart from each other.
LEMMA PartsOfRun ==
  /\ MainSteps \cap (CollectSteps \cup Returning) = {}
  /\ AfterReplay \subseteq CollectSteps \cup Returning
  /\ "collect" \notin Returning \cup AfterReplay /\ "probe" \in MainSteps
  /\ {"cleanup", "replay"} \cap (AfterReplay \cup {"probe"}) = {}
BY DEF MainSteps, PrepareSteps, SetupSteps, ExecuteSteps, VerifySteps, AfterReplay,
   AfterCleanup, CollectSteps, Returning, Over

\* The request that is turned down in prepare.
LEMMA TraceProbe == TypeOK /\ TraceInv /\ Probe => TraceInv'
<1> SUFFICES ASSUME TypeOK, TraceInv, Probe PROVE TraceInv'
  OBVIOUS
<1> USE DEF report
<1>1. /\ pc = "probe" /\ ready = {} /\ cfg' = cfg /\ PhaseAt("probe") = "prepare"
      /\ PhaseAt("collector") = "prepare" /\ Place("prepare") = 1 /\ Len(phaseResults) = 0
      /\ phaseResults = <<>>
  <2>1. pc = "probe" /\ cfg' = cfg /\ pc \in MainSteps
    BY PartsOfRun DEF Probe
  <2>2. /\ PhaseAt("probe") = "prepare" /\ PhaseAt("collector") = "prepare"
        /\ Place("prepare") = 1
    BY PhaseAtSteps, PlaceValues DEF PrepareSteps
  <2>3. Len(phaseResults) = 0 /\ phaseResults \in Seq(Outcome)
    BY <2>1, <2>2 DEF TraceInv, TypeOK
  <2>4. QED
    BY <2>1, <2>2, <2>3 DEF TraceInv
<1>2. CASE pc' = "collector" /\ ready' = {"writer"} /\ UNCHANGED report
  <2>1. pc' \in MainSteps /\ pc' \notin CollectSteps \cup AfterReplay \cup Returning
    BY <1>2, PartsOfRun DEF MainSteps, PrepareSteps
  <2>2. WentWell(0)' /\ Enabled("prepare")'
    BY DEF WentWell, Enabled
  <2>3. PhaseAt(pc)' = "prepare" /\ Place("prepare")' = 1 /\ Len(phaseResults') = 0
    BY <1>1, <1>2, SamePlaces
  <2>4. QED
    BY <1>1, <1>2, <2>1, <2>2, <2>3 DEF TraceInv, CollectSteps
<1>3. CASE /\ result' = [result EXCEPT !.status = "FAILED", !.phase = "prepare",
                                       !.error = "prepare"]
           /\ pc' = "returned" /\ ready' = ready /\ phaseResults' = phaseResults
  <2>1. result'.status = "FAILED"
    BY <1>3, ResultFields
  <2>2. pc' \in Over /\ pc' \in Returning /\ pc' \notin MainSteps
    BY <1>3, PartsOfRun DEF Over, Returning
  <2>3. Refused'
    BY <1>1, <1>3, <2>1, <2>2 DEF Refused
  <2>4. QED
    BY <1>1, <1>3, <2>2, <2>3 DEF TraceInv
<1>4. QED
  BY <1>2, <1>3 DEF Probe

\* The other steps of the main part.
LEMMA TraceMain == TypeOK /\ TraceInv /\ ~Probe /\ (PrepareNext \/ MainNext) => TraceInv'
<1> SUFFICES ASSUME TypeOK, TraceInv, ~Probe, PrepareNext \/ MainNext PROVE TraceInv'
  OBVIOUS
<1>p. PICK p \in Phases : p = PhaseAt(pc)
  BY PhaseAtSteps
<1>n. PICK n \in Nat : n = Len(phaseResults)
  BY DEF TypeOK
<1>1. pc \in MainSteps \ {"probe"} /\ (GoesOn \/ EndsWell \/ Fails)
  BY PrepareEffect, MainEffect DEF MainSteps, PrepareSteps
<1>2. cfg' = cfg /\ ready \subseteq ready' /\ "writer" \in ready
  BY <1>1, MainFrame, PartsOfRun DEF TraceInv, Returning
<1>3. /\ p \in Phases \ {"collect"} /\ Enabled(p) /\ n = Place(p) - 1 /\ WentWell(n)
      /\ p # "prepare" => result.status # "CREATED"
  BY <1>1, <1>p, <1>n, PhaseAtSteps DEF TraceInv
<1>4. Place(p) = n + 1 /\ n + 1 \in 1 .. Place("collect") - 1 /\ EnabledPhases[n + 1] = p
      /\ Place("collect") \in Nat
  <2>1. /\ Place(p) \in 1 .. Place("collect") /\ EnabledPhases[Place(p)] = p
        /\ Place(p) # Place("collect")
    BY <1>3, PhasesInOrder, PlaceValues DEF Phases, Enabled
  <2>2. QED
    BY <1>3, <2>1, PlaceValues
<1>5. CASE GoesOn
  <2>1. pc' \in MainSteps /\ PhaseAt(pc)' = p /\ phaseResults' = phaseResults /\ result' = result
    BY <1>p, <1>5 DEF GoesOn
  <2>2. pc' # "probe"
    BY <1>5 DEF GoesOn
  <2>3. pc' \notin CollectSteps \cup AfterReplay \cup Returning
    BY <2>1, PartsOfRun
  <2>4. WentWell(n)'
    BY <1>n, <1>2, <1>3, <1>4, <2>1, TraceGrows
  <2>5. /\ Place(p)' = Place(p) /\ Enabled(p)' = Enabled(p)
    BY <1>2, SamePlaces
  <2>6. /\ Enabled(PhaseAt(pc))' /\ Len(phaseResults)' = Place(PhaseAt(pc))' - 1
        /\ WentWell(Len(phaseResults))'
    BY <1>n, <1>2, <1>3, <2>1, <2>4, <2>5, SamePlaces
  <2>7. QED
    BY <1>2, <1>3, <2>1, <2>2, <2>3, <2>6 DEF TraceInv, CollectSteps
<1>6. CASE EndsWell
  <2>1. PICK e \in Outcome :
          /\ e.phase = p /\ e.status = "SUCCEEDED" /\ phaseResults' = Append(phaseResults, e)
          /\ pc' = Follows(p)
          /\ result'.status = "SUCCEEDED" \/ (pc = "setupStep" /\ result' = result)
    BY <1>p, <1>6 DEF EndsWell
  <2>2. /\ Follows(p) \in {"setup", "execute", "verify", "collect"}
        /\ Enabled(PhaseAt(Follows(p))) /\ Place(PhaseAt(Follows(p))) = n + 2
    <3>1. /\ Follows(p) \in {"setup", "execute", "verify", "collect"}
          /\ Enabled(PhaseAt(Follows(p))) /\ Place(PhaseAt(Follows(p))) = Place(p) + 1
      BY <1>3, FollowsPlace
    <3>2. QED
      BY <1>4, <3>1
  <2>3. /\ Len(phaseResults') = n + 1 /\ phaseResults'[n + 1] = e
        /\ \A i \in 1 .. n : phaseResults'[i] = phaseResults[i]
    BY <1>n, <2>1, Appended
  <2>4. WentWell(n)' /\ EnabledPhases' = EnabledPhases
    BY <1>n, <1>2, <1>3, <1>4, <2>1, TraceGrows, SamePlaces
  <2>5. WentWell(n + 1)'
    BY <1>4, <2>1, <2>3, <2>4 DEF WentWell
  <2>6. result'.status # "CREATED"
    <3>1. CASE pc = "setupStep" /\ result' = result
      BY <1>p, <1>3, <3>1, PhaseAtSteps DEF SetupSteps
    <3>2. QED
      BY <2>1, <3>1
  <2>7. pc' \notin Returning \cup AfterReplay /\ pc' \notin {"probe", "cleanup", "replay"}
    BY <2>1, <2>2 DEF Returning, AfterReplay, AfterCleanup, CollectSteps, Over
  <2>8. CASE pc' = "collect"
    <3>1. PhaseAt(pc)' = "collect" /\ Place("collect") = n + 2
      BY <2>1, <2>2, <2>8, PhaseAtSteps
    <3>2. MainEnded(n + 1)'
      <4>1. Place("collect")' = Place("collect")
        BY <1>2, SamePlaces
      <4>2. WentWell((n + 1) - 1)'
        BY <1>4, <2>4 DEF WentWell
      <4>3. QED
        BY <1>4, <2>1, <2>3, <2>4, <3>1, <4>1, <4>2 DEF MainEnded
    <3>3. Reported(n + 1, phaseResults[n + 1].phase)'
      BY <2>1, <2>3 DEF Reported, Bad
    <3>4. pc' \notin MainSteps
      BY <2>8, PartsOfRun DEF CollectSteps
    <3>5. QED
      BY <1>2, <2>3, <2>6, <2>7, <2>8, <3>2, <3>3, <3>4 DEF TraceInv
  <2>9. CASE pc' # "collect"
    <3>1. /\ Enabled(PhaseAt(pc))' /\ Place(PhaseAt(pc))' = n + 2
      BY <1>2, <2>1, <2>2, SamePlaces
    <3>2. QED
      BY <1>2, <2>3, <2>5, <2>6, <2>7, <2>9, <3>1 DEF TraceInv
  <2>10. QED
    BY <2>8, <2>9
<1>7. CASE Fails
  <2>1. PICK e \in Outcome :
          /\ e.phase = p /\ e.status \in Bad /\ phaseResults' = Append(phaseResults, e)
          /\ pc' = "collect" /\ result' = e /\ runErr' = e.error
    BY <1>p, <1>7 DEF Fails
  <2>2. /\ Len(phaseResults') = n + 1 /\ phaseResults'[n + 1] = e
    BY <1>n, <2>1, Appended
  <2>3. WentWell(n)' /\ EnabledPhases' = EnabledPhases /\ Place("collect")' = Place("collect")
    BY <1>n, <1>2, <1>3, <1>4, <2>1, TraceGrows, SamePlaces
  <2>4. MainEnded(n + 1)'
    <3>1. WentWell((n + 1) - 1)'
      BY <1>4, <2>3 DEF WentWell
    <3>2. QED
      BY <1>4, <2>1, <2>2, <2>3, <3>1 DEF MainEnded
  <2>5. Reported(n + 1, phaseResults[n + 1].phase)'
    <3>1. e = [e EXCEPT !.phase = e.phase]
      BY DEF Outcome
    <3>2. QED
      BY <2>1, <2>2, <3>1 DEF Reported
  <2>6. pc' \notin Returning \cup AfterReplay \cup MainSteps /\ pc' \notin {"probe", "cleanup", "replay"}
    BY <2>1, PartsOfRun DEF CollectSteps
  <2>7. QED
    BY <1>2, <2>1, <2>2, <2>4, <2>5, <2>6 DEF TraceInv, Bad
<1>8. QED
  BY <1>1, <1>5, <1>6, <1>7

\* Collect before its entry is written, and behind it.
Entering == {"collect", "cleanup", "replay"}
Inside == AfterReplay \ Returning

\* replay.json is written, and with it the entry of collect.
EntersCollect ==
  /\ pc = "replay" /\ pc' = "phases"
  /\ \E e \in Outcome : /\ e.phase = "collect" /\ e.status = "SUCCEEDED"
                        /\ phaseResults' = Append(phaseResults, e)
  /\ result' = [result EXCEPT !.phase = "collect",
                  !.status = IF @ = "CREATED" THEN "SUCCEEDED" ELSE @]
  /\ runErr' = runErr

\* Collect fails.
FailsInside ==
  /\ pc \in {"replay"} \cup Inside /\ pc' = "finish" /\ runErr' # "none"
  /\ \E e \in Outcome : /\ e.phase = "collect" /\ e.status = "FAILED" /\ result' = e
                        /\ phaseResults' = Append(phaseResults, e)

\* The steps that leave the entries alone; a result that is not a success stays as it is.
KeepsEntries ==
  /\ phaseResults' = phaseResults
  /\ result' \in {result, Unclean, Degraded}
  /\ runErr' = runErr \/ (pc \in Inside /\ runErr = "none")
  /\ \/ pc \in Entering /\ pc' \in Entering
     \/ pc \in Inside /\ pc' \in Inside \cup {"finish"}
     \/ pc \in Returning /\ pc' \in Over /\ result' = result

\* The parts of collect, place by place.
LEMMA PartsOfCollect ==
  /\ Entering = {"collect", "cleanup", "replay"}
  /\ Inside = {"phases", "results", "index", "upload", "finalResults", "finalIndex", "summary"}
  /\ Returning = {"finish", "returned", "exited"} /\ Over = {"returned", "exited"}
  /\ AfterReplay = Inside \cup Returning
  /\ (Entering \cup Inside \cup Returning) \cap MainSteps = {}
BY DEF Entering, Inside, Returning, Over, AfterReplay, AfterCleanup, CollectSteps,
   MainSteps, PrepareSteps, SetupSteps, ExecuteSteps, VerifySteps

\* The entry a failing collect adds.
LEMMA FailCollectFails ==
  ASSUME TypeOK, FailCollect, pc \in {"replay"} \cup Inside
  PROVE  FailsInside
<1> DEFINE end == [phase |-> "collect", status |-> "FAILED", error |-> "collect",
                   exit |-> 0, timedOut |-> FALSE]
<1>1. end \in Outcome
  BY RunAssumption DEF Outcome, Phases, Statuses, Errors
<1>2. result' = end /\ phaseResults' = Append(phaseResults, end) /\ pc' = "finish"
  BY DEF FailCollect, FailPhase, NoExec
<1>3. end.phase = "collect" /\ end.status = "FAILED" /\ runErr' # "none"
  BY FailCollectEffect
<1>4. QED
  BY <1>1, <1>2, <1>3 DEF FailsInside

\* Every step from collect on is one of the three.
LEMMA CollectEffect ==
  ASSUME TypeOK, CollectNext \/ Finish \/ Exit
  PROVE  /\ EntersCollect \/ FailsInside \/ KeepsEntries
         /\ pc \in Entering \cup Inside \cup Returning
         /\ UNCHANGED <<cfg, ready>>
<1> USE PartsOfCollect DEF vars, provider, report, files
<1>1. CASE BeginCollect
  BY <1>1 DEF BeginCollect, KeepsEntries
<1>2. CASE Cleanup
  BY <1>2 DEF Cleanup, KeepsEntries
<1>3. CASE WriteReplay
  <2>1. CASE /\ AddSuccess("collect", NoExec) /\ pc' = "phases" /\ runErr' = runErr
             /\ result' = [result EXCEPT !.phase = "collect",
                  !.status = IF @ = "CREATED" THEN "SUCCEEDED" ELSE @]
    <3> DEFINE end == [phase |-> "collect", status |-> "SUCCEEDED", error |-> "none",
                       exit |-> NoExec.exit, timedOut |-> NoExec.timedOut]
    <3>1. end \in Outcome
      BY NoExecIsResult DEF ExecResults, Outcome, Phases, Statuses, Errors
    <3>2. phaseResults' = Append(phaseResults, end) /\ end.phase = "collect"
          /\ end.status = "SUCCEEDED"
      BY <2>1 DEF AddSuccess
    <3>3. EntersCollect
      BY <1>3, <2>1, <3>1, <3>2 DEF EntersCollect, WriteReplay
    <3>4. QED
      BY <1>3, <3>3 DEF WriteReplay
  <2>2. CASE FailCollect
    BY <1>3, <2>2, FailCollectFails DEF WriteReplay
  <2>3. QED
    BY <1>3, <2>1, <2>2 DEF WriteReplay
<1>4. CASE WritePhases
  BY <1>4, FailCollectFails DEF WritePhases, KeepsEntries
<1>5. CASE WriteResults
  BY <1>5, FailCollectFails DEF WriteResults, KeepsEntries
<1>6. CASE WriteIndex
  BY <1>6, FailCollectFails DEF WriteIndex, KeepsEntries
<1>7. CASE Upload
  BY <1>7 DEF Upload, KeepsEntries
<1>8. CASE WriteFinalResults
  BY <1>8, FailCollectFails DEF WriteFinalResults, KeepsEntries
<1>9. CASE WriteFinalIndex
  <2>1. CASE FailCollect
    BY <1>9, <2>1, FailCollectFails DEF WriteFinalIndex
  <2>2. CASE /\ UNCHANGED <<result, phaseResults>> /\ pc' \in {"summary", "finish"}
             /\ runErr' = runErr \/ runErr = "none"
    BY <1>9, <2>2 DEF WriteFinalIndex, KeepsEntries
  <2>3. QED
    BY <1>9, <2>1, <2>2 DEF WriteFinalIndex
<1>10. CASE UploadSummary
  BY <1>10 DEF UploadSummary, KeepsEntries
<1>11. CASE Finish
  BY <1>11 DEF Finish, KeepsEntries
<1>12. CASE Exit
  BY <1>12 DEF Exit, KeepsEntries
<1>13. QED
  BY <1>1, <1>2, <1>3, <1>4, <1>5, <1>6, <1>7, <1>8, <1>9, <1>10, <1>11, <1>12 DEF CollectNext

\* What has been reported of a failed phase stays reported.
LEMMA ReportedStays ==
  ASSUME TypeOK, ReportInv, KeepsEntries, NEW k \in 1 .. Len(phaseResults), NEW p, Reported(k, p)
  PROVE  Reported(k, p)'
<1> SUFFICES ASSUME phaseResults[k].status \in Bad PROVE Reported(k, p)'
  BY DEF Reported, KeepsEntries
<1>1. /\ result = [phaseResults[k] EXCEPT !.phase = p] /\ runErr = phaseResults[k].error
      /\ phaseResults[k] \in Outcome
  BY DEF Reported, TypeOK
<1>2. result.status \in Bad
  BY <1>1 DEF Outcome
<1>3. Unclean = result /\ Degraded = result /\ runErr # "none"
  BY <1>2 DEF Unclean, Degraded, Bad, ReportInv
<1>4. QED
  BY <1>1, <1>3 DEF Reported, KeepsEntries

\* The steps from collect on.
LEMMA TraceCollect ==
  TypeOK /\ ReportInv /\ TraceInv /\ (CollectNext \/ Finish \/ Exit) => TraceInv'
<1> SUFFICES ASSUME TypeOK, ReportInv, TraceInv, CollectNext \/ Finish \/ Exit PROVE TraceInv'
  OBVIOUS
<1> USE PartsOfCollect
<1>n. PICK n \in Nat : n = Len(phaseResults)
  BY DEF TypeOK
<1>1. /\ EntersCollect \/ FailsInside \/ KeepsEntries
      /\ pc \in Entering \cup Inside \cup Returning /\ cfg' = cfg /\ ready' = ready
  BY CollectEffect
<1>2. pc \notin Over => "writer" \in ready'
  BY <1>1, PartsOfRun DEF TraceInv
<1>3. pc \in Entering =>
        MainEnded(n) /\ result.status # "CREATED" /\ Reported(n, phaseResults[n].phase)
  BY <1>n DEF TraceInv
<1>4. pc \in Inside => \E k \in Nat : MainEnded(k) /\ CollectOk(k)
  BY DEF TraceInv, Inside
<1>5. CASE EntersCollect
  <2>1. PICK e \in Outcome : /\ e.phase = "collect" /\ e.status = "SUCCEEDED"
                             /\ phaseResults' = Append(phaseResults, e)
    BY <1>5 DEF EntersCollect
  <2>2. /\ pc = "replay" /\ pc' = "phases" /\ runErr' = runErr
        /\ result' = [result EXCEPT !.phase = "collect",
                        !.status = IF @ = "CREATED" THEN "SUCCEEDED" ELSE @]
    BY <1>5 DEF EntersCollect
  <2>3. MainEnded(n) /\ result.status # "CREATED" /\ Reported(n, phaseResults[n].phase)
    BY <1>3, <2>2
  <2>4. MainEnded(n)' /\ n \in 1 .. Len(phaseResults)
    BY <1>n, <1>1, <2>1, <2>3, TraceGrows DEF MainEnded
  <2>5. Len(phaseResults') = n + 1 /\ phaseResults'[n + 1] = e /\ phaseResults'[n] = phaseResults[n]
    BY <1>n, <2>1, <2>4, Appended
  <2>6. result' = [result EXCEPT !.phase = "collect"]
    <3>1. result \in Outcome
      BY DEF TypeOK
    <3>2. QED
      BY <2>2, <2>3, <3>1 DEF Outcome
  <2>7. Reported(n, "collect")'
    <3>1. phaseResults[n] \in Outcome
      BY <2>4 DEF TypeOK
    <3>2. [[phaseResults[n] EXCEPT !.phase = phaseResults[n].phase] EXCEPT !.phase = "collect"]
            = [phaseResults[n] EXCEPT !.phase = "collect"]
      BY <3>1 DEF Outcome
    <3>3. QED
      BY <2>2, <2>3, <2>5, <2>6, <3>2 DEF Reported
  <2>8. CollectOk(n)'
    BY <2>1, <2>5, <2>7 DEF CollectOk
  <2>9. QED
    BY <1>1, <1>2, <2>2, <2>4, <2>8 DEF TraceInv, Inside, Entering
<1>6. CASE FailsInside
  <2>1. PICK e \in Outcome : /\ e.phase = "collect" /\ e.status = "FAILED" /\ result' = e
                             /\ phaseResults' = Append(phaseResults, e)
    BY <1>6 DEF FailsInside
  <2>2. pc \in {"replay"} \cup Inside /\ pc' = "finish"
    BY <1>6 DEF FailsInside
  <2>3. PICK k \in Nat : /\ MainEnded(k) /\ k <= n
                         /\ \A i \in k + 1 .. n : phaseResults[i].phase = "collect"
    <3>1. CASE pc = "replay"
      BY <1>n, <1>3, <3>1 DEF Entering
    <3>2. CASE pc \in Inside
      <4>1. PICK k \in Nat : MainEnded(k) /\ CollectOk(k)
        BY <1>4, <3>2
      <4>2. QED
        BY <1>n, <4>1 DEF CollectOk
    <3>3. QED
      BY <2>2, <3>1, <3>2
  <2>4. MainEnded(k)'
    BY <1>1, <2>1, <2>3, TraceGrows
  <2>5. /\ Len(phaseResults') = n + 1 /\ phaseResults'[n + 1] = e
        /\ \A i \in 1 .. n : phaseResults'[i] = phaseResults[i]
    BY <1>n, <2>1, Appended
  <2>6. \A i \in k + 1 .. n + 1 : phaseResults'[i].phase = "collect"
    <3> SUFFICES ASSUME NEW i \in k + 1 .. n + 1 PROVE phaseResults'[i].phase = "collect"
      OBVIOUS
    <3>1. CASE i = n + 1
      BY <2>1, <2>5, <3>1
    <3>2. CASE i # n + 1
      BY <2>3, <2>5, <3>2
    <3>3. QED
      BY <3>1, <3>2
  <2>7. CollectFailed(k)'
    BY <2>1, <2>3, <2>5, <2>6 DEF CollectFailed
  <2>8. QED
    BY <1>1, <1>2, <2>2, <2>4, <2>7 DEF TraceInv, Inside, Entering
<1>7. CASE KeepsEntries
  <2>1. /\ phaseResults' = phaseResults /\ result' \in {result, Unclean, Degraded}
        /\ \A k \in Nat : MainEnded(k) => MainEnded(k)'
    BY <1>1, <1>7, TraceGrows DEF KeepsEntries
  <2>2. CASE pc \in Entering /\ pc' \in Entering
    <3>1. n \in 1 .. Len(phaseResults) /\ result'.status # "CREATED"
      BY <1>n, <1>3, <2>1, <2>2, DegradedFields DEF MainEnded
    <3>2. PICK p : p = phaseResults[n].phase
      OBVIOUS
    <3>3. Reported(n, p)' /\ MainEnded(n)'
      BY <1>3, <1>7, <2>1, <2>2, <3>1, <3>2, ReportedStays
    <3>4. QED
      BY <1>n, <1>1, <1>2, <2>1, <2>2, <3>1, <3>2, <3>3 DEF TraceInv, Inside, Entering
  <2>3. CASE pc \in Inside /\ pc' \in Inside \cup {"finish"}
    <3>1. PICK k \in Nat : MainEnded(k) /\ CollectOk(k)
      BY <1>4, <2>3
    <3>2. k \in 1 .. Len(phaseResults) /\ Reported(k, "collect")
      BY <1>n, <3>1 DEF MainEnded, CollectOk
    <3>3. Reported(k, "collect")' /\ MainEnded(k)'
      BY <1>7, <2>1, <3>1, <3>2, ReportedStays
    <3>4. CollectOk(k)'
      BY <2>1, <3>1, <3>3 DEF CollectOk
    <3>5. QED
      BY <1>1, <1>2, <2>3, <3>3, <3>4 DEF TraceInv, Inside, Entering
  <2>4. CASE pc \in Returning /\ pc' \in Over /\ result' = result /\ runErr' = runErr
    <3>1. CASE Refused
      BY <1>1, <2>1, <2>4, <3>1 DEF Refused, TraceInv
    <3>2. CASE \E k \in Nat : MainEnded(k) /\ (CollectOk(k) \/ CollectFailed(k))
      <4>1. PICK k \in Nat : MainEnded(k) /\ (CollectOk(k) \/ CollectFailed(k))
        BY <3>2
      <4>2. MainEnded(k)' /\ (CollectOk(k)' \/ CollectFailed(k)')
        BY <2>1, <2>4, <4>1 DEF CollectOk, CollectFailed, Reported
      <4>3. QED
        BY <1>1, <2>4, <4>2 DEF TraceInv
    <3>3. QED
      BY <2>4, <3>1, <3>2 DEF TraceInv
  <2>5. QED
    BY <1>7, <2>2, <2>3, <2>4 DEF KeepsEntries
<1>8. QED
  BY <1>1, <1>5, <1>6, <1>7

\* TraceInv is inductive, given the types and what is reported.
LEMMA TraceStep == TypeOK /\ ReportInv /\ TraceInv /\ [Next]_vars => TraceInv'
<1> SUFFICES ASSUME TypeOK, ReportInv, TraceInv, [Next]_vars PROVE TraceInv'
  OBVIOUS
<1>1. CASE UNCHANGED <<cfg, pc, ready, result, phaseResults, runErr>>
  <2>1. EnabledPhases' = EnabledPhases /\ \A p : Place(p)' = Place(p) /\ Enabled(p)' = Enabled(p)
    BY <1>1, SamePlaces
  <2>2. /\ Enabled(PhaseAt(pc))' = Enabled(PhaseAt(pc)) /\ Place(PhaseAt(pc))' = Place(PhaseAt(pc))
        /\ Place("collect")' = Place("collect")
    BY <1>1, <2>1
  <2>3. \A n : WentWell(n)' = WentWell(n)
    BY <1>1, <2>1 DEF WentWell
  <2>4. \A k : MainEnded(k)' = MainEnded(k)
    BY <1>1, <2>1, <2>2, <2>3 DEF MainEnded
  <2>5. /\ \A k, p : Reported(k, p)' = Reported(k, p)
        /\ \A k : CollectOk(k)' = CollectOk(k) /\ CollectFailed(k)' = CollectFailed(k)
        /\ Refused' = Refused
    BY <1>1 DEF CollectOk, CollectFailed, Reported, Refused
  <2>6. QED
    BY <1>1, <2>2, <2>3, <2>4, <2>5 DEF TraceInv
<1>2. CASE Expire \/ UNCHANGED vars \/ Done
  BY <1>1, <1>2 DEF Expire, Done, vars, report
<1>3. QED
  BY <1>2, TraceProbe, TraceMain, TraceCollect DEF Next, EngineStep

\* Every run keeps TraceInv.
LEMMA TraceAlways == Spec => []TraceInv
<1>1. Init => TraceInv
  <2> SUFFICES ASSUME Init PROVE TraceInv
    OBVIOUS
  <2>1. pc = "probe" /\ ready = {} /\ phaseResults = <<>> /\ PhaseAt(pc) = "prepare"
    BY PhaseAtSteps DEF Init, PrepareSteps
  <2>2. Len(phaseResults) = 0 /\ Place("prepare") = 1 /\ Enabled("prepare") /\ WentWell(0)
    BY <2>1, PlaceValues DEF Enabled, WentWell
  <2>3. pc \notin Entering \cup Inside \cup Returning
    BY <2>1, PartsOfCollect
  <2>4. QED
    BY <2>1, <2>2, <2>3 DEF TraceInv, Entering, Inside
<1>2. QED
  BY <1>1, TraceStep, TypeCorrect, ReportAlways, PTL DEF Spec

-----------------------------------------------------------------------------
(* FailureReported *)

\* In a run whose collect has not failed, the failed phase is what Run reports.
LEMMA TraceReports == TypeOK /\ TraceInv => FailureReported
<1> SUFFICES ASSUME TypeOK, TraceInv, NEW i \in Failures, pc \in Over,
                    \A j \in Failures : phaseResults[j].phase # "collect"
             PROVE  /\ result = [phaseResults[i] EXCEPT !.phase = "collect"]
                    /\ runErr = phaseResults[i].error
  BY DEF FailureReported
<1>1. i \in 1 .. Len(phaseResults) /\ phaseResults[i].status # "SUCCEEDED"
      /\ Len(phaseResults) \in Nat
  BY DEF Failures, TypeOK
<1>2. ~Refused
  BY <1>1 DEF Refused
<1>3. PICK k \in Nat : MainEnded(k) /\ (CollectOk(k) \/ CollectFailed(k))
  BY <1>2, PartsOfCollect DEF TraceInv
<1>4. ~CollectFailed(k)
  <2> SUFFICES ASSUME CollectFailed(k) PROVE FALSE
    OBVIOUS
  <2>1. Len(phaseResults) \in Failures /\ Len(phaseResults) \in k + 1 .. Len(phaseResults)
    BY <1>1, <1>3 DEF CollectFailed, Failures, TypeOK
  <2>2. QED
    BY <2>1 DEF CollectFailed
<1>5. i = k
  BY <1>1, <1>3, <1>4 DEF CollectOk, MainEnded, WentWell
<1>6. phaseResults[k].status \in Bad
  BY <1>1, <1>3, <1>5 DEF MainEnded
<1>7. QED
  BY <1>3, <1>4, <1>5, <1>6 DEF CollectOk, Reported

\* In every run, the status, error, exit code and timeout of the phase that failed
\* are those of the run, unless collect itself failed.
THEOREM FailuresAreReported == Spec => []FailureReported
  BY TraceReports, TypeCorrect, TraceAlways, PTL

-----------------------------------------------------------------------------
(* SuccessIsWhole *)

\* A run can be successful only if each of its phases was.
LEMMA SuccessMeansAll ==
  ASSUME TypeOK, TraceInv, pc \in AfterReplay, result.status = "SUCCEEDED"
  PROVE  AllSucceeded(phaseResults)
<1>1. ~Refused /\ \A k \in Nat : ~CollectFailed(k)
  BY DEF Refused, CollectFailed
<1>2. PICK k \in Nat : MainEnded(k) /\ CollectOk(k)
  BY <1>1, PartsOfCollect DEF TraceInv, Inside
<1>3. phaseResults[k].status \notin Bad
  <2>1. phaseResults[k] \in Outcome
    BY <1>2 DEF MainEnded, TypeOK
  <2>2. QED
    BY <1>2, <2>1 DEF CollectOk, Reported, Outcome, Bad
<1>4. /\ k = Place("collect") - 1 /\ Place("collect") \in Nat
      /\ phaseResults[k].status = "SUCCEEDED" /\ phaseResults[k].phase = EnabledPhases[k]
      /\ WentWell(k - 1)
  BY <1>2, <1>3, PlaceValues DEF MainEnded
<1>5. /\ Len(EnabledPhases) = Place("collect") /\ EnabledPhases[Place("collect")] = "collect"
  BY PhasesInOrder DEF Enabled, Phases
<1>6. DOMAIN phaseResults = 1 .. k + 1
  BY <1>2 DEF CollectOk, TypeOK
<1>7. \A i \in 1 .. k + 1 : /\ phaseResults[i].phase = EnabledPhases[i]
                            /\ phaseResults[i].status = "SUCCEEDED"
  BY <1>2, <1>4, <1>5 DEF WentWell, CollectOk
<1>8. QED
  BY <1>2, <1>4, <1>5, <1>6, <1>7 DEF AllSucceeded, CollectOk

\* The calls of prepare before the engine has the ID of a sandbox.
Before == {"probe", "collector", "telemetry", "backend", "create"}

\* When there is a sandbox, and when it has been dealt with.
BoxInv ==
  /\ managed /\ pc \in MainSteps \ Before => known
  /\ managed /\ pc \notin MainSteps /\ runErr = "none" => known
  /\ pc \in Before => ~known
  /\ pc \in MainSteps \cup {"collect", "cleanup"} => ~settled
  /\ pc \in AfterCleanup /\ result.status = "SUCCEEDED" /\ managed => known /\ DisposedOf

\* What the cleanup call is, and what it leaves.
LEMMA Disposal ==
  ASSUME TypeOK
  PROVE  /\ DisposedOf /\ sandbox \in {"created", "running"} => CleanupCall = "keep"
         /\ CleanupCall = "keep" => DisposedOf
         /\ cfg' = cfg /\ sandbox' = sandbox => DisposedOf' = DisposedOf
         /\ cfg' = cfg /\ sandbox' = CleanedUp => DisposedOf'
         /\ cfg' = cfg /\ CleanupCall = "keep" => DisposedOf'
<1>1. cfg.cleanup \in {"keep", "delete", "pause", "stop"}
  BY RunAssumption DEF TypeOK, ConfigType, CleanupModes
<1>2. CleanupCall \in {"keep", "delete", "pause", "stop"}
  BY <1>1 DEF CleanupCall
<1>3. cfg' = cfg => CleanupCall' = CleanupCall
  BY DEF CleanupCall
<1>4. QED
  BY <1>2, <1>3 DEF DisposedOf, CleanedUp

\* What the main part does about the sandbox.
LEMMA BoxMainEffect ==
  ASSUME PrepareNext \/ MainNext
  PROVE  /\ pc \in MainSteps /\ cfg' = cfg /\ settled' = settled
         /\ \/ pc' \in {"collect", "returned"} /\ runErr' # "none" /\ (pc' = "returned" => Probe)
            \/ pc \in Before /\ pc' \in Before /\ known' = known
            \/ pc' = "start" /\ known'
            \/ pc = "backend" /\ ~managed /\ pc' = "context"
            \/ /\ pc \in MainSteps \ Before /\ pc' \in (MainSteps \ Before) \cup {"collect"}
               /\ known' = known
<1> USE FailMainEffect, AfterTypes
    DEF vars, provider, report, files, MainSteps, Before, PrepareSteps, SetupSteps, ExecuteSteps,
        VerifySteps
<1>1. CASE Probe
  BY <1>1 DEF Probe
<1>2. CASE StartCollector
  BY <1>2 DEF StartCollector
<1>3. CASE StartTelemetry
  BY <1>3 DEF StartTelemetry
<1>4. CASE ResolveBackend
  BY <1>4 DEF ResolveBackend
<1>5. CASE CreateSandbox
  BY <1>5 DEF CreateSandbox
<1>6. CASE StartSandbox
  BY <1>6 DEF StartSandbox
<1>7. CASE SyncWorkspaceIn
  BY <1>7 DEF SyncWorkspaceIn
<1>8. CASE WriteContext
  BY <1>8 DEF WriteContext
<1>9. CASE PlanSetup
  BY <1>9 DEF PlanSetup
<1>10. CASE RunSetupStep
  BY <1>10 DEF RunSetupStep
<1>11. CASE PrepareCommand
  BY <1>11 DEF PrepareCommand
<1>12. CASE RunCommand
  BY <1>12 DEF RunCommand
<1>13. CASE CheckSmoke
  BY <1>13 DEF CheckSmoke
<1>14. CASE RunSmoke
  BY <1>14 DEF RunSmoke
<1>15. CASE CheckArtifacts
  BY <1>15 DEF CheckArtifacts
<1>16. QED
  BY <1>1, <1>2, <1>3, <1>4, <1>5, <1>6, <1>7, <1>8, <1>9, <1>10, <1>11, <1>12, <1>13,
     <1>14, <1>15 DEF PrepareNext, MainNext

\* The main part keeps BoxInv: nothing is settled yet.
LEMMA BoxMain == TypeOK /\ BoxInv /\ (PrepareNext \/ MainNext) => BoxInv'
<1> SUFFICES ASSUME TypeOK, BoxInv, PrepareNext \/ MainNext PROVE BoxInv'
  OBVIOUS
<1>1. pc \in MainSteps /\ cfg' = cfg /\ settled' = settled /\ ~settled /\ managed' = managed
  BY BoxMainEffect DEF BoxInv, managed
<1>2. /\ {"collect", "returned"} \cap MainSteps = {} /\ "collect" \notin AfterCleanup
      /\ MainSteps \cap AfterCleanup = {} /\ Before \subseteq MainSteps
      /\ {"start", "context"} \subseteq MainSteps \ Before
  BY DEF MainSteps, PrepareSteps, SetupSteps, ExecuteSteps, VerifySteps, AfterCleanup,
     CollectSteps, Over, Before
<1>3. CASE /\ pc' \in {"collect", "returned"} /\ runErr' # "none" /\ (pc' = "returned" => Probe)
  <2>1. pc' = "returned" => result'.status # "SUCCEEDED"
    <3> SUFFICES ASSUME Probe, pc' = "returned" PROVE result'.status # "SUCCEEDED"
      BY <1>3
    <3>1. result' = [result EXCEPT !.status = "FAILED", !.phase = "prepare", !.error = "prepare"]
      BY DEF Probe
    <3>2. QED
      BY <3>1, ResultFields DEF TypeOK
  <2>2. QED
    BY <1>1, <1>2, <1>3, <2>1 DEF BoxInv
<1>4. CASE pc \in Before /\ pc' \in Before /\ known' = known
  BY <1>1, <1>2, <1>4 DEF BoxInv
<1>5. CASE pc' = "start" /\ known'
  BY <1>1, <1>2, <1>5 DEF BoxInv
<1>6. CASE pc = "backend" /\ ~managed /\ pc' = "context"
  BY <1>1, <1>2, <1>6 DEF BoxInv
<1>7. CASE /\ pc \in MainSteps \ Before /\ pc' \in (MainSteps \ Before) \cup {"collect"}
           /\ known' = known
  BY <1>1, <1>2, <1>7 DEF BoxInv
<1>8. QED
  BY <1>3, <1>4, <1>5, <1>6, <1>7, BoxMainEffect

\* Collect never makes a result better, given that it is entered with one.
LEMMA NoneImproved ==
  ASSUME TypeOK, TraceInv, CollectNext \/ Finish \/ Exit
  PROVE  /\ result'.status = "SUCCEEDED" => result.status = "SUCCEEDED"
         /\ runErr' = "none" => runErr = "none"
<1>1. CASE EntersCollect
  <2>1. result.status # "CREATED"
    BY <1>1 DEF EntersCollect, TraceInv
  <2>2. QED
    BY <1>1, <2>1 DEF EntersCollect, TypeOK, Outcome
<1>2. CASE FailsInside
  BY <1>2 DEF FailsInside
<1>3. CASE KeepsEntries
  BY <1>3, DegradedFields DEF KeepsEntries
<1>4. QED
  BY <1>1, <1>2, <1>3, CollectEffect

\* What collect does about the sandbox.
LEMMA BoxCollectEffect ==
  ASSUME CollectNext \/ Finish \/ Exit
  PROVE  /\ cfg' = cfg /\ known' = known
         /\ pc \in CollectSteps \cup Returning /\ pc' \in (CollectSteps \ {"collect"}) \cup Returning
         /\ \/ Cleanup
            \/ sandbox' = sandbox /\ settled' = settled /\ (pc' \in AfterCleanup => pc \in AfterCleanup)
<1> USE FailCollectEffect
    DEF vars, provider, report, files, CollectSteps, Returning, Over, AfterCleanup
<1>1. CASE BeginCollect
  BY <1>1 DEF BeginCollect
<1>2. CASE Cleanup
  BY <1>2 DEF Cleanup
<1>3. CASE WriteReplay
  BY <1>3 DEF WriteReplay
<1>4. CASE WritePhases
  BY <1>4 DEF WritePhases
<1>5. CASE WriteResults
  BY <1>5 DEF WriteResults
<1>6. CASE WriteIndex
  BY <1>6 DEF WriteIndex
<1>7. CASE Upload
  BY <1>7 DEF Upload
<1>8. CASE WriteFinalResults
  BY <1>8 DEF WriteFinalResults
<1>9. CASE WriteFinalIndex
  BY <1>9 DEF WriteFinalIndex
<1>10. CASE UploadSummary
  BY <1>10 DEF UploadSummary
<1>11. CASE Finish
  BY <1>11 DEF Finish
<1>12. CASE Exit
  BY <1>12 DEF Exit
<1>13. QED
  BY <1>1, <1>2, <1>3, <1>4, <1>5, <1>6, <1>7, <1>8, <1>9, <1>10, <1>11, <1>12 DEF CollectNext

\* Collect keeps it: a run that is still successful after cleanupBackend has disposed
\* of its sandbox as configured.
LEMMA BoxCollect ==
  TypeOK /\ ReportInv /\ TraceInv /\ BoxInv /\ (CollectNext \/ Finish \/ Exit) => BoxInv'
<1> SUFFICES ASSUME TypeOK, ReportInv, TraceInv, BoxInv, CollectNext \/ Finish \/ Exit PROVE BoxInv'
  OBVIOUS
<1>1. /\ cfg' = cfg /\ known' = known /\ managed' = managed
      /\ pc \notin MainSteps /\ pc' \notin MainSteps /\ pc' # "collect"
      /\ result'.status = "SUCCEEDED" => result.status = "SUCCEEDED"
      /\ runErr' = "none" => runErr = "none"
  BY BoxCollectEffect, NoneImproved, PartsOfRun, PartsOfCollect DEF managed
<1>2. Before \subseteq MainSteps
  BY DEF Before, MainSteps, PrepareSteps
<1>3. CASE Cleanup
  <2>1. pc' = "replay" /\ runErr' = runErr
    BY <1>3 DEF Cleanup, vars
  <2>2. ASSUME result'.status = "SUCCEEDED", managed PROVE known /\ DisposedOf'
    <3>1. known
      BY <1>1, <2>2 DEF BoxInv, ReportInv
    <3>2. Unclean.status # "SUCCEEDED"
      BY DegradedFields
    <3>3. sandbox' = CleanedUp
      BY <1>3, <2>2, <3>1, <3>2 DEF Cleanup
    <3>4. QED
      BY <1>1, <3>1, <3>3, Disposal
  <2>3. QED
    BY <1>1, <1>2, <2>1, <2>2 DEF BoxInv
<1>4. CASE /\ sandbox' = sandbox /\ settled' = settled
           /\ pc' \in AfterCleanup => pc \in AfterCleanup
  <2>1. DisposedOf' = DisposedOf
    BY <1>1, <1>4, Disposal
  <2>2. pc' = "cleanup" => pc = "collect"
    BY DEF CollectNext, BeginCollect, Cleanup, WriteReplay, WritePhases, WriteResults, WriteIndex,
       Upload, WriteFinalResults, WriteFinalIndex, UploadSummary, Finish, Exit, FailCollect
  <2>3. QED
    BY <1>1, <1>2, <1>4, <2>1, <2>2 DEF BoxInv
<1>5. QED
  BY <1>3, <1>4, BoxCollectEffect

\* BoxInv is inductive.
LEMMA BoxStep == TypeOK /\ ReportInv /\ TraceInv /\ BoxInv /\ [Next]_vars => BoxInv'
<1> SUFFICES ASSUME TypeOK, ReportInv, TraceInv, BoxInv, [Next]_vars PROVE BoxInv'
  OBVIOUS
<1>1. CASE Expire
  <2>1. /\ UNCHANGED <<cfg, pc, known, settled, result, runErr>> /\ managed' = managed
        /\ sandbox \in {"created", "running"}
    BY <1>1 DEF Expire, report, managed
  <2>2. DisposedOf => DisposedOf'
    BY <2>1, Disposal
  <2>3. QED
    BY <2>1, <2>2 DEF BoxInv
<1>2. CASE UNCHANGED vars \/ Done
  <2>1. UNCHANGED <<cfg, pc, known, settled, sandbox, result, runErr>> /\ managed' = managed
    BY <1>2 DEF Done, vars, provider, report, managed
  <2>2. DisposedOf' = DisposedOf
    BY <2>1, Disposal
  <2>3. QED
    BY <2>1, <2>2 DEF BoxInv
<1>3. QED
  BY <1>1, <1>2, BoxMain, BoxCollect DEF Next, EngineStep

\* Every run keeps BoxInv.
LEMMA BoxAlways == Spec => []BoxInv
<1>1. Init => BoxInv
  BY DEF Init, BoxInv, Before, MainSteps, PrepareSteps, SetupSteps, ExecuteSteps, VerifySteps,
     AfterCleanup, CollectSteps, Over
<1>2. QED
  BY <1>1, BoxStep, TypeCorrect, ReportAlways, TraceAlways, PTL DEF Spec

\* A run that ends with SUCCEEDED has no error, each of its enabled phases ended
\* well, in order, and its sandbox is disposed of as configured.
THEOREM SuccessIsTrue == Spec => []SuccessIsWhole
<1>1. TypeOK /\ ReportInv /\ TraceInv /\ BoxInv => SuccessIsWhole
  <2> SUFFICES ASSUME TypeOK, ReportInv, TraceInv, BoxInv, pc \in Over,
                      result.status = "SUCCEEDED"
               PROVE  /\ runErr = "none" /\ ~uploadErr
                      /\ AllSucceeded(phaseResults)
                      /\ managed => known /\ DisposedOf
    BY DEF SuccessIsWhole
  <2>1. AllSucceeded(phaseResults)
    BY SuccessMeansAll, PartsOfCollect
  <2>2. runErr = "none" /\ ~uploadErr
    BY DEF ReportInv
  <2>3. managed => known /\ DisposedOf
    BY DEF BoxInv, AfterCleanup
  <2>4. QED
    BY <2>1, <2>2, <2>3
<1>2. QED
  BY <1>1, TypeCorrect, ReportAlways, TraceAlways, BoxAlways, PTL

-----------------------------------------------------------------------------
(* FilesNeverOverclaim and FilesAgree *)

\* A file that says what the engine holds now.
Current(file) == file = [state |-> "whole", outcome |-> result]
PhasesCurrent == phases = [state |-> "whole", entries |-> phaseResults]

\* The three files, at each place of collect.
FileInv ==
  /\ pc \in MainSteps \cup Entering \cup {"phases"} => results.state = "absent"
  /\ pc \in Inside \ {"phases"} => PhasesCurrent
  /\ FilesNeverOverclaim
  /\ ~ioFailed /\ pc = "finalIndex" => Current(results)
  /\ ~ioFailed /\ (pc \in {"summary", "finish"} \/ (pc \in Over /\ "writer" \in ready)) =>
       Current(results) /\ Current(index) /\ PhasesCurrent

\* Once a sandbox is dealt with, what may be claimed of it stays true.
LEMMA ClaimStays ==
  ASSUME TypeOK, cfg' = cfg, settled' = settled,
         sandbox' = sandbox \/ (Expire /\ sandbox \in {"created", "running"}),
         results' = results, phases' = phases, FilesNeverOverclaim
  PROVE  FilesNeverOverclaim'
<1>1. EnabledPhases' = EnabledPhases /\ managed' = managed
  BY SamePlaces DEF managed
<1>2. DisposedOf => DisposedOf'
  BY Disposal
<1>3. QED
  BY <1>1, <1>2 DEF FilesNeverOverclaim, AllSucceeded

\* A torn or an old results.json claims nothing new.
LEMMA TornClaims ==
  ASSUME TypeOK, TornWrite(results)
  PROVE  results' = results \/ results'.state = "torn"
BY DEF TornWrite, TypeOK

\* The result may be written to results.json inside collect.
LEMMA ResultIsNoOverclaim ==
  ASSUME TypeOK, ReportInv, TraceInv, BoxInv, SettleInv, pc \in Inside \ {"phases"}, FileInv,
         UNCHANGED <<cfg, known, settled, sandbox, phases>>,
         results' = [state |-> "whole", outcome |-> result]
  PROVE  FilesNeverOverclaim'
<1> SUFFICES ASSUME result.status = "SUCCEEDED"
             PROVE  /\ phases.state = "whole" /\ AllSucceeded(phases.entries)'
                    /\ managed' => settled /\ DisposedOf'
  BY DEF FilesNeverOverclaim
<1>1. AllSucceeded(phaseResults)
  BY SuccessMeansAll, PartsOfCollect
<1>2. pc \in AfterCleanup
  BY PartsOfCollect DEF AfterReplay, Inside
<1>3. managed => settled /\ DisposedOf
  BY <1>2 DEF BoxInv, SettleInv
<1>4. phases = [state |-> "whole", entries |-> phaseResults]
  BY DEF FileInv, PhasesCurrent
<1>5. EnabledPhases' = EnabledPhases /\ managed' = managed /\ DisposedOf' = DisposedOf
  BY SamePlaces, Disposal DEF managed
<1>6. QED
  BY <1>1, <1>3, <1>4, <1>5 DEF AllSucceeded

\* The main part writes none of the three.
LEMMA FileMain ==
  TypeOK /\ TraceInv /\ FileInv /\ (PrepareNext \/ MainNext) => FileInv'
<1> SUFFICES ASSUME TypeOK, TraceInv, FileInv, PrepareNext \/ MainNext PROVE FileInv'
  OBVIOUS
<1>1. /\ pc \in MainSteps /\ UNCHANGED <<cfg, settled, results, index, phases>>
      /\ results.state = "absent"
  BY BoxMainEffect, MainFrame DEF FileInv
<1>2. FilesNeverOverclaim'
  BY <1>1 DEF FilesNeverOverclaim
<1>3. CASE Probe /\ pc' = "returned"
  <2>1. pc' \notin MainSteps \cup Entering \cup Inside \cup {"finish"}
    BY <1>3, PartsOfCollect
  <2>2. "writer" \notin ready'
    BY <1>3 DEF Probe, TraceInv
  <2>3. QED
    BY <1>2, <2>1, <2>2, PartsOfCollect DEF FileInv
<1>4. CASE ~(Probe /\ pc' = "returned")
  <2>1. pc' \in MainSteps \cup {"collect"}
    <3>1. Before \subseteq MainSteps /\ {"start", "context"} \subseteq MainSteps
      BY DEF Before, MainSteps, PrepareSteps
    <3>2. QED
      BY <1>4, <3>1, BoxMainEffect
  <2>2. pc' \in MainSteps \cup Entering /\ pc' \notin Inside \cup Returning
    BY <2>1, PartsOfCollect
  <2>3. QED
    BY <1>1, <1>2, <2>2, PartsOfCollect DEF FileInv
<1>5. QED
  BY <1>3, <1>4

\* Collect and what comes after it.
LEMMA FileCollect ==
  TypeOK /\ ReportInv /\ TraceInv /\ BoxInv /\ SettleInv /\ FileInv
    /\ (CollectNext \/ Finish \/ Exit) => FileInv'
<1> SUFFICES ASSUME TypeOK, ReportInv, TraceInv, BoxInv, SettleInv, FileInv,
                    CollectNext \/ Finish \/ Exit
             PROVE  FileInv'
  OBVIOUS
<1> USE PartsOfCollect DEF vars, provider, report, files
<1>f. FailCollect => pc' = "finish"
  BY FailCollectEffect
<1>c. /\ cfg' = cfg /\ known' = known
      /\ ~Cleanup => sandbox' = sandbox /\ settled' = settled
  BY BoxCollectEffect
<1>k. ASSUME ~Cleanup, results' = results, phases' = phases PROVE FilesNeverOverclaim'
  BY <1>c, <1>k, ClaimStays DEF FileInv
<1>t. ASSUME ~Cleanup, TornWrite(results), phases' = phases PROVE FilesNeverOverclaim'
  <2>1. CASE results' = results
    BY <1>k, <1>t, <2>1
  <2>2. CASE results'.state = "torn"
    BY <2>2 DEF FilesNeverOverclaim
  <2>3. QED
    BY <1>t, <2>1, <2>2, TornClaims
<1>1. CASE BeginCollect
  BY <1>1 DEF BeginCollect, FileInv, FilesNeverOverclaim
<1>2. CASE Cleanup
  BY <1>2 DEF Cleanup, FileInv, FilesNeverOverclaim
<1>3. CASE WriteReplay
  <2>1. FilesNeverOverclaim'
    BY <1>3 DEF WriteReplay, FileInv, FilesNeverOverclaim
  <2>2. QED
    BY <1>f, <1>3, <2>1 DEF WriteReplay, FileInv
<1>4. CASE WritePhases
  <2>1. FilesNeverOverclaim'
    BY <1>4 DEF WritePhases, FileInv, FilesNeverOverclaim
  <2>2. QED
    BY <1>f, <1>4, <2>1 DEF WritePhases, FileInv, PhasesCurrent
<1>5. CASE WriteResults
  <2>1. CASE results' = [state |-> "whole", outcome |-> result] /\ pc' = "index" /\ UNCHANGED report
    <3>1. FilesNeverOverclaim'
      BY <1>c, <1>5, <2>1, ResultIsNoOverclaim DEF WriteResults
    <3>2. QED
      BY <1>5, <2>1, <3>1 DEF WriteResults, FileInv, PhasesCurrent
  <2>2. CASE TornWrite(results) /\ FailCollect /\ ioFailed'
    <3>1. FilesNeverOverclaim'
      BY <1>5, <1>t, <2>2 DEF WriteResults, Cleanup
    <3>2. QED
      BY <1>f, <1>5, <2>2, <3>1 DEF WriteResults, FileInv
  <2>3. QED
    BY <1>5, <2>1, <2>2 DEF WriteResults
<1>6. CASE WriteIndex
  <2>1. FilesNeverOverclaim'
    BY <1>6, <1>k DEF WriteIndex, Cleanup
  <2>2. QED
    BY <1>f, <1>6, <2>1 DEF WriteIndex, FileInv, PhasesCurrent
<1>7. CASE Upload
  <2>1. FilesNeverOverclaim'
    BY <1>7, <1>k DEF Upload, Cleanup
  <2>2. QED
    BY <1>7, <2>1 DEF Upload, FileInv, PhasesCurrent
<1>8. CASE WriteFinalResults
  <2>1. CASE /\ results' = [state |-> "whole", outcome |-> result] /\ pc' = "finalIndex"
             /\ UNCHANGED report
    <3>1. FilesNeverOverclaim'
      BY <1>c, <1>8, <2>1, ResultIsNoOverclaim DEF WriteFinalResults
    <3>2. QED
      BY <1>8, <2>1, <3>1 DEF WriteFinalResults, FileInv, PhasesCurrent, Current
  <2>2. CASE TornWrite(results) /\ FailCollect /\ ioFailed'
    <3>1. FilesNeverOverclaim'
      BY <1>8, <1>t, <2>2 DEF WriteFinalResults, Cleanup
    <3>2. QED
      BY <1>f, <1>8, <2>2, <3>1 DEF WriteFinalResults, FileInv
  <2>3. QED
    BY <1>8, <2>1, <2>2 DEF WriteFinalResults
<1>9. CASE WriteFinalIndex
  <2>1. FilesNeverOverclaim'
    BY <1>9, <1>k DEF WriteFinalIndex, Cleanup
  <2>2. CASE /\ index' = [state |-> "whole", outcome |-> result]
             /\ UNCHANGED <<result, phaseResults, ioFailed>>
             /\ pc' \in {"summary", "finish"}
    BY <1>9, <2>1, <2>2 DEF WriteFinalIndex, FileInv, PhasesCurrent, Current
  <2>3. CASE FailCollect /\ ioFailed'
    BY <1>f, <1>9, <2>1, <2>3 DEF FileInv
  <2>4. QED
    BY <1>9, <2>2, <2>3 DEF WriteFinalIndex
<1>10. CASE UploadSummary
  <2>1. pc = "summary" /\ pc' = "finish" /\ phases' = phases /\ phaseResults' = phaseResults
    BY <1>10 DEF UploadSummary
  <2>2. CASE UNCHANGED <<result, runErr, files>>
    <3>1. FilesNeverOverclaim'
      BY <1>k, <1>10, <2>2 DEF UploadSummary, Cleanup
    <3>2. QED
      BY <2>1, <2>2, <3>1 DEF FileInv, Current, PhasesCurrent
  <2>3. CASE /\ result' = Degraded
             /\ \/ /\ results' = [state |-> "whole", outcome |-> Degraded]
                   /\ index' = [state |-> "whole", outcome |-> Degraded]
                   /\ ioFailed' = ioFailed
                \/ /\ TornWrite(results) \/ results' = [state |-> "whole", outcome |-> Degraded]
                   /\ ioFailed' = TRUE
    <3>1. results' = [state |-> "whole", outcome |-> Degraded] => FilesNeverOverclaim'
      BY DegradedFields DEF FilesNeverOverclaim
    <3>2. FilesNeverOverclaim'
      BY <1>10, <1>t, <2>1, <2>3, <3>1 DEF Cleanup
    <3>3. QED
      BY <2>1, <2>3, <3>2 DEF FileInv, Current, PhasesCurrent
  <2>4. QED
    BY <1>10, <2>2, <2>3 DEF UploadSummary
<1>11. CASE Finish
  <2>1. FilesNeverOverclaim'
    BY <1>11, <1>k DEF Finish, Cleanup
  <2>2. QED
    BY <1>11, <2>1 DEF Finish, FileInv, Current, PhasesCurrent
<1>12. CASE Exit
  <2>1. FilesNeverOverclaim'
    BY <1>12, <1>k DEF Exit, Cleanup
  <2>2. QED
    BY <1>12, <2>1 DEF Exit, FileInv, Current, PhasesCurrent
<1>13. QED
  BY <1>1, <1>2, <1>3, <1>4, <1>5, <1>6, <1>7, <1>8, <1>9, <1>10, <1>11, <1>12 DEF CollectNext

\* FileInv is inductive, given the other invariants.
LEMMA FileStep ==
  TypeOK /\ ReportInv /\ TraceInv /\ BoxInv /\ SettleInv /\ FileInv /\ [Next]_vars => FileInv'
<1> SUFFICES ASSUME TypeOK, ReportInv, TraceInv, BoxInv, SettleInv, FileInv, [Next]_vars
             PROVE  FileInv'
  OBVIOUS
<1>1. ASSUME Expire \/ Done \/ UNCHANGED vars PROVE FileInv'
  <2>1. /\ UNCHANGED <<cfg, pc, ready, settled, result, phaseResults, results, index, phases, ioFailed>>
        /\ sandbox' = sandbox \/ (Expire /\ sandbox \in {"created", "running"})
    BY <1>1 DEF Expire, Done, vars, provider, report, files
  <2>2. FilesNeverOverclaim'
    BY <2>1, ClaimStays DEF FileInv
  <2>3. QED
    BY <2>1, <2>2 DEF FileInv, Current, PhasesCurrent
<1>2. QED
  BY <1>1, FileMain, FileCollect DEF Next, EngineStep

\* Every run keeps FileInv.
LEMMA FileAlways == Spec => []FileInv
<1>1. Init => FileInv
  <2> SUFFICES ASSUME Init PROVE FileInv
    OBVIOUS
  <2>1. pc = "probe" /\ results.state = "absent" /\ pc \in MainSteps
    BY DEF Init, MainSteps, PrepareSteps
  <2>2. QED
    BY <2>1, PartsOfCollect DEF FileInv, FilesNeverOverclaim
<1>2. QED
  BY <1>1, FileStep, TypeCorrect, ReportAlways, TraceAlways, BoxAlways, SettleAlways, PTL DEF Spec

\* At no moment of any run does a readable results.json claim a success that is not
\* backed by a readable phases.json and a sandbox that has been dealt with.
THEOREM FilesAreModest == Spec => []FilesNeverOverclaim
<1>1. FileInv => FilesNeverOverclaim
  BY DEF FileInv
<1>2. QED
  BY <1>1, FileAlways, PTL

\* In every run whose artifacts could be written, the three files say what Run returned.
THEOREM FilesAreCurrent == Spec => []FilesAgree
<1>1. FileInv => FilesAgree
  BY DEF FileInv, FilesAgree, Current, PhasesCurrent
<1>2. QED
  BY <1>1, FileAlways, PTL

-----------------------------------------------------------------------------
(* ImplementsLifecycle *)

\* Phase p has an entry, and one that is not a success.
Ended(p) == \E i \in 1 .. Len(phaseResults) : phaseResults[i].phase = p
EndedBadly(p) ==
  \E i \in 1 .. Len(phaseResults) :
    phaseResults[i].phase = p /\ phaseResults[i].status # "SUCCEEDED"

\* The abstract state, by names.
Outcomes == [p \in Phases |-> LifecycleOutcome(p)]
Disabled == {p \in {"setup", "execute", "verify"} : ~cfg[p]}
Held == IF ~known THEN "none" ELSE IF settled THEN "settled" ELSE "held"

\* The outcome of a phase, from its entries.
LEMMA OutcomeValue ==
  ASSUME TypeOK, NEW p
  PROVE  LifecycleOutcome(p) =
           IF p = "collect" /\ pc \notin Over THEN "pending"
           ELSE IF p = "prepare" /\ pc \in Over /\ "writer" \notin ready THEN "failed"
           ELSE IF EndedBadly(p) THEN "failed"
           ELSE IF Ended(p) THEN "ok" ELSE "pending"
<1>1. DOMAIN phaseResults = 1 .. Len(phaseResults)
  BY DEF TypeOK
<1>2. QED
  BY <1>1 DEF LifecycleOutcome, Ended, EndedBadly

\* The same in the next state.
LEMMA OutcomeNext ==
  ASSUME TypeOK', NEW p
  PROVE  LifecycleOutcome(p)' =
           IF p = "collect" /\ pc' \notin Over THEN "pending"
           ELSE IF p = "prepare" /\ pc' \in Over /\ "writer" \notin ready' THEN "failed"
           ELSE IF EndedBadly(p)' THEN "failed"
           ELSE IF Ended(p)' THEN "ok" ELSE "pending"
<1>1. DOMAIN phaseResults' = 1 .. Len(phaseResults')
  BY DEF TypeOK
<1>2. QED
  BY <1>1 DEF LifecycleOutcome, Ended, EndedBadly, Over

\* One outcome changes.
LEMMA OneOutcome ==
  ASSUME NEW p \in Phases, NEW end,
         \A q \in Phases \ {p} : LifecycleOutcome(q)' = LifecycleOutcome(q),
         LifecycleOutcome(p)' = end
  PROVE  Outcomes' = [Outcomes EXCEPT ![p] = end]
BY DEF Outcomes

\* None changes.
LEMMA SameOutcomes ==
  ASSUME \A q \in Phases : LifecycleOutcome(q)' = LifecycleOutcome(q)
  PROVE  Outcomes' = Outcomes
BY DEF Outcomes

\* An entry of one phase says nothing of another.
LEMMA OtherEntry ==
  ASSUME TypeOK, NEW e \in Outcome, phaseResults' = Append(phaseResults, e), NEW q
  PROVE  /\ Ended(q)' <=> (Ended(q) \/ e.phase = q)
         /\ EndedBadly(q)' <=> (EndedBadly(q) \/ (e.phase = q /\ e.status # "SUCCEEDED"))
<1>n. PICK n \in Nat : n = Len(phaseResults)
  BY DEF TypeOK
<1>1. /\ Len(phaseResults') = n + 1 /\ phaseResults'[n + 1] = e
      /\ \A i \in 1 .. n : phaseResults'[i] = phaseResults[i]
  BY <1>n, Appended
<1>2. Ended(q)' <=> \E i \in 1 .. n + 1 : phaseResults'[i].phase = q
  BY <1>1 DEF Ended
<1>3. EndedBadly(q)' <=>
        \E i \in 1 .. n + 1 : phaseResults'[i].phase = q /\ phaseResults'[i].status # "SUCCEEDED"
  BY <1>1 DEF EndedBadly
<1>4. \A i : i \in 1 .. n + 1 <=> i \in 1 .. n \/ i = n + 1
  OBVIOUS
<1>5. Ended(q)' <=> (Ended(q) \/ e.phase = q)
  BY <1>n, <1>1, <1>2, <1>4 DEF Ended
<1>6. EndedBadly(q)' <=> (EndedBadly(q) \/ (e.phase = q /\ e.status # "SUCCEEDED"))
  BY <1>n, <1>1, <1>3, <1>4 DEF EndedBadly
<1>7. QED
  BY <1>5, <1>6

\* The steps that add no entry, or one of collect, before Run returns or after it.
LEMMA OutcomesStay ==
  ASSUME TypeOK, TypeOK', pc \in Over <=> pc' \in Over,
         pc \in Over => ready' = ready,
         \/ phaseResults' = phaseResults
         \/ /\ pc \notin Over
            /\ \E e \in Outcome : e.phase = "collect" /\ phaseResults' = Append(phaseResults, e)
  PROVE  Outcomes' = Outcomes
<1> SUFFICES ASSUME NEW q \in Phases PROVE LifecycleOutcome(q)' = LifecycleOutcome(q)
  BY SameOutcomes
<1>1. CASE phaseResults' = phaseResults
  BY <1>1, OutcomeValue, OutcomeNext DEF Ended, EndedBadly
<1>2. CASE q = "collect" /\ pc \notin Over
  BY <1>2, OutcomeValue, OutcomeNext
<1>3. CASE /\ q # "collect" /\ pc \notin Over
           /\ \E e \in Outcome : e.phase = "collect" /\ phaseResults' = Append(phaseResults, e)
  <2>1. Ended(q)' = Ended(q) /\ EndedBadly(q)' = EndedBadly(q)
    BY <1>3, OtherEntry DEF Ended, EndedBadly
  <2>2. QED
    BY <1>3, <2>1, OutcomeValue, OutcomeNext
<1>4. QED
  BY <1>1, <1>2, <1>3

\* The phases before p, by their places.
LEMMA BeforePlace ==
  ASSUME NEW p \in Phases, NEW q \in Lifecycle!Before(p) \ Disabled
  PROVE  q \in Phases /\ Enabled(q) /\ Place(q) < Place(p) /\ q # "collect"
<1>1. /\ q \in {"prepare", "setup", "execute", "verify"}
      /\ q \in {"setup", "execute", "verify"} => cfg[q]
      /\ p = "prepare" => FALSE
      /\ p = "setup" => q = "prepare"
      /\ p = "execute" => q \in {"prepare", "setup"}
      /\ p = "verify" => q \in {"prepare", "setup", "execute"}
  BY DEF Lifecycle!Before, Disabled, Phases
<1>2. cfg.setup = cfg["setup"] /\ cfg.execute = cfg["execute"] /\ cfg.verify = cfg["verify"]
  OBVIOUS
<1>3. q \in {"setup", "execute", "verify"} => One(cfg[q]) = 1
  BY <1>1 DEF One
<1>4. q \in Phases /\ Enabled(q) /\ q # "collect"
  BY <1>1 DEF Enabled, Phases
<1>5. Place(q) < Place(p)
  <2> USE PlaceValues DEF Phases
  <2>1. CASE q = "prepare"
    BY <1>1, <2>1
  <2>2. CASE q = "setup"
    BY <1>1, <1>3, <2>2
  <2>3. CASE q = "execute"
    BY <1>1, <1>3, <2>3
  <2>4. CASE q = "verify"
    BY <1>1, <1>3, <2>4
  <2>5. QED
    BY <1>1, <2>1, <2>2, <2>3, <2>4
<1>6. QED
  BY <1>4, <1>5

\* A phase whose place is among n entries that all went well is "ok".
LEMMA WellIsOk ==
  ASSUME TypeOK, pc \notin Over, NEW n \in Nat, n <= Len(phaseResults), WentWell(n),
         n < Place("collect"),
         NEW q \in Phases, Enabled(q), Place(q) \in 1 .. n,
         \A i \in n + 1 .. Len(phaseResults) : phaseResults[i].phase # q
  PROVE  LifecycleOutcome(q) = "ok"
<1>1. Len(phaseResults) \in Nat
  BY DEF TypeOK
<1>2. q # "collect"
  BY PlaceValues
<1>3. EnabledPhases[Place(q)] = q
  BY PhasesInOrder
<1>4. Ended(q)
  BY <1>1, <1>3 DEF Ended, WentWell
<1>5. ~EndedBadly(q)
  BY <1>1 DEF EndedBadly, WentWell
<1>6. QED
  BY <1>2, <1>4, <1>5, OutcomeValue

\* It is the turn of the phase the engine is in.
LEMMA OwnTurn ==
  ASSUME TypeOK, TraceInv, pc \in MainSteps, NEW p \in Phases, p = PhaseAt(pc)
  PROVE  /\ p # "collect" /\ p \notin Disabled /\ LifecycleOutcome(p) = "pending"
         /\ ~Ended(p) /\ ~EndedBadly(p)
         /\ \A q \in Lifecycle!Before(p) \ Disabled : LifecycleOutcome(q) = "ok"
<1>n. PICK n \in Nat : n = Len(phaseResults)
  BY DEF TypeOK
<1>1. /\ p # "collect" /\ Enabled(p) /\ n = Place(p) - 1 /\ WentWell(n) /\ pc \notin Over
  BY <1>n, PhaseAtSteps, PartsOfCollect DEF TraceInv
<1>2. /\ Place(p) \in 1 .. Place("collect") /\ Place("collect") \in Nat
      /\ Place(p) # Place("collect")
      /\ \A i \in 1 .. Place("collect") : Place(EnabledPhases[i]) = i
  BY <1>1, PhasesInOrder, PlaceValues DEF Enabled, Phases
<1>3. \A i \in 1 .. n : phaseResults[i].phase # p
  <2> SUFFICES ASSUME NEW i \in 1 .. n, phaseResults[i].phase = p PROVE FALSE
    OBVIOUS
  <2>1. EnabledPhases[i] = p /\ i \in 1 .. Place("collect")
    BY <1>1, <1>2 DEF WentWell
  <2>2. Place(p) = i
    BY <1>2, <2>1
  <2>3. QED
    BY <1>1, <2>2
<1>4. ~Ended(p) /\ ~EndedBadly(p)
  BY <1>n, <1>3 DEF Ended, EndedBadly
<1>5. LifecycleOutcome(p) = "pending"
  BY <1>1, <1>4, OutcomeValue
<1>6. ASSUME NEW q \in Lifecycle!Before(p) \ Disabled PROVE LifecycleOutcome(q) = "ok"
  <2>1. q \in Phases /\ Enabled(q) /\ Place(q) < Place(p)
    BY BeforePlace
  <2>2. Place(q) \in 1 .. n /\ n < Place("collect")
    <3>1. Place(q) \in 1 .. Place("collect")
      BY <2>1, PhasesInOrder
    <3>2. QED
      BY <1>1, <1>2, <2>1, <3>1
  <2>3. QED
    BY <1>n, <1>1, <2>1, <2>2, WellIsOk
<1>7. p \notin Disabled
  BY <1>1 DEF Disabled, Enabled
<1>8. QED
  BY <1>1, <1>4, <1>5, <1>6, <1>7

\* Once the main part is over, it is collect's turn.
LEMMA CollectIsDue ==
  ASSUME TypeOK, pc \notin Over, NEW k \in Nat, MainEnded(k),
         \A i \in k + 1 .. Len(phaseResults) : phaseResults[i].phase = "collect"
  PROVE  Lifecycle!CollectDue
<1>1. /\ k \in 1 .. Place("collect") - 1 /\ k <= Len(phaseResults)
      /\ WentWell(k - 1) /\ phaseResults[k].phase = EnabledPhases[k]
      /\ Place("collect") \in Nat /\ Len(phaseResults) \in Nat
  BY PlaceValues DEF MainEnded, TypeOK
<1>2. EnabledPhases[k] \in Phases /\ EnabledPhases[k] # "collect"
  <2>1. EnabledPhases[k] \in Phases /\ Place(EnabledPhases[k]) = k
    BY <1>1, PhasesInOrder
  <2>2. QED
    BY <1>1, <2>1
<1>3. CASE phaseResults[k].status \in Bad
  <2>1. EndedBadly(EnabledPhases[k])
    BY <1>1, <1>3 DEF EndedBadly, Bad
  <2>2. LifecycleOutcome(EnabledPhases[k]) = "failed"
    BY <1>2, <2>1, OutcomeValue
  <2>3. QED
    BY <1>2, <2>2 DEF Lifecycle!CollectDue, Lifecycle!Failed, Lifecycle!Phases, Phases
<1>4. CASE k = Place("collect") - 1 /\ phaseResults[k].status = "SUCCEEDED"
  <2>1. WentWell(k)
    BY <1>1, <1>4 DEF WentWell
  <2>2. ASSUME NEW q \in Lifecycle!Before("collect") \ Disabled PROVE LifecycleOutcome(q) = "ok"
    <3>1. q \in Phases /\ Enabled(q) /\ Place(q) < Place("collect") /\ q # "collect"
      BY BeforePlace DEF Phases
    <3>2. Place(q) \in 1 .. k
      <4>1. Place(q) \in 1 .. Place("collect")
        BY <3>1, PhasesInOrder
      <4>2. QED
        BY <1>1, <1>4, <3>1, <4>1
    <3>3. QED
      BY <1>1, <1>4, <2>1, <3>1, <3>2, WellIsOk
  <2>3. LifecycleOutcome("collect") = "pending"
    BY OutcomeValue
  <2>4. Lifecycle!Before("collect") \subseteq Phases
    BY DEF Lifecycle!Before, Phases
  <2>5. QED
    BY <2>2, <2>3, <2>4 DEF Lifecycle!CollectDue, Lifecycle!Turn, Disabled, Phases
<1>5. QED
  BY <1>3, <1>4 DEF MainEnded

\* The end of a main phase is that of the abstract one.
LEMMA PhaseEnds ==
  ASSUME TypeOK, TypeOK', TraceInv, BoxInv, pc \in MainSteps, pc' \notin Over,
         UNCHANGED <<cfg, known, settled>>,
         NEW e \in Outcome, phaseResults' = Append(phaseResults, e), e.phase = PhaseAt(pc)
  PROVE  Lifecycle!EndMainPhase(PhaseAt(pc))
<1>p. PICK p \in Phases : p = PhaseAt(pc)
  BY PhaseAtSteps
<1>1. /\ p # "collect" /\ p \notin Disabled /\ LifecycleOutcome(p) = "pending"
      /\ ~Ended(p) /\ ~EndedBadly(p)
      /\ \A q \in Lifecycle!Before(p) \ Disabled : LifecycleOutcome(q) = "ok"
  BY <1>p, OwnTurn
<1>2. pc \notin Over
  BY PartsOfCollect
<1>3. PICK end \in {"ok", "failed"} : LifecycleOutcome(p)' = end
  <2>1. Ended(p)' /\ (EndedBadly(p)' <=> e.status # "SUCCEEDED")
    BY <1>p, <1>1, OtherEntry
  <2>2. QED
    BY <1>1, <2>1, OutcomeNext
<1>4. \A q \in Phases \ {p} : LifecycleOutcome(q)' = LifecycleOutcome(q)
  <2> SUFFICES ASSUME NEW q \in Phases \ {p} PROVE LifecycleOutcome(q)' = LifecycleOutcome(q)
    OBVIOUS
  <2>1. (Ended(q)' <=> Ended(q)) /\ (EndedBadly(q)' <=> EndedBadly(q))
    BY <1>p, OtherEntry
  <2>2. QED
    BY <1>2, <2>1, OutcomeValue, OutcomeNext
<1>5. Outcomes' = [Outcomes EXCEPT ![p] = end]
  BY <1>3, <1>4, OneOutcome
<1>6. Held' = Held /\ Held # "settled" /\ Disabled' = Disabled
  BY DEF Held, BoxInv, Disabled
<1>7. Lifecycle!Before(p) \subseteq Phases
  BY DEF Lifecycle!Before, Phases
<1>8. Lifecycle!Turn(p)
  BY <1>1, <1>7 DEF Lifecycle!Turn, Disabled
<1>o. (pc \in Over)' = (pc \in Over)
  BY <1>2 DEF Over
<1>9. Lifecycle!EndMainPhase(p)
  BY <1>1, <1>2, <1>5, <1>6, <1>8, <1>o
     DEF Lifecycle!EndMainPhase, Outcomes, Held, Disabled
<1>10. QED
  BY <1>p, <1>9

\* A step that the abstract run does not see.
LEMMA Unseen ==
  ASSUME TypeOK, TypeOK', UNCHANGED <<cfg, known, settled>>,
         pc \in Over <=> pc' \in Over, pc \in Over => ready' = ready,
         \/ phaseResults' = phaseResults
         \/ /\ pc \notin Over
            /\ \E e \in Outcome : e.phase = "collect" /\ phaseResults' = Append(phaseResults, e)
  PROVE  UNCHANGED Lifecycle!vars
<1>1. Outcomes' = Outcomes
  BY OutcomesStay
<1>2. Held' = Held /\ Disabled' = Disabled
  BY DEF Held, Disabled
<1>3. (pc \in Over)' = (pc \in Over)
  BY DEF Over
<1>4. QED
  BY <1>1, <1>2, <1>3 DEF Lifecycle!vars, Outcomes, Held, Disabled

\* The steps of the main part.
LEMMA MainImplements ==
  ASSUME TypeOK, TypeOK', TraceInv, BoxInv, PrepareNext \/ MainNext
  PROVE  [Lifecycle!Next]_Lifecycle!vars
<1>1. /\ cfg' = cfg /\ settled' = settled /\ pc \in MainSteps /\ pc \notin Over /\ ~settled
  BY BoxMainEffect, PartsOfCollect DEF BoxInv
<1>2. CASE Probe
  <2>1. pc = "probe" /\ known' = known /\ ready = {} /\ ~known
    BY <1>2 DEF Probe, provider, TraceInv, BoxInv, Before
  <2>2. CASE pc' = "collector" /\ UNCHANGED report
    BY <1>1, <2>1, <2>2, Unseen, PartsOfCollect DEF report
  <2>3. CASE pc' = "returned" /\ ready' = ready /\ phaseResults' = phaseResults
    <3>1. PhaseAt(pc) = "prepare" /\ LifecycleOutcome("prepare") = "pending"
      BY <1>1, <2>1, PhaseAtSteps, OwnTurn DEF PrepareSteps
    <3>2. phaseResults = <<>>
      <4>1. Len(phaseResults) = 0
        BY <1>1, <3>1, PlaceValues DEF TraceInv
      <4>2. QED
        BY <4>1 DEF TypeOK
    <3>3. \A q \in Phases : ~Ended(q) /\ ~EndedBadly(q) /\ ~Ended(q)' /\ ~EndedBadly(q)'
      BY <2>3, <3>2 DEF Ended, EndedBadly
    <3>4. \A q \in Phases \ {"prepare"} : LifecycleOutcome(q)' = LifecycleOutcome(q)
      BY <1>1, <3>3, OutcomeValue, OutcomeNext
    <3>5. pc' \in Over
      BY <2>3 DEF Over
    <3>6. LifecycleOutcome("prepare")' = "failed"
      BY <2>1, <2>3, <3>5, OutcomeNext
    <3>7. Outcomes' = [Outcomes EXCEPT !["prepare"] = "failed"]
      BY <3>4, <3>6, OneOutcome DEF Phases
    <3>8. Outcomes["prepare"] = "pending"
      BY <3>1 DEF Outcomes, Phases
    <3>9. Disabled' = Disabled /\ Held' = Held /\ Held = "none"
      BY <1>1, <2>1 DEF Disabled, Held
    <3>10. Lifecycle!Refuse
      BY <1>1, <3>5, <3>7, <3>8, <3>9 DEF Lifecycle!Refuse, Outcomes, Held, Disabled
    <3>11. QED
      BY <3>10 DEF Lifecycle!Next
  <2>4. QED
    BY <1>2, <2>2, <2>3 DEF Probe
<1>3. CASE ~Probe
  <2>1. GoesOn \/ EndsWell \/ Fails
    BY <1>3, PrepareEffect, MainEffect
  <2>2. pc' \notin Over
    BY <1>3, BoxMainEffect, PartsOfCollect DEF Before, MainSteps, PrepareSteps
  <2>3. CASE known' = known /\ GoesOn
    BY <1>1, <2>2, <2>3, Unseen DEF GoesOn
  <2>4. CASE known' = known /\ (EndsWell \/ Fails)
    <3>1. PICK e \in Outcome : e.phase = PhaseAt(pc) /\ phaseResults' = Append(phaseResults, e)
      BY <2>4 DEF EndsWell, Fails
    <3>2. Lifecycle!EndMainPhase(PhaseAt(pc)) /\ PhaseAt(pc) \in Lifecycle!Phases
      BY <1>1, <2>2, <2>4, <3>1, PhaseEnds, PhaseAtSteps DEF Phases, Lifecycle!Phases
    <3>3. QED
      BY <3>2 DEF Lifecycle!Next
  <2>5. CASE known' # known
    <3>1. pc = "create" /\ pc' = "start" /\ known' /\ phaseResults' = phaseResults
      <4>1. CASE PrepareNext
        BY <2>5, <4>1 DEF PrepareNext, Probe, StartCollector, StartTelemetry, ResolveBackend,
           CreateSandbox, StartSandbox, SyncWorkspaceIn, WriteContext, vars, provider, report, files
      <4>2. CASE MainNext
        BY <2>5, <4>2 DEF MainNext, PlanSetup, RunSetupStep, PrepareCommand, RunCommand,
           CheckSmoke, RunSmoke, CheckArtifacts, vars, provider, report, files
      <4>3. QED
        BY <4>1, <4>2
    <3>2. PhaseAt(pc) = "prepare" /\ LifecycleOutcome("prepare") = "pending"
      BY <1>1, <3>1, PhaseAtSteps, OwnTurn DEF PrepareSteps
    <3>3. Outcomes["prepare"] = "pending" /\ Outcomes' = Outcomes
      <4>1. Outcomes["prepare"] = "pending"
        BY <3>2 DEF Outcomes, Phases
      <4>2. QED
        BY <1>1, <2>2, <3>1, <4>1, OutcomesStay
    <3>4. Held = "none" /\ Held' = "held" /\ Disabled' = Disabled
      BY <1>1, <2>5, <3>1 DEF Held, Disabled, TypeOK
    <3>5. (pc \in Over)' = (pc \in Over)
      BY <1>1, <2>2 DEF Over
    <3>6. Lifecycle!Acquire
      BY <1>1, <3>3, <3>4, <3>5 DEF Lifecycle!Acquire, Outcomes, Held, Disabled
    <3>7. QED
      BY <3>6 DEF Lifecycle!Next
  <2>6. QED
    BY <2>1, <2>3, <2>4, <2>5
<1>4. QED
  BY <1>2, <1>3

\* The steps of collect and after it.
LEMMA CollectImplements ==
  ASSUME TypeOK, TypeOK', TraceInv, BoxInv, SettleInv, CollectNext \/ Finish \/ Exit
  PROVE  [Lifecycle!Next]_Lifecycle!vars
<1> USE PartsOfCollect
<1>1. /\ cfg' = cfg /\ known' = known /\ ready' = ready
      /\ ~Cleanup => settled' = settled
      /\ EntersCollect \/ FailsInside \/ KeepsEntries
  BY CollectEffect, BoxCollectEffect
<1>2. CASE Finish
  <2>1. /\ pc = "finish" /\ pc' = "returned" /\ phaseResults' = phaseResults /\ settled' = settled
        /\ "writer" \in ready
    BY <1>2 DEF Finish, report, provider, TraceInv
  <2>2. PICK k \in Nat : MainEnded(k) /\ (CollectOk(k) \/ CollectFailed(k))
    BY <2>1 DEF TraceInv, Refused
  <2>3. \A i \in k + 1 .. Len(phaseResults) : phaseResults[i].phase = "collect"
    BY <2>2 DEF CollectOk, CollectFailed
  <2>4. Lifecycle!CollectDue
    BY <2>1, <2>2, <2>3, CollectIsDue
  <2>5. Ended("collect")'
    <3>1. k + 1 \in 1 .. Len(phaseResults)
      BY <2>2 DEF CollectOk, CollectFailed, MainEnded, TypeOK
    <3>2. phaseResults[k + 1].phase = "collect"
      BY <2>2, <2>3, <3>1 DEF CollectOk
    <3>3. QED
      BY <2>1, <3>1, <3>2 DEF Ended
  <2>6. PICK end \in {"ok", "failed"} : LifecycleOutcome("collect")' = end
    BY <2>1, <2>5, OutcomeNext
  <2>7. \A q \in Phases \ {"collect"} : LifecycleOutcome(q)' = LifecycleOutcome(q)
    BY <1>1, <2>1, OutcomeValue, OutcomeNext DEF Ended, EndedBadly
  <2>8. Outcomes' = [Outcomes EXCEPT !["collect"] = end]
    BY <2>6, <2>7, OneOutcome DEF Phases
  <2>9. Disabled' = Disabled /\ Held' = Held /\ Held # "held"
    <3>1. known => settled
      BY <2>1 DEF SettleInv, AfterCleanup
    <3>2. QED
      BY <1>1, <2>1, <3>1 DEF Disabled, Held
  <2>o. (pc \in Over)' /\ pc \notin Over
    BY <2>1 DEF Over
  <2>10. Lifecycle!EndCollect
    BY <2>o, <2>4, <2>6, <2>8, <2>9 DEF Lifecycle!EndCollect, Outcomes, Held, Disabled
  <2>11. QED
    BY <2>10 DEF Lifecycle!Next
<1>3. CASE Cleanup
  <2>1. /\ pc = "cleanup" /\ pc' = "replay" /\ settled' = known /\ phaseResults' = phaseResults
        /\ ~settled /\ pc \notin Over /\ pc' \notin Over
    BY <1>3 DEF Cleanup, BoxInv, vars
  <2>2. CASE ~known
    <3>1. settled' = settled
      BY <2>1, <2>2 DEF TypeOK
    <3>2. QED
      BY <1>1, <2>1, <3>1, Unseen
  <2>3. CASE known
    <3>1. PICK n \in Nat : n = Len(phaseResults)
      BY DEF TypeOK
    <3>2. MainEnded(n)
      BY <2>1, <3>1 DEF TraceInv
    <3>3. Lifecycle!CollectDue
      BY <2>1, <3>1, <3>2, CollectIsDue
    <3>4. Outcomes' = Outcomes
      BY <2>1, OutcomesStay
    <3>5. Held = "held" /\ Held' = "settled" /\ Disabled' = Disabled
      BY <1>1, <2>1, <2>3 DEF Held, Disabled
    <3>6. Lifecycle!Settle
      BY <2>1, <3>3, <3>4, <3>5 DEF Lifecycle!Settle, Outcomes, Held, Disabled
    <3>7. QED
      BY <3>6 DEF Lifecycle!Next
  <2>4. QED
    BY <2>2, <2>3
<1>4. CASE ~Finish /\ ~Cleanup
  <2>1. pc \in Over <=> pc' \in Over
    <3>1. CASE Exit
      BY <3>1 DEF Exit
    <3>2. CASE ~Exit
      <4>1. CollectNext /\ ~Cleanup
        BY <1>4, <3>2
      <4>2. pc \in CollectSteps /\ pc' \in CollectSteps \cup {"finish"}
        BY <4>1, FailCollectEffect
           DEF CollectNext, BeginCollect, WriteReplay, WritePhases, WriteResults, WriteIndex,
               Upload, WriteFinalResults, WriteFinalIndex, UploadSummary, CollectSteps
      <4>3. QED
        BY <4>2 DEF CollectSteps
    <3>3. QED
      BY <3>1, <3>2
  <2>2. settled' = settled
    BY <1>1, <1>4
  <2>3. CASE phaseResults' = phaseResults
    BY <1>1, <2>1, <2>2, <2>3, Unseen
  <2>4. CASE EntersCollect \/ FailsInside
    <3>1. /\ pc \notin Over
          /\ \E e \in Outcome : e.phase = "collect" /\ phaseResults' = Append(phaseResults, e)
      BY <2>4 DEF EntersCollect, FailsInside
    <3>2. QED
      BY <1>1, <2>1, <2>2, <3>1, Unseen
  <2>5. QED
    BY <1>1, <2>3, <2>4 DEF KeepsEntries
<1>5. QED
  BY <1>2, <1>3, <1>4

\* The initial state is an initial state of the abstract run.
LEMMA InitImplements == Init => Lifecycle!Init
<1> SUFFICES ASSUME Init PROVE Lifecycle!Init
  OBVIOUS
<1>1. TypeOK /\ pc \notin Over /\ phaseResults = <<>> /\ ~known
  BY InitTypeOK, PartsOfCollect DEF Init
<1>2. \A q \in Phases : LifecycleOutcome(q) = "pending"
  <2>1. \A q \in Phases : ~Ended(q) /\ ~EndedBadly(q)
    BY <1>1 DEF Ended, EndedBadly
  <2>2. QED
    BY <1>1, <2>1, OutcomeValue
<1>3. Outcomes = [q \in Phases |-> "pending"]
  BY <1>2 DEF Outcomes
<1>4. Held = "none" /\ Disabled \in SUBSET {"setup", "execute", "verify"}
  BY <1>1 DEF Held, Disabled
<1>5. QED
  BY <1>1, <1>3, <1>4
     DEF Lifecycle!Init, Lifecycle!Optional, Lifecycle!Phases, Outcomes, Held, Disabled, Phases

\* Every run of the engine is a run of RunLifecycle: the enabled phases in order, up to
\* the first failure, then collect, and no sandbox held at the end.
THEOREM EngineImplementsLifecycle == Spec => ImplementsLifecycle
<1>1. Init => Lifecycle!Init
  BY InitImplements
<1>2. TypeOK /\ TypeOK' /\ TraceInv /\ BoxInv /\ SettleInv /\ [Next]_vars
        => [Lifecycle!Next]_Lifecycle!vars
  <2> SUFFICES ASSUME TypeOK, TypeOK', TraceInv, BoxInv, SettleInv, [Next]_vars
               PROVE  [Lifecycle!Next]_Lifecycle!vars
    OBVIOUS
  <2>1. CASE Expire \/ Done \/ UNCHANGED vars
    <3>1. UNCHANGED <<cfg, pc, known, settled, ready, phaseResults>>
      BY <2>1 DEF Expire, Done, vars, provider, report
    <3>2. QED
      BY <3>1, Unseen
  <2>2. QED
    BY <2>1, MainImplements, CollectImplements DEF Next, EngineStep
<1>3. QED
  BY <1>1, <1>2, TypeCorrect, TraceAlways, BoxAlways, SettleAlways, PTL
     DEF Spec, ImplementsLifecycle, Lifecycle!Spec
=============================================================================
