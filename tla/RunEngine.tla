------------------------------ MODULE RunEngine ------------------------------
(***************************************************************************)
(* The phase engine (src/internal/phase/engine.go): Engine.Run takes one   *)
(* request through prepare, setup, execute, verify and collect, and the    *)
(* command line turns what it returns into the exit code of the process.   *)
(*                                                                         *)
(* The engine is one goroutine; what makes it hard is that nearly every    *)
(* call it makes can fail, that each failure leaves a different part of    *)
(* the run's state initialised, and that the failure, the run's files and  *)
(* the provider's sandbox must still agree when Run returns.  One action   *)
(* is the code between two such calls.                                     *)
(*                                                                         *)
(* A result, an entry of phases.json and a results.json are abstracted to  *)
(* the same record of who ended the run and how (Outcome).                 *)
(***************************************************************************)
EXTENDS Integers, Sequences, FiniteSets

CONSTANTS
  Configs,        \* the configurations a run may have
  MaxSetupSteps,  \* bound on the commands of a setup plan
  ExitCodes       \* the exit codes commands may end with

Phases == {"prepare", "setup", "execute", "verify", "collect"}

\* "unmanaged" stands for the direct, docker and k8s backends.
Kinds == {"unmanaged", "opensandbox", "devcontainer", "apple", "machine"}

\* pause_if_supported_else_keep pauses: the OpenSandbox backend always
\* reports SupportsPauseResume.
CleanupModes == {"keep", "delete", "pause", "stop"}

ConfigType ==
  [kind : Kinds, cleanup : CleanupModes, setup : BOOLEAN, execute : BOOLEAN,
   verify : BOOLEAN, smoke : BOOLEAN, upload : BOOLEAN]

ASSUME RunAssumption ==
  /\ Configs \subseteq ConfigType
  /\ MaxSetupSteps \in Nat
  /\ ExitCodes \subseteq Int /\ 0 \in ExitCodes

\* model.RunStatus; no code assigns ABORTED.
Statuses == {"CREATED", "SUCCEEDED", "FAILED", "TIMED_OUT", "PARTIAL"}

\* The error codes, by the place that reports them.
Errors == {"none", "prepare", "setup", "execute", "timeout", "verify",
           "collect", "upload"}

Outcome ==
  [phase : Phases, status : Statuses, error : Errors, exit : ExitCodes,
   timedOut : BOOLEAN]

\* What an executor hands back: executor.Result and the error beside it.
ExecResults ==
  {r \in [exit : ExitCodes, timedOut : BOOLEAN,
          err : {"none", "deadline", "error"}] :
     /\ r.timedOut => r.err = "deadline"
     /\ r.err = "error" => r.exit = 0}

NoExec == [exit |-> 0, timedOut |-> FALSE, err |-> "none"]

\* A file written with os.WriteFile; a failed write may leave half of it.
FileStates == {"absent", "torn", "whole"}

VARIABLES
  cfg,           \* req.RunConfig, as far as control depends on it
  pc,            \* the next call of the engine
  stepsLeft,     \* setup commands still to run
  ready,         \* the fields of runState that are set
  open,          \* what Run has to close: files, spans, collector process
  known,         \* state.sandboxInfo.ID is set
  sandbox,       \* the provider's sandbox
  pulled,        \* SyncWorkspaceOut has been called
  settled,       \* cleanupBackend has dealt with the sandbox
  result,        \* state.result
  phaseResults,  \* state.phaseResults
  runErr,        \* the error Run returns
  uploadErr,     \* the first upload failed
  results,       \* results.json
  index,         \* index.json
  phases,        \* phases.json
  ioFailed,      \* an artifact could not be written or listed (history)
  exitCode       \* what the process exits with

provider == <<known, sandbox, pulled, settled>>
report == <<result, phaseResults, runErr, uploadErr>>
files == <<results, index, phases, ioFailed>>
vars == <<cfg, pc, stepsLeft, ready, open, provider, report, files, exitCode>>

\* Where the engine can stand, in the order of the code.
PrepareSteps == {"probe", "collector", "telemetry", "backend", "create",
                 "start", "syncIn", "context"}
SetupSteps == {"setup", "setupStep"}
ExecuteSteps == {"execute", "run"}
VerifySteps == {"verify", "smoke", "expected"}
CollectSteps == {"collect", "cleanup", "replay", "phases", "results", "index",
                 "upload", "finalResults", "finalIndex", "summary"}
Over == {"returned", "exited"}

managed == cfg.kind # "unmanaged"

\* The phase that follows p in this configuration.
AfterExecute == IF cfg.verify THEN "verify" ELSE "collect"

AfterSetupMutant == IF cfg.execute /\ ~cfg.verify THEN "execute" ELSE AfterExecute
AfterSetup == IF cfg.execute THEN "execute" ELSE AfterExecute

AfterPrepareMutant == IF cfg.setup THEN "setup" ELSE AfterExecute
AfterPrepare == IF cfg.setup THEN "setup" ELSE AfterSetup

-----------------------------------------------------------------------------
(* Results *)

\* state.phaseResults grows by a successful entry.
AddSuccess(p, exec) ==
  phaseResults' = Append(phaseResults,
    [phase |-> p, status |-> "SUCCEEDED", error |-> "none",
     exit |-> exec.exit, timedOut |-> exec.timedOut])

FailPhaseMutant(p, code, status, exec) ==
  LET end == [phase |-> p, status |-> status, error |-> code,
              exit |-> exec.exit, timedOut |-> exec.timedOut]
  IN  phaseResults' = Append(phaseResults, end) /\ result' = end /\ open' = open

\* failPhase and failPhaseWithStatus: the entry and the result say the same,
\* and the span of the phase is ended.
FailPhase(p, code, status, exec) ==
  LET end == [phase |-> p, status |-> status, error |-> code,
              exit |-> exec.exit, timedOut |-> exec.timedOut]
  IN  /\ phaseResults' = Append(phaseResults, end)
      /\ result' = end
      /\ open' = open \ {p}

FailMainMutant(p, code, status, exec) ==
  FailPhase(p, code, status, exec) /\ runErr' = code /\ pc' = "finish" /\ UNCHANGED uploadErr

\* A main phase fails: Run goes straight to collect with its error.
FailMain(p, code, status, exec) ==
  /\ FailPhase(p, code, status, exec)
  /\ runErr' = code
  /\ pc' = "collect"
  /\ UNCHANGED uploadErr

\* Collect fails: its error is returned unless there is an earlier one.
FailCollect ==
  /\ FailPhase("collect", "collect", "FAILED", NoExec)
  /\ runErr' = IF runErr = "none" THEN "collect" ELSE runErr
  /\ pc' = "finish"
  /\ UNCHANGED uploadErr

\* A write of a JSON artifact that fails leaves the old file or half a new one.
TornWrite(file) ==
  file' \in {file, [file EXCEPT !.state = "torn"]}

-----------------------------------------------------------------------------
(* Prepare *)

\* Everything before there is an artifact writer: compatibility, capability
\* probe, feature gates, artifact directory.  A failure ends the run at once.
Probe ==
  /\ pc = "probe"
  /\ \/ /\ pc' = "collector"
        /\ ready' = {"writer"} /\ open' = {"writer"}
        /\ UNCHANGED report
     \/ /\ result' = [result EXCEPT !.status = "FAILED", !.phase = "prepare",
                                    !.error = "prepare"]
        /\ runErr' = "prepare"
        /\ pc' = "returned"
        /\ UNCHANGED <<ready, open, phaseResults, uploadErr>>
  /\ UNCHANGED <<cfg, stepsLeft, provider, files, exitCode>>

\* What collector.Bootstrap starts: nothing if it is skipped, a collector answers, or no
\* candidate can be started; a process only for the direct backend.
Bootstrap == IF managed THEN {{}} ELSE {{}, {"collector"}}

\* Path policy and the collector, which may be required but not there.
StartCollector ==
  /\ pc = "collector"
  /\ \/ /\ \E started \in Bootstrap : open' = open \cup started
        /\ pc' = "telemetry"
        /\ UNCHANGED report
     \/ FailMain("prepare", "prepare", "FAILED", NoExec)
  /\ UNCHANGED <<cfg, stepsLeft, ready, provider, files, exitCode>>

\* telemetry.New, then the spans of the run and of prepare are started.
StartTelemetry ==
  /\ pc = "telemetry"
  /\ \/ /\ ready' = ready \cup {"emitter"}
        /\ open' = open \cup {"run", "prepare"}
        /\ pc' = "backend"
        /\ UNCHANGED report
     \/ /\ FailMain("prepare", "prepare", "FAILED", NoExec)
        /\ UNCHANGED ready
  /\ UNCHANGED <<cfg, stepsLeft, provider, files, exitCode>>

\* backend.New, its capabilities and runtime, the required capabilities.
ResolveBackend ==
  /\ pc = "backend"
  /\ \/ /\ ready' = ready \cup {"backend"}
        /\ pc' = IF managed THEN "create" ELSE "context"
        /\ UNCHANGED <<open, report>>
     \/ /\ ready' \in {ready, ready \cup {"backend"}}
        /\ FailMain("prepare", "prepare", "FAILED", NoExec)
  /\ UNCHANGED <<cfg, stepsLeft, provider, files, exitCode>>

\* Create may fail after the provider has made the sandbox (a lost answer, or
\* devcontainer user commands failing after "up"): the engine has no ID then.
CreateSandbox ==
  /\ pc = "create"
  /\ \/ /\ sandbox' = "created" /\ known' = TRUE
        /\ pc' = "start"
        /\ UNCHANGED <<open, report>>
     \/ /\ sandbox' \in {"none", "created"}
        /\ FailMain("prepare", "prepare", "FAILED", NoExec)
        /\ UNCHANGED known
  /\ UNCHANGED <<cfg, stepsLeft, ready, pulled, settled, files, exitCode>>

\* Start of a dev container does nothing; the others can fail or time out.
StartSandbox ==
  /\ pc = "start"
  /\ \/ /\ sandbox \in {"created", "running"}
        /\ sandbox' = "running"
        /\ pc' = "syncIn"
        /\ UNCHANGED <<open, report>>
     \/ /\ cfg.kind # "devcontainer"
        /\ sandbox' \in IF sandbox = "created" THEN {"created", "running"}
                                               ELSE {sandbox}
        /\ FailMain("prepare", "prepare", "FAILED", NoExec)
  /\ UNCHANGED <<cfg, stepsLeft, ready, known, pulled, settled, files, exitCode>>

\* SyncWorkspaceIn moves data for OpenSandbox only.
SyncWorkspaceIn ==
  /\ pc = "syncIn"
  /\ \/ /\ sandbox # "expired"
        /\ pc' = "context"
        /\ UNCHANGED <<open, report>>
     \/ /\ cfg.kind = "opensandbox"
        /\ FailMain("prepare", "prepare", "FAILED", NoExec)
  /\ UNCHANGED <<cfg, stepsLeft, ready, provider, files, exitCode>>

\* context.json and its companions; prepare succeeds with the last of them.
WriteContext ==
  /\ pc = "context"
  /\ \/ /\ AddSuccess("prepare", NoExec)
        /\ result' = [result EXCEPT !.status = "SUCCEEDED", !.phase = "prepare",
                                    !.exit = 0]
        /\ open' = open \ {"prepare"}
        /\ pc' = AfterPrepare
        /\ UNCHANGED <<runErr, uploadErr, ioFailed>>
     \/ /\ FailMain("prepare", "prepare", "FAILED", NoExec)
        /\ ioFailed' = TRUE
  /\ UNCHANGED <<cfg, stepsLeft, ready, provider, results, index, phases, exitCode>>

-----------------------------------------------------------------------------
(* Setup, execute, verify *)

\* Network profile, plan, setup.plan.json, environment.json, the executor.
PlanSetup ==
  /\ pc = "setup"
  /\ \/ /\ stepsLeft' \in 0 .. MaxSetupSteps
        /\ open' = open \cup {"setup"}
        /\ pc' = "setupStep"
        /\ UNCHANGED <<report, ioFailed>>
     \/ /\ FailMain("setup", "setup", "FAILED", NoExec)
        /\ ioFailed' \in {ioFailed, TRUE}
        /\ UNCHANGED stepsLeft
  /\ UNCHANGED <<cfg, ready, provider, results, index, phases, exitCode>>

\* One command of the plan less to run.
StepDoneMutant == IF stepsLeft = 1 THEN MaxSetupSteps ELSE stepsLeft - 1
StepDone == stepsLeft - 1

\* The loop over the plan: a step may be denied, fail, or leave the next one;
\* a step that times out is reported as FAILED, not TIMED_OUT.
RunSetupStep ==
  /\ pc = "setupStep"
  /\ \/ /\ stepsLeft > 0
        /\ stepsLeft' = StepDone
        /\ \/ UNCHANGED <<pc, open, report>>
           \/ FailMain("setup", "setup", "FAILED", NoExec)
           \/ \E r \in ExecResults :
                /\ r.err # "none" \/ r.exit # 0
                /\ FailMain("setup", "setup", "FAILED", r)
     \/ /\ stepsLeft = 0
        /\ AddSuccess("setup", NoExec)
        /\ open' = open \ {"setup"}
        /\ pc' = AfterSetup
        /\ UNCHANGED <<stepsLeft, result, runErr, uploadErr>>
  /\ UNCHANGED <<cfg, ready, provider, files, exitCode>>

\* Everything between the start of execute and the command: an empty command,
\* network, secrets, adapter, tool policy, a missing executor.
PrepareCommand ==
  /\ pc = "execute"
  /\ \/ /\ open' = open \cup {"execute"}
        /\ pc' = "run"
        /\ UNCHANGED report
     \/ FailMain("execute", "execute", "FAILED", NoExec)
  /\ UNCHANGED <<cfg, stepsLeft, ready, provider, files, exitCode>>

\* The main command.  Only here is a deadline told apart from a failure.
RunCommand ==
  /\ pc = "run"
  /\ \E r \in ExecResults :
       \/ /\ r.err = "none" /\ r.exit = 0
          /\ AddSuccess("execute", r)
          /\ result' = [result EXCEPT !.status = "SUCCEEDED", !.phase = "execute",
                                      !.exit = 0]
          /\ open' = open \ {"execute"}
          /\ pc' = AfterExecute
          /\ UNCHANGED <<runErr, uploadErr>>
       \/ /\ r.err = "deadline"
          /\ FailMain("execute", "timeout", "TIMED_OUT", r)
       \/ /\ r.err = "error" \/ (r.err = "none" /\ r.exit # 0)
          /\ FailMain("execute", "execute", "FAILED", r)
  /\ UNCHANGED <<cfg, stepsLeft, ready, provider, files, exitCode>>

\* Network profile; with a smoke command also its policy, executor, secrets.
CheckSmoke ==
  /\ pc = "verify"
  /\ \/ /\ open' = open \cup {"verify"}
        /\ pc' = IF cfg.smoke THEN "smoke" ELSE "expected"
        /\ UNCHANGED report
     \/ FailMain("verify", "verify", "FAILED", NoExec)
  /\ UNCHANGED <<cfg, stepsLeft, ready, provider, files, exitCode>>

RunSmoke ==
  /\ pc = "smoke"
  /\ \E r \in ExecResults :
       IF r.err = "none" /\ r.exit = 0
       THEN pc' = "expected" /\ UNCHANGED <<open, report>>
       ELSE FailMain("verify", "verify", "FAILED", r)
  /\ UNCHANGED <<cfg, stepsLeft, ready, provider, files, exitCode>>

\* Download (OpenSandbox) and presence of the expected artifacts.
CheckArtifacts ==
  /\ pc = "expected"
  /\ \/ /\ AddSuccess("verify", NoExec)
        /\ result' = [result EXCEPT !.status = "SUCCEEDED", !.phase = "verify"]
        /\ open' = open \ {"verify"}
        /\ pc' = "collect"
        /\ UNCHANGED <<runErr, uploadErr>>
     \/ FailMain("verify", "verify", "FAILED", NoExec)
  /\ UNCHANGED <<cfg, stepsLeft, ready, provider, files, exitCode>>

-----------------------------------------------------------------------------
(* Collect *)

\* The span of collect, SyncWorkspaceOut and the metadata refresh, whose
\* errors are only noted.
BeginCollect ==
  /\ pc = "collect"
  /\ open' = IF "emitter" \in ready THEN open \cup {"collect"} ELSE open
  /\ pulled' = known
  /\ pc' = "cleanup"
  /\ UNCHANGED <<cfg, stepsLeft, ready, known, sandbox, settled, report, files,
                 exitCode>>

\* The provider call cleanupBackend makes for this configuration.
CleanupCall ==
  IF cfg.cleanup = "keep" \/ (cfg.kind = "machine" /\ cfg.cleanup = "pause") THEN "keep"
  ELSE IF cfg.kind = "machine" \/ (cfg.kind = "opensandbox" /\ cfg.cleanup = "pause")
       THEN cfg.cleanup ELSE "delete"

\* What the call makes of the sandbox.
CleanedUp ==
  CASE CleanupCall = "keep" -> sandbox
    [] CleanupCall = "delete" -> "deleted"
    [] CleanupCall = "pause" -> "paused"
    [] CleanupCall = "stop" -> "stopped"

\* A cleanup error is not a failure of the run.
UncleanMutant == result
Unclean ==
  IF result.status = "SUCCEEDED" THEN [result EXCEPT !.status = "PARTIAL"] ELSE result

\* cleanupBackend.  It does nothing without a sandbox ID; an error of the
\* provider, who may or may not have acted, turns SUCCEEDED into PARTIAL.
Cleanup ==
  /\ pc = "cleanup"
  /\ pc' = "replay"
  /\ settled' = known
  /\ \/ /\ known => CleanupCall = "keep" \/ sandbox # "expired"
        /\ sandbox' = IF known THEN CleanedUp ELSE sandbox
        /\ UNCHANGED result
     \/ /\ known /\ CleanupCall # "keep"
        /\ sandbox' \in {sandbox} \cup
                        (IF sandbox = "expired" THEN {} ELSE {CleanedUp})
        /\ result' = Unclean
  /\ UNCHANGED <<cfg, stepsLeft, ready, open, known, pulled, phaseResults, runErr,
                 uploadErr, files, exitCode>>

\* replay.json; then collect is entered as successful before the rest of its
\* work is done.
WriteReplay ==
  /\ pc = "replay"
  /\ \/ /\ AddSuccess("collect", NoExec)
        /\ result' = [result EXCEPT !.phase = "collect",
             !.status = IF @ = "CREATED" THEN "SUCCEEDED" ELSE @]
        /\ pc' = "phases"
        /\ UNCHANGED <<open, runErr, uploadErr, ioFailed>>
     \/ FailCollect /\ ioFailed' = TRUE
  /\ UNCHANGED <<cfg, stepsLeft, ready, provider, results, index, phases, exitCode>>

WritePhases ==
  /\ pc = "phases"
  /\ \/ /\ phases' = [state |-> "whole", entries |-> phaseResults]
        /\ pc' = "results"
        /\ UNCHANGED <<open, report, ioFailed>>
     \/ TornWrite(phases) /\ FailCollect /\ ioFailed' = TRUE
  /\ UNCHANGED <<cfg, stepsLeft, ready, provider, results, index, exitCode>>

WriteResults ==
  /\ pc = "results"
  /\ \/ /\ results' = [state |-> "whole", outcome |-> result]
        /\ pc' = "index"
        /\ UNCHANGED <<open, report, ioFailed>>
     \/ TornWrite(results) /\ FailCollect /\ ioFailed' = TRUE
  /\ UNCHANGED <<cfg, stepsLeft, ready, provider, index, phases, exitCode>>

\* index.json, then the walk over the artifact directory (ArtifactRefs).
WriteIndex ==
  /\ pc = "index"
  /\ \/ /\ index' = [state |-> "whole", outcome |-> result]
        /\ \/ pc' = "upload" /\ UNCHANGED <<open, report, ioFailed>>
           \/ FailCollect /\ ioFailed' = TRUE
     \/ TornWrite(index) /\ FailCollect /\ ioFailed' = TRUE
  /\ UNCHANGED <<cfg, stepsLeft, ready, provider, results, phases, exitCode>>

DegradedMutant == [result EXCEPT !.status = "PARTIAL", !.error = "upload"]
DegradedStatusMutant == [result EXCEPT !.status = "upload"]

\* A failed upload makes a successful run PARTIAL.
Degraded ==
  IF result.status = "SUCCEEDED"
  THEN [result EXCEPT !.status = "PARTIAL", !.error = "upload"] ELSE result

Upload ==
  /\ pc = "upload"
  /\ pc' = "finalResults"
  /\ \/ UNCHANGED <<result, uploadErr>>
     \/ cfg.upload /\ uploadErr' = TRUE /\ result' = Degraded
  /\ UNCHANGED <<cfg, stepsLeft, ready, open, provider, phaseResults, runErr, files,
                 exitCode>>

WriteFinalResultsMutant ==
  /\ pc = "finalResults" /\ pc' = "finalIndex"
  /\ UNCHANGED <<cfg, stepsLeft, ready, open, provider, report, files, exitCode>>

WriteFinalResults ==
  /\ pc = "finalResults"
  /\ \/ /\ results' = [state |-> "whole", outcome |-> result]
        /\ pc' = "finalIndex"
        /\ UNCHANGED <<open, report, ioFailed>>
     \/ TornWrite(results) /\ FailCollect /\ ioFailed' = TRUE
  /\ UNCHANGED <<cfg, stepsLeft, ready, provider, index, phases, exitCode>>

\* The second index.json.  Without a second upload collect ends here, with the
\* error of the first one.
WriteFinalIndex ==
  /\ pc = "finalIndex"
  /\ \/ /\ index' = [state |-> "whole", outcome |-> result]
        /\ UNCHANGED <<result, phaseResults, uploadErr, ioFailed>>
        /\ IF cfg.upload /\ ~uploadErr
           THEN pc' = "summary" /\ UNCHANGED <<open, runErr>>
           ELSE /\ pc' = "finish"
                /\ open' = open \ {"collect"}
                /\ runErr' = IF uploadErr /\ runErr = "none" THEN "upload" ELSE runErr
     \/ TornWrite(index) /\ FailCollect /\ ioFailed' = TRUE
  /\ UNCHANGED <<cfg, stepsLeft, ready, provider, results, phases, exitCode>>

\* results.json and index.json are uploaded again; on failure both are
\* rewritten and the errors of that are ignored.
UploadSummary ==
  /\ pc = "summary"
  /\ pc' = "finish"
  /\ open' = open \ {"collect"}
  /\ \/ UNCHANGED <<result, runErr, files>>
     \/ /\ result' = Degraded
        /\ runErr' = IF runErr = "none" THEN "upload" ELSE runErr
        /\ \/ /\ results' = [state |-> "whole", outcome |-> Degraded]
              /\ index' = [state |-> "whole", outcome |-> Degraded]
              /\ UNCHANGED ioFailed
           \/ /\ TornWrite(results) \/ results' = [state |-> "whole", outcome |-> Degraded]
              /\ TornWrite(index) \/ index' = [state |-> "whole", outcome |-> Degraded]
              /\ ioFailed' = TRUE
        /\ UNCHANGED phases
  /\ UNCHANGED <<cfg, stepsLeft, ready, provider, phaseResults, uploadErr, exitCode>>

-----------------------------------------------------------------------------
(* The end of Run, and the process around it *)

\* writer.Close, emitter.EndRun, collector Shutdown.
Finish ==
  /\ pc = "finish"
  /\ pc' = "returned"
  /\ open' = open \ ({"writer", "collector"}
                       \cup (IF "emitter" \in ready THEN {"run"} ELSE {}))
  /\ UNCHANGED <<cfg, stepsLeft, ready, provider, report, files, exitCode>>

ExitCodeForResult ==
  IF result.exit # 0 THEN result.exit
  ELSE CASE result.status = "TIMED_OUT" -> 124
         [] result.status \in {"FAILED", "PARTIAL"} -> 1
         [] OTHER -> 0

ExitMutant ==
  /\ pc = "returned" /\ pc' = "exited" /\ exitCode' = result.exit
  /\ UNCHANGED <<cfg, stepsLeft, ready, open, provider, report, files>>

\* RunCommand.Run and main.run: with an error the code is never 0.
Exit ==
  /\ pc = "returned"
  /\ pc' = "exited"
  /\ exitCode' = IF runErr = "none" THEN result.exit
                 ELSE IF ExitCodeForResult = 0 THEN 1 ELSE ExitCodeForResult
  /\ UNCHANGED <<cfg, stepsLeft, ready, open, provider, report, files>>

\* The provider removes an OpenSandbox sandbox whose time to live is over.
Expire ==
  /\ cfg.kind = "opensandbox"
  /\ sandbox \in {"created", "running"}
  /\ pc \notin Over
  /\ sandbox' = "expired"
  /\ UNCHANGED <<cfg, pc, stepsLeft, ready, open, known, pulled, settled, report,
                 files, exitCode>>

Done == pc = "exited" /\ UNCHANGED vars

Blank == [phase |-> "prepare", status |-> "CREATED", error |-> "none",
          exit |-> 0, timedOut |-> FALSE]

Init ==
  /\ cfg \in Configs
  /\ pc = "probe"
  /\ stepsLeft = 0
  /\ ready = {} /\ open = {}
  /\ known = FALSE /\ sandbox = "none" /\ pulled = FALSE /\ settled = FALSE
  /\ result = Blank /\ phaseResults = <<>> /\ runErr = "none" /\ uploadErr = FALSE
  /\ results = [state |-> "absent", outcome |-> Blank]
  /\ index = [state |-> "absent", outcome |-> Blank]
  /\ phases = [state |-> "absent", entries |-> <<>>]
  /\ ioFailed = FALSE
  /\ exitCode = 0

PrepareNext ==
  \/ Probe \/ StartCollector \/ StartTelemetry \/ ResolveBackend
  \/ CreateSandbox \/ StartSandbox \/ SyncWorkspaceIn \/ WriteContext

MainNext ==
  \/ PlanSetup \/ RunSetupStep \/ PrepareCommand \/ RunCommand
  \/ CheckSmoke \/ RunSmoke \/ CheckArtifacts

CollectNext ==
  \/ BeginCollect \/ Cleanup \/ WriteReplay \/ WritePhases \/ WriteResults
  \/ WriteIndex \/ Upload \/ WriteFinalResults \/ WriteFinalIndex \/ UploadSummary

\* A step of the engine or of the process around it.
EngineStep == PrepareNext \/ MainNext \/ CollectNext \/ Finish \/ Exit

Next == EngineStep \/ Expire \/ Done

Spec == Init /\ [][Next]_vars

\* Every call of the engine returns: its own timeouts bound them, or the
\* command run ends.
FairSpec == Spec /\ WF_vars(EngineStep)

-----------------------------------------------------------------------------
(* Properties *)

\* Every variable has the type of the Go value it stands for.
TypeOK ==
  /\ cfg \in Configs
  /\ pc \in PrepareSteps \cup SetupSteps \cup ExecuteSteps \cup VerifySteps
             \cup CollectSteps \cup {"finish"} \cup Over
  /\ stepsLeft \in 0 .. MaxSetupSteps
  /\ ready \subseteq {"writer", "emitter", "backend"}
  /\ open \subseteq {"writer", "run", "collector"} \cup Phases
  /\ known \in BOOLEAN /\ pulled \in BOOLEAN /\ settled \in BOOLEAN
  /\ sandbox \in {"none", "created", "running", "paused", "stopped", "deleted",
                  "expired"}
  /\ result \in Outcome
  /\ phaseResults \in Seq(Outcome)
  /\ runErr \in Errors /\ uploadErr \in BOOLEAN
  /\ results \in [state : FileStates, outcome : Outcome]
  /\ index \in [state : FileStates, outcome : Outcome]
  /\ phases \in [state : FileStates, entries : Seq(Outcome)]
  /\ ioFailed \in BOOLEAN
  /\ exitCode \in Int

\* The phases of this run, in order, each of them successful.
EnabledPhases ==
  <<"prepare">> \o (IF cfg.setup THEN <<"setup">> ELSE <<>>)
                \o (IF cfg.execute THEN <<"execute">> ELSE <<>>)
                \o (IF cfg.verify THEN <<"verify">> ELSE <<>>) \o <<"collect">>

AllSucceeded(entries) ==
  /\ Len(entries) = Len(EnabledPhases)
  /\ \A i \in DOMAIN entries : /\ entries[i].phase = EnabledPhases[i]
                              /\ entries[i].status = "SUCCEEDED"

\* The sandbox is in the state the configured cleanup asks for.
DisposedOf ==
  CASE CleanupCall = "delete" -> sandbox = "deleted"
    [] CleanupCall = "pause" -> sandbox = "paused"
    [] CleanupCall = "stop" -> sandbox = "stopped"
    [] CleanupCall = "keep" -> TRUE

\* A run that reports SUCCEEDED did all it was asked: every enabled phase ended
\* well and in order, its sandbox is disposed of as configured (none of the
\* orphans Create can leave behind), its uploads worked, and Run has no error.
SuccessIsWhole ==
  pc \in Over /\ result.status = "SUCCEEDED" =>
    /\ runErr = "none" /\ ~uploadErr
    /\ AllSucceeded(phaseResults)
    /\ managed => known /\ DisposedOf

\* At no moment, so also not after the process is killed, does a readable
\* results.json claim success for a run whose phases did not all succeed or
\* whose sandbox has not been dealt with yet.
FilesNeverOverclaim ==
  results.state = "whole" /\ results.outcome.status = "SUCCEEDED" =>
    /\ phases.state = "whole" /\ AllSucceeded(phases.entries)
    /\ managed => settled /\ DisposedOf

\* Unless an artifact could not be written, the three files a consumer reads
\* say what Run returned, although they are written before collect is over.
FilesAgree ==
  pc \in Over /\ "writer" \in ready /\ ~ioFailed =>
    /\ results = [state |-> "whole", outcome |-> result]
    /\ index = [state |-> "whole", outcome |-> result]
    /\ phases = [state |-> "whole", entries |-> phaseResults]

\* The entries of the phases that did not succeed.
Failures == {i \in DOMAIN phaseResults : phaseResults[i].status # "SUCCEEDED"}

\* The status, error, exit code and timeout of the phase that failed are those
\* of the run: nothing collect does later (cleanup, upload) replaces them,
\* as long as collect itself does not fail.
FailureReported ==
  \A i \in Failures :
    pc \in Over /\ (\A j \in Failures : phaseResults[j].phase # "collect") =>
      /\ result = [phaseResults[i] EXCEPT !.phase = "collect"]
      /\ runErr = phaseResults[i].error

\* Whatever call failed, Run leaves no file open, no span unfinished and no
\* collector process behind.
NothingLeftOpen == pc \in Over => open = {}

\* A sandbox the engine knows of is dealt with before Run returns, whatever
\* failed in between, and only after the workspace has been fetched from it.
SandboxSettled ==
  /\ settled => pulled
  /\ pc \in Over /\ known => settled

\* The exit code of the process: 0 is never returned with an error or for a
\* failed or timed-out run, and a successful run always exits with 0.
ExitCodeTellsTruth ==
  pc = "exited" =>
    /\ exitCode = 0 => runErr = "none" /\ result.status \in {"SUCCEEDED", "PARTIAL"}
    /\ result.status = "SUCCEEDED" => exitCode = 0

\* A failure is never turned into anything better by a later step.
FailureIsFinal ==
  [][result.status \in {"FAILED", "TIMED_OUT"}
       => result'.status \in {"FAILED", "TIMED_OUT"}]_vars

\* Run returns and the process exits.
Terminates == <>(pc = "exited")

\* docs/getting-started.md:43 promises an index.json for every run.
EveryRunWritesIndex == pc \in Over => index.state = "whole"

-----------------------------------------------------------------------------
(* The engine implements RunLifecycle. *)

\* A phase is over in the abstract run when its entry is there; collect, which
\* may get two entries, when Run returns.
LifecycleOutcome(p) ==
  LET ended == {phaseResults[i] : i \in DOMAIN phaseResults}
      failed == \E e \in ended : e.phase = p /\ e.status # "SUCCEEDED"
  IN  IF p = "collect" /\ pc \notin Over THEN "pending"
      ELSE IF p = "prepare" /\ pc \in Over /\ "writer" \notin ready THEN "failed"
      ELSE IF failed THEN "failed"
      ELSE IF \E e \in ended : e.phase = p THEN "ok"
      ELSE "pending"

Lifecycle == INSTANCE RunLifecycle WITH
  disabled <- {p \in {"setup", "execute", "verify"} : ~cfg[p]},
  outcome <- [p \in Phases |-> LifecycleOutcome(p)],
  sandbox <- IF ~known THEN "none" ELSE IF settled THEN "settled" ELSE "held",
  over <- pc \in Over

\* Seen from outside, the engine runs the enabled phases in order, stops at the
\* first failure, always collects, and never returns holding a sandbox.
ImplementsLifecycle == Lifecycle!Spec
=============================================================================
