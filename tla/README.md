# sandbox-runner: TLA+ models and proofs

sandbox-runner takes one command of an agent or a developer through five phases
(prepare, setup, execute, verify, collect), on the host, in a container or in a
sandbox of some provider, and leaves a directory of artifacts and an exit code.
This directory holds TLA+ models of it, the TLC configurations that check them and
theorems that TLAPS proves about them. Paths below are relative to `src/`.

## The system

| Component | State | Operations | Hard to get right |
|---|---|---|---|
| Phase engine, `internal/phase/engine.go` | `runState`: result, phase results, sandbox info, writer, emitter, collector; the JSON files | `Run` and its five phases, `failPhase`, `cleanupBackend`, two uploads | some forty calls that can fail, each leaving other fields set; the files are written before collect is over |
| Run command, `internal/cli/commands.go` | none | `RunCommand.Run`, `ExitCodeForResult` | one exit code from an error, a status and a code |
| Backend executor, `internal/executor/backend.go` | line counts | `Run`: start, loop over log channel and context, status | select between chunk, close and context; a status without exit code counts as 0 |
| Local exec sessions, `internal/backend/local_exec_session.go`, `devcontainer_backend.go`, `applecontainer_backend.go`, `orbstack_machine_backend.go` | registry of sandboxes and sessions, log channel, exit code | `Exec`, `StreamLogs`, `ExecStatus`, `CancelExec`, `Create`, `Start`, `Delete` | process, two readers, waiter and consumer run concurrently |
| OpenSandbox backend, `internal/backend/opensandbox_backend.go`, `internal/opensandbox/client` | exec sessions, HTTP client | the same, plus workspace transfer, pause, metadata | event stream that can break; answers that can be lost; a sandbox that expires |
| Process runner and direct executor, `internal/proc/runner.go`, `internal/executor/direct.go` | none that outlives the call | `Runner.Run`, environment expansion, executable lookup | readers, process, deadline, processes left behind |
| Docker executor, `internal/executor/docker.go` | none that outlives the call | `Run`: pull, create, start, logs, wait, kill, remove | select between three channels and a log copier |
| Artifact writer and uploader, `internal/artifact` | open JSONL files under a mutex | `WriteJSON`, `AppendJSONL`, `Close`, `Upload` | torn writes, two concurrent log readers |
| Telemetry and collector, `internal/telemetry`, `internal/collector` | spans by phase, a child process | start and end of spans, `Bootstrap`, `Shutdown` | must be ended on every path |
| Kubernetes, `internal/kubernetes`, `K8sSubmitCommand`, `pkg/sdk` | none; ConfigMap and job are the cluster's | render, apply ConfigMap, submit Job | read-then-write without a precondition, names from a run ID of one second |
| Capability probes, `internal/capability` | none | one probe per backend | the OpenSandbox probe makes a sandbox of its own |
| Configuration and compatibility, `internal/config`, `internal/compat` | none | load, normalise, validate | two sections that say the same; normalised up to four times, validated on a copy |
| Policy, planner, adapters | none | pure functions | text |
| CLI parser, platform detection, data model, helpers | none | pure functions and I/O | |

How they interact. The engine is one goroutine. It calls the backend to make, start
and dispose of a sandbox and to move the workspace; it gives every command to an
executor (`internal/executor`), which is the process runner, the Docker executor or
the backend executor over a backend's `Exec`, `StreamLogs` and `ExecStatus`. Only
executors and backends have goroutines; they share a log channel and a session under
a mutex. Executors call the engine's log handler back for each line. Everything the
run leaves behind goes through the artifact writer and, at the end, the uploader.

What makes each component correct: the engine disposes of what it acquired, closes what
it opened, and its result, files and exit code agree; an executor hands on the lines of
a command in order, returns once, and says success only for a command that succeeded; a
session closes its channel once and after its last sender; a provider gives a run a
sandbox of its own unless the run is configured to share one, and what is left behind is
accounted for; a Kubernetes job runs with the configuration of its own submission; and a
configuration is executed where it was accepted to be. `PROJECT.json` lists what is hard
to test about all this ("hazards"), each at its line and with the properties that cover
it.

## The modules

`RunLifecycle` (abstract) <- `RunEngine` (detailed) -> `MCRunEngine`.
`ExecContract` (abstract) <- `LocalExec`, `OpenSandboxExec`, both on top of
`BackendExecutor`, and `ProcRunner` and `DockerExec`. An executor is one call (`RunSetupStep`,
`RunCommand`, `RunSmoke`) of the engine, which takes every outcome in `ExecResults`.
`ProviderLifecycle` -> `MCProviderLifecycle`: what the engine's calls to its backend
(`Create` to `cleanupBackend`) do to the sandboxes that exist, for several engines at
once; `RunEngine` takes those calls by their outcome. `ExecutionConfig` (pure operators)
<- `K8sSubmit` -> `MCK8sSubmit`.

**RunLifecycle** says what a run promises: the enabled phases in order, an end at the
first failure, collect after all of them, and no sandbox still held at the end.

**RunEngine** is `Engine.Run`. `pc` is the next call that can fail, and one action is
the code up to the following one: `Probe` to `WriteContext` are `runPrepare`,
`PlanSetup` and `RunSetupStep` `runSetup`, `PrepareCommand` and `RunCommand`
`runExecute`, `CheckSmoke`, `RunSmoke` and `CheckArtifacts` `runVerify`,
`BeginCollect` to `UploadSummary` `runCollect`, `Finish` and `Exit` the end of `Run`
and of the process. `ready` is the set of fields of `runState` that are set, `open` is
what has to be closed (files, spans, collector process), `known` says that the engine
has the ID of a sandbox and `sandbox` what the provider has. `results`, `index` and
`phases` are the three files a consumer reads; a write may fail and leave the old file
or half of a new one. `Expire` is the server that removes an OpenSandbox sandbox.
Results are abstracted to phase, status, error, exit code and timeout. Two
assumptions about what is not modelled: an answer to the metadata request in collect
carries the ID of the sandbox it was asked about, and a phase that is skipped does
nothing.

**ExecContract** says what an executor promises about one command: its lines in order,
none twice, none after the return, and success only for a command that succeeded. An
executor may give that last promise up (`givenUp`) when its caller has cancelled, or when
what would tell how the command ended is lost; each refinement mapping says when it does.

**BackendExecutor** is `BackendExecutor.Run`, the consumer: `Started`/`StartFailed`,
the select of its loop (`Receive`, `SeeClosed`, `StopWaiting`), and `Return`.

**LocalExec** adds the producer of the dev container, Apple container and OrbStack
machine backends: a child process with two bounded pipes, a reader for each, the
goroutine that waits (`WaitProcess`, then `Finish`), and `os/exec`'s kill.
`cmd.Wait` closes the pipes under the readers, as os/exec documents.

**OpenSandboxExec** adds the producer of the OpenSandbox backend: execd and its
command, a connection of bounded size that can be cut after any event, `Exec`'s wait
for the first event, the consumer of the events, and a status request that may fail.
The session has the exit code of a failure only if the error event's value is a number
(`CodeAfter`); otherwise the code can only come with the status. execd is taken to send
the ID of the command before any output: more than 64 lines before it would fill the log
channel while `Exec` still waits, and block the consumer and `Exec` on each other.

**ProcRunner** is the direct backend: no channel, the readers call the handler, `Run`
joins both and then waits for the process; a process that the command has left behind
may keep the pipes open.

**DockerExec** is the docker backend: `PullImage` to `FollowLogs` are the requests of
`DockerExecutor.Run` up to its select, `CopyLine` and `EndCopy` the goroutine that
copies the log, `AnswerWait` the wait request, `Select`, `AwaitKill` and `Join` the end
of the command as `Run` sees it, and `Remove` its deferred call. Any request may fail,
and one that fails may have been carried out. Lines end with a newline here: what the
line writers do with a last line without one, and the cut of long lines, is left out.

**ProviderLifecycle** has the sandboxes of all providers in `boxes` and, per run, a
program counter whose actions are the calls of the backend: `ProbeCreate` to
`ProbeDelete` are the OpenSandbox probe; `ReadConfiguration`, `Up` and `RunUserCommands`
are Create of a dev container, `CreateContainer` that of an Apple container,
`FindMachine` to `StartFoundMachine` that of an OrbStack machine, `CreateSandbox` that
of OpenSandbox; `StartSandbox` to `StartContainer` are Start, `ArchiveWorkspace` to
`SyncIn` and `CheckRemoteDir` to `ExtractTar` the two transfers, archive by archive,
`RunCommand` a command of a setup step or the main one, and `Keep` to `RemoveContainer`
the engine's `cleanupBackend`. An archive may end too early without an error, since that
of the deferred `Close` in `archiveDirectory` is dropped. Where a box is found is its
name: the workspace, the machine, the run ID, or the ID of the OpenSandbox server. A
call may fail before or after it is carried out. `Replies` is `doRaw`, the retry loop of
the HTTP client: the attempts end at the first answer, and a request that was sent once
has no body left to be sent again with. `Boot` and `Expire` are the server.

**ExecutionConfig** is `internal/config` and the compatibility matrix as operators, for
the fields that decide where a run is executed: `Overlay` and `ApplyRunEnvOverrides` read,
`NormalizeExecutionConfig` derives or completes the execution triple and writes it
back to the older sections, `NormalizeRunConfig` does the rest of the loader's work,
`ValidateRunConfig` is validation. The code's two names for one thing (kind `orbstack-machine`
and backend `machine`) are one name here.

**K8sSubmit** is `k8s submit-job` by several callers: `LoadRequest`, `LookupConfigMap`,
then `UpdateConfigMap` or `CreateConfigMap`, then `CreateJob`, each of which may fail or
be carried out and yet fail; `StartPod` is the pod that mounts the ConfigMap its cluster
has at that moment and loads it with the runner (`LoadInPod`), `RemoveJob` the time to
live of a finished job. A submission ends as `submitted` or `failed`; two with one run ID
can both end as `submitted`, if the first job has been removed in between.

## What TLC checks

| Run | Instance | What it shows |
|---|---|---|
| `run_engine` | every managed kind with every cleanup mode, all phases; the direct backend with every choice of phases; up to 2 setup steps; exit codes 0, 3, -1 | result, files, sandbox, open resources and exit code agree on every path; `ImplementsLifecycle`; `Terminates` |
| `engine_index` | one direct run | violated: not every run writes `index.json` |
| `local_exec` | 11 programs, log channel of 2, pipes of 1, both ends of a context | no send after close, no line lost on the way from pipe to handler, exit code kept, no deadlock, cancelling ends everything, `ExecContract` |
| `local_exec_output` | one program of two lines | violated: `cmd.Wait` loses output |
| `local_exec_timeout` | one program that hangs | violated: the timeout of a request is not applied |
| `opensandbox_exec` | 12 commands, some with an error event without a number, log channel and connection of 2 | a stream read to its end makes a complete result, and a true one unless the exit code comes by neither way; a recorded exit code survives a cut and a failing status request, `Run` and its goroutine end, `ExecContract` |
| `opensandbox_exec_cut` | one long command | violated: a command that outlives the HTTP timeout is a success while it runs |
| `proc_runner` | 19 programs with and without daemons, pipes of 1 | complete output, no line after the return, end at the deadline, `ExecContract` |
| `docker_exec` | 10 programs, both ends of a context | a result without an error is whole and true, the container is removed, a killed one is reported, lines come late only after an error of the wait request, `Run` and its copier end, `ExecContract` |
| `provider_lifecycle` | two runs: all pairs of three configurations each for dev containers of one workspace, machines of one name, Apple containers of one or two run IDs; a probe beside another kind; two OpenSandbox runs; with and without a container and a machine of the user's | nobody works in another's sandbox or on half a workspace, leftovers are accounted for, the probe leaves at most one sandbox and a run that goes on has warned of it, a failed transfer is noted, only what may be removed is, every run ends |
| `k8s_submit` | two submissions; 7298 files (with an execution section, without one, with a part of one) against three other submissions: of the same run ID, of another, with one made up by the clock | no job without its own configuration, a pod runs one whole configuration also when submissions share a run ID, validation's copy and the configuration used agree, and the pod agrees with the submission |
| `k8s_submit_triple` | the same | violated: an execution section without a backend is dropped |

Why the bounds are enough. In the engine the only loop is the one over the setup steps;
two steps give a first, a following and a last one. Exit codes matter only as 0 or not
0, and -1 is the value of a killed command. A queue of one or two entries is both empty
and full in every run, and each instance with bounded queues has a program with more
lines than all of them hold, so that every sender blocks; the log of a container is kept
by the daemon and has no bound of its own. Two streams are what the code has. The
theorems below have none of these bounds. Providers and submissions: what runs do to
each other they do in pairs, through a name they share, and two runs have every order of
their calls; the retries of the client are those of the code (1 for the probe, 0 for the
backend). The values of the configuration's fields are those the code tells apart, and
one it does not know.

Deadlock is checked in every run but `local_exec_timeout`, whose subject is a program
that waits forever.

### Fairness

`RunEngine`: the engine's next step is taken, i.e. every call it makes returns. The
HTTP client bounds all its calls by a timeout, the direct runner and the Docker
executor their commands. Not bounded are the pull of a Docker image, a command of a
local exec session (`local_exec_timeout`) and one that leaves a process with the pipes
behind (`ProcRunner`): that these return is an assumption, and `Terminates` is about
runs in which they do.
Expiry of a sandbox is not fair. Executors: the Go scheduler runs every goroutine
that can run, and a process that can write or exit does. Never assumed: that a context
ends, that a daemon ends, that execd does anything. `CutStream` is fair because
the HTTP client's timeout, at least 30 s, is always set and covers the whole body.
`ProviderLifecycle`: each run takes its next step; a deadline passes, so `StartSandbox`
and `ProbeWait` happen even if the sandbox never starts. Nothing is expected of the server:
`Boot`, `Expire` and the failures of status requests are not fair. `K8sSubmit` has no
fairness and no liveness property: its HTTP client need not have a timeout.
`DockerExec`: a request is answered or fails once what it waits for is over, or its
context is; a request never has to fail, but may.

### Differences between the code and what is said of it

`PROJECT.json` ("findings") has the details of the five runs that end in a violation:

- a run refused in prepare, or whose `replay.json` cannot be written, has no
  `index.json`;
- in the local exec sessions `cmd.Wait` runs before the readers are done, so the end of
  a successful command's output can be lost (the direct runner does it in the right
  order, and `CompleteResult` holds there);
- these sessions never look at the timeout of the request;
- the OpenSandbox HTTP client's timeout (120 s by default) covers the event stream of
  a command that may take 1800 s; beyond it the run goes on as if the command had
  succeeded;
- without `execution.backend`, a provider or a runtime profile written in the execution
  section is replaced by what the older sections say, and the configuration is accepted:
  a file with run mode `stg_linux` and the profile `kata` makes a job without Kata.

Limits that are no contradiction of any document and so are preconditions of
properties: a line beyond the scanner's buffer stops its reader (`program.long`), and a
process left behind that holds the pipes keeps the direct runner waiting beyond its
deadline (`program.daemon`). Further ones that the models show:

- Create that fails after the sandbox was made (`devcontainer up`, then a user command;
  a lost answer) leaves it behind; the run is FAILED and has no ID to delete it by.
  `LeftoversAccounted` says that these are the only leftovers without a note.
- Runs in one workspace share its dev container, and runs may share a machine. A run
  deletes the container unless `cleanup_mode` is `keep`, and Create replaces it where it is
  asked to; it deletes the machine only if `machine_cleanup_mode` is `delete`. The other run
  then loses it in between. `OnlyAskedRemovals` says that nothing else removes one.
- A command that fails with an error event whose value is not a number leaves the
  session without an exit code (`opensandbox_backend.go:580`). If the status request then
  fails as well, the snapshot has none either and `BackendExecutor.Run` returns 0 without
  an error, although the stream was read to its end: a false success. `CodeUnknown` is
  exactly this case; `StreamedResult` gives its exit code as 0, and the refinement of
  `ExecContract` counts it as given up.
- The capability probe drops the warning of a failed delete when its verdict is bad
  (`capability/opensandbox.go:66`): such a run is refused and may leave the sandbox of
  its probe behind without a word, until that expires. `ProbeLeftoverNoted` says that it
  is one at most, and that a run that goes on has the warning.
- `archiveDirectory` leaves its temporary file behind when it fails; nothing reads it.
- Two submissions with one run ID: while a job of that name exists a second one is
  refused, but the pod may read the ConfigMap the other has written, and then its job's
  runtime class may be that of the other configuration. `PodOfOne` says that it executes
  where one of the two was accepted to, never as a mixture; `OwnConfig` and `PodAgrees`
  promise more only to a submission that is alone with its run ID.
- A job whose answer is lost runs although its submission has failed.
- `docker.provider: orbstack` may go with `execution.provider: native`; `AcceptedAgree`
  therefore does not ask for the converse.
- `renew_on_long_run` is set by default and read nowhere: a sandbox is never renewed.

## What TLAPS proves

Every invariant, both action properties and every refinement that a passing run checks is
also a theorem, in the module `<component>_proofs`. The theorems hold for every value of
the constants that satisfies the named assumption of the module:

- `RunAssumption`, `ExecutorAssumption`, `SessionAssumption`, `StreamAssumption`,
  `RunnerAssumption` and `DockerAssumption` say what type the constants have;
- `SubmitAssumption` (`K8sSubmit`): each submission has a file and an environment, the
  `kata` of a file is a boolean, the clock gives no empty run ID, and the host is one of
  the two systems the defaults tell apart;
- `ProviderAssumption`: each run has a configuration, and the sandboxes found at the
  start are finitely many, are the user's, and have distinct IDs and names.

So there may be any number of runs, submissions, setup steps and lines, queues of any
capacity, and any program.

**The engine** (`RunEngine_proofs`). `TypeOK` is inductive as it stands (`TypeCorrect`).
Each of the others is proved from it and a strengthening that says, per value of `pc`,
what holds there:

- `SettleInv` adds to `SandboxSettled` that a known sandbox is pulled once `cleanup` is
  reached and settled beyond it: `SandboxAlwaysSettled`. `OpenInv` says what can be open
  at each place: `NothingStaysOpen`.
- `ReportInv`: a result without an error has a status that is not a failure and the code
  0: `ExitCodeIsTrue`. `FailureStays` is an action property: no step takes a failure back.
- `TraceInv`: the phases so far are the enabled ones in order, one entry each, all
  successful except perhaps the last, and the result follows from them. `BoxInv`: when
  there is a sandbox and when it has been dealt with. They give `FailuresAreReported`
  and `SuccessIsTrue`.
- `FileInv`: what each of the three files says at each place of collect, with the old and
  the half-written contents a failed write leaves: `FilesAreModest`, `FilesAreCurrent`.
- `EngineImplementsLifecycle`: each step of `RunEngine` is a step of `RunLifecycle` or a
  stutter, from the same invariants.

**The executors.** `BackendExecutor_proofs` has the lemmas on the consumer that
`LocalExec_proofs` and `OpenSandboxExec_proofs` share. In each module `TypeCorrect`
includes that no pipe, channel or connection holds more than its capacity, and the
last theorem below is the refinement of `ExecContract`. What all the refinements need is one idea: for each
stream, what is on its way from the process to the handler holds the lines next to be
handed over, in order.

- `ProcRunner_proofs`: `ReadersJoined`; `LineInv` (the handler has had the first lines
  of a stream and the pipe holds the next ones, as long as it is read) and `CompleteInv`
  (while the context lives, a reader that has ended has
  read all, unless it met a long line) give `ResultIsComplete`
  and `RunnerKeepsContract`.
- `DockerExec_proofs`: `LateLinesAreErrors` (while `Run` leaves, a copier still at work
  means an error of the wait request), `ContainersAreRemoved` (nothing runs before
  `start`, and all ways out from there pass `Remove`), `DeadlinesAreReported` (what `Run`
  saw when it chose stays in its result); `OrderInv`, `CompleteInv` and `SuccessInv`, on
  what the copier has and what a result without an error means, give `ResultIsComplete` and
  `DockerKeepsContract`.
- `LocalExec_proofs`: `ClosedMeansJoined` (the waiter is done when the channel is closed,
  and the readers when the waiter is), `ExitCodeIsKept` (while the context lives the code
  moves from process to `waitErr` to `status` to the result). `PipeInv` with `LogFollows`,
  `LogSorted`, `LogClosed` and `LogFull` place the lines of each stream in the handler, the
  channel, the reader and the pipe: `LinesAreAccounted`, `SessionKeepsContract`.
- `OpenSandboxExec_proofs`: `FailureIsReported` (an exit code the session has recorded is
  that of a failing command, and nothing reaches the session after its channel was seen
  closed). `OrderInv`
  places the lines in the log, the channel, the consumer and the connection; `ErrorInv` follows
  the error event through the connection until the session has its code, if it has a
  number; `ResultInv` says what the consumer and the status request know of the exit code:
  `ResultIsTrue`, `StreamKeepsContract`, both up to the case `CodeUnknown` described above.

**Kubernetes** (`K8sSubmit_proofs`). `NormalizeIsIdempotent`: normalizing a
configuration a second time changes nothing, the fact that lets the pod load what the
submission has written. The invariant is `RequestInv` (at each stage a request is normal
and accepted, and its ConfigMap is there when the job is asked for), `MadeFrom` (a
ConfigMap is what some submission has written) and `JobInv` (a job has one maker with its
run ID, and its pod the whole configuration of a submission with that run ID that has
written it). It gives `JobsHaveTheirConfig`, `PodsRunOneRequest`, `PodsAgree` and
`AcceptedConfigsAgree`.

**Providers** (`ProviderLifecycle_proofs`). The invariant is `TypeInv`, a `BoxInv` on all
sandboxes (IDs and names are unique, none above `made`) and, for each run, `RunInv`: what
it holds at each stage, that its sandbox is its own, what its container ID is, what it
has used, probed and fetched, and what it leaves. The argument is one of
non-interference: `Evolves` says what a step of one actor may do to the sandboxes, one
lemma (`OthersKeep`) shows that `RunInv` of every other run survives any such change, and
one lemma per action shows the acting run's own part. `CarriedOutOnce`, on the retry loop
of the client, says that a request is carried out at most once. They give `CommandsRunInOwnSandbox`,
`NoLeftoverUnnoticed`, `PassedProbesWarn` and `NoPartialFetchUnnoticed`; with it
`RemovalsAreAsked`, an action property, follows by a case split on the removing action.

Only model-checked: liveness (`Terminates`, `RunEnds`, `RunsEnd`), since this prover has
neither ENABLED nor fairness; and the five violations, which are counterexamples. The type
invariants of the executors, of `ProviderLifecycle` and of `K8sSubmit` are proved but are
not among the properties of the runs, whose other invariants would catch a wrong value.

## What is not modelled, and why

- Wording, logging, environment variables, secrets and adapters: no control hangs on
  them except the failure of their step, which is there.
- The capability probes other than that of OpenSandbox: they only read, and their outcome
  is an outcome of `Probe` in `RunEngine`.
- The JSONL files of the writer: appended under a mutex, nothing reads them back.
- Output classifier, policy decisions and setup plans: text in, an answer out, no state.
  `RunEngine` takes every answer.
- The local backend: fixed answers.
- The CLI parser, platform detection, output commands, file templates: text and I/O.
- `Renew`, `Resume`, `Endpoints`: offered by the backends, not used by the engine (or only
  to print). `CancelExec` is modelled where `BackendExecutor.Run` calls it, when its
  context ends (`Interrupt`).
- The fields of the configuration that do not decide where a run is executed, the pod
  template beyond its runtime class and ConfigMap, and kubeconfig files.
- `StreamLogs` of OpenSandbox without a session (polling of background logs): the
  engine never starts a background command.
- Real time. A timeout is a step that may happen at any moment.

## Plan

In this order:

1. done: `RunLifecycle`, `RunEngine`, `ExecContract`, `BackendExecutor`, `LocalExec`,
   `OpenSandboxExec`, `ProcRunner`, `DockerExec`.
2. done: `ProviderLifecycle`, `ExecutionConfig`, `K8sSubmit`.
3. done: the proofs about them, for any number of runs and submissions.
4. done: the proofs about the engine and the executors, their refinements included.
5. Left: liveness stays with TLC. A lost answer of `CreateJob` has no property, since
   the client cannot tell it from a job that was not made. A stronger promise on shared
   dev containers would need a change of the code.
