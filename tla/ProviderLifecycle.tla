--------------------------- MODULE ProviderLifecycle ---------------------------
(***************************************************************************)
(* The sandboxes of the managed backends: what a run asks of its provider  *)
(* from Create to the cleanup of collect                                   *)
(* (src/internal/backend/*_backend.go, opensandbox_workspace.go,           *)
(* src/internal/capability/opensandbox.go).                                *)
(*                                                                         *)
(* Several runs use one provider at the same time.  A dev container is     *)
(* found by its workspace and an OrbStack machine by the name in the       *)
(* configuration, so runs share them; an Apple container has the name of   *)
(* its run, and an OpenSandbox sandbox the ID its server makes up.  Every  *)
(* call may fail, also one that has been carried out.                      *)
(***************************************************************************)
EXTENDS Integers, Sequences, FiniteSets

CONSTANTS
  Runs,            \* the runs of the engine
  Configurations,  \* what each of them may be configured to
  FoundBoxes       \* what may be there before any of them starts

Kinds == {"devcontainer", "apple", "machine", "opensandbox"}

\* key: the workspace, the machine's name, or the run ID.  options: "probe" (a
\* runtime profile to be tried out), "userCommands", "replace" (remove an existing
\* container), "down" (the installed CLI has it), and "autoCreate" of a machine.
Configuration ==
  [kind : Kinds, mode : {"delete", "keep", "stop", "pause"}, key : Nat,
   options : SUBSET {"probe", "userCommands", "replace", "down", "autoCreate"}]

Amounts == {"none", "part", "whole"}

\* A sandbox.  tree is what it has of the local workspace, archive what is in
\* the archive last sent to it or made in it.
Box ==
  [id : Nat, name : Kinds \X Nat, maker : Runs \cup {"user"}, use : {"run", "probe"},
   state : {"pending", "running", "failed", "paused", "stopped"},
   tree : Amounts, archive : Amounts]

ASSUME ProviderAssumption ==
  /\ "user" \notin Runs
  /\ Configurations \subseteq [Runs -> Configuration]
  /\ \A found \in FoundBoxes :
       /\ found \subseteq Box /\ IsFiniteSet(found)
       /\ \A b \in found :
            /\ b.id \in 1 .. Cardinality(found) /\ b.maker = "user"
            /\ b.name[1] = "opensandbox" => b.name = <<"opensandbox", b.id>>
       /\ \A b, c \in found : b.id = c.id \/ b.name = c.name => b = c

VARIABLES
  config,  \* the configuration of each run
  boxes,   \* the sandboxes that exist
  made,    \* how many have been made so far
  run      \* the state of each run

vars == <<config, boxes, made, run>>

NoName == <<"none", 0>>

\* A run before its first call.  probe: the ID of the sandbox its probe knows
\* of, or 0; name: the sandbox Create has returned; container: its container ID;
\* used: where commands ran; tar: what is in the local archive; tree: what has been
\* fetched.
Fresh(c) ==
  [pc |-> IF "probe" \in c.options THEN "probe" ELSE "create", probe |-> 0,
   name |-> NoName, container |-> 0, used |-> {}, tar |-> "none", tree |-> "none",
   result |-> "none", notes |-> {}]

Init ==
  /\ config \in Configurations
  /\ boxes \in FoundBoxes
  /\ made = Cardinality(boxes)
  /\ run = [r \in Runs |-> Fresh(config[r])]

-----------------------------------------------------------------------------
(* Runs and their sandboxes *)

At(r, kind, pc) == config[r].kind = kind /\ run[r].pc = pc

\* Where a run of a CLI backend finds its sandbox.
OwnName(r) == <<config[r].kind, config[r].key>>

Named(name) == {b \in boxes : b.name = name}
Unnamed(name) == boxes \ Named(name)

Goto(r, pc) == run' = [run EXCEPT ![r].pc = pc]

\* prepare or a command fails; collect comes next, and no local archive is used again.
Fail(r) ==
  run' = [run EXCEPT ![r].tar = "none", ![r].result = "FAILED", ![r].pc = "collect"]

\* The capability check fails: there is no collect.
Refuse(r) == run' = [run EXCEPT ![r].result = "FAILED", ![r].pc = "done"]

\* Create returns this sandbox.
Created(r, name) == run' = [run EXCEPT ![r].name = name, ![r].pc = "start"]

NewBox(r, id, name, use, state) ==
  [id |-> id, name |-> name, maker |-> r, use |-> use, state |-> state,
   tree |-> IF name[1] = "opensandbox" THEN "none" ELSE "whole", archive |-> "none"]

\* The box of a run of a CLI backend, if the call makes it now.
NextBox(r, state) == NewBox(r, made + 1, OwnName(r), "run", state)

Unmade == UNCHANGED <<config, boxes, made>>

-----------------------------------------------------------------------------
(* The HTTP client of OpenSandbox *)

\* What may become of one transmission of a request: it is not sent; carried
\* out, but no answer comes; refused; carried out and answered badly; carried
\* out and answered.
Fates == {"unsent", "lost", "refused", "garbled", "done"}

RepliesResentMutant(retries) ==
  LET attempts == {s \in UNION {[1 .. n -> Fates] : n \in 1 .. retries + 1} :
                     /\ \A i \in 1 .. Len(s) - 1 : s[i] \in {"unsent", "lost"}
                     /\ s[Len(s)] \in {"unsent", "lost"} => Len(s) = retries + 1}
  IN {[made |-> Cardinality({i \in DOMAIN s : s[i] \in {"lost", "garbled", "done"}}),
       ok |-> s[Len(s)] = "done"] : s \in attempts}

\* doRaw with a body: how often the request is carried out, and whether there is
\* an answer.  A request that was sent has no body left to be sent again with,
\* and net/http refuses to send it.
Replies(retries) ==
  LET attempts == {s \in UNION {[1 .. n -> Fates] : n \in 1 .. retries + 1} :
                     /\ \A i \in 1 .. Len(s) - 1 : s[i] \in {"unsent", "lost"}
                     /\ s[Len(s)] \in {"unsent", "lost"} => Len(s) = retries + 1
                     /\ \A i, j \in DOMAIN s : i < j /\ s[i] = "lost" => s[j] = "unsent"}
  IN {[made |-> Cardinality({i \in DOMAIN s : s[i] \in {"lost", "garbled", "done"}}),
       ok |-> s[Len(s)] = "done"] : s \in attempts}

\* The sandboxes a create request of run r has made by reply.
MadeBy(r, use, reply) ==
  {NewBox(r, made + i, <<"opensandbox", made + i>>, use, "pending") : i \in 1 .. reply.made}

\* The request of Create, or that of the probe.
PostSandbox(r, use, reply) ==
  /\ boxes' = boxes \cup MadeBy(r, use, reply)
  /\ made' = made + reply.made
  /\ UNCHANGED config

-----------------------------------------------------------------------------
(* The probe of a runtime profile *)

ProbeCreate(r) ==
  /\ At(r, "opensandbox", "probe")
  /\ \E reply \in Replies(1) :
       /\ PostSandbox(r, "probe", reply)
       /\ IF reply.ok
            THEN run' = [run EXCEPT ![r].probe = made + reply.made, ![r].pc = "probeWait"]
            ELSE Refuse(r)

\* The sandbox of the probe, unless the server has removed it.
Probed(r) == {b \in boxes : b.id = run[r].probe}

ProbeVerdict(r, pc) == Goto(r, pc) /\ Unmade

\* waitForOpenSandboxProbeSandbox: it starts, or does not, or the deadline passes.
ProbeWait(r) ==
  /\ At(r, "opensandbox", "probeWait")
  /\ IF \E b \in Probed(r) : b.state \in {"running", "paused"}
       THEN ProbeVerdict(r, "probeGood")
       ELSE ProbeVerdict(r, "probeBad")

\* A status request fails; it need not.
ProbeWaitFails(r) == At(r, "opensandbox", "probeWait") /\ ProbeVerdict(r, "probeBad")

\* The probe is over.  A run that goes on warns of a sandbox that may be left; with a
\* bad verdict the warning is dropped.
ProbeEnds(r, clean) ==
  run' = [run EXCEPT
            ![r].notes = IF clean \/ run[r].pc = "probeBad" THEN @ ELSE @ \cup {"probe"},
            ![r].result = IF run[r].pc = "probeGood" THEN @ ELSE "FAILED",
            ![r].pc = IF run[r].pc = "probeGood" THEN "create" ELSE "done"]

\* deleteOpenSandboxProbeSandbox, whatever the verdict and with a context of its
\* own; a sandbox that is gone already counts as deleted.
ProbeDelete(r) ==
  /\ config[r].kind = "opensandbox" /\ run[r].pc \in {"probeGood", "probeBad"}
  /\ \/ boxes' = boxes \ Probed(r) /\ ProbeEnds(r, TRUE)
     \/ boxes' \in {boxes, boxes \ Probed(r)} /\ ProbeEnds(r, FALSE)
  /\ UNCHANGED <<config, made>>

-----------------------------------------------------------------------------
(* Create and Start of a dev container *)

ReadConfiguration(r) ==
  /\ At(r, "devcontainer", "create")
  /\ Goto(r, "up") \/ Fail(r)
  /\ Unmade

\* The container of the workspace that up reuses.
Reused(r) == IF "replace" \in config[r].options THEN {} ELSE Named(OwnName(r))

\* What up leaves as the container of the workspace.
Upped(r) ==
  IF Reused(r) = {} THEN NextBox(r, "running")
  ELSE [(CHOOSE b \in Reused(r) : TRUE) EXCEPT !.state = "running"]

\* devcontainer up may fail in between, and its answer may lack the container ID.
Up(r) ==
  /\ At(r, "devcontainer", "up")
  /\ \/ /\ boxes' = Unnamed(OwnName(r)) \cup {Upped(r)}
        /\ made' = IF Reused(r) = {} THEN made + 1 ELSE made
        /\ \/ Fail(r)
           \/ \E id \in {0, Upped(r).id} :
                run' = [run EXCEPT ![r].container = id, ![r].pc = "userCommands"]
     \/ /\ boxes' \in {boxes, Unnamed(OwnName(r)) \cup Reused(r)}
        /\ Fail(r) /\ UNCHANGED made
  /\ UNCHANGED config

\* Create returns a sandbox only after the user's commands have succeeded.
RunUserCommands(r) ==
  /\ At(r, "devcontainer", "userCommands")
  /\ \/ Created(r, OwnName(r))
     \/ "userCommands" \in config[r].options /\ Fail(r)
  /\ Unmade

-----------------------------------------------------------------------------
(* Create of an Apple container *)

CreateOrReuseContainerMutant(r) ==
  /\ At(r, "apple", "create")
  /\ \/ /\ Named(OwnName(r)) = {}
        /\ boxes' = boxes \cup {NextBox(r, "stopped")} /\ made' = made + 1
        /\ Created(r, OwnName(r)) \/ Fail(r)
     \/ /\ Named(OwnName(r)) # {}
        /\ Created(r, OwnName(r)) /\ UNCHANGED <<boxes, made>>
     \/ Fail(r) /\ UNCHANGED <<boxes, made>>
  /\ UNCHANGED config

\* The name is taken from the run ID; a name that is in use is refused.
CreateContainer(r) ==
  /\ At(r, "apple", "create")
  /\ \/ /\ Named(OwnName(r)) = {}
        /\ boxes' = boxes \cup {NextBox(r, "stopped")} /\ made' = made + 1
        /\ Created(r, OwnName(r)) \/ Fail(r)
     \/ Fail(r) /\ UNCHANGED <<boxes, made>>
  /\ UNCHANGED config

-----------------------------------------------------------------------------
(* Create of an OrbStack machine *)

\* machineInfo finds the machine, or it is missing, or the question fails.
FindMachine(r) ==
  /\ At(r, "machine", "create")
  /\ \/ Named(OwnName(r)) # {} /\ Goto(r, "startMachine")
     \/ IF "autoCreate" \in config[r].options THEN Goto(r, "createMachine") ELSE Fail(r)
  /\ Unmade

CreateMachine(r) ==
  /\ At(r, "machine", "createMachine")
  /\ \/ /\ Named(OwnName(r)) = {}
        /\ boxes' = boxes \cup {NextBox(r, "running")} /\ made' = made + 1
        /\ Goto(r, "confirmMachine") \/ Fail(r)
     \/ Fail(r) /\ UNCHANGED <<boxes, made>>
  /\ UNCHANGED config

ConfirmMachine(r) ==
  /\ At(r, "machine", "confirmMachine")
  /\ \/ Named(OwnName(r)) # {} /\ Goto(r, "startMachine")
     \/ Fail(r)
  /\ Unmade

\* The boxes after a call that brings those with this name into a state.
Set(name, state) ==
  Unnamed(name) \cup {[b EXCEPT !.state = state] : b \in Named(name)}

\* Create starts the machine before it returns it.  An error that speaks of
\* "running" counts as a success.
StartFoundMachine(r) ==
  /\ At(r, "machine", "startMachine")
  /\ boxes' \in {boxes, Set(OwnName(r), "running")}
  /\ Created(r, OwnName(r)) \/ Fail(r)
  /\ UNCHANGED <<config, made>>

-----------------------------------------------------------------------------
(* Create and Start of an OpenSandbox sandbox *)

CreateSandbox(r) ==
  /\ At(r, "opensandbox", "create")
  /\ \E reply \in Replies(0) :
       /\ PostSandbox(r, "run", reply)
       /\ IF reply.ok THEN Created(r, <<"opensandbox", made + reply.made>>) ELSE Fail(r)

StartPatientMutant(r) ==
  /\ At(r, "opensandbox", "start")
  /\ ~\E b \in Named(run[r].name) : b.state = "pending"
  /\ IF \E b \in Named(run[r].name) : b.state \in {"running", "paused"}
       THEN Goto(r, "syncIn") ELSE Fail(r)
  /\ Unmade

\* Start polls the sandbox until it runs, has failed, or the deadline has passed.
StartSandbox(r) ==
  /\ At(r, "opensandbox", "start")
  /\ IF \E b \in Named(run[r].name) : b.state \in {"running", "paused"}
       THEN Goto(r, "syncIn") ELSE Fail(r)
  /\ Unmade

StartFails(r) == At(r, "opensandbox", "start") /\ Fail(r) /\ Unmade

\* A dev container runs already.
StartDevContainer(r) == At(r, "devcontainer", "start") /\ Goto(r, "setup") /\ Unmade

\* An error that speaks of "running" counts as a success.
StartMachine(r) ==
  /\ At(r, "machine", "start")
  /\ boxes' \in {boxes, Set(run[r].name, "running")}
  /\ Goto(r, "setup") \/ Fail(r)
  /\ UNCHANGED <<config, made>>

StartContainer(r) ==
  /\ At(r, "apple", "start")
  /\ \/ /\ Named(run[r].name) # {}
        /\ boxes' = Set(run[r].name, "running")
        /\ Goto(r, "setup") \/ Fail(r)
     \/ Fail(r) /\ UNCHANGED boxes
  /\ UNCHANGED <<config, made>>

-----------------------------------------------------------------------------
(* The workspace, and commands *)

\* The sandbox a run works in, while it is there and runs.
Working(r) == {b \in Named(run[r].name) : b.state = "running"}

\* What RunSimpleCommand returns when the stream of its events breaks.
Broken == -1

RunSimpleCommandCutMutant(exit) == {exit, 0}

\* The exit codes reported for a command that ends with exit.
RunSimpleCommand(exit) == {exit, Broken}

\* boxes with b changed.
Change(b, field, amount) == (boxes \ {b}) \cup {[b EXCEPT ![field] = amount]}

\* tar ends with 0 when it has written everything.
Amount(exit) == IF exit = 0 THEN "whole" ELSE "part"

\* archiveDirectory fails (and leaves its file, which nobody uses), or it does not: the
\* error of the last write is lost with that of the archive's Close, and then the archive
\* ends too early.
ArchiveWorkspace(r) ==
  /\ At(r, "opensandbox", "syncIn")
  /\ \/ \E amount \in {"part", "whole"} :
          run' = [run EXCEPT ![r].tar = amount, ![r].pc = "upload"]
     \/ Fail(r)
  /\ Unmade

\* The directories are made and the archive is uploaded; the local one has served.
UploadArchive(r) ==
  /\ At(r, "opensandbox", "upload")
  /\ \/ \E b \in Working(r) :
          /\ boxes' = Change(b, "archive", run[r].tar)
          /\ \/ run' = [run EXCEPT ![r].tar = "none", ![r].pc = "extract"]
             \/ Fail(r)
     \/ Fail(r) /\ UNCHANGED boxes
  /\ UNCHANGED <<config, made>>

\* tar refuses an archive that ends too early; one it has unpacked is removed.
SyncIn(r) ==
  /\ At(r, "opensandbox", "extract")
  /\ \/ \E b \in Working(r), exit \in {0, 1} :
          /\ exit = 0 => b.archive = "whole"
          /\ boxes' = (boxes \ {b}) \cup
               {[b EXCEPT !.tree = Amount(exit), !.archive = IF exit = 0 THEN "none" ELSE @]}
          /\ \E code \in RunSimpleCommand(exit) :
               IF code = 0 THEN Goto(r, "setup") ELSE Fail(r)
     \/ Fail(r) /\ UNCHANGED boxes
  /\ UNCHANGED <<config, made>>

\* A setup step, and then the main command.
RunCommand(r) ==
  /\ run[r].pc \in {"setup", "execute"}
  /\ \/ \E b \in Working(r) :
          LET used == run[r].used \cup {[id |-> b.id, maker |-> b.maker, tree |-> b.tree]} IN
          \/ run' = [run EXCEPT ![r].used = used, ![r].result = "FAILED", ![r].pc = "collect"]
          \/ /\ run[r].pc = "setup"
             /\ run' = [run EXCEPT ![r].used = used, ![r].pc = "execute"]
          \/ /\ run[r].pc = "execute"
             /\ run' = [run EXCEPT ![r].used = used, ![r].result = "SUCCEEDED",
                                   ![r].pc = "collect"]
     \/ Fail(r)
  /\ Unmade

-----------------------------------------------------------------------------
(* collect: the workspace is fetched *)

\* The other backends have the workspace on the host.
SkipSyncOut(r) ==
  /\ run[r].pc = "collect"
  /\ config[r].kind # "opensandbox" \/ run[r].name = NoName
  /\ Goto(r, "cleanup")
  /\ Unmade

Note(r, note, pc) == run' = [run EXCEPT ![r].notes = @ \cup {note}, ![r].pc = pc]

\* Without a remote directory there is nothing to fetch, and no error (the note
\* "nothing" is the model's own).
CheckRemoteDir(r) ==
  /\ At(r, "opensandbox", "collect") /\ run[r].name # NoName
  /\ \/ /\ Working(r) # {}
        /\ Goto(r, "archive") \/ Note(r, "nothing", "cleanup")
     \/ Note(r, "syncOut", "cleanup")
  /\ Unmade

ArchiveRemoteDir(r) ==
  /\ At(r, "opensandbox", "archive")
  /\ \/ \E b \in Working(r), exit \in {0, 1} :
          /\ boxes' = Change(b, "archive", Amount(exit))
          /\ \E code \in RunSimpleCommand(exit) :
               IF code = 0 THEN Goto(r, "fetch") ELSE Note(r, "syncOut", "cleanup")
     \/ Note(r, "syncOut", "cleanup") /\ UNCHANGED boxes
  /\ UNCHANGED <<config, made>>

DownloadArchive(r) ==
  /\ At(r, "opensandbox", "fetch")
  /\ \/ \E b \in Working(r) : run' = [run EXCEPT ![r].tar = b.archive, ![r].pc = "unpack"]
     \/ Note(r, "syncOut", "cleanup")
  /\ Unmade

\* extractTar fails halfway, or takes all there is in the archive, also in one that ends
\* too early; then the remote archive is removed, if that works.
ExtractTar(r) ==
  /\ At(r, "opensandbox", "unpack")
  /\ \/ /\ boxes' \in {boxes} \cup {Change(b, "archive", "none") : b \in Working(r)}
        /\ run' = [run EXCEPT ![r].tree = run[r].tar, ![r].tar = "none", ![r].pc = "cleanup"]
     \/ \E tree \in {"none", "part"} :
          /\ run' = [run EXCEPT ![r].tree = tree, ![r].notes = @ \cup {"syncOut"},
                                ![r].tar = "none", ![r].pc = "cleanup"]
          /\ UNCHANGED boxes
  /\ UNCHANGED <<config, made>>

-----------------------------------------------------------------------------
(* collect: cleanupBackend *)

FinishQuietMutant(r, clean) ==
  run' = [run EXCEPT ![r].notes = IF clean THEN @ ELSE @ \cup {"cleanup"}, ![r].pc = "done"]

\* A cleanup that fails is noted, and makes a success PARTIAL.
Finish(r, clean) ==
  run' = [run EXCEPT
            ![r].notes = IF clean THEN @ ELSE @ \cup {"cleanup"},
            ![r].result = IF ~clean /\ @ = "SUCCEEDED" THEN "PARTIAL" ELSE @,
            ![r].pc = "done"]

\* A call that leaves after behind: it works, or it fails before or after that.
Dispose(r, after) ==
  \/ boxes' = after /\ Finish(r, TRUE)
  \/ boxes' \in {boxes, after} /\ Finish(r, FALSE)

DisposalAlwaysMutant(r) ==
  IF run[r].name = NoName THEN "nothing"
  ELSE IF config[r].mode \in {"stop", "pause"} THEN config[r].mode ELSE "delete"

\* What cleanupBackend asks of the backend.
Disposal(r) ==
  LET mode == config[r].mode IN
  CASE run[r].name = NoName \/ mode = "keep" -> "nothing"
    [] OTHER -> CASE config[r].kind = "machine" /\ mode \notin {"stop", "delete"} -> "nothing"
                  [] config[r].kind = "machine" /\ mode = "stop" -> "stop"
                  [] config[r].kind = "opensandbox" /\ mode = "pause" -> "pause"
                  [] OTHER -> "delete"

Keep(r) ==
  /\ run[r].pc = "cleanup" /\ Disposal(r) = "nothing"
  /\ Finish(r, TRUE) /\ Unmade

\* A call that leaves after behind, and fails if there is no such sandbox.
Ask(r, after) ==
  \/ Named(run[r].name) # {} /\ Dispose(r, after)
  \/ Named(run[r].name) = {} /\ Finish(r, FALSE) /\ UNCHANGED boxes

DeleteContainer(r) ==
  /\ At(r, "apple", "cleanup") /\ Disposal(r) = "delete"
  /\ Ask(r, Unnamed(run[r].name))
  /\ UNCHANGED <<config, made>>

\* Delete of a machine stops it, if that is its mode.
DeleteMachine(r) ==
  /\ At(r, "machine", "cleanup")
  /\ \/ Disposal(r) = "stop" /\ Ask(r, Set(run[r].name, "stopped"))
     \/ Disposal(r) = "delete" /\ Ask(r, Unnamed(run[r].name))
  /\ UNCHANGED <<config, made>>

PauseSandbox(r) ==
  /\ At(r, "opensandbox", "cleanup") /\ Disposal(r) = "pause"
  /\ Ask(r, Set(run[r].name, "paused"))
  /\ UNCHANGED <<config, made>>

DeleteSandbox(r) ==
  /\ At(r, "opensandbox", "cleanup") /\ Disposal(r) = "delete"
  /\ Ask(r, Unnamed(run[r].name))
  /\ UNCHANGED <<config, made>>

\* Delete of the dev container backend: a CLI without "down" refuses it, and
\* then the container is removed by its ID, if that is known.
Down(r) ==
  /\ At(r, "devcontainer", "cleanup") /\ Disposal(r) = "delete"
  /\ IF "down" \in config[r].options THEN Dispose(r, Unnamed(run[r].name))
     ELSE /\ IF run[r].container # 0 THEN Goto(r, "rm") ELSE Finish(r, FALSE)
          /\ UNCHANGED boxes
  /\ UNCHANGED <<config, made>>

\* removeContainer: docker rm -f.
RemoveContainer(r) ==
  /\ At(r, "devcontainer", "rm")
  /\ Dispose(r, {b \in boxes : b.id # run[r].container})
  /\ UNCHANGED <<config, made>>

-----------------------------------------------------------------------------
(* The server of OpenSandbox *)

\* A sandbox starts, or does not.
Boot ==
  \E b \in boxes, state \in {"running", "failed"} :
    /\ b.state = "pending" /\ boxes' = Change(b, "state", state)
    /\ UNCHANGED <<config, made, run>>

\* The time to live of a sandbox is over; every create request has one.
Expire ==
  \E b \in boxes :
    /\ b.name[1] = "opensandbox" /\ boxes' = boxes \ {b}
    /\ UNCHANGED <<config, made, run>>

-----------------------------------------------------------------------------
(* Specification *)

ProbeStep(r) == ProbeCreate(r) \/ ProbeWait(r) \/ ProbeDelete(r)
CreateStep(r) ==
  \/ ReadConfiguration(r) \/ Up(r) \/ RunUserCommands(r)
  \/ CreateContainer(r)
  \/ FindMachine(r) \/ CreateMachine(r) \/ ConfirmMachine(r) \/ StartFoundMachine(r)
  \/ CreateSandbox(r)
UseStep(r) ==
  \/ StartSandbox(r) \/ StartDevContainer(r) \/ StartMachine(r) \/ StartContainer(r)
  \/ ArchiveWorkspace(r) \/ UploadArchive(r) \/ SyncIn(r) \/ RunCommand(r)
FetchStep(r) ==
  \/ SkipSyncOut(r)
  \/ CheckRemoteDir(r) \/ ArchiveRemoteDir(r) \/ DownloadArchive(r) \/ ExtractTar(r)
CleanupStep(r) ==
  \/ Keep(r) \/ DeleteContainer(r) \/ DeleteMachine(r)
  \/ PauseSandbox(r) \/ DeleteSandbox(r) \/ Down(r) \/ RemoveContainer(r)
RunStep(r) ==
  ProbeStep(r) \/ CreateStep(r) \/ UseStep(r) \/ FetchStep(r) \/ CleanupStep(r)

\* All runs are over; only the server still does something.
Over == (\A r \in Runs : run[r].pc = "done") /\ UNCHANGED vars

Next ==
  \/ \E r \in Runs : RunStep(r) \/ ProbeWaitFails(r) \/ StartFails(r)
  \/ Boot \/ Expire \/ Over

Spec == Init /\ [][Next]_vars

\* The engine takes its next step, and deadlines pass.  Nothing is expected of
\* the server: it need not start a sandbox, nor refuse to.
FairSpec == Spec /\ \A r \in Runs : WF_vars(RunStep(r))

-----------------------------------------------------------------------------
(* Properties *)

\* Every variable has the type of what it stands for.
TypeOK ==
  /\ config \in Configurations
  /\ boxes \subseteq Box
  /\ made \in Nat
  /\ \A r \in Runs :
       /\ run[r].probe \in Nat /\ run[r].container \in Nat
       /\ run[r].name \in (Kinds \X Nat) \cup {NoName}
       /\ run[r].tar \in Amounts /\ run[r].tree \in Amounts
       /\ run[r].result \in {"none", "SUCCEEDED", "PARTIAL", "FAILED"}
       /\ run[r].notes \subseteq {"probe", "syncOut", "nothing", "cleanup"}

\* With Apple containers and OpenSandbox no run's commands ever run in the
\* sandbox of another run, in two sandboxes, or without the whole workspace.
OwnSandbox ==
  \A r \in Runs : config[r].kind \in {"apple", "opensandbox"} =>
    /\ \A u \in run[r].used : u.maker = r /\ u.tree = "whole"
    /\ \A u, v \in run[r].used : u.id = v.id

\* A sandbox that its maker was to delete is left only by a run that does not
\* claim success, and that either has noted that the cleanup failed or never
\* knew of a sandbox.
LeftoversAccounted ==
  \A b \in boxes, r \in Runs :
    b.maker = r /\ b.use = "run" /\ config[r].mode = "delete" /\ run[r].pc = "done" =>
      /\ run[r].result \in {"PARTIAL", "FAILED"}
      /\ "cleanup" \in run[r].notes \/ run[r].name = NoName

\* Whatever is retried, lost or removed, the probe of a run leaves at most one sandbox,
\* and a run that goes on past its probe has warned of it.  (A refused run may leave one
\* in silence: its create request was not answered, or the warning was dropped.)
ProbeLeftoverNoted ==
  \A r \in Runs :
    LET left == {b \in boxes : b.maker = r /\ b.use = "probe"} IN
    /\ \A b, c \in left : b = c
    /\ left # {} /\ run[r].pc \notin {"probe", "probeWait", "probeGood", "probeBad"} =>
         "probe" \in run[r].notes \/ (run[r].pc = "done" /\ run[r].result = "FAILED")

\* A run that ends without a note of a failed transfer has fetched the whole
\* remote directory, or there was none, or it never had a sandbox.
FetchNoted ==
  \A r \in Runs : At(r, "opensandbox", "done") =>
    \/ run[r].tree = "whole" \/ run[r].notes \cap {"syncOut", "nothing"} # {}
    \/ run[r].name = NoName

\* A sandbox goes only when it expires or by a step of its own maker, or of a
\* run that shares it by name and is configured to delete the machine, or to
\* replace the container or not to keep it: a machine or container the user had
\* before is not removed otherwise.
OnlyAskedRemovals ==
  [][\A b \in boxes : (\A c \in boxes' : c.id # b.id) =>
       \/ b.name[1] = "opensandbox" /\ run' = run
       \/ \E r \in Runs :
            /\ run'[r] # run[r]
            /\ \/ b.maker = r
               \/ /\ b.name = OwnName(r) /\ config[r].kind = "machine"
                  /\ config[r].mode = "delete"
               \/ /\ b.name = OwnName(r) /\ config[r].kind = "devcontainer"
                  /\ config[r].mode # "keep" \/ "replace" \in config[r].options]_vars

\* Every run gets to its end, whatever the provider does or does not do.
RunsEnd == \A r \in Runs : <>(run[r].pc = "done")
=============================================================================
