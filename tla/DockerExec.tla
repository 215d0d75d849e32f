------------------------------ MODULE DockerExec ------------------------------
(***************************************************************************)
(* A command of the docker backend: DockerExecutor.Run                     *)
(* (src/internal/executor/docker.go).                                      *)
(*                                                                         *)
(* Run pulls the image, makes and starts a container, follows its log with *)
(* a copier goroutine and selects between the answer of a wait request,    *)
(* the error of that request, and the end of its context.  The daemon      *)
(* keeps the log, so the command never blocks on it.  Run waits for the    *)
(* copier before it returns, except after an error of the wait request.    *)
(***************************************************************************)
EXTENDS Integers, Sequences, FiniteSets

CONSTANTS
  Programs,  \* what the command in the container may do
  CtxEnds    \* the ways in which the context of Run may end

Streams == {"stdout", "stderr"}

ProgramType == [lines : [Streams -> Nat], exit : Int, hangs : BOOLEAN]

ASSUME DockerAssumption ==
  /\ Programs \subseteq ProgramType
  /\ CtxEnds \subseteq {"deadline", "canceled"}

\* Run's own exit code for a container it has killed; the daemon reports the same.
Killed == 137

VARIABLES
  ctx,        \* logCtx: "live", or how it ended
  program,    \* what this command does
  container,  \* "none", "created", "running", "exited" or "killed"
  removal,    \* its removal has been asked for
  written,    \* lines written so far, per stream
  log,        \* lines the copier has not read yet: [stream, line]
  copier,     \* the goroutine: "off", "copy" or "done"
  copyErr,    \* what it has put into copyErrCh
  wait,       \* the wait request: "off", "pending", "answered" or "failed"
  waitErr,    \* its error
  run,        \* where Run stands
  handled,    \* the lines given to the log handler, per stream
  late,       \* lines the handler got after Run had returned
  result      \* the result and error of Run, as far as they are known

command == <<program, container, removal, written>>
copying == <<log, copier, copyErr, handled, late>>
waiting == <<wait, waitErr>>
vars == <<ctx, command, copying, waiting, run, result>>

Blank == [exit |-> 0, timedOut |-> FALSE, err |-> "none"]

Init ==
  /\ ctx = "live"
  /\ program \in Programs
  /\ container = "none" /\ removal = FALSE
  /\ written = [s \in Streams |-> 0]
  /\ log = <<>> /\ copier = "off" /\ copyErr = "none"
  /\ wait = "off" /\ waitErr = "none"
  /\ run = "pull"
  /\ handled = [s \in Streams |-> <<>>] /\ late = 0
  /\ result = Blank

\* The ways in which a request to the daemon may fail: its own, or, kept as it
\* is by the client, that of the context.
RequestErrors == {"error"} \cup ({ctx} \ {"live"})

\* The engine tells only a deadline from other errors.
Reported(err) == IF err = "deadline" THEN "deadline" ELSE "error"

\* A request has failed, and its error is the result.
Failed(err) == result' = [Blank EXCEPT !.err = Reported(err)]

-----------------------------------------------------------------------------
(* The daemon and the context *)

\* The caller cancels, or the timeout of the request, which runs from the start
\* of the container, is over.
EndContext ==
  /\ ctx = "live" /\ ctx' \in CtxEnds
  /\ run \in {"pull", "create", "start"} => ctx' # "deadline"
  /\ UNCHANGED <<command, copying, waiting, run, result>>

WriteLine(s) ==
  /\ container = "running" /\ written[s] < program.lines[s]
  /\ written' = [written EXCEPT ![s] = @ + 1]
  /\ log' = Append(log, [stream |-> s, line |-> written[s] + 1])
  /\ UNCHANGED <<ctx, program, container, removal, copier, copyErr, handled, late,
                 waiting, run, result>>

ExitCommand ==
  /\ container = "running" /\ ~program.hangs /\ written = program.lines
  /\ container' = "exited"
  /\ UNCHANGED <<ctx, program, removal, written, copying, waiting, run, result>>

\* The wait request is answered when the container is over, or fails.
AnswerWait ==
  /\ wait = "pending"
  /\ \/ container \in {"exited", "killed"} /\ wait' = "answered" /\ UNCHANGED waitErr
     \/ wait' = "failed" /\ waitErr' \in RequestErrors
  /\ UNCHANGED <<ctx, command, copying, run, result>>

-----------------------------------------------------------------------------
(* The copier *)

\* StdCopy hands a line to the handler; after Run's return that is too late.
CopyLine ==
  /\ copier = "copy" /\ log # <<>>
  /\ log' = Tail(log)
  /\ IF run = "returned"
     THEN late' = late + 1 /\ UNCHANGED handled
     ELSE /\ handled' = [handled EXCEPT ![Head(log).stream] = Append(@, Head(log).line)]
          /\ UNCHANGED late
  /\ UNCHANGED <<ctx, command, copier, copyErr, waiting, run, result>>

\* The end of the log, or an error of the connection, of the context, or of the
\* reader that Run has closed.
EndCopy ==
  /\ copier = "copy" /\ copier' = "done"
  /\ \/ log = <<>> /\ container \in {"exited", "killed"} /\ UNCHANGED copyErr
     \/ copyErr' \in RequestErrors
  /\ UNCHANGED <<ctx, command, log, handled, late, waiting, run, result>>

-----------------------------------------------------------------------------
(* Run *)

\* pullImage.
PullImage ==
  /\ run = "pull"
  /\ \/ run' = "create" /\ UNCHANGED result
     \/ run' = "leave" /\ \E err \in RequestErrors : Failed(err)
  /\ UNCHANGED <<ctx, command, copying, waiting>>

\* ContainerCreate; if its answer is lost, nobody knows the container.
CreateContainer ==
  /\ run = "create"
  /\ \/ container' = "created" /\ run' = "start" /\ UNCHANGED result
     \/ container' \in {"none", "created"} /\ run' = "leave"
        /\ \E err \in RequestErrors : Failed(err)
  /\ UNCHANGED <<ctx, program, removal, written, copying, waiting>>

\* ContainerStart; it may have started even if the request fails.
StartContainer ==
  /\ run = "start"
  /\ \/ container' = "running" /\ run' = "logs" /\ UNCHANGED result
     \/ container' \in {"created", "running"} /\ run' = "remove"
        /\ \E err \in RequestErrors : Failed(err)
  /\ UNCHANGED <<ctx, program, removal, written, copying, waiting>>

\* ContainerLogs, the copier, and ContainerWait.
FollowLogs ==
  /\ run = "logs"
  /\ \/ run' = "select" /\ copier' = "copy" /\ wait' = "pending" /\ UNCHANGED result
     \/ /\ run' = "remove" /\ \E err \in RequestErrors : Failed(err)
        /\ UNCHANGED <<copier, wait>>
  /\ UNCHANGED <<ctx, command, log, copyErr, handled, late, waitErr>>

\* The status code in the answer.
StatusCode == IF container = "killed" THEN Killed ELSE program.exit

SelectDeafMutant ==
  /\ run = "select" /\ wait = "answered"
  /\ result' = [result EXCEPT !.exit = StatusCode]
  /\ run' = "join"
  /\ UNCHANGED <<ctx, command, copying, waiting>>

\* The select: the wait request has failed, and Run leaves at once; it was
\* answered; or the context is over, and the container is killed, if the daemon
\* does as it is told.
Select ==
  /\ run = "select"
  /\ \/ wait = "failed" /\ Failed(waitErr) /\ run' = "remove" /\ UNCHANGED container
     \/ /\ wait = "answered"
        /\ result' = [result EXCEPT !.exit = StatusCode]
        /\ run' = "join"
        /\ UNCHANGED container
     \/ /\ ctx # "live"
        /\ container' \in {container, IF container = "running" THEN "killed" ELSE container}
        /\ result' = [result EXCEPT !.timedOut = ctx = "deadline"]
        /\ run' = "kill"
  /\ UNCHANGED <<ctx, program, removal, written, copying, waiting>>

AwaitKillMutant ==
  /\ run = "kill" /\ run' = "join"
  /\ result' = [result EXCEPT !.exit = IF wait = "answered" THEN StatusCode ELSE 0]
  /\ UNCHANGED <<ctx, command, copying, waiting>>

\* After the kill: the answer, or two seconds.
AwaitKill ==
  /\ run = "kill" /\ run' = "join"
  /\ \/ wait = "answered" /\ result' = [result EXCEPT !.exit = StatusCode]
     \/ result' = [result EXCEPT !.exit = Killed]
  /\ UNCHANGED <<ctx, command, copying, waiting>>

JoinNoneMutant ==
  /\ run = "join" /\ run' = "remove"
  /\ result' = IF result.timedOut THEN [result EXCEPT !.err = "deadline"] ELSE result
  /\ UNCHANGED <<ctx, command, copying, waiting>>

JoinSilentMutant ==
  /\ run = "join" /\ copier = "done" /\ run' = "remove"
  /\ result' = IF copyErr \in {"deadline", "error"} THEN [Blank EXCEPT !.err = Reported(copyErr)]
               ELSE result
  /\ UNCHANGED <<ctx, command, copying, waiting>>

\* The copier is waited for.  Its error, unless it is that of a cancellation,
\* takes the place of the result; so does the deadline of a container that was
\* killed for it.
Join ==
  /\ run = "join" /\ copier = "done"
  /\ run' = "remove"
  /\ IF copyErr \in {"deadline", "error"}
     THEN Failed(copyErr)
     ELSE result' = [result EXCEPT !.err = IF result.timedOut THEN "deadline" ELSE "none"]
  /\ UNCHANGED <<ctx, command, copying, waiting>>

RemoveMutant ==
  /\ run = "remove" /\ run' = "leave"
  /\ removal' = (result.err = "none") /\ UNCHANGED container
  /\ UNCHANGED <<ctx, program, written, copying, waiting, result>>

\* The deferred ContainerRemove, by force; its error is dropped.
Remove ==
  /\ run = "remove" /\ run' = "leave"
  /\ removal' = TRUE
  /\ container' \in {container, IF container = "running" THEN "killed" ELSE container}
  /\ UNCHANGED <<ctx, program, written, copying, waiting, result>>

Return ==
  /\ run = "leave" /\ run' = "returned"
  /\ UNCHANGED <<ctx, command, copying, waiting, result>>

\* Nothing is left to do.
Over == run = "returned" /\ copier \in {"off", "done"} /\ UNCHANGED vars

CommandStep == ExitCommand \/ \E s \in Streams : WriteLine(s)
CopyStep == CopyLine \/ EndCopy
RunStep ==
  \/ PullImage \/ CreateContainer \/ StartContainer \/ FollowLogs
  \/ Select \/ AwaitKill \/ Join \/ Remove \/ Return

Next == CommandStep \/ AnswerWait \/ CopyStep \/ RunStep \/ EndContext \/ Over

Spec == Init /\ [][Next]_vars

\* Goroutines run, the command runs, the daemon's answers arrive, and a read of
\* the log returns once the log, the context or Run is over.  Nothing makes the
\* context end or a request fail.
FairSpec ==
  /\ Spec
  /\ WF_vars(CommandStep) /\ WF_vars(RunStep) /\ WF_vars(CopyLine)
  /\ WF_vars(EndCopy /\ (container \in {"exited", "killed"} \/ ctx # "live" \/ run = "returned"))
  /\ WF_vars(AnswerWait /\ (container \in {"exited", "killed"} \/ ctx # "live"))

-----------------------------------------------------------------------------
(* Properties *)

\* Every variable has the type of what it stands for.
TypeOK ==
  /\ ctx \in {"live"} \cup CtxEnds
  /\ program \in Programs
  /\ container \in {"none", "created", "running", "exited", "killed"}
  /\ removal \in BOOLEAN
  /\ written \in [Streams -> Nat]
  /\ log \in Seq([stream : Streams, line : Nat])
  /\ copier \in {"off", "copy", "done"}
  /\ copyErr \in {"none", "error", "deadline", "canceled"}
  /\ wait \in {"off", "pending", "answered", "failed"}
  /\ waitErr \in {"none", "error", "deadline", "canceled"}
  /\ run \in {"pull", "create", "start", "logs", "select", "kill", "join", "remove",
              "leave", "returned"}
  /\ handled \in [Streams -> Seq(Nat)] /\ late \in Nat
  /\ result \in [exit : Int, timedOut : BOOLEAN, err : {"none", "deadline", "error"}]

\* A command that ends before its context does, and is reported without an
\* error, is reported with its exit code and all of its output.
CompleteResult ==
  run = "returned" /\ result.err = "none" /\ ctx = "live" =>
    /\ container = "exited" /\ result.exit = program.exit
    /\ \A s \in Streams : handled[s] = [i \in 1 .. program.lines[s] |-> i]

\* A result without an error after the deadline is that of a command that had
\* ended by itself.
DeadlineReported ==
  run = "returned" /\ result.err = "none" /\ ctx = "deadline" =>
    container = "exited" /\ result.exit = program.exit

\* Lines reach the handler after the return only if Run left the copier behind
\* on an error of the wait request; a result is never still being written to.
LateOnlyAfterError == late > 0 => wait = "failed" /\ result.err # "none"

\* A container whose ID was returned is not left behind: Run asks for its
\* removal on every way out, whatever has failed.
ContainerRemoved ==
  run = "returned" /\ (wait # "off" \/ container \in {"running", "exited", "killed"}) => removal

\* Run ends when the command does; and once the deadline is over or the run
\* cancelled it ends whatever the command does, and so does its copier.
RunEnds ==
  /\ ~program.hangs ~> (run = "returned")
  /\ (ctx # "live") ~> (run = "returned" /\ copier \in {"off", "done"})

Success == run = "returned" /\ result.err = "none" /\ result.exit = 0

\* What Run does for the engine.
Contract == INSTANCE ExecContract WITH
  ended <- CASE container = "exited" /\ program.exit = 0 -> "ok"
             [] container \in {"none", "created", "running"} -> "running"
             [] OTHER -> "bad",
  givenUp <- FALSE,
  returned <- IF run # "returned" THEN "nothing"
              ELSE IF Success THEN "success" ELSE "failure"

\* Lines in order and without repetition, and no success the command did not
\* have: not even after a cancellation.
ImplementsContract == Contract!Spec
=============================================================================
