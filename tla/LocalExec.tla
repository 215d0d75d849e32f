------------------------------ MODULE LocalExec ------------------------------
(***************************************************************************)
(* A command of the apple-container, OrbStack machine and dev container    *)
(* backends (src/internal/backend/local_exec_session.go; the dev container *)
(* has its own copy of it), together with BackendExecutor.Run.             *)
(*                                                                         *)
(* The command is a child process, the CLI of the provider, with a pipe    *)
(* for each of its streams.  A goroutine per pipe moves lines to the log   *)
(* channel, a third one waits for the process and then for both readers,   *)
(* records the exit code and closes the channel, and os/exec kills the     *)
(* process when the caller's context ends.  The timeout of the request     *)
(* appears nowhere: these backends do not read it.                         *)
(***************************************************************************)
EXTENDS BackendExecutor

CONSTANTS
  Programs,   \* what the child process may do
  PipeCap     \* lines a pipe holds

\* A program writes so many lines to each stream, some of which (long) exceed
\* the scanner's buffer; then it exits, or goes on forever.
ProgramType ==
  [lines : [Streams -> Nat], long : SUBSET Nat, exit : Int, hangs : BOOLEAN]

ASSUME SessionAssumption ==
  /\ Programs \subseteq ProgramType
  /\ PipeCap \in Nat \ {0}

\* The exit code os/exec reports of a process that was killed.
Killed == -1

VARIABLES
  program,  \* what this child process does
  child,    \* "new", "running", "killed" or "exited"
  written,  \* lines written so far, per stream
  pipe,     \* lines in the pipe, per stream
  pipeOpen, \* cmd.Wait has not closed our ends of the pipes yet
  reader,   \* the goroutine of each stream: "off", "read", "send" or "done"
  held,     \* the line a reader is about to send
  waiter,   \* the waiting goroutine: "off", "wait", "join" or "done"
  waitErr,  \* what cmd.Wait returned: an exit code and the context's error
  status    \* the *int of the session: {}, or its exit code

process == <<program, child, written>>
session == <<pipe, pipeOpen, reader, held, waiter, waitErr, status>>
vars == <<executorVars, process, session>>

Init ==
  /\ ExecutorInit
  /\ program \in Programs
  /\ child = "new"
  /\ written = [s \in Streams |-> 0]
  /\ pipe = [s \in Streams |-> <<>>] /\ pipeOpen = TRUE
  /\ reader = [s \in Streams |-> "off"] /\ held = [s \in Streams |-> 0]
  /\ waiter = "off" /\ waitErr = [ctx |-> "live", code |-> 0] /\ status = {}

-----------------------------------------------------------------------------
(* The child process *)

Write(s) ==
  /\ child = "running"
  /\ written[s] < program.lines[s] /\ Len(pipe[s]) < PipeCap
  /\ written' = [written EXCEPT ![s] = @ + 1]
  /\ pipe' = [pipe EXCEPT ![s] = Append(@, written[s] + 1)]
  /\ UNCHANGED <<executorVars, program, child, pipeOpen, reader, held, waiter,
                 waitErr, status>>

\* It cannot exit while a write blocks on a full pipe.
ExitProcess ==
  /\ child = "running" /\ ~program.hangs /\ written = program.lines
  /\ child' = "exited"
  /\ UNCHANGED <<executorVars, program, written, session>>

-----------------------------------------------------------------------------
(* The session *)

\* Exec: the process and the three goroutines are started.  Start refuses when
\* the context has ended.
Exec ==
  \/ /\ ctx = "live" /\ Started
     /\ child' = "running"
     /\ reader' = [s \in Streams |-> "read"]
     /\ waiter' = "wait"
     /\ UNCHANGED <<program, written, pipe, pipeOpen, held, waitErr, status>>
  \/ StartFailed("error") /\ UNCHANGED <<process, session>>

KillChildMutant == child' = child

\* A signal ends a running process and leaves a finished one as it is.
KillChild == child' = IF child = "running" THEN "killed" ELSE child

\* The goroutine exec.CommandContext starts, until cmd.Wait is over.
KillOnContext ==
  /\ ctx # "live" /\ waiter = "wait" /\ child = "running"
  /\ KillChild
  /\ UNCHANGED <<executorVars, program, written, session>>

\* cmd.Wait: the process is gone, and both of our ends of its pipes are closed,
\* whatever is still in them.  A process that exited with 0 and was signalled
\* before it was reaped is reported with the error of the context.
WaitProcess ==
  /\ waiter = "wait" /\ child \in {"exited", "killed"}
  /\ waiter' = "join"
  /\ pipeOpen' = FALSE
  /\ LET code == IF child = "killed" THEN Killed ELSE program.exit
     IN  \E cause \in {"live", ctx} :
           /\ cause # "live" => code = 0
           /\ waitErr' = [ctx |-> cause, code |-> code]
  /\ UNCHANGED <<executorVars, process, pipe, reader, held, status>>

\* The loop of streamSessionLogs: a line, the end of the stream, a pipe closed
\* under the reader, or a line the scanner does not accept.
Read(s) ==
  /\ reader[s] = "read"
  /\ \/ /\ pipeOpen /\ pipe[s] # <<>> /\ Head(pipe[s]) \notin program.long
        /\ held' = [held EXCEPT ![s] = Head(pipe[s])]
        /\ pipe' = [pipe EXCEPT ![s] = Tail(@)]
        /\ reader' = [reader EXCEPT ![s] = "send"]
     \/ /\ \/ ~pipeOpen
           \/ pipe[s] = <<>> /\ child \in {"exited", "killed"}
           \/ pipe[s] # <<>> /\ Head(pipe[s]) \in program.long
        /\ reader' = [reader EXCEPT ![s] = "done"]
        /\ UNCHANGED <<held, pipe>>
  /\ UNCHANGED <<executorVars, process, pipeOpen, waiter, waitErr, status>>

\* What Send and Finish leave alone.
SendUnchanged ==
  UNCHANGED <<ctx, closed, run, handled, result, process, pipe, pipeOpen, held,
              waiter, waitErr, status>>
FinishUnchanged ==
  UNCHANGED <<ctx, logs, run, handled, result, process, pipe, pipeOpen, reader, held,
              waitErr>>

Chunk(s) == [stream |-> s, line |-> held[s]]

SendFirstMutant(s) ==
  /\ reader[s] = "send" /\ Len(logs) < LogCap
  /\ logs' = <<Chunk(s)>> \o logs
  /\ reader' = [reader EXCEPT ![s] = "read"]
  /\ SendUnchanged

SendOrDropMutant(s) ==
  /\ reader[s] = "send"
  /\ logs' = IF Len(logs) < LogCap THEN Append(logs, Chunk(s)) ELSE logs
  /\ reader' = [reader EXCEPT ![s] = "read"]
  /\ SendUnchanged

\* The select between the log channel and the context.
Send(s) ==
  /\ reader[s] = "send"
  /\ \/ /\ Len(logs) < LogCap
        /\ logs' = Append(logs, Chunk(s))
        /\ reader' = [reader EXCEPT ![s] = "read"]
     \/ /\ ctx # "live"
        /\ reader' = [reader EXCEPT ![s] = "done"]
        /\ UNCHANGED logs
  /\ SendUnchanged

\* The exit code finish makes of the error of cmd.Wait.
WaitCode ==
  CASE waitErr.ctx = "live" -> waitErr.code
    [] waitErr.ctx = "deadline" -> 124
    [] waitErr.ctx = "canceled" -> 1

FinishUnjoinedMutant ==
  /\ waiter = "join" /\ waiter' = "done"
  /\ status' = {WaitCode} /\ closed' = TRUE
  /\ FinishUnchanged

FinishCodelessMutant ==
  /\ waiter = "join" /\ \A s \in Streams : reader[s] = "done"
  /\ waiter' = "done"
  /\ closed' = TRUE /\ UNCHANGED status
  /\ FinishUnchanged

\* finish, once both readers are done: the exit code, and the end of the channel.
Finish ==
  /\ waiter = "join" /\ \A s \in Streams : reader[s] = "done"
  /\ waiter' = "done"
  /\ status' = {WaitCode} /\ closed' = TRUE
  /\ FinishUnchanged

-----------------------------------------------------------------------------
(* Run and its backend *)

\* The context has ended: CancelExec kills the process once more.
Interrupt ==
  /\ StopWaiting
  /\ KillChild
  /\ UNCHANGED <<program, written, session>>

\* ExecStatus is the snapshot of the session.
GetStatus == Return(status) /\ UNCHANGED <<process, session>>

EndOfContext == EndContext /\ UNCHANGED <<process, session>>
TakeChunk == Receive /\ UNCHANGED <<process, session>>
EndOfLogs == SeeClosed /\ UNCHANGED <<process, session>>

\* Nothing is left to do.
Over ==
  /\ run = "returned" /\ waiter \in {"off", "done"}
  /\ UNCHANGED vars

ProcessStep == ExitProcess \/ \E s \in Streams : Write(s)
SessionStep == KillOnContext \/ WaitProcess \/ Finish
RunStep == Exec \/ TakeChunk \/ EndOfLogs \/ Interrupt \/ GetStatus

Next ==
  \/ ProcessStep \/ SessionStep \/ RunStep \/ EndOfContext
  \/ \E s \in Streams : Read(s) \/ Send(s)
  \/ Over

Spec == Init /\ [][Next]_vars

\* The Go scheduler runs every goroutine, and the process runs; nothing makes
\* the context end.
FairSpec ==
  /\ Spec
  /\ WF_vars(ProcessStep) /\ WF_vars(RunStep)
  /\ WF_vars(KillOnContext) /\ WF_vars(WaitProcess) /\ WF_vars(Finish)
  /\ \A s \in Streams : WF_vars(Read(s)) /\ WF_vars(Send(s))

-----------------------------------------------------------------------------
(* Properties *)

\* Every variable has the type of what it stands for, and no queue is overfull.
TypeOK ==
  /\ ExecutorTypeOK
  /\ program \in Programs
  /\ child \in {"new", "running", "killed", "exited"}
  /\ written \in [Streams -> Nat]
  /\ pipe \in [Streams -> Seq(Nat)] /\ \A s \in Streams : Len(pipe[s]) <= PipeCap
  /\ pipeOpen \in BOOLEAN
  /\ reader \in [Streams -> {"off", "read", "send", "done"}]
  /\ held \in [Streams -> Nat]
  /\ waiter \in {"off", "wait", "join", "done"}
  /\ waitErr \in [ctx : {"live"} \cup CtxEnds, code : Int]
  /\ status \subseteq Int /\ Cardinality(status) <= 1

\* The channel is closed once, and only when no goroutine can send to it any
\* more: a send on a closed channel would panic.
NoSendAfterClose ==
  closed => waiter = "done" /\ \A s \in Streams : reader[s] = "done"

\* The lines of stream s that are between the program and the handler.
InFlight(s) ==
  Cardinality({i \in DOMAIN logs : logs[i].stream = s})
    + (IF reader[s] = "send" THEN 1 ELSE 0) + Len(pipe[s])

\* As long as nobody gives up, a line is lost only by lying in a pipe when
\* cmd.Wait closes it; nothing is dropped or doubled on the way to the handler.
Accounted ==
  ctx = "live" => \A s \in Streams : Len(handled[s]) + InFlight(s) = written[s]

\* Without an end of its context, Run reports the exit code of the program, and
\* has handed on every chunk before.
ExitCodeKept ==
  run = "returned" /\ ctx = "live" /\ result.err = "none" =>
    child = "exited" /\ result.exit = program.exit /\ logs = <<>>

\* Run ends when the program does: neither the pipes nor the log channel can
\* block it.  (A line beyond the scanner's buffer can: its reader stops, and the
\* program waits forever for room in the pipe.)
\* Once the context has ended, Run returns whatever the program does, and the
\* process and all goroutines are gone.
RunEnds ==
  /\ (~program.hangs /\ program.long = {}) ~> (run = "returned")
  /\ (ctx # "live") ~> (run = "returned" /\ waiter \in {"off", "done"}
                          /\ child # "running")

\* What Run and its backend do for the engine.
Contract == INSTANCE ExecContract WITH
  ended <- CASE child = "exited" /\ program.exit = 0 -> "ok"
             [] child \in {"new", "running"} -> "running"
             [] OTHER -> "bad",
  givenUp <- ctx = "canceled",
  returned <- IF run # "returned" THEN "nothing"
              ELSE IF Success THEN "success" ELSE "failure"

\* Lines in order and without repetition, and no success the program did not
\* have, unless the context was cancelled.
ImplementsContract == Contract!Spec

\* devcontainer_backend_test.go:134 expects both lines a finished command has
\* written: a successful run has handed on all of its output.
OutputComplete ==
  Success => \A s \in Streams : Len(handled[s]) = program.lines[s]

\* docs/backends-and-platforms.md:40: devcontainer exec uses the runner's normal
\* timeout chain, which ends every command that does not end by itself.
EveryCommandEnds == <>(run = "returned")
=============================================================================
