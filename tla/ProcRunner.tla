------------------------------ MODULE ProcRunner ------------------------------
(***************************************************************************)
(* A command of the direct backend: Runner.Run                             *)
(* (src/internal/proc/runner.go), which DirectExecutor passes through.     *)
(*                                                                         *)
(* The command is a child process.  One goroutine per stream scans its     *)
(* pipe and hands the lines to the log handler; Run waits for both, then   *)
(* for the process.  Its context, which has the deadline of the request,   *)
(* kills the process, but neither a child of it that has inherited the     *)
(* pipes nor a scan of these pipes.                                        *)
(***************************************************************************)
EXTENDS Integers, Sequences, FiniteSets

CONSTANTS
  Programs,  \* what the child process may do
  PipeCap,   \* lines a pipe holds
  CtxEnds    \* the ways in which the context of Run may end

Streams == {"stdout", "stderr"}

\* A program writes so many lines to each stream, some of which (long) exceed
\* the scanner's buffer; then it exits, or hangs.  A daemon it has left behind
\* keeps both pipes open.
ProgramType ==
  [lines : [Streams -> Nat], long : SUBSET Nat, exit : Int, hangs : BOOLEAN,
   daemon : BOOLEAN]

ASSUME RunnerAssumption ==
  /\ Programs \subseteq ProgramType
  /\ PipeCap \in Nat \ {0}
  /\ CtxEnds \subseteq {"deadline", "canceled"}

\* The exit code os/exec reports of a process that was killed.
Killed == -1

VARIABLES
  ctx,      \* runCtx: "live", or how it ended
  program,  \* what this child process does
  child,    \* "new", "running", "killed" or "exited"
  daemon,   \* somebody else holds the pipes open
  written,  \* lines written so far, per stream
  pipe,     \* lines in the pipe, per stream
  reader,   \* the goroutine of each stream: "off", "read" or "done"
  run,      \* where Run stands: "start", "join", "wait" or "returned"
  handled,  \* the lines given to the log handler, per stream
  result    \* the result and error of Run

process == <<program, child, daemon, written>>
vars == <<ctx, process, pipe, reader, run, handled, result>>

Blank == [exit |-> 0, timedOut |-> FALSE, err |-> "none"]

Init ==
  /\ ctx = "live"
  /\ program \in Programs
  /\ child = "new" /\ daemon = FALSE
  /\ written = [s \in Streams |-> 0]
  /\ pipe = [s \in Streams |-> <<>>]
  /\ reader = [s \in Streams |-> "off"]
  /\ run = "start"
  /\ handled = [s \in Streams |-> <<>>]
  /\ result = Blank

-----------------------------------------------------------------------------
(* The process and its context *)

EndContext ==
  /\ ctx = "live" /\ ctx' \in CtxEnds
  /\ UNCHANGED <<process, pipe, reader, run, handled, result>>

Write(s) ==
  /\ child = "running"
  /\ written[s] < program.lines[s] /\ Len(pipe[s]) < PipeCap
  /\ written' = [written EXCEPT ![s] = @ + 1]
  /\ pipe' = [pipe EXCEPT ![s] = Append(@, written[s] + 1)]
  /\ UNCHANGED <<ctx, program, child, daemon, reader, run, handled, result>>

\* It cannot exit while a write blocks on a full pipe.
ExitProcess ==
  /\ child = "running" /\ ~program.hangs /\ written = program.lines
  /\ child' = "exited"
  /\ UNCHANGED <<ctx, program, daemon, written, pipe, reader, run, handled, result>>

\* The daemon ends some day, or never.
ExitDaemon ==
  /\ daemon /\ daemon' = FALSE
  /\ UNCHANGED <<ctx, program, child, written, pipe, reader, run, handled, result>>

\* The goroutine exec.CommandContext has started; the daemon is not its process.
KillOnContext ==
  /\ ctx # "live" /\ child = "running" /\ child' = "killed"
  /\ UNCHANGED <<ctx, program, daemon, written, pipe, reader, run, handled, result>>

-----------------------------------------------------------------------------
(* Run *)

\* The process and both goroutines are started, or there is an error: no such
\* command, no pipe, or that of a context that has ended.
Start ==
  /\ run = "start"
  /\ \/ /\ ctx = "live"
        /\ child' = "running" /\ daemon' = program.daemon
        /\ reader' = [s \in Streams |-> "read"]
        /\ run' = "join"
        /\ UNCHANGED result
     \/ /\ run' = "returned"
        /\ \E err \in {"error"} \cup ({ctx} \cap {"deadline"}) :
             result' = [Blank EXCEPT !.err = err]
        /\ UNCHANGED <<child, daemon, reader>>
  /\ UNCHANGED <<ctx, program, written, pipe, handled>>

\* A pipe ends when it is empty and nobody can write to it any more.
Ended(s) == pipe[s] = <<>> /\ child \in {"exited", "killed"} /\ ~daemon

\* What Read leaves alone.
ReadUnchanged == UNCHANGED <<ctx, process, run, result>>

ReadOnceMutant(s) ==
  /\ reader[s] = "read" /\ reader' = [reader EXCEPT ![s] = "done"]
  /\ \/ /\ pipe[s] # <<>> /\ pipe' = [pipe EXCEPT ![s] = Tail(@)]
        /\ handled' = [handled EXCEPT ![s] = Append(@, Head(pipe[s]))]
     \/ Ended(s) /\ UNCHANGED <<pipe, handled>>
  /\ ReadUnchanged

\* streamPipe.  It looks at its context only after a line, and drops that line;
\* a line beyond its buffer ends it, and nobody drains the pipe from then on.
Read(s) ==
  /\ reader[s] = "read"
  /\ \/ /\ pipe[s] # <<>> /\ Head(pipe[s]) \notin program.long
        /\ pipe' = [pipe EXCEPT ![s] = Tail(@)]
        /\ IF ctx = "live"
           THEN /\ handled' = [handled EXCEPT ![s] = Append(@, Head(pipe[s]))]
                /\ UNCHANGED reader
           ELSE /\ reader' = [reader EXCEPT ![s] = "done"]
                /\ UNCHANGED handled
     \/ /\ Ended(s) \/ (pipe[s] # <<>> /\ Head(pipe[s]) \in program.long)
        /\ reader' = [reader EXCEPT ![s] = "done"]
        /\ UNCHANGED <<pipe, handled>>
  /\ ReadUnchanged

JoinOneMutant ==
  /\ run = "join" /\ run' = "wait"
  /\ reader["stdout"] = "done"
  /\ UNCHANGED <<ctx, process, pipe, reader, handled, result>>

\* wg.Wait: both readers are done.
Join ==
  /\ run = "join" /\ run' = "wait"
  /\ \A s \in Streams : reader[s] = "done"
  /\ UNCHANGED <<ctx, process, pipe, reader, handled, result>>

\* The exit code cmd.Wait reports.
WaitCode == IF child = "killed" THEN Killed ELSE program.exit

OutcomesKilledMutant ==
  {[Blank EXCEPT !.exit = IF child = "killed" THEN 0 ELSE program.exit]}

\* The results Run may make of it.  A deadline that is over by now counts as a
\* timeout, also if the process has ended in time; a process that has exited
\* with 0 but was sent the signal of a cancelled context counts as an error.
Outcomes ==
  IF ctx = "deadline" THEN {[exit |-> -1, timedOut |-> TRUE, err |-> "deadline"]}
  ELSE {[Blank EXCEPT !.exit = WaitCode]}
       \cup (IF ctx = "canceled" /\ WaitCode = 0 THEN {[Blank EXCEPT !.err = "error"]}
                                                ELSE {})

\* cmd.Wait, and the end of Run.
Return ==
  /\ run = "wait" /\ child \in {"exited", "killed"}
  /\ run' = "returned"
  /\ result' \in Outcomes
  /\ UNCHANGED <<ctx, process, pipe, reader, handled>>

\* Nothing is left to do; a daemon may go on.
Over == run = "returned" /\ UNCHANGED vars

ProcessStep == ExitProcess \/ \E s \in Streams : Write(s)
RunStep == Start \/ Join \/ Return

Next ==
  \/ ProcessStep \/ ExitDaemon \/ KillOnContext \/ EndContext
  \/ RunStep \/ \E s \in Streams : Read(s)
  \/ Over

Spec == Init /\ [][Next]_vars

\* The Go scheduler runs every goroutine, and the process runs; neither the end
\* of the context nor that of the daemon is promised.
FairSpec ==
  /\ Spec
  /\ WF_vars(ProcessStep) /\ WF_vars(KillOnContext) /\ WF_vars(RunStep)
  /\ \A s \in Streams : WF_vars(Read(s))

-----------------------------------------------------------------------------
(* Properties *)

\* Every variable has the type of what it stands for, and no pipe is overfull.
TypeOK ==
  /\ ctx \in {"live"} \cup CtxEnds
  /\ program \in Programs
  /\ child \in {"new", "running", "killed", "exited"}
  /\ daemon \in BOOLEAN
  /\ written \in [Streams -> Nat]
  /\ pipe \in [Streams -> Seq(Nat)] /\ \A s \in Streams : Len(pipe[s]) <= PipeCap
  /\ reader \in [Streams -> {"off", "read", "done"}]
  /\ run \in {"start", "join", "wait", "returned"}
  /\ handled \in [Streams -> Seq(Nat)]
  /\ result \in [exit : Int, timedOut : BOOLEAN, err : {"none", "deadline", "error"}]

\* A command that ends before its context does is reported with its exit code,
\* and with all of its output unless a line was too long.
CompleteResult ==
  run = "returned" /\ result.err = "none" /\ ctx = "live" =>
    /\ result.exit = program.exit
    /\ program.long = {} =>
         \A s \in Streams : handled[s] = [i \in 1 .. program.lines[s] |-> i]

\* Once Run has returned its goroutines are gone: the handler, whose files are
\* closed soon after, is not called any more.
NoLateLine == run = "returned" => \A s \in Streams : reader[s] \in {"off", "done"}

\* Run ends when the program does, unless a reader stopped at a long line or a
\* daemon holds the pipes; and once the deadline is over or the run cancelled it
\* ends whatever the program does, except that it waits for such a daemon.
RunEnds ==
  /\ (~program.hangs /\ program.long = {} /\ ~program.daemon) ~> (run = "returned")
  /\ (ctx # "live" /\ ~program.daemon) ~> (run = "returned")

Success == run = "returned" /\ result.err = "none" /\ result.exit = 0

\* What Run does for the engine.
Contract == INSTANCE ExecContract WITH
  ended <- CASE child = "exited" /\ program.exit = 0 -> "ok"
             [] child \in {"new", "running"} -> "running"
             [] OTHER -> "bad",
  givenUp <- FALSE,
  returned <- IF run # "returned" THEN "nothing"
              ELSE IF Success THEN "success" ELSE "failure"

\* Lines in order and without repetition, and no success the program did not
\* have: here not even after the context was cancelled.
ImplementsContract == Contract!Spec
=============================================================================
