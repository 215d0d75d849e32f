---------------------------- MODULE OpenSandboxExec ----------------------------
(***************************************************************************)
(* A command of the OpenSandbox backend                                    *)
(* (src/internal/backend/opensandbox_backend.go), together with            *)
(* BackendExecutor.Run.                                                    *)
(*                                                                         *)
(* Exec posts the command to execd and gets a stream of server-sent events *)
(* back.  A goroutine (consumeExecStream) turns the events into log        *)
(* chunks; Exec itself waits for the ID of the command, which execd is     *)
(* taken to send before any output.  The exit code reaches the runner by   *)
(* two ways: in the "error" event of a failing command, if the value there *)
(* is a number, and in the answer to a status request.  One timeout of the *)
(* HTTP client covers the whole stream, so it may be cut at any moment,    *)
(* and the command be left running behind it.                              *)
(***************************************************************************)
EXTENDS BackendExecutor

CONSTANTS
  Programs,  \* the commands execd may run
  NetCap     \* events the connection holds

\* numeric: if the command fails, the value of its error event is its exit code,
\* and not some text.
ProgramType ==
  [lines : [Streams -> Nat], exit : Int, hangs : BOOLEAN, numeric : BOOLEAN]

ASSUME StreamAssumption ==
  /\ Programs \subseteq ProgramType
  /\ NetCap \in Nat \ {0}

\* The exit code of a command that was interrupted, SIGINT in a shell.
Interrupted == 130

VARIABLES
  program,   \* what this command does
  command,   \* "none", "running", "failing", "exited" or "interrupted"
  written,   \* lines written so far, per stream; the error message is one
  net,       \* events on their way to the runner
  netState,  \* "open", "ended" after the command, or "cut"
  call,      \* Exec: "new", "init" while it waits for the ID, or "done"
  consumer,  \* consumeExecStream: "off", "read", "send" or "done"
  held,      \* the chunk it is about to send
  signal,    \* what it has put into initCh or errCh: "none", "init" or "error"
  code,      \* the exit code of the session: {} or one code
  answer     \* the status request: "none", "failed", "running" or "final"

execd == <<program, command, written>>
connection == <<net, netState>>
session == <<call, consumer, held, signal, code, answer>>
vars == <<executorVars, execd, connection, session>>

Event(kind, s, line) == [kind |-> kind, stream |-> s, line |-> line]

Init ==
  /\ ExecutorInit
  /\ program \in Programs
  /\ command = "none"
  /\ written = [s \in Streams |-> 0]
  /\ net = <<>> /\ netState = "open"
  /\ call = "new" /\ consumer = "off" /\ signal = "none"
  /\ held = [stream |-> "stdout", line |-> 0]
  /\ code = {} /\ answer = "none"

-----------------------------------------------------------------------------
(* execd and the connection *)

\* execd waits for room on an open connection; on a cut one an event is lost.
Transmit(event) ==
  IF netState = "open" THEN Len(net) < NetCap /\ net' = Append(net, event)
  ELSE net' = net

WriteLine(s) ==
  /\ command = "running" /\ written[s] < program.lines[s]
  /\ written' = [written EXCEPT ![s] = @ + 1]
  /\ Transmit(Event("line", s, written'[s]))
  /\ UNCHANGED <<executorVars, program, command, netState, session>>

\* A failing command is announced by an error event, whose text counts as one
\* more line of stderr.
Fail ==
  /\ command = "running" /\ ~program.hangs /\ written = program.lines
  /\ program.exit # 0
  /\ command' = "failing"
  /\ written' = [written EXCEPT !["stderr"] = @ + 1]
  /\ Transmit(Event("error", "stderr", written'["stderr"]))
  /\ UNCHANGED <<executorVars, program, netState, session>>

ExitCommand ==
  /\ \/ command = "failing"
     \/ /\ command = "running" /\ ~program.hangs /\ written = program.lines
        /\ program.exit = 0
  /\ command' = "exited"
  /\ netState' = IF netState = "open" THEN "ended" ELSE netState
  /\ UNCHANGED <<executorVars, program, written, net, session>>

\* execd may end a command whose connection is gone; nothing says it does.
Abandon ==
  /\ command = "running" /\ netState = "cut"
  /\ command' = "interrupted"
  /\ UNCHANGED <<executorVars, program, written, connection, session>>

\* The connection breaks, or the timeout of the HTTP client or the end of the
\* context breaks it: the events not read yet are lost from some point on.
Cut ==
  /\ netState' = "cut"
  /\ \E n \in 0 .. Len(net) : net' = SubSeq(net, 1, n)

CutStream ==
  /\ call # "new"
  /\ netState = "open" \/ (netState = "ended" /\ net # <<>>)
  /\ Cut
  /\ UNCHANGED <<executorVars, execd, session>>

-----------------------------------------------------------------------------
(* Exec *)

\* RunCommandStream: the stream is there and its consumer started, or the
\* request has failed, maybe after it reached execd.
Request ==
  /\ call = "new" /\ run = "exec"
  /\ \/ /\ ctx = "live"
        /\ command' = "running"
        /\ net' = <<Event("init", "stdout", 0)>>
        /\ call' = "init" /\ consumer' = "read"
        /\ UNCHANGED <<executorVars, netState>>
     \/ /\ command' \in {"none", "running"}
        /\ netState' = "cut"
        /\ call' = "done"
        /\ StartFailed("error")
        /\ UNCHANGED <<net, consumer>>
  /\ UNCHANGED <<program, written, held, signal, code, answer>>

\* The three cases of the select in Exec.
ReceiveInit ==
  /\ call = "init" /\ signal = "init"
  /\ call' = "done"
  /\ Started
  /\ UNCHANGED <<execd, connection, consumer, held, signal, code, answer>>

ReceiveError ==
  /\ call = "init" /\ signal = "error"
  /\ call' = "done"
  /\ StartFailed("error")
  /\ UNCHANGED <<execd, connection, consumer, held, signal, code, answer>>

\* The stream is closed; the command, whose ID never arrived, is left alone.
\* This is the one failure that keeps the context's own error.
GiveUpExec ==
  /\ call = "init" /\ ctx # "live"
  /\ call' = "done"
  /\ StartFailed(IF ctx = "deadline" THEN "deadline" ELSE "error")
  /\ Cut
  /\ UNCHANGED <<execd, consumer, held, signal, code, answer>>

-----------------------------------------------------------------------------
(* consumeExecStream *)

\* What is left alone by the consumer's steps.
ConsumerUnchanged == UNCHANGED <<ctx, run, handled, result, execd, netState, call, answer>>

\* The value of an error event is the exit code if strconv.Atoi takes it; any
\* other leaves the session without one.
CodeAfter(event) ==
  IF event.kind = "error" /\ program.numeric THEN {program.exit} ELSE code

ConsumeUnbufferedMutant ==
  /\ consumer = "read" /\ net # <<>>
  /\ net' = Tail(net)
  /\ LET event == Head(net)
     IN  /\ IF event.kind = "init"
            THEN call = "init" /\ signal' = "init" /\ UNCHANGED <<consumer, held>>
            ELSE /\ held' = [stream |-> event.stream, line |-> event.line]
                 /\ consumer' = "send"
                 /\ UNCHANGED signal
         /\ code' = CodeAfter(event)
  /\ UNCHANGED <<logs, closed>>
  /\ ConsumerUnchanged

\* One event.  Neither initCh nor errCh can block it, whoever is listening: each
\* has room for the only value it ever gets.
Consume ==
  /\ consumer = "read" /\ net # <<>>
  /\ net' = Tail(net)
  /\ LET event == Head(net)
     IN  /\ IF event.kind = "init"
            THEN signal' = "init" /\ UNCHANGED <<consumer, held>>
            ELSE /\ held' = [stream |-> event.stream, line |-> event.line]
                 /\ consumer' = "send"
                 /\ UNCHANGED signal
         /\ code' = CodeAfter(event)
  /\ UNCHANGED <<logs, closed>>
  /\ ConsumerUnchanged

\* session.finish.
Finish == consumer' = "done" /\ closed' = TRUE

\* What Send leaves alone.
SendUnchanged == UNCHANGED <<net, held, signal, code>> /\ ConsumerUnchanged

SendOrDropMutant ==
  /\ consumer = "send" /\ consumer' = "read"
  /\ logs' = IF Len(logs) < LogCap THEN Append(logs, held) ELSE logs
  /\ UNCHANGED closed /\ SendUnchanged

SendFirstMutant ==
  /\ consumer = "send" /\ consumer' = "read"
  /\ Len(logs) < LogCap /\ logs' = <<held>> \o logs
  /\ UNCHANGED closed /\ SendUnchanged

\* The select of emit: room in the log channel, or the end of the context.
Send ==
  /\ consumer = "send"
  /\ \/ /\ Len(logs) < LogCap
        /\ logs' = Append(logs, held)
        /\ consumer' = "read"
        /\ UNCHANGED closed
     \/ ctx # "live" /\ Finish /\ UNCHANGED logs
  /\ SendUnchanged

\* The end of the scan, with or without an error: only a stream without its
\* first event is one for Exec.
EndOfStream ==
  /\ consumer = "read" /\ net = <<>> /\ netState \in {"ended", "cut"}
  /\ Finish
  /\ signal' = IF signal = "none" THEN "error" ELSE signal
  /\ UNCHANGED <<logs, net, held, code>>
  /\ ConsumerUnchanged

-----------------------------------------------------------------------------
(* Run and its backend *)

\* InterruptCommand may fail, and its error is dropped.
Interrupt ==
  /\ StopWaiting
  /\ command' \in {command} \cup
                  (IF command \in {"running", "failing"} THEN {"interrupted"} ELSE {})
  /\ UNCHANGED <<program, written, connection, session>>

FinalCode == IF command = "interrupted" THEN Interrupted ELSE program.exit

StatusRemoteMutant(reply) == IF reply = "final" THEN {FinalCode} ELSE {}

\* The exit code of ExecStatus: execd's if the command is over, otherwise, and
\* when the request fails, that of the session.
StatusCode(reply) == IF reply = "final" THEN {FinalCode} ELSE code

GetStatus ==
  /\ \E reply \in {"failed", IF command \in {"running", "failing"} THEN "running"
                                                                  ELSE "final"} :
       /\ Return(StatusCode(reply))
       /\ answer' = reply
  /\ UNCHANGED <<execd, connection, call, consumer, held, signal, code>>

EndOfContext == EndContext /\ UNCHANGED <<execd, connection, session>>
TakeChunk == Receive /\ UNCHANGED <<execd, connection, session>>
EndOfLogs == SeeClosed /\ UNCHANGED <<execd, connection, session>>

\* The runner is done; a command may still be running.
Over ==
  /\ run = "returned" /\ consumer \in {"off", "done"}
  /\ UNCHANGED vars

CommandStep == Fail \/ ExitCommand \/ \E s \in Streams : WriteLine(s)
ConsumerStep == Consume \/ Send \/ EndOfStream
ExecStep == Request \/ ReceiveInit \/ ReceiveError \/ GiveUpExec
RunStep == TakeChunk \/ EndOfLogs \/ Interrupt \/ GetStatus

Next ==
  \/ CommandStep \/ Abandon \/ CutStream
  \/ ExecStep \/ ConsumerStep \/ RunStep \/ EndOfContext
  \/ Over

Spec == Init /\ [][Next]_vars

\* Goroutines run.  The timeout of the HTTP client, never less than 30 s, cuts
\* every stream that is not finished in time; execd is promised nothing.
FairSpec ==
  /\ Spec
  /\ WF_vars(ExecStep) /\ WF_vars(ConsumerStep) /\ WF_vars(RunStep)
  /\ WF_vars(CutStream)

-----------------------------------------------------------------------------
(* Properties *)

\* Every variable has the type of what it stands for, and no queue is overfull.
TypeOK ==
  /\ ExecutorTypeOK
  /\ program \in Programs
  /\ command \in {"none", "running", "failing", "exited", "interrupted"}
  /\ written \in [Streams -> Nat]
  /\ net \in Seq([kind : {"init", "line", "error"}, stream : Streams, line : Nat])
  /\ Len(net) <= NetCap
  /\ netState \in {"open", "ended", "cut"}
  /\ call \in {"new", "init", "done"}
  /\ consumer \in {"off", "read", "send", "done"}
  /\ held \in [stream : Streams, line : Nat]
  /\ signal \in {"none", "init", "error"}
  /\ code \subseteq Int /\ Cardinality(code) <= 1
  /\ answer \in {"none", "failed", "running", "final"}

\* Nothing that reached the runner says how the command has failed: the value of
\* its error event was no number, and the status request got no answer.
CodeUnknown == program.exit # 0 /\ ~program.numeric /\ answer = "failed"

\* A stream that was read to its end makes a complete and true result: every line
\* in order, and the exit code even if the status request fails afterwards;
\* except that a code nobody knows is taken for 0.
StreamedResult ==
  run = "returned" /\ result.err = "none" /\ ctx = "live" /\ netState # "cut" =>
    /\ command = "exited"
    /\ result.exit = IF CodeUnknown THEN 0 ELSE program.exit
    /\ \A s \in Streams : handled[s] = [i \in 1 .. written[s] |-> i]

\* The exit code of a failure, once the session has it, is not lost: the command
\* is reported as failed wherever the stream breaks afterwards, also when the
\* status request fails, or says that the command still runs.
FailureSurvives ==
  run = "returned" /\ result.err = "none" /\ ctx = "live" /\ code # {} =>
    result.exit # 0

\* Run returns, whatever the command, execd and the connection do, and no
\* goroutine is left behind, also when Exec has given up and nobody listens to
\* the channels of the consumer any more.
RunEnds == <>(run = "returned") /\ <>[](consumer \in {"off", "done"})

Contract == INSTANCE ExecContract WITH
  ended <- CASE command \in {"none", "running", "failing"} -> "running"
             [] command = "exited" /\ program.exit = 0 -> "ok"
             [] OTHER -> "bad",
  givenUp <- ctx = "canceled" \/ netState = "cut" \/ CodeUnknown,
  returned <- IF run # "returned" THEN "nothing"
              ELSE IF Success THEN "success" ELSE "failure"

\* Lines in order and without repetition, and no success the command did not
\* have, unless the context was cancelled, the stream cut, or the exit code
\* reached the runner by neither way.
ImplementsContract == Contract!Spec

\* docs/architecture.md:15 has one contract for all backends: a success is that
\* of a command which has ended, as long as the caller has not given it up.
NoFalseSuccess == Success /\ ctx = "live" => command = "exited"
=============================================================================
