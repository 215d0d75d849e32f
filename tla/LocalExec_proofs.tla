--------------------------- MODULE LocalExec_proofs ---------------------------
(***************************************************************************)
(* Theorems about LocalExec, for every set of programs and every capacity  *)
(* of the pipes and of the log channel: the channel is closed once nobody  *)
(* sends to it, the exit code is kept, every line is accounted for, and    *)
(* the session with its consumer keeps the contract of an executor; and    *)
(* every variable keeps its type.                                          *)
(***************************************************************************)
EXTENDS LocalExec, BackendExecutor_proofs

\* NoSendAfterClose, made inductive: the channel is closed by the waiter, which
\* waits for the readers, and Exec starts each of these goroutines once.
JoinInv ==
  /\ reader \in [Streams -> {"off", "read", "send", "done"}]
  /\ run = "exec" => waiter = "off"
  /\ closed => waiter = "done"
  /\ waiter = "done" => \A s \in Streams : reader[s] = "done"

\* No step closes the channel early or revives a reader.
LEMMA JoinStep == JoinInv /\ [Next]_vars => JoinInv'
<1> SUFFICES ASSUME JoinInv, [Next]_vars PROVE JoinInv'
  OBVIOUS
<1> USE DEF executorVars, process, session, vars
<1>1. CASE ProcessStep
  BY <1>1 DEF ProcessStep, ExitProcess, Write, JoinInv
<1>2. CASE SessionStep
  BY <1>2 DEF SessionStep, KillOnContext, WaitProcess, Finish, FinishUnchanged, JoinInv
<1>3. CASE Exec
  BY <1>3 DEF Exec, Started, StartFailed, JoinInv
<1>4. CASE TakeChunk \/ EndOfLogs \/ Interrupt \/ GetStatus \/ EndOfContext
  BY <1>4 DEF TakeChunk, Receive, EndOfLogs, SeeClosed, Interrupt, StopWaiting, GetStatus,
     Return, EndOfContext, EndContext, JoinInv
<1>5. ASSUME NEW s \in Streams, Read(s)
      PROVE  JoinInv'
  BY <1>5 DEF Read, JoinInv
<1>6. ASSUME NEW s \in Streams, Send(s)
      PROVE  JoinInv'
  BY <1>6 DEF Send, SendUnchanged, JoinInv
<1>7. CASE UNCHANGED vars
  BY <1>7 DEF JoinInv
<1>8. QED
  BY <1>1, <1>2, <1>3, <1>4, <1>5, <1>6, <1>7 DEF Next, RunStep, Over

\* The log channel is closed only when no goroutine can send to it any more, so
\* that no interleaving of readers, waiter and consumer panics.
THEOREM ClosedMeansJoined == Spec => []NoSendAfterClose
<1>1. Init => JoinInv
  BY DEF Init, ExecutorInit, JoinInv
<1>2. JoinInv => NoSendAfterClose
  BY DEF JoinInv, NoSendAfterClose
<1>3. QED
  BY <1>1, <1>2, JoinStep, PTL DEF Spec

\* ExitCodeKept, made inductive: while the context lives nothing kills the
\* process, the waiter hands its exit code to the session, and the executor
\* leaves its loop only on an empty, closed channel.
ExitInv ==
  /\ ctx = "live" => child # "killed"
  /\ ctx = "live" /\ waiter \in {"join", "done"} =>
       child = "exited" /\ waitErr = [ctx |-> "live", code |-> program.exit]
  /\ ctx = "live" /\ waiter = "done" => status = {program.exit}
  /\ ctx = "live" /\ run = "status" => closed /\ logs = <<>>
  /\ ctx = "live" /\ run = "returned" /\ result.err = "none" =>
       closed /\ logs = <<>> /\ result.exit = program.exit

\* A reader sends before it is done, and a closed channel has no such reader.
LEMMA SendOpen ==
  ASSUME JoinInv, NEW s \in Streams, Send(s)
  PROVE  ~closed
BY DEF JoinInv, Send

\* Every step keeps the exit code on its way from the process to the result.
LEMMA ExitStep == JoinInv /\ ExitInv /\ [Next]_vars => ExitInv'
<1> SUFFICES ASSUME JoinInv, ExitInv, [Next]_vars PROVE ExitInv'
  OBVIOUS
<1> USE DEF executorVars, process, session, vars
<1>1. CASE ProcessStep
  BY <1>1 DEF ProcessStep, ExitProcess, Write, ExitInv
<1>2. CASE KillOnContext
  BY <1>2 DEF KillOnContext, KillChild, ExitInv
<1>3. CASE WaitProcess
  <2>1. ctx = "live" => waitErr' = [ctx |-> "live", code |-> program.exit] /\ child = "exited"
    BY <1>3 DEF WaitProcess, ExitInv
  <2>2. QED
    BY <1>3, <2>1 DEF WaitProcess, ExitInv
<1>4. CASE Finish
  <2>1. ctx = "live" => WaitCode = program.exit
    BY <1>4 DEF Finish, ExitInv, WaitCode
  <2>2. QED
    BY <1>4, <2>1 DEF Finish, FinishUnchanged, ExitInv
<1>5. CASE Exec
  BY <1>5 DEF Exec, Started, StartFailed, Nothing, ExitInv, JoinInv
<1>6. CASE TakeChunk
  BY <1>6 DEF TakeChunk, Receive, ExitInv
<1>7. CASE EndOfLogs
  BY <1>7 DEF EndOfLogs, SeeClosed, ExitInv
<1>8. CASE Interrupt
  BY <1>8 DEF Interrupt, StopWaiting, ExitInv
<1>9. CASE GetStatus
  <2>1. ctx = "live" => status = {program.exit} /\ closed /\ logs = <<>>
    BY <1>9 DEF GetStatus, Return, ExitInv, JoinInv
  <2>2. ctx = "live" => ExitOf(status) = program.exit
    BY <2>1 DEF ExitOf
  <2>3. ctx = "live" => result'.exit = program.exit
    BY <1>9, <2>2 DEF GetStatus, Return
  <2>4. QED
    BY <1>9, <2>1, <2>3 DEF GetStatus, Return, ExitInv
<1>10. CASE EndOfContext
  <2>1. ctx' # "live"
    BY <1>10, ExecutorAssumption DEF EndOfContext, EndContext
  <2>2. QED
    BY <2>1 DEF ExitInv
<1>11. ASSUME NEW s \in Streams, Read(s)
       PROVE  ExitInv'
  BY <1>11 DEF Read, ExitInv
<1>12. ASSUME NEW s \in Streams, Send(s)
       PROVE  ExitInv'
  BY <1>12, SendOpen DEF Send, SendUnchanged, ExitInv
<1>13. CASE UNCHANGED vars
  BY <1>13 DEF ExitInv
<1>14. QED
  BY <1>1, <1>2, <1>3, <1>4, <1>5, <1>6, <1>7, <1>8, <1>9, <1>10, <1>11, <1>12, <1>13
     DEF Next, SessionStep, RunStep, Over

\* As long as its context lives, BackendExecutor.Run reports the exit code the
\* process ended with, after every chunk sent before; the default of 0 for a
\* status without a code is never taken.
THEOREM ExitCodeIsKept == Spec => []ExitCodeKept
<1>1. Init => JoinInv /\ ExitInv
  BY DEF Init, ExecutorInit, JoinInv, ExitInv
<1>2. JoinInv /\ ExitInv => ExitCodeKept
  BY DEF JoinInv, ExitInv, ExitCodeKept
<1>3. QED
  BY <1>1, <1>2, JoinStep, ExitStep, PTL DEF Spec

\* The first element of a queue that is not empty, and those behind it.
LEMMA HeadTail ==
  ASSUME NEW S, NEW q \in Seq(S), q # <<>>
  PROVE  /\ Len(q) \in Nat /\ Len(q) >= 1 /\ Head(q) = q[1] /\ q[1] \in S
         /\ Tail(q) \in Seq(S) /\ Len(Tail(q)) = Len(q) - 1
         /\ \A k \in 1 .. Len(q) - 1 : Tail(q)[k] = q[k + 1]
<1>1. /\ Head(q) \in S /\ Tail(q) \in Seq(S) /\ Len(Tail(q)) = Len(q) - 1
      /\ \A k \in 1 .. Len(Tail(q)) : Tail(q)[k] = q[k + 1]
  BY HeadTailProperties
<1>2. Len(q) \in Nat /\ Len(q) # 0 /\ Head(q) = q[1]
  OBVIOUS
<1>3. QED
  BY <1>1, <1>2

\* The lines of stream s that the reader has taken out of the pipe and no
\* longer holds.
Taken(s) == written[s] - Len(pipe[s]) - (IF reader[s] = "send" THEN 1 ELSE 0)

\* The pipe holds the last lines that were written, and its reader the one before.
PipeOf(s) ==
  /\ Len(pipe[s]) <= written[s]
  /\ \A i \in 1 .. Len(pipe[s]) : pipe[s][i] = written[s] - Len(pipe[s]) + i
  /\ reader[s] = "send" => held[s] = written[s] - Len(pipe[s]) /\ Len(pipe[s]) < written[s]

\* Both pipes and their readers, which Exec starts with the process.
PipeInv ==
  /\ reader \in [Streams -> {"off", "read", "send", "done"}]
  /\ run = "exec" => child = "new" /\ \A s \in Streams : reader[s] = "off"
  /\ written \in [Streams -> Nat]
  /\ held \in [Streams -> Nat]
  /\ pipe \in [Streams -> Seq(Nat)]
  /\ \A s \in Streams : PipeOf(s)

\* The log channel holds nothing but lines that were taken and not handed on,
LogFollows ==
  \A k \in 1 .. Len(logs) :
    Len(handled[logs[k].stream]) < logs[k].line /\ logs[k].line <= Taken(logs[k].stream)

\* the lines of a stream in the order of their numbers,
LogSorted ==
  \A j, k \in 1 .. Len(logs) :
    j < k /\ logs[j].stream = logs[k].stream => logs[j].line < logs[k].line

\* and none is missing before another one;
LogClosed ==
  \A k \in 1 .. Len(logs) : \A n \in Nat :
    Len(handled[logs[k].stream]) < n /\ n < logs[k].line =>
      \E j \in 1 .. Len(logs) : logs[j].stream = logs[k].stream /\ logs[j].line = n

\* only a reader that gives up for the end of the context drops the line it
\* holds, and it sends no other one.
LogFull ==
  \A s \in Streams : reader[s] # "done" \/ ctx = "live" =>
    \A n \in Nat : Len(handled[s]) < n /\ n <= Taken(s) =>
      \E j \in 1 .. Len(logs) : logs[j].stream = s /\ logs[j].line = n

\* What is between the process and the handler is in order.
OrderInv ==
  /\ PipeInv
  /\ ctx \in {"live"} \cup CtxEnds
  /\ logs \in Seq(ChunkType)
  /\ handled \in [Streams -> Seq(Nat)]
  /\ \A s \in Streams : Len(handled[s]) <= Taken(s)
  /\ \A s \in Streams : \A i \in 1 .. Len(handled[s]) : handled[s][i] = i
  /\ LogFollows /\ LogSorted /\ LogClosed /\ LogFull

\* The numbers in play are natural.
LEMMA TakenType ==
  ASSUME PipeInv, NEW s \in Streams
  PROVE  /\ Taken(s) \in Nat /\ written[s] \in Nat /\ Len(pipe[s]) \in Nat
         /\ Taken(s) <= written[s]
<1>1. pipe[s] \in Seq(Nat) /\ written[s] \in Nat /\ Len(pipe[s]) <= written[s]
  BY DEF PipeInv, PipeOf
<1>2. reader[s] = "send" => Len(pipe[s]) < written[s]
  BY DEF PipeInv, PipeOf
<1>3. QED
  BY <1>1, <1>2 DEF Taken

\* As long as no line is taken or moves, the log stays in order.
LEMMA SameLog ==
  ASSUME OrderInv, PipeInv', \A s \in Streams : Taken(s)' = Taken(s),
         UNCHANGED <<logs, handled>>, ctx' \in {"live"} \cup CtxEnds,
         ctx' = "live" => ctx = "live",
         \A s \in Streams : reader[s] = "done" => reader'[s] = "done" 
  PROVE  OrderInv'
<1>1. LogSorted' /\ LogClosed'
  <2>1. LogSorted /\ LogClosed
    BY DEF OrderInv
  <2>2. LogSorted'
    BY <2>1 DEF LogSorted
  <2>3. LogClosed'
    BY <2>1 DEF LogClosed
  <2>4. QED
    BY <2>2, <2>3
<1>2. LogFollows'
  <2>1. \A k \in 1 .. Len(logs) : logs[k].stream \in Streams
    <3>1. PICK q \in Seq(ChunkType) : q = logs
      BY DEF OrderInv
    <3>2. \A k \in 1 .. Len(q) : q[k] \in ChunkType
      OBVIOUS
    <3>3. QED
      BY <3>1, <3>2 DEF ChunkType
  <2>2. QED
    BY <2>1 DEF OrderInv, LogFollows
<1>3. QED
  BY <1>1, <1>2 DEF OrderInv, LogFull

\* A line that is written goes to the end of the pipe.
LEMMA WriteOrder ==
  ASSUME OrderInv, NEW s \in Streams, Write(s)
  PROVE  OrderInv'
<1>1. PICK q \in Seq(Nat), w \in Nat : q = pipe[s] /\ w = written[s]
  BY DEF OrderInv, PipeInv
<1>2. /\ Append(q, w + 1) \in Seq(Nat) /\ Len(q) \in Nat /\ Len(Append(q, w + 1)) = Len(q) + 1
      /\ \A i \in 1 .. Len(q) : Append(q, w + 1)[i] = q[i]
      /\ Append(q, w + 1)[Len(q) + 1] = w + 1
  BY AppendProperties
<1>3. /\ pipe' = [pipe EXCEPT ![s] = Append(q, w + 1)] /\ written' = [written EXCEPT ![s] = w + 1]
      /\ UNCHANGED <<ctx, run, logs, handled, reader, held>> /\ run # "exec"
  BY <1>1 DEF Write, executorVars, OrderInv, PipeInv
<1>4. /\ pipe' \in [Streams -> Seq(Nat)] /\ written' \in [Streams -> Nat]
      /\ pipe'[s] = Append(q, w + 1) /\ written'[s] = w + 1
      /\ \A t \in Streams : t # s => pipe'[t] = pipe[t] /\ written'[t] = written[t]
  BY <1>2, <1>3 DEF OrderInv, PipeInv
<1>5. PipeInv'
  <2>1. /\ Len(q) <= w /\ \A i \in 1 .. Len(q) : q[i] = w - Len(q) + i
        /\ reader[s] = "send" => held[s] = w - Len(q) /\ Len(q) < w
    BY <1>1 DEF OrderInv, PipeInv, PipeOf
  <2>2. PipeOf(s)'
    <3>1. Len(pipe'[s]) = Len(q) + 1 /\ Len(pipe'[s]) <= written'[s]
      BY <1>2, <1>4, <2>1
    <3>2. \A i \in 1 .. Len(q) + 1 : Append(q, w + 1)[i] = w + 1 - (Len(q) + 1) + i
      BY <1>2, <2>1
    <3>3. reader[s] = "send" => held[s] = w + 1 - (Len(q) + 1) /\ Len(q) + 1 < w + 1
      BY <1>2, <2>1
    <3>4. QED
      BY <1>3, <1>4, <3>1, <3>2, <3>3 DEF PipeOf
  <2>3. ASSUME NEW t \in Streams, t # s
        PROVE  PipeOf(t)'
    <3>1. PipeOf(t) /\ pipe'[t] = pipe[t] /\ written'[t] = written[t]
      BY <1>4, <2>3 DEF OrderInv, PipeInv
    <3>2. QED
      BY <1>3, <3>1 DEF PipeOf
  <2>4. QED
    BY <1>3, <1>4, <2>2, <2>3 DEF OrderInv, PipeInv
<1>6. \A t \in Streams : Taken(t)' = Taken(t)
  <2>1. Taken(s)' = Taken(s)
    BY <1>1, <1>2, <1>3, <1>4 DEF Taken
  <2>2. QED
    BY <1>3, <1>4, <2>1 DEF Taken
<1>7. QED
  BY <1>3, <1>5, <1>6, SameLog DEF OrderInv

\* Reading moves the first line of the pipe to the reader, or ends it.
LEMMA ReadOrder ==
  ASSUME OrderInv, NEW s \in Streams, Read(s)
  PROVE  OrderInv'
<1>1. PICK q \in Seq(Nat), w \in Nat : q = pipe[s] /\ w = written[s]
  BY DEF OrderInv, PipeInv
<1>2. reader[s] = "read" /\ run # "exec" /\ UNCHANGED <<ctx, run, logs, handled, written>>
  BY DEF Read, executorVars, process, OrderInv, PipeInv
<1>3. CASE reader' = [reader EXCEPT ![s] = "done"] /\ UNCHANGED <<held, pipe>>
  <2>1. PipeInv'
    BY <1>2, <1>3 DEF OrderInv, PipeInv, PipeOf
  <2>2. \A t \in Streams : Taken(t)' = Taken(t)
    BY <1>2, <1>3 DEF Taken, OrderInv, PipeInv
  <2>3. \A t \in Streams : reader[t] = "done" => reader'[t] = "done"
    BY <1>3 DEF OrderInv, PipeInv
  <2>4. QED
    BY <1>2, <2>1, <2>2, <2>3, SameLog DEF OrderInv
<1>4. CASE /\ q # <<>> /\ held' = [held EXCEPT ![s] = Head(q)] /\ pipe' = [pipe EXCEPT ![s] = Tail(q)]
           /\ reader' = [reader EXCEPT ![s] = "send"]
  <2>1. /\ Len(q) \in Nat /\ Len(q) >= 1 /\ Head(q) = q[1] /\ q[1] \in Nat
        /\ Tail(q) \in Seq(Nat) /\ Len(Tail(q)) = Len(q) - 1
        /\ \A k \in 1 .. Len(q) - 1 : Tail(q)[k] = q[k + 1]
    BY <1>4, HeadTail
  <2>2. Len(q) <= w /\ \A i \in 1 .. Len(q) : q[i] = w - Len(q) + i
    BY <1>1 DEF OrderInv, PipeInv, PipeOf
  <2>3. /\ held' \in [Streams -> Nat] /\ pipe' \in [Streams -> Seq(Nat)]
        /\ reader' \in [Streams -> {"off", "read", "send", "done"}]
        /\ held'[s] = w - Len(q) + 1 /\ pipe'[s] = Tail(q) /\ reader'[s] = "send"
        /\ \A t \in Streams : t # s =>
             held'[t] = held[t] /\ pipe'[t] = pipe[t] /\ reader'[t] = reader[t]
    BY <1>4, <2>1, <2>2 DEF OrderInv, PipeInv
  <2>4. PipeInv'
    <3>1. PipeOf(s)'
      <4>1. \A i \in 1 .. Len(Tail(q)) : Tail(q)[i] = w - Len(Tail(q)) + i
        BY <2>1, <2>2
      <4>2. Len(pipe'[s]) = Len(q) - 1 /\ Len(pipe'[s]) < w /\ Len(pipe'[s]) <= w
            /\ written'[s] = w
        BY <1>1, <1>2, <2>1, <2>2, <2>3
      <4>3. held'[s] = w - Len(pipe'[s])
        BY <2>1, <2>3, <4>2
      <4>4. \A i \in 1 .. Len(pipe'[s]) : pipe'[s][i] = written'[s] - Len(pipe'[s]) + i
        BY <2>3, <4>1, <4>2
      <4>5. Len(pipe'[s]) <= written'[s]
        BY <4>2
      <4>6. QED
        BY <4>2, <4>3, <4>4, <4>5 DEF PipeOf
    <3>2. ASSUME NEW t \in Streams, t # s
          PROVE  PipeOf(t)'
      <4>1. PipeOf(t) /\ pipe'[t] = pipe[t] /\ held'[t] = held[t] /\ reader'[t] = reader[t]
        BY <2>3, <3>2 DEF OrderInv, PipeInv
      <4>2. QED
        BY <1>2, <4>1 DEF PipeOf
    <3>3. QED
      BY <1>2, <2>3, <3>1, <3>2 DEF OrderInv, PipeInv
  <2>5. \A t \in Streams : Taken(t)' = Taken(t)
    <3>1. Taken(s) = w - Len(q) - 0
      BY <1>1, <1>2 DEF Taken
    <3>2. Taken(s)' = w - (Len(q) - 1) - 1
      BY <1>1, <1>2, <2>1, <2>3 DEF Taken
    <3>3. Taken(s)' = Taken(s)
      BY <2>1, <3>1, <3>2
    <3>4. QED
      BY <1>2, <2>3, <3>3 DEF Taken
  <2>6. \A t \in Streams : reader[t] = "done" => reader'[t] = "done"
    BY <1>2, <2>3
  <2>7. QED
    BY <1>2, <2>4, <2>5, <2>6, SameLog DEF OrderInv
<1>5. QED
  BY <1>1, <1>3, <1>4 DEF Read

\* A reader sends the line it holds, which follows all the lines it has sent; or
\* it drops it, and ends.
LEMMA SendOrder ==
  ASSUME OrderInv, NEW s \in Streams, Send(s)
  PROVE  OrderInv'
<1>1. PICK q \in Seq(ChunkType), m \in Nat : q = logs /\ m = held[s]
  BY DEF OrderInv, PipeInv
<1>2. /\ reader[s] = "send" /\ run # "exec"
      /\ UNCHANGED <<ctx, run, handled, written, pipe, held>>
  BY DEF Send, SendUnchanged, process, OrderInv, PipeInv
<1>3. reader'[s] \in {"read", "done"} /\ reader' = [reader EXCEPT ![s] = reader'[s]]
  BY DEF Send, OrderInv, PipeInv
<1>4. PipeInv'
  BY <1>2, <1>3 DEF OrderInv, PipeInv, PipeOf
<1>5. m = Taken(s) + 1 /\ Taken(s)' = Taken(s) + 1 /\ Taken(s) \in Nat
  <2>1. m = written[s] - Len(pipe[s])
    BY <1>1, <1>2 DEF OrderInv, PipeInv, PipeOf
  <2>2. Taken(s) \in Nat /\ written[s] \in Nat /\ Len(pipe[s]) \in Nat
    BY TakenType DEF OrderInv
  <2>3. QED
    BY <1>2, <1>3, <2>1, <2>2 DEF Taken
<1>6. \A t \in Streams : t # s => Taken(t)' = Taken(t) /\ reader'[t] = reader[t]
  BY <1>2, <1>3 DEF Taken, OrderInv, PipeInv
<1>7. \A t \in Streams : Len(handled[t]) \in Nat /\ Len(handled[t]) <= Taken(t)
  <2>1. \A t \in Streams : handled[t] \in Seq(Nat)
    BY DEF OrderInv
  <2>2. QED
    BY <2>1 DEF OrderInv
<1>8. ASSUME NEW k \in 1 .. Len(q)
      PROVE  /\ q[k].line \in Nat /\ q[k].stream \in Streams
             /\ Len(handled[q[k].stream]) < q[k].line /\ q[k].line <= Taken(q[k].stream)
  <2>1. q[k] \in ChunkType
    BY <1>8
  <2>2. QED
    BY <1>1, <1>8, <2>1 DEF OrderInv, LogFollows, ChunkType
<1>9. \A t \in Streams : Len(handled[t]) <= Taken(t)'
  BY <1>5, <1>6, <1>7
<1>10. \A t \in Streams : Taken(t) \in Nat /\ Taken(t)' \in Nat /\ Taken(t) <= Taken(t)'
  <2>1. \A t \in Streams : Taken(t) \in Nat
    BY TakenType DEF OrderInv
  <2>2. QED
    BY <1>5, <1>6, <2>1
<1>11. CASE ctx # "live" /\ reader'[s] = "done" /\ UNCHANGED logs
  <2>1. LogFollows'
    <3> SUFFICES ASSUME NEW k \in 1 .. Len(q)
                 PROVE  /\ Len(handled[q[k].stream]) < q[k].line
                        /\ q[k].line <= Taken(q[k].stream)'
      BY <1>1, <1>2, <1>11 DEF LogFollows
    <3>1. PICK t \in Streams, n \in Nat : t = q[k].stream /\ n = q[k].line
      BY <1>8
    <3>2. Len(handled[t]) < n /\ n <= Taken(t) /\ Taken(t) \in Nat /\ Taken(t) <= Taken(t)'
           /\ Taken(t)' \in Nat
      BY <1>8, <1>10, <3>1
    <3>3. QED
      BY <3>1, <3>2
  <2>2. LogSorted' /\ LogClosed'
    <3>1. LogSorted /\ LogClosed
      BY DEF OrderInv
    <3>2. LogSorted'
      BY <1>11, <3>1 DEF LogSorted
    <3>3. LogClosed'
      BY <1>2, <1>11, <3>1 DEF LogClosed
    <3>4. QED
      BY <3>2, <3>3
  <2>3. LogFull'
    <3> SUFFICES ASSUME NEW t \in Streams, reader'[t] # "done" \/ ctx' = "live"
                 PROVE  \A n \in Nat : Len(handled[t]) < n /\ n <= Taken(t)' =>
                          \E j \in 1 .. Len(logs) : logs[j].stream = t /\ logs[j].line = n
      BY <1>2, <1>11 DEF LogFull
    <3>1. t # s
      BY <1>2, <1>11
    <3>2. Taken(t)' = Taken(t) /\ reader[t] # "done"
      BY <1>2, <1>6, <1>11, <3>1
    <3>3. QED
      <4>1. LogFull
        BY DEF OrderInv
      <4>2. QED
        BY <3>2, <4>1 DEF LogFull
  <2>4. QED
    BY <1>2, <1>4, <1>9, <1>11, <2>1, <2>2, <2>3 DEF OrderInv
<1>12. CASE logs' = Append(q, Chunk(s)) /\ reader'[s] = "read"
  <2>1. PICK e \in ChunkType : e = Chunk(s) /\ e.stream = s /\ e.line = m
    <3>1. Chunk(s) = [stream |-> s, line |-> m]
      BY <1>1 DEF Chunk
    <3>2. QED
      BY <3>1 DEF ChunkType
  <2>2. /\ logs' \in Seq(ChunkType) /\ Len(q) \in Nat /\ Len(logs') = Len(q) + 1
        /\ \A k \in 1 .. Len(q) : logs'[k] = q[k]
        /\ logs'[Len(q) + 1] = e
    BY <1>12, <2>1, AppendProperties
  <2>3. LogFollows'
    <3> SUFFICES ASSUME NEW k \in 1 .. Len(logs')
                 PROVE  /\ Len(handled[logs'[k].stream]) < logs'[k].line
                        /\ logs'[k].line <= Taken(logs[k].stream)'
      BY <1>2 DEF LogFollows
    <3>1. CASE k = Len(q) + 1
      <4>1. Len(handled[s]) < m /\ m <= Taken(s)'
        BY <1>5, <1>7
      <4>2. logs'[k].stream = s /\ logs'[k].line = m
        BY <2>1, <2>2, <3>1
      <4>3. QED
        BY <4>1, <4>2 DEF Taken
    <3>2. CASE k \in 1 .. Len(q)
      <4>1. PICK t \in Streams, n \in Nat : t = q[k].stream /\ n = q[k].line
        BY <1>8, <3>2
      <4>2. /\ Len(handled[t]) < n /\ n <= Taken(t) /\ Taken(t) \in Nat
            /\ Taken(t)' \in Nat /\ Taken(t) <= Taken(t)'
        BY <1>8, <1>10, <3>2, <4>1
      <4>3. logs'[k].stream = t /\ logs'[k].line = n
        BY <2>2, <3>2, <4>1
      <4>4. QED
        BY <4>2, <4>3 DEF Taken
    <3>3. QED
      BY <2>2, <3>1, <3>2
  <2>4. LogSorted'
    <3>1. ASSUME NEW j \in 1 .. Len(q), NEW k \in 1 .. Len(q),
                 j < k, q[j].stream = q[k].stream
          PROVE  q[j].line < q[k].line
      BY <1>1, <3>1 DEF OrderInv, LogSorted
    <3>2. SUFFICES ASSUME NEW j \in 1 .. Len(logs'), NEW k \in 1 .. Len(logs'),
                          j < k, logs'[j].stream = logs'[k].stream
                   PROVE  logs'[j].line < logs'[k].line
      BY DEF LogSorted
    <3>3. j \in 1 .. Len(q) /\ logs'[j] = q[j]
      BY <2>2, <3>2
    <3>4. CASE k = Len(q) + 1
      BY <1>5, <1>8, <2>1, <2>2, <3>2, <3>3, <3>4
    <3>5. CASE k \in 1 .. Len(q)
      BY <2>2, <3>1, <3>2, <3>3, <3>5
    <3>6. QED
      BY <2>2, <3>2, <3>4, <3>5
  <2>5. LogFull'
    <3> SUFFICES ASSUME NEW t \in Streams, reader'[t] # "done" \/ ctx' = "live",
                        NEW n \in Nat, Len(handled[t]) < n, n <= Taken(t)'
                 PROVE  \E j \in 1 .. Len(logs') : logs'[j].stream = t /\ logs'[j].line = n
      BY <1>2 DEF LogFull
    <3>1. CASE t = s /\ n = m
      BY <2>1, <2>2, <3>1
    <3>2. CASE ~(t = s /\ n = m)
      <4>1. n <= Taken(t)
        BY <1>5, <1>6, <3>2
      <4>2. reader[t] # "done" \/ ctx = "live"
        BY <1>2, <1>6
      <4>3. \E j \in 1 .. Len(logs) : logs[j].stream = t /\ logs[j].line = n
        BY <4>1, <4>2 DEF OrderInv, LogFull
      <4>4. PICK j \in 1 .. Len(q) : q[j].stream = t /\ q[j].line = n
        BY <1>1, <4>3
      <4>5. QED
        BY <2>2, <4>4
    <3>3. QED
      BY <3>1, <3>2
  <2>6. LogClosed'
    <3> SUFFICES ASSUME NEW k \in 1 .. Len(logs'), NEW n \in Nat,
                        Len(handled[logs'[k].stream]) < n, n < logs'[k].line
                 PROVE  \E j \in 1 .. Len(logs') :
                          logs'[j].stream = logs'[k].stream /\ logs'[j].line = n
      BY <1>2 DEF LogClosed
    <3>1. CASE k = Len(q) + 1
      <4>1. logs'[k].stream = s /\ n <= Taken(s)' /\ reader'[s] # "done"
        BY <1>5, <1>12, <2>1, <2>2, <3>1
      <4>2. QED
        BY <1>2, <2>5, <4>1 DEF LogFull
    <3>2. CASE k \in 1 .. Len(q)
      <4>1. \E j \in 1 .. Len(logs) : logs[j].stream = logs[k].stream /\ logs[j].line = n
        BY <1>1, <2>2, <3>2 DEF OrderInv, LogClosed
      <4>2. PICK j \in 1 .. Len(q) : q[j].stream = q[k].stream /\ q[j].line = n
        BY <1>1, <4>1
      <4>3. QED
        BY <2>2, <3>2, <4>2
    <3>3. QED
      BY <2>2, <3>1, <3>2
  <2>7. QED
    BY <1>2, <1>4, <1>9, <2>2, <2>3, <2>4, <2>5, <2>6 DEF OrderInv
<1>13. QED
  BY <1>1, <1>3, <1>11, <1>12 DEF Send, OrderInv, PipeInv

\* The next line in the log is the next one of its stream.
LEMMA NextLine ==
  ASSUME OrderInv, logs # <<>>
  PROVE  /\ Head(logs).stream \in Streams
         /\ Head(logs).line = Len(handled[Head(logs).stream]) + 1
         /\ Head(logs).line <= Taken(Head(logs).stream)
<1>1. PICK q \in Seq(ChunkType) : q = logs
  BY DEF OrderInv
<1>2. Len(q) \in Nat /\ Len(q) >= 1 /\ Head(q) = q[1] /\ q[1] \in ChunkType
  BY <1>1, HeadTail
<1>3. PICK s \in Streams, m \in Nat : q[1].stream = s /\ q[1].line = m
  BY <1>2 DEF ChunkType
<1>4. PICK h \in Seq(Nat) : h = handled[s]
  BY DEF OrderInv
<1>5. Len(h) \in Nat /\ Len(h) + 1 \in Nat
  BY <1>4
<1>6. Len(h) < m /\ m <= Taken(s)
  BY <1>1, <1>2, <1>3, <1>4 DEF OrderInv, LogFollows
<1>7. ASSUME m # Len(h) + 1
      PROVE  FALSE
  <2>1. Len(h) < Len(h) + 1 /\ Len(h) + 1 < m
    BY <1>3, <1>5, <1>6, <1>7
  <2>2. 1 \in 1 .. Len(logs) /\ logs[1].stream = s /\ logs[1].line = m
    BY <1>1, <1>2, <1>3
  <2>3. \E j \in 1 .. Len(logs) : logs[j].stream = s /\ logs[j].line = Len(h) + 1
    BY <1>4, <1>5, <2>1, <2>2 DEF OrderInv, LogClosed
  <2>4. PICK j \in 1 .. Len(q) : q[j].stream = s /\ q[j].line = Len(h) + 1
    BY <1>1, <2>3
  <2>5. j # 1 => m < Len(h) + 1
    BY <1>1, <1>2, <1>3, <2>4 DEF OrderInv, LogSorted
  <2>6. QED
    BY <1>3, <1>5, <2>1, <2>4, <2>5
<1>8. QED
  BY <1>1, <1>2, <1>3, <1>4, <1>6, <1>7

\* Handing a chunk on moves its line from the head of the log to the end of what
\* was handed on.
LEMMA ReceiveOrder ==
  ASSUME OrderInv, TakeChunk
  PROVE  OrderInv'
<1>1. PICK q \in Seq(ChunkType) : q = logs
  BY DEF OrderInv
<1>2. /\ logs' = Tail(q) /\ q # <<>> /\ UNCHANGED <<ctx, run, written, reader, held, pipe>>
      /\ handled' = [handled EXCEPT ![Head(q).stream] = Append(@, Head(q).line)]
  BY <1>1 DEF TakeChunk, Receive, process, session
<1>3. /\ Len(q) \in Nat /\ Len(q) >= 1 /\ Head(q) = q[1] /\ q[1] \in ChunkType
      /\ Tail(q) \in Seq(ChunkType) /\ Len(Tail(q)) = Len(q) - 1
      /\ \A k \in 1 .. Len(q) - 1 : Tail(q)[k] = q[k + 1]
  BY <1>2, HeadTail
<1>4. PICK s \in Streams : s = q[1].stream
  BY <1>3 DEF ChunkType
<1>5. PICK h \in Seq(Nat) : h = handled[s]
  BY DEF OrderInv
<1>6. Len(h) \in Nat /\ q[1].line = Len(h) + 1 /\ Len(h) + 1 <= Taken(s)
  BY <1>1, <1>2, <1>3, <1>4, <1>5, NextLine
<1>7. /\ Append(h, Len(h) + 1) \in Seq(Nat) /\ Len(Append(h, Len(h) + 1)) = Len(h) + 1
      /\ \A i \in 1 .. Len(h) : Append(h, Len(h) + 1)[i] = h[i]
      /\ Append(h, Len(h) + 1)[Len(h) + 1] = Len(h) + 1
  BY <1>6, AppendProperties
<1>8. handled' = [handled EXCEPT ![s] = Append(h, Len(h) + 1)]
  BY <1>2, <1>3, <1>4, <1>5, <1>6
<1>9. /\ handled' \in [Streams -> Seq(Nat)] /\ handled'[s] = Append(h, Len(h) + 1)
      /\ Len(handled'[s]) = Len(h) + 1
      /\ \A t \in Streams : t # s => handled'[t] = handled[t]
  BY <1>7, <1>8 DEF OrderInv
<1>10. PipeInv'
  <2>1. run # "exec"
    BY DEF TakeChunk, Receive
  <2>2. QED
    BY <1>2, <2>1 DEF OrderInv, PipeInv, PipeOf
<1>11. \A t \in Streams : Taken(t)' = Taken(t) /\ Taken(t) \in Nat
  BY <1>2, TakenType DEF Taken, OrderInv
<1>12. \A i \in 1 .. Len(handled'[s]) : handled'[s][i] = i
  BY <1>5, <1>6, <1>7, <1>9 DEF OrderInv
<1>13. ASSUME NEW t \in Streams
       PROVE  /\ Len(handled'[t]) <= Taken(t)'
              /\ \A i \in 1 .. Len(handled'[t]) : handled'[t][i] = i
  BY <1>6, <1>9, <1>11, <1>12 DEF OrderInv
<1>14. ASSUME NEW j \in 1 .. Len(q), NEW k \in 1 .. Len(q), j < k, q[j].stream = q[k].stream
       PROVE  q[j].line < q[k].line
  BY <1>1, <1>14 DEF OrderInv, LogSorted
<1>15. ASSUME NEW k \in 1 .. Len(q) - 1
       PROVE  \E t \in Streams, n \in Nat :
                /\ k + 1 \in 1 .. Len(q) /\ Tail(q)[k] = q[k + 1]
                /\ t = q[k + 1].stream /\ n = q[k + 1].line
                /\ Len(handled[t]) < n /\ n <= Taken(t) /\ Len(handled'[t]) < n
  <2>1. k + 1 \in 1 .. Len(q) /\ Tail(q)[k] = q[k + 1] /\ q[k + 1] \in ChunkType
    BY <1>3, <1>15
  <2>2. PICK t \in Streams, n \in Nat : t = q[k + 1].stream /\ n = q[k + 1].line
    BY <2>1 DEF ChunkType
  <2>3. Len(handled[t]) < n /\ n <= Taken(t)
    BY <1>1, <2>1, <2>2 DEF OrderInv, LogFollows
  <2>4. t = s => Len(h) + 1 < n
    <3>1. 1 \in 1 .. Len(q) /\ 1 < k + 1
      BY <1>3
    <3>2. q[1].stream = q[k + 1].stream => q[1].line < q[k + 1].line
      BY <1>14, <2>1, <3>1
    <3>3. QED
      BY <1>4, <1>6, <2>2, <3>2
  <2>5. Len(handled'[t]) < n
    BY <1>9, <2>3, <2>4
  <2>6. QED
    BY <2>1, <2>2, <2>3, <2>5
<1>16. LogFollows'
  <2> SUFFICES ASSUME NEW k \in 1 .. Len(q) - 1
               PROVE  /\ Len(handled'[logs'[k].stream]) < logs'[k].line
                      /\ logs'[k].line <= Taken(logs[k].stream)'
    BY <1>2, <1>3 DEF LogFollows
  <2>1. PICK t \in Streams, n \in Nat :
          /\ Tail(q)[k] = q[k + 1] /\ t = q[k + 1].stream /\ n = q[k + 1].line
          /\ n <= Taken(t) /\ Len(handled'[t]) < n
    BY <1>15
  <2>2. logs'[k].stream = t /\ logs'[k].line = n /\ n <= Taken(t)'
    BY <1>2, <1>11, <2>1
  <2>3. QED
    BY <2>1, <2>2 DEF Taken
<1>17. LogSorted'
  <2> SUFFICES ASSUME NEW j \in 1 .. Len(q) - 1, NEW k \in 1 .. Len(q) - 1,
                      j < k, Tail(q)[j].stream = Tail(q)[k].stream
               PROVE  Tail(q)[j].line < Tail(q)[k].line
    BY <1>2, <1>3 DEF LogSorted
  <2>1. j + 1 \in 1 .. Len(q) /\ k + 1 \in 1 .. Len(q) /\ j + 1 < k + 1
    BY <1>3
  <2>2. Tail(q)[j] = q[j + 1] /\ Tail(q)[k] = q[k + 1]
    BY <1>3
  <2>3. QED
    BY <1>14, <2>1, <2>2
  \* A line other than the first is still in the log.
<1>18. ASSUME NEW t \in Streams, NEW n \in Nat, Len(handled'[t]) < n,
              \E j \in 1 .. Len(logs) : logs[j].stream = t /\ logs[j].line = n
       PROVE  \E j \in 1 .. Len(q) - 1 : Tail(q)[j].stream = t /\ Tail(q)[j].line = n
  <2>1. PICK j \in 1 .. Len(q) : q[j].stream = t /\ q[j].line = n
    BY <1>1, <1>18
  <2>2. j # 1
    BY <1>4, <1>6, <1>9, <1>18, <2>1
  <2>3. j - 1 \in 1 .. Len(q) - 1 /\ Tail(q)[j - 1] = q[j]
    BY <1>3, <2>1, <2>2
  <2>4. QED
    BY <2>1, <2>3
<1>19. ASSUME NEW t \in Streams
       PROVE  /\ Len(handled[t]) \in Nat /\ Len(handled'[t]) \in Nat
              /\ Len(handled[t]) <= Len(handled'[t])
  <2>1. PICK g \in Seq(Nat) : g = handled[t]
    BY DEF OrderInv
  <2>2. PICK k \in Seq(Nat) : k = handled'[t]
    BY <1>9
  <2>3. Len(g) \in Nat /\ Len(k) \in Nat
    OBVIOUS
  <2>4. Len(handled[t]) <= Len(handled'[t])
    <3>1. CASE t = s
      <4>1. Len(handled[s]) = Len(h) /\ Len(handled'[s]) = Len(h) + 1
        BY <1>5, <1>9
      <4>2. QED
        BY <1>6, <3>1, <4>1
    <3>2. CASE t # s
      <4>1. g = k
        BY <1>9, <2>1, <2>2, <3>2
      <4>2. QED
        BY <2>1, <2>2, <2>3, <4>1
    <3>3. QED
      BY <3>1, <3>2
  <2>5. QED
    BY <2>1, <2>2, <2>3, <2>4
<1>20. LogClosed'
  <2> SUFFICES ASSUME NEW k \in 1 .. Len(logs'), NEW n \in Nat,
                      Len(handled'[logs'[k].stream]) < n, n < logs'[k].line
               PROVE  \E j \in 1 .. Len(logs') :
                        logs'[j].stream = logs'[k].stream /\ logs'[j].line = n
    BY DEF LogClosed
  <2>1. Len(logs') = Len(q) - 1 /\ k \in 1 .. Len(q) - 1
    BY <1>2, <1>3
  <2>2. PICK t \in Streams :
          k + 1 \in 1 .. Len(logs) /\ logs'[k] = logs[k + 1] /\ t = logs[k + 1].stream
    BY <1>1, <1>2, <1>15, <2>1
  <2>3. Len(handled'[t]) < n /\ n < logs[k + 1].line
    BY <2>2
  <2>4. Len(handled[t]) < n
    BY <1>19, <2>3
  <2>5. \E j \in 1 .. Len(logs) : logs[j].stream = t /\ logs[j].line = n
    BY <2>2, <2>3, <2>4 DEF OrderInv, LogClosed
  <2>6. \E j \in 1 .. Len(q) - 1 : Tail(q)[j].stream = t /\ Tail(q)[j].line = n
    BY <1>18, <2>3, <2>5
  <2>7. QED
    BY <1>2, <2>1, <2>2, <2>6
<1>21. LogFull'
  <2> SUFFICES ASSUME NEW t \in Streams, reader[t] # "done" \/ ctx = "live",
                      NEW n \in Nat, Len(handled'[t]) < n, n <= Taken(t)
               PROVE  \E j \in 1 .. Len(q) - 1 : Tail(q)[j].stream = t /\ Tail(q)[j].line = n
    BY <1>2, <1>3, <1>11 DEF LogFull
  <2>1. Len(handled[t]) < n
    BY <1>19
  <2>2. \E j \in 1 .. Len(logs) : logs[j].stream = t /\ logs[j].line = n
    BY <2>1 DEF OrderInv, LogFull
  <2>3. QED
    BY <1>18, <2>2
<1>22. QED
  BY <1>2, <1>3, <1>9, <1>10, <1>13, <1>16, <1>17, <1>20, <1>21 DEF OrderInv

\* Every step keeps the lines between the process and the handler in order.
LEMMA OrderStep == OrderInv /\ [Next]_vars => OrderInv'
<1> SUFFICES ASSUME OrderInv, [Next]_vars PROVE OrderInv'
  OBVIOUS
<1> USE DEF executorVars, process, session, vars
<1>1. ASSUME UNCHANGED <<written, pipe, reader, held, logs, handled>>, ctx' = ctx \/ ctx' \in CtxEnds,
             run' = "exec" => run = "exec" /\ (child = "new" => child' = "new")
      PROVE  OrderInv'
  <2>1. PipeInv'
    BY <1>1 DEF OrderInv, PipeInv, PipeOf
  <2>2. \A s \in Streams : Taken(s)' = Taken(s)
    BY <1>1 DEF Taken
  <2>3. ctx' \in {"live"} \cup CtxEnds /\ (ctx' = "live" => ctx = "live")
    BY <1>1, ExecutorAssumption DEF OrderInv
  <2>4. QED
    BY <1>1, <2>1, <2>2, <2>3, SameLog DEF OrderInv
<1>2. ASSUME NEW s \in Streams, Write(s)
      PROVE  OrderInv'
  BY <1>2, WriteOrder
<1>3. CASE ExitProcess \/ KillOnContext \/ WaitProcess \/ Finish
  BY <1>1, <1>3 DEF ExitProcess, KillOnContext, WaitProcess, Finish, FinishUnchanged
<1>4. CASE Exec
  <2>1. CASE Started /\ reader' = [s \in Streams |-> "read"] /\ UNCHANGED <<written, pipe, held>>
    <3>1. /\ run' = "loop" /\ UNCHANGED <<ctx, logs, handled>>
          /\ \A s \in Streams : reader[s] = "off" /\ reader'[s] = "read"
      BY <2>1 DEF Started, OrderInv, PipeInv
    <3>2. PipeInv'
      BY <2>1, <3>1 DEF OrderInv, PipeInv, PipeOf
    <3>3. \A s \in Streams : Taken(s)' = Taken(s)
      BY <2>1, <3>1 DEF Taken
    <3>4. QED
      BY <3>1, <3>2, <3>3, SameLog DEF OrderInv
  <2>2. CASE StartFailed("error") /\ UNCHANGED <<process, session>>
    BY <1>1, <2>2 DEF StartFailed
  <2>3. QED
    BY <1>4, <2>1, <2>2 DEF Exec
<1>5. ASSUME NEW s \in Streams, Read(s)
      PROVE  OrderInv'
  BY <1>5, ReadOrder
<1>6. ASSUME NEW s \in Streams, Send(s)
      PROVE  OrderInv'
  BY <1>6, SendOrder
<1>7. CASE TakeChunk
  BY <1>7, ReceiveOrder
<1>8. CASE EndOfLogs \/ Interrupt \/ GetStatus \/ EndOfContext
  BY <1>1, <1>8 DEF EndOfLogs, SeeClosed, Interrupt, StopWaiting, GetStatus, Return,
     EndOfContext, EndContext
<1>9. CASE UNCHANGED vars
  BY <1>1, <1>9
<1>10. QED
  BY <1>2, <1>3, <1>4, <1>5, <1>6, <1>7, <1>8, <1>9
     DEF Next, ProcessStep, SessionStep, RunStep, Over

\* An empty session is in order.
LEMMA OrderStart == Init => OrderInv
<1> SUFFICES ASSUME Init PROVE OrderInv
  OBVIOUS
<1>1. PipeInv
  BY DEF Init, ExecutorInit, PipeInv, PipeOf
<1>2. LogFollows /\ LogSorted /\ LogClosed
  BY DEF Init, ExecutorInit, LogFollows, LogSorted, LogClosed
<1>3. \A s \in Streams : Taken(s) = 0 /\ Len(handled[s]) = 0 /\ handled[s] \in Seq(Nat)
  BY DEF Init, ExecutorInit, Taken
<1>4. LogFull
  BY <1>3 DEF LogFull
<1>5. ctx = "live" /\ logs \in Seq(ChunkType) /\ handled \in [Streams -> Seq(Nat)]
  BY DEF Init, ExecutorInit
<1>6. QED
  BY <1>1, <1>2, <1>3, <1>4, <1>5 DEF OrderInv

\* While the context lives the log holds all the lines that were taken and not
\* handed on, each of them once.
LEMMA LogCount ==
  ASSUME OrderInv, ctx = "live", NEW s \in Streams
  PROVE  Cardinality({i \in DOMAIN logs : logs[i].stream = s}) = Taken(s) - Len(handled[s])
<1> DEFINE own == {i \in DOMAIN logs : logs[i].stream = s}
           lines == (Len(handled[s]) + 1) .. Taken(s)
           at == [i \in own |-> logs[i].line]
<1>1. PICK q \in Seq(ChunkType) : q = logs
  BY DEF OrderInv
<1>2. own = {i \in 1 .. Len(q) : q[i].stream = s} /\ Len(q) \in Nat
  BY <1>1
<1>3. Len(handled[s]) \in Nat /\ Taken(s) \in Nat /\ Len(handled[s]) <= Taken(s)
  <2>1. handled[s] \in Seq(Nat)
    BY DEF OrderInv
  <2>2. QED
    BY <2>1, TakenType DEF OrderInv
<1>4. ASSUME NEW i \in own
      PROVE  logs[i].line \in lines
  <2>1. q[i] \in ChunkType /\ i \in 1 .. Len(q)
    BY <1>2
  <2>2. q[i].line \in Nat
    BY <2>1 DEF ChunkType
  <2>3. Len(handled[s]) < q[i].line /\ q[i].line <= Taken(s)
    BY <1>1, <1>2, <2>1 DEF OrderInv, LogFollows
  <2>4. QED
    BY <1>1, <1>3, <2>2, <2>3
<1>5. ASSUME NEW i \in own, NEW j \in own, logs[i].line = logs[j].line
      PROVE  i = j
  <2>1. i \in 1 .. Len(logs) /\ j \in 1 .. Len(logs) /\ logs[i].stream = logs[j].stream
    BY <1>1, <1>2
  <2>2. i < j => logs[i].line < logs[j].line
    BY <2>1 DEF OrderInv, LogSorted
  <2>3. j < i => logs[j].line < logs[i].line
    BY <2>1 DEF OrderInv, LogSorted
  <2>4. logs[i].line \in Int
    BY <1>3, <1>4
  <2>5. QED
    BY <1>2, <1>5, <2>2, <2>3, <2>4
<1>6. ASSUME NEW n \in lines
      PROVE  \E i \in own : logs[i].line = n
  <2>1. n \in Nat /\ Len(handled[s]) < n /\ n <= Taken(s)
    BY <1>3
  <2>2. \E j \in 1 .. Len(logs) : logs[j].stream = s /\ logs[j].line = n
    BY <2>1 DEF OrderInv, LogFull
  <2>3. QED
    BY <1>1, <1>2, <2>2
<1> HIDE DEF own, lines
<1>7. at \in Bijection(own, lines)
  BY <1>4, <1>5, <1>6 DEF Bijection, Injection, Surjection, IsInjective
<1> HIDE DEF at
<1>8. ExistsBijection(own, lines)
  BY <1>7 DEF ExistsBijection
<1>9. IsFiniteSet(own)
  <2>1. IsFiniteSet(1 .. Len(q)) /\ own \in SUBSET (1 .. Len(q))
    BY <1>2, FS_Interval
  <2>2. QED
    BY <2>1, FS_Subset
<1>10. Cardinality(own) = Cardinality(lines)
  BY <1>8, <1>9, FS_Bijection
<1>11. Cardinality(lines) = Taken(s) - Len(handled[s])
  <2>1. PICK a \in Nat, b \in Nat : a = Len(handled[s]) /\ b = Taken(s) /\ a <= b
    BY <1>3
  <2>2. Cardinality((a + 1) .. b) = IF a + 1 > b THEN 0 ELSE b - (a + 1) + 1
    BY FS_Interval
  <2>3. QED
    BY <2>1, <2>2 DEF lines
<1>12. QED
  BY <1>10, <1>11 DEF own

\* For every program and all capacities: as long as nobody gives up, every line
\* that was written has been handed on, or is held by a reader, in the log channel
\* or in a pipe, and there once.
THEOREM LinesAreAccounted == Spec => []Accounted
<1>1. OrderInv => Accounted
  <2> SUFFICES ASSUME OrderInv, ctx = "live", NEW s \in Streams
               PROVE  Len(handled[s]) + InFlight(s) = written[s]
    BY DEF Accounted
  <2>1. Cardinality({i \in DOMAIN logs : logs[i].stream = s}) = Taken(s) - Len(handled[s])
    BY LogCount
  <2>2. /\ Taken(s) \in Nat /\ written[s] \in Nat /\ Len(pipe[s]) \in Nat
        /\ Len(handled[s]) \in Nat
    <3>1. handled[s] \in Seq(Nat)
      BY DEF OrderInv
    <3>2. QED
      BY <3>1, TakenType DEF OrderInv
  <2> DEFINE queued == Cardinality({i \in DOMAIN logs : logs[i].stream = s})
             sending == IF reader[s] = "send" THEN 1 ELSE 0
  <2>3. /\ sending \in Nat
        /\ InFlight(s) = queued + sending + Len(pipe[s])
        /\ Taken(s) = written[s] - Len(pipe[s]) - sending
    BY DEF InFlight, Taken
  <2>4. queued = Taken(s) - Len(handled[s])
    BY <2>1
  <2> HIDE DEF queued, sending
  <2>5. PICK h, w, p, k \in Nat : h = Len(handled[s]) /\ w = written[s]
                                /\ p = Len(pipe[s]) /\ k = sending
    BY <2>2, <2>3
  <2>6. queued = w - p - k - h
    BY <2>3, <2>4, <2>5
  <2>7. h + (queued + k + p) = w
    BY <2>6
  <2>8. QED
    BY <2>3, <2>5, <2>7
<1>2. QED
  BY <1>1, OrderStart, OrderStep, PTL DEF Spec

\* Every step of the session and its consumer is a step of the contract, or none.
LEMMA ContractStep ==
  JoinInv /\ ExitInv /\ OrderInv /\ [Next]_vars => [Contract!Next]_(Contract!vars)
<1> SUFFICES ASSUME JoinInv, ExitInv, OrderInv, [Next]_vars
             PROVE  [Contract!Next]_(Contract!vars)
  OBVIOUS
<1> USE DEF executorVars, process, session, vars, Contract!vars, Success
<1>1. ASSUME NEW s \in Streams, Write(s)
      PROVE  Contract!Next
  <2>1. Contract!Write(s)
    BY <1>1 DEF Write, Contract!Write
  <2>2. QED
    BY <2>1 DEF Contract!Next
<1>2. CASE ExitProcess
  <2>1. Contract!End(IF program.exit = 0 THEN "ok" ELSE "bad")
    BY <1>2 DEF ExitProcess, Contract!End
  <2>2. QED
    BY <2>1 DEF Contract!Next
<1>3. CASE KillOnContext \/ Interrupt
  <2>1. /\ UNCHANGED <<ctx, program, written, handled, result>>
        /\ (run # "returned" /\ run' # "returned") \/ UNCHANGED run
        /\ child' = IF child = "running" THEN "killed" ELSE child
    BY <1>3 DEF KillOnContext, Interrupt, StopWaiting, KillChild
  <2>2. CASE child # "running"
    BY <2>1, <2>2
  <2>3. CASE child = "running"
    <3>1. Contract!End("bad")
      BY <2>1, <2>3 DEF Contract!End
    <3>2. QED
      BY <3>1 DEF Contract!Next
  <2>4. QED
    BY <2>2, <2>3
<1>4. CASE WaitProcess \/ Finish \/ EndOfLogs
  BY <1>4 DEF WaitProcess, Finish, FinishUnchanged, EndOfLogs, SeeClosed
<1>5. CASE Exec
  <2>1. CASE /\ Started /\ child' = "running" /\ UNCHANGED <<program, written>>
    <3>1. UNCHANGED <<ctx, handled, result>> /\ run = "exec" /\ run' = "loop"
      BY <2>1 DEF Started
    <3>2. child = "new"
      BY <3>1 DEF OrderInv, PipeInv
    <3>3. QED
      BY <2>1, <3>1, <3>2
  <2>2. CASE StartFailed("error") /\ UNCHANGED <<process, session>>
    <3>1. result'.err = "error"
      BY <2>2 DEF StartFailed, Nothing
    <3>2. Contract!Return("failure")
      BY <2>2, <3>1 DEF StartFailed, Contract!Return
    <3>3. QED
      BY <3>2 DEF Contract!Next
  <2>3. QED
    BY <1>5, <2>1, <2>2 DEF Exec
<1>6. ASSUME NEW s \in Streams, Read(s) \/ Send(s)
      PROVE  UNCHANGED Contract!vars
  BY <1>6 DEF Read, Send, SendUnchanged
<1>7. CASE TakeChunk
  <2>1. run # "returned" /\ logs # <<>>
    BY <1>7 DEF TakeChunk, Receive
  <2>2. PICK s \in Streams : s = Head(logs).stream
    BY <2>1, NextLine
  <2>3. Len(handled[s]) + 1 <= Taken(s) /\ Head(logs).line = Len(handled[s]) + 1
    BY <2>1, <2>2, NextLine
  <2>4. Len(handled[s]) < written[s]
    <3>1. PICK h \in Seq(Nat) : h = handled[s]
      BY DEF OrderInv
    <3>2. Len(h) \in Nat
      BY <3>1
    <3>3. Taken(s) \in Nat /\ written[s] \in Nat /\ Taken(s) <= written[s]
      BY TakenType DEF OrderInv
    <3>4. QED
      BY <2>3, <3>1, <3>2, <3>3
  <2>5. Contract!Handle(s)
    BY <1>7, <2>2, <2>3, <2>4 DEF TakeChunk, Receive, Contract!Handle
  <2>6. QED
    BY <2>5 DEF Contract!Next
<1>8. CASE EndOfContext
  <2>1. ctx = "live" /\ UNCHANGED <<program, child, written, handled, run, result>>
    BY <1>8 DEF EndOfContext, EndContext
  <2>2. CASE ctx' = "canceled"
    <3>1. Contract!GiveUp
      BY <2>1, <2>2 DEF Contract!GiveUp
    <3>2. QED
      BY <3>1 DEF Contract!Next
  <2>3. CASE ctx' # "canceled"
    BY <2>1, <2>3
  <2>4. QED
    BY <2>2, <2>3
<1>9. CASE GetStatus
  <2>1. CASE result'.err = "none" /\ result'.exit = 0
    <3>1. (child = "exited" /\ program.exit = 0) \/ ctx = "canceled"
      <4>1. ctx # "deadline" /\ result'.exit = ExitOf(status)
        BY <1>9, <2>1 DEF GetStatus, Return
      <4>2. CASE ctx = "live"
        <5>1. status = {program.exit} /\ child = "exited"
          BY <1>9, <4>2 DEF GetStatus, Return, ExitInv, JoinInv
        <5>2. ExitOf(status) = program.exit
          BY <5>1 DEF ExitOf
        <5>3. QED
          BY <2>1, <4>1, <5>1, <5>2
      <4>3. QED
        BY <4>1, <4>2, ExecutorAssumption DEF OrderInv
    <3>2. Contract!Return("success")
      BY <1>9, <2>1, <3>1 DEF GetStatus, Return, Contract!Return
    <3>3. QED
      BY <3>2 DEF Contract!Next
  <2>2. CASE ~(result'.err = "none" /\ result'.exit = 0)
    <3>1. Contract!Return("failure")
      BY <1>9, <2>2 DEF GetStatus, Return, Contract!Return
    <3>2. QED
      BY <3>1 DEF Contract!Next
  <2>3. QED
    BY <2>1, <2>2
<1>10. CASE UNCHANGED vars
  BY <1>10
<1>11. QED
  BY <1>1, <1>2, <1>3, <1>4, <1>5, <1>6, <1>7, <1>8, <1>9, <1>10
     DEF Next, ProcessStep, SessionStep, RunStep, Over

\* For every program and all capacities, a command of a local backend keeps the
\* contract of an executor: its lines are handed on in order and none twice, and
\* a success is that of a program that has exited with 0, unless the context was
\* cancelled.
THEOREM SessionKeepsContract == Spec => ImplementsContract
<1>1. Init => JoinInv /\ ExitInv /\ OrderInv
  BY OrderStart DEF Init, ExecutorInit, JoinInv, ExitInv
<1>2. Init => Contract!Init
  BY DEF Init, ExecutorInit, Contract!Init
<1>3. QED
  BY <1>1, <1>2, JoinStep, ExitStep, OrderStep, ContractStep, PTL
     DEF Spec, ImplementsContract, Contract!Spec

-----------------------------------------------------------------------------
(* Types *)

\* Every step keeps the type of every variable.
LEMMA TypeStep == TypeOK /\ [Next]_vars => TypeOK'
<1> SUFFICES ASSUME TypeOK, [Next]_vars PROVE TypeOK'
  OBVIOUS
<1>0. ExecutorTypeOK /\ status \in Codes
  BY DEF TypeOK, Codes
<1>1. ASSUME NEW s \in Streams, Write(s)
      PROVE  TypeOK'
  <2>1. PICK q \in Seq(Nat), n \in Nat : q = pipe[s] /\ n = written[s]
    BY DEF TypeOK
  <2>2. Append(q, n + 1) \in Seq(Nat) /\ Len(Append(q, n + 1)) = Len(q) + 1
    OBVIOUS
  <2>3. /\ pipe' \in [Streams -> Seq(Nat)] /\ written' \in [Streams -> Nat]
        /\ pipe'[s] = Append(q, n + 1) /\ \A t \in Streams \ {s} : pipe'[t] = pipe[t]
    BY <1>1, <2>1, <2>2 DEF Write, TypeOK
  <2>4. Len(pipe'[s]) <= PipeCap
    BY <1>1, <2>1, <2>2, <2>3, SessionAssumption DEF Write
  <2>5. \A t \in Streams : Len(pipe'[t]) <= PipeCap
    BY <2>3, <2>4 DEF TypeOK
  <2>6. ExecutorTypeOK'
    BY <1>0, <1>1, ExecutorTypes DEF Write
  <2>7. QED
    BY <1>1, <2>3, <2>5, <2>6 DEF Write, TypeOK
<1>2. CASE ExitProcess \/ KillOnContext \/ Interrupt
  <2>1. /\ child' \in {"new", "running", "killed", "exited"}
        /\ UNCHANGED <<program, written, session>>
        /\ UNCHANGED executorVars \/ StopWaiting
    BY <1>2 DEF ExitProcess, KillOnContext, KillChild, Interrupt, TypeOK
  <2>2. ExecutorTypeOK'
    BY <1>0, <2>1, ExecutorTypes
  <2>3. QED
    BY <2>1, <2>2 DEF TypeOK, session
<1>3. CASE Exec
  <2>1. ExecutorTypeOK'
    BY <1>0, <1>3, ExecutorTypes DEF Exec
  <2>2. QED
    BY <1>3, <2>1 DEF Exec, process, session, TypeOK
<1>4. CASE WaitProcess
  <2>1. ExecutorTypeOK'
    BY <1>0, <1>4, ExecutorTypes DEF WaitProcess
  <2>2. ctx \in {"live"} \cup CtxEnds /\ program.exit \in Int
    BY <1>0, SessionAssumption DEF TypeOK, ExecutorTypeOK, ProgramType
  <2>3. waitErr' \in [ctx : {"live"} \cup CtxEnds, code : Int]
    BY <1>4, <2>2 DEF WaitProcess, Killed
  <2>4. QED
    BY <1>4, <2>1, <2>3 DEF WaitProcess, process, TypeOK
<1>5. ASSUME NEW s \in Streams, Read(s)
      PROVE  TypeOK'
  <2>1. ExecutorTypeOK'
    BY <1>0, <1>5, ExecutorTypes DEF Read
  <2>2. reader' \in [Streams -> {"off", "read", "send", "done"}]
    BY <1>5 DEF Read, TypeOK
  <2>3. CASE UNCHANGED <<held, pipe>>
    BY <1>5, <2>1, <2>2, <2>3 DEF Read, process, TypeOK
  <2>4. PICK q \in Seq(Nat) : q = pipe[s] /\ Len(q) <= PipeCap
    BY DEF TypeOK
  <2>5. CASE /\ q # <<>> /\ pipe' = [pipe EXCEPT ![s] = Tail(@)]
             /\ held' = [held EXCEPT ![s] = Head(q)]
    <3>1. Head(q) \in Nat /\ Tail(q) \in Seq(Nat) /\ Len(Tail(q)) <= Len(q)
      BY <2>5
    <3>2. /\ pipe' \in [Streams -> Seq(Nat)] /\ pipe'[s] = Tail(q)
          /\ \A t \in Streams \ {s} : pipe'[t] = pipe[t]
      BY <2>4, <2>5, <3>1 DEF TypeOK
    <3>3. \A t \in Streams : Len(pipe'[t]) <= PipeCap
      <4>1. Len(q) \in Nat /\ Len(Tail(q)) \in Nat /\ PipeCap \in Nat
        BY <3>1, SessionAssumption
      <4>2. Len(pipe'[s]) <= PipeCap
        BY <2>4, <3>1, <3>2, <4>1
      <4>3. QED
        BY <3>2, <4>2 DEF TypeOK
    <3>4. held' \in [Streams -> Nat]
      BY <2>5, <3>1 DEF TypeOK
    <3>5. QED
      BY <1>5, <2>1, <2>2, <3>2, <3>3, <3>4 DEF Read, process, TypeOK
  <2>6. QED
    BY <1>5, <2>3, <2>4, <2>5 DEF Read
<1>6. ASSUME NEW s \in Streams, Send(s)
      PROVE  TypeOK'
  <2>1. reader' \in [Streams -> {"off", "read", "send", "done"}]
    BY <1>6 DEF Send, TypeOK
  <2>2. ExecutorTypeOK'
    <3>1. CASE logs' = logs
      <4>1. UNCHANGED executorVars
        BY <1>6, <3>1 DEF Send, SendUnchanged, executorVars
      <4>2. QED
        BY <1>0, <4>1, ExecutorTypes
    <3>2. CASE Len(logs) < LogCap /\ logs' = Append(logs, Chunk(s))
      <4>1. Chunk(s) \in ChunkType
        BY DEF Chunk, ChunkType, TypeOK
      <4>2. QED
        BY <1>0, <1>6, <3>2, <4>1, ChunkSent DEF Send, SendUnchanged
    <3>3. QED
      BY <1>6, <3>1, <3>2 DEF Send
  <2>3. QED
    BY <1>6, <2>1, <2>2 DEF Send, SendUnchanged, process, TypeOK
<1>7. CASE Finish
  <2>1. WaitCode \in Int
    BY ExecutorAssumption DEF WaitCode, TypeOK
  <2>2. status' \in Codes
    BY <1>7, <2>1, CodesHold DEF Finish
  <2>3. ExecutorTypeOK'
    BY <1>7 DEF Finish, FinishUnchanged, TypeOK, ExecutorTypeOK
  <2>4. QED
    BY <1>7, <2>2, <2>3 DEF Finish, FinishUnchanged, process, TypeOK, Codes
<1>8. CASE TakeChunk \/ EndOfLogs \/ GetStatus \/ EndOfContext \/ UNCHANGED vars
  <2>1. ExecutorTypeOK'
    BY <1>0, <1>8, ExecutorTypes DEF TakeChunk, EndOfLogs, GetStatus, EndOfContext, vars
  <2>2. UNCHANGED <<process, session>>
    BY <1>8 DEF TakeChunk, EndOfLogs, GetStatus, EndOfContext, vars
  <2>3. QED
    BY <2>1, <2>2 DEF process, session, TypeOK
<1>9. QED
  BY <1>1, <1>2, <1>3, <1>4, <1>5, <1>6, <1>7, <1>8
     DEF Next, ProcessStep, SessionStep, RunStep, Over

\* Every variable keeps its type, and neither a pipe nor the log channel holds more
\* than it can, for every program and all capacities.
THEOREM TypeCorrect == Spec => []TypeOK
<1>1. Init => TypeOK
  <2> SUFFICES ASSUME Init PROVE TypeOK
    OBVIOUS
  <2>1. ExecutorTypeOK /\ status \in Codes
    BY ExecutorStart, CodesHold DEF Init
  <2>2. /\ written \in [Streams -> Nat] /\ held \in [Streams -> Nat]
        /\ reader \in [Streams -> {"off", "read", "send", "done"}]
    BY DEF Init
  <2>3. pipe \in [Streams -> Seq(Nat)] /\ \A s \in Streams : Len(pipe[s]) <= PipeCap
    BY SessionAssumption DEF Init
  <2>4. QED
    BY <2>1, <2>2, <2>3 DEF Init, TypeOK, Codes
<1>2. QED
  BY <1>1, TypeStep, PTL DEF Spec
=============================================================================
