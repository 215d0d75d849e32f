-------------------------- MODULE DockerExec_proofs --------------------------
(***************************************************************************)
(* What DockerExecutor.Run does on every way out, for every program and   *)
(* every way its context may end: the removal of its container, the        *)
(* reported deadline, the complete result, the contract of an executor,    *)
(* for which the log of the container is shown to be in order, and types.  *)
(***************************************************************************)
EXTENDS DockerExec, SequenceTheorems, TLAPS

\* Where Run has its result.
Leaving == {"remove", "leave", "returned"}

\* Outside an error of the wait request Run does not leave before its copier.
CopierInv ==
  /\ run \in {"pull", "create", "start", "logs"} => copier = "off" /\ wait = "off"
  /\ run \in Leaving /\ copier = "copy" => wait = "failed" /\ result.err # "none"
  /\ late > 0 => run = "returned"
  /\ LateOnlyAfterError

\* A container that may be running is on the way to its removal.
RemovalInv ==
  /\ run \in {"pull", "create"} => container = "none"
  /\ run = "start" => container = "created"
  /\ run \in {"leave", "returned"}
       /\ (wait # "off" \/ container \in {"running", "exited", "killed"}) => removal

\* A context that was over when Run chose leaves its mark on the result.
DeadlineInv ==
  /\ ctx \in {"live", "deadline", "canceled"}
  /\ container = "killed" => run \in {"kill", "join"} \cup Leaving
  /\ wait = "answered" => container \in {"exited", "killed"}
  /\ run = "kill" => ctx = "canceled" \/ (ctx = "deadline" /\ result.timedOut)
  /\ run = "join" => result.timedOut \/ ctx = "canceled"
                       \/ (container = "exited" /\ result.exit = program.exit)
  /\ run \in Leaving => result.err # "none" \/ ctx = "canceled"
                          \/ (container = "exited" /\ result.exit = program.exit)
  /\ result \in [exit : Int, timedOut : BOOLEAN, err : {"none", "deadline", "error"}]
  /\ program \in ProgramType /\ program.exit \in Int

\* The error of a failed request is one.
LEMMA FailedIsError ==
  ASSUME NEW err, Failed(err)
  PROVE  /\ result'.err # "none"
         /\ result' \in [exit : Int, timedOut : BOOLEAN, err : {"none", "deadline", "error"}]
<1>1. Reported(err) \in {"deadline", "error"}
  BY DEF Reported
<1>2. result' = [exit |-> 0, timedOut |-> FALSE, err |-> Reported(err)]
  BY DEF Failed, Blank
<1>3. QED
  BY <1>1, <1>2

\* No step but an error of the wait request lets the copier be left behind.
LEMMA CopierStep == CopierInv /\ [Next]_vars => CopierInv'
<1> SUFFICES ASSUME CopierInv, [Next]_vars PROVE CopierInv'
  OBVIOUS
<1> USE DEF CopierInv, LateOnlyAfterError, Leaving, vars, command, copying, waiting
<1>1. CASE CommandStep \/ EndContext
  BY <1>1 DEF CommandStep, ExitCommand, WriteLine, EndContext
<1>2. CASE AnswerWait
  BY <1>2 DEF AnswerWait
<1>3. CASE CopyStep
  BY <1>3 DEF CopyStep, CopyLine, EndCopy
<1>4. CASE PullImage \/ CreateContainer \/ StartContainer \/ FollowLogs
  BY <1>4 DEF PullImage, CreateContainer, StartContainer, FollowLogs
<1>5. CASE Select
  <2>1. CASE wait = "failed" /\ Failed(waitErr) /\ run' = "remove" /\ UNCHANGED container
    BY <1>5, <2>1, FailedIsError DEF Select
  <2>2. CASE run' \in {"join", "kill"}
    BY <1>5, <2>2 DEF Select
  <2>3. QED
    BY <1>5, <2>1, <2>2 DEF Select
<1>6. CASE AwaitKill \/ Join \/ Remove \/ Return
  BY <1>6 DEF AwaitKill, Join, Remove, Return
<1>7. CASE UNCHANGED vars
  BY <1>7
<1>8. QED
  BY <1>1, <1>2, <1>3, <1>4, <1>5, <1>6, <1>7 DEF Next, RunStep, Over

\* A line reaches the handler after the return only when Run has left the copier
\* behind on an error of the wait request, and says so by an error of its own.
THEOREM LateLinesAreErrors == Spec => []LateOnlyAfterError
<1>1. Init => CopierInv
  BY DEF Init, CopierInv, LateOnlyAfterError, Leaving
<1>2. CopierInv => LateOnlyAfterError
  BY DEF CopierInv
<1>3. QED
  BY <1>1, <1>2, CopierStep, PTL DEF Spec

\* Only CreateContainer and StartContainer bring a container up, and every way
\* out from there leads to Remove.
LEMMA RemovalStep == CopierInv /\ RemovalInv /\ [Next]_vars => RemovalInv'
<1> SUFFICES ASSUME CopierInv, RemovalInv, [Next]_vars PROVE RemovalInv'
  OBVIOUS
<1> USE DEF RemovalInv, vars, command, copying, waiting
<1>1. CASE CommandStep \/ EndContext
  BY <1>1 DEF CommandStep, ExitCommand, WriteLine, EndContext
<1>2. CASE AnswerWait \/ CopyStep
  BY <1>2 DEF AnswerWait, CopyStep, CopyLine, EndCopy
<1>3. CASE PullImage \/ CreateContainer \/ StartContainer \/ FollowLogs
  BY <1>3 DEF PullImage, CreateContainer, StartContainer, FollowLogs, CopierInv
<1>4. CASE Select \/ AwaitKill \/ Join \/ Remove \/ Return
  BY <1>4 DEF Select, AwaitKill, Join, Remove, Return
<1>5. CASE UNCHANGED vars
  BY <1>5
<1>6. QED
  BY <1>1, <1>2, <1>3, <1>4, <1>5 DEF Next, RunStep, Over

\* Whatever request fails, the removal of a container that was started has been
\* asked for when Run returns.
THEOREM ContainersAreRemoved == Spec => []ContainerRemoved
<1>1. Init => CopierInv /\ RemovalInv
  BY DEF Init, CopierInv, RemovalInv, LateOnlyAfterError, Leaving
<1>2. RemovalInv => ContainerRemoved
  BY DEF RemovalInv, ContainerRemoved
<1>3. QED
  BY <1>1, <1>2, CopierStep, RemovalStep, PTL DEF Spec

\* The result keeps what Run saw when it chose.
LEMMA DeadlineStep == CopierInv /\ DeadlineInv /\ [Next]_vars => DeadlineInv'
<1> SUFFICES ASSUME CopierInv, DeadlineInv, [Next]_vars PROVE DeadlineInv'
  OBVIOUS
<1> USE DEF DeadlineInv, Leaving, vars, command, copying, waiting
<1>1. CASE CommandStep
  BY <1>1 DEF CommandStep, ExitCommand, WriteLine
<1>2. CASE EndContext
  BY <1>2, DockerAssumption DEF EndContext
<1>3. CASE AnswerWait \/ CopyStep
  BY <1>3 DEF AnswerWait, CopyStep, CopyLine, EndCopy
<1>4. CASE PullImage \/ CreateContainer \/ StartContainer \/ FollowLogs
  BY <1>4, FailedIsError DEF PullImage, CreateContainer, StartContainer, FollowLogs, CopierInv
<1>5. CASE Select
  <2>1. CASE wait = "failed" /\ Failed(waitErr) /\ run' = "remove" /\ UNCHANGED container
    BY <1>5, <2>1, FailedIsError DEF Select
  <2>2. CASE wait = "answered" /\ result' = [result EXCEPT !.exit = StatusCode]
             /\ run' = "join" /\ UNCHANGED container
    BY <1>5, <2>2 DEF Select, StatusCode
  <2>3. CASE ctx # "live" /\ run' = "kill"
    BY <1>5, <2>3 DEF Select
  <2>4. QED
    BY <1>5, <2>1, <2>2, <2>3 DEF Select
<1>6. CASE AwaitKill
  BY <1>6 DEF AwaitKill, StatusCode, Killed
<1>7. CASE Join
  <2>1. CASE Failed(copyErr)
    BY <1>7, <2>1, FailedIsError DEF Join
  <2>2. CASE result' = [result EXCEPT !.err = IF result.timedOut THEN "deadline" ELSE "none"]
    BY <1>7, <2>2 DEF Join
  <2>3. QED
    BY <1>7, <2>1, <2>2 DEF Join
<1>8. CASE Remove \/ Return
  BY <1>8 DEF Remove, Return
<1>9. CASE UNCHANGED vars
  BY <1>9
<1>10. QED
  BY <1>1, <1>2, <1>3, <1>4, <1>5, <1>6, <1>7, <1>8, <1>9 DEF Next, RunStep, Over

\* A result without an error after the deadline is that of a command that had
\* ended by itself: a killed container is always reported.
THEOREM DeadlinesAreReported == Spec => []DeadlineReported
<1>1. Init => CopierInv /\ DeadlineInv
  BY DockerAssumption
  DEF Init, CopierInv, DeadlineInv, LateOnlyAfterError, Leaving, Blank, ProgramType
<1>2. DeadlineInv => DeadlineReported
  BY DEF DeadlineInv, DeadlineReported, Leaving
<1>3. QED
  BY <1>1, <1>2, CopierStep, DeadlineStep, PTL DEF Spec

\* The first element of a queue that is not empty, and those behind it.
LEMMA HeadTail ==
  ASSUME NEW S, NEW q \in Seq(S), q # <<>>
  PROVE  /\ Len(q) \in Nat /\ Len(q) >= 1 /\ Head(q) = q[1] /\ q[1] \in S
         /\ Tail(q) \in Seq(S) /\ Len(Tail(q)) = Len(q) - 1
         /\ \A k \in 1 .. Len(q) - 1 : Tail(q)[k] = q[k + 1]
<1>1. /\ Head(q) \in S /\ Tail(q) \in Seq(S) /\ Len(Tail(q)) = Len(q) - 1
      /\ \A k \in 1 .. Len(Tail(q)) : Tail(q)[k] = q[k + 1]
  BY HeadTailProperties
<1>2. Len(q) \in Nat /\ Len(q) # 0 /\ Head(q) = q[1]
  OBVIOUS
<1>3. QED
  BY <1>1, <1>2

\* A line in the log of the container.
LogLine == [stream : Streams, line : Nat]

\* The log holds nothing but written lines that were not handed on yet,
LogFollows ==
  \A k \in 1 .. Len(log) :
    Len(handled[log[k].stream]) < log[k].line /\ log[k].line <= written[log[k].stream]

\* the lines of a stream in the order of their numbers,
LogSorted ==
  \A j, k \in 1 .. Len(log) :
    j < k /\ log[j].stream = log[k].stream => log[j].line < log[k].line

\* and none of them is missing.
LogGapless ==
  \A s \in Streams : \A n \in Nat :
    Len(handled[s]) < n /\ n <= written[s] =>
      \E k \in 1 .. Len(log) : log[k].stream = s /\ log[k].line = n

\* What is between the command and the handler is in order, until a line comes
\* too late.
OrderInv ==
  /\ program \in ProgramType
  /\ written \in [Streams -> Nat]
  /\ handled \in [Streams -> Seq(Nat)]
  /\ late \in Nat
  /\ log \in Seq(LogLine)
  /\ \A s \in Streams : Len(handled[s]) <= written[s]
  /\ \A s \in Streams : \A i \in 1 .. Len(handled[s]) : handled[s][i] = i
  /\ late = 0 => LogFollows /\ LogSorted /\ LogGapless

\* The next line in the log is the next line of its stream.
LEMMA NextLine ==
  ASSUME OrderInv, late = 0, log # <<>>
  PROVE  /\ Head(log).stream \in Streams
         /\ Head(log).line = Len(handled[Head(log).stream]) + 1
         /\ Head(log).line <= written[Head(log).stream]
<1>1. PICK q \in Seq(LogLine) : q = log
  BY DEF OrderInv
<1>2. Len(q) \in Nat /\ Len(q) >= 1 /\ Head(q) = q[1] /\ q[1] \in LogLine
  BY <1>1, HeadTail
<1>3. PICK s \in Streams, m \in Nat : q[1].stream = s /\ q[1].line = m
  BY <1>2 DEF LogLine
<1>4. PICK h \in Seq(Nat) : h = handled[s]
  BY DEF OrderInv
<1>5. Len(h) \in Nat /\ Len(h) + 1 \in Nat /\ written[s] \in Nat
  BY <1>4 DEF OrderInv
<1>6. Len(h) < m /\ m <= written[s]
  BY <1>1, <1>2, <1>3, <1>4 DEF OrderInv, LogFollows
<1>7. Len(h) < Len(h) + 1 /\ Len(h) + 1 <= written[s]
  BY <1>3, <1>5, <1>6
<1>8. PICK k \in 1 .. Len(q) : q[k].stream = s /\ q[k].line = Len(h) + 1
  BY <1>1, <1>4, <1>5, <1>7 DEF OrderInv, LogGapless
<1>9. k # 1 => m < Len(h) + 1
  <2>1. LogSorted
    BY DEF OrderInv
  <2>2. \A j \in 1 .. Len(q) :
          1 < j /\ q[1].stream = q[j].stream => q[1].line < q[j].line
    BY <1>1, <1>2, <2>1 DEF LogSorted
  <2>3. QED
    BY <1>2, <1>3, <1>8, <2>2
<1>10. m = Len(h) + 1
  BY <1>3, <1>5, <1>6, <1>8, <1>9
<1>11. QED
  BY <1>1, <1>2, <1>3, <1>4, <1>6, <1>10

\* Writing a line puts it behind the others of its stream.
LEMMA WriteOrder ==
  ASSUME OrderInv, NEW s \in Streams, WriteLine(s)
  PROVE  OrderInv'
<1>1. PICK q \in Seq(LogLine) : q = log
  BY DEF OrderInv
<1>2. PICK w \in Nat : w = written[s]
  BY DEF OrderInv
<1> DEFINE e == [stream |-> s, line |-> w + 1]
<1>3. /\ log' = Append(q, e) /\ written' = [written EXCEPT ![s] = w + 1]
      /\ UNCHANGED <<program, handled, late>>
  BY <1>1, <1>2 DEF WriteLine
<1>4. e \in LogLine /\ e.stream = s /\ e.line = w + 1
  BY <1>2 DEF LogLine
<1>5. /\ Append(q, e) \in Seq(LogLine)
      /\ Len(q) \in Nat /\ Len(Append(q, e)) = Len(q) + 1
      /\ \A k \in 1 .. Len(q) : Append(q, e)[k] = q[k]
      /\ Append(q, e)[Len(q) + 1] = e
  BY <1>1, <1>4, AppendProperties
<1> HIDE DEF e
<1>6. /\ written' \in [Streams -> Nat] /\ written'[s] = w + 1
      /\ \A t \in Streams : t # s => written'[t] = written[t]
  BY <1>2, <1>3 DEF OrderInv
<1>7. /\ Len(handled[s]) \in Nat /\ Len(handled[s]) <= w
      /\ \A t \in Streams : Len(handled[t]) \in Nat
  <2>1. \A t \in Streams : handled[t] \in Seq(Nat)
    BY DEF OrderInv
  <2>2. QED
    BY <1>2, <2>1 DEF OrderInv
<1>8. ASSUME late = 0, NEW k \in 1 .. Len(q)
      PROVE  /\ q[k].line \in Nat /\ q[k].stream \in Streams
             /\ Len(handled[q[k].stream]) < q[k].line /\ q[k].line <= written[q[k].stream]
  <2>1. q[k] \in LogLine
    BY <1>8
  <2>2. k \in 1 .. Len(log) /\ log[k] = q[k]
    BY <1>1, <1>8
  <2>3. QED
    BY <1>8, <2>1, <2>2 DEF OrderInv, LogFollows, LogLine
<1>9. late = 0 => LogFollows'
  BY <1>2, <1>3, <1>4, <1>5, <1>6, <1>7, <1>8 DEF LogFollows
<1>10. late = 0 => LogSorted'
  <2>1. ASSUME late = 0, NEW j \in 1 .. Len(q), NEW k \in 1 .. Len(q),
               j < k, q[j].stream = q[k].stream
        PROVE  q[j].line < q[k].line
    BY <1>1, <2>1 DEF OrderInv, LogSorted
  <2>2. SUFFICES ASSUME late = 0, NEW j \in 1 .. Len(log'), NEW k \in 1 .. Len(log'),
                        j < k, log'[j].stream = log'[k].stream
                 PROVE  log'[j].line < log'[k].line
    BY DEF LogSorted
  <2>3. j \in 1 .. Len(q) /\ log'[j] = q[j]
    BY <1>3, <1>5, <2>2
  <2>4. CASE k = Len(q) + 1
    <3>1. q[j].stream = s /\ log'[k].line = w + 1
      BY <1>3, <1>4, <1>5, <2>2, <2>3, <2>4
    <3>2. q[j].line \in Nat /\ q[j].line <= w
      BY <1>2, <1>8, <2>2, <2>3, <3>1
    <3>3. QED
      BY <1>2, <2>3, <3>1, <3>2
  <2>5. CASE k \in 1 .. Len(q)
    BY <1>3, <1>5, <2>1, <2>2, <2>3, <2>5
  <2>6. QED
    BY <1>3, <1>5, <2>2, <2>4, <2>5
<1>11. ASSUME late = 0
       PROVE  LogGapless'
  <2> SUFFICES ASSUME NEW t \in Streams, NEW n \in Nat, Len(handled[t]) < n, n <= written'[t]
               PROVE  \E k \in 1 .. Len(log') : log'[k].stream = t /\ log'[k].line = n
    BY <1>3 DEF LogGapless
  <2>1. CASE t = s /\ n = w + 1
    BY <1>3, <1>4, <1>5, <2>1
  <2>2. CASE ~(t = s /\ n = w + 1)
    <3>1. n <= written[t]
      BY <1>2, <1>6, <2>2
    <3>2. \E k \in 1 .. Len(log) : log[k].stream = t /\ log[k].line = n
      BY <1>11, <3>1 DEF OrderInv, LogGapless
    <3>3. PICK k \in 1 .. Len(q) : q[k].stream = t /\ q[k].line = n
      BY <1>1, <3>2
    <3>4. QED
      BY <1>3, <1>5, <3>3
  <2>3. QED
    BY <2>1, <2>2
<1>12. \A t \in Streams : Len(handled[t]) <= written'[t]
  <2>1. \A t \in Streams : Len(handled[t]) <= written[t]
    BY DEF OrderInv
  <2>2. QED
    BY <1>2, <1>6, <1>7, <2>1
<1>13. log' \in Seq(LogLine)
  BY <1>3, <1>5
<1>14. QED
  BY <1>3, <1>6, <1>9, <1>10, <1>11, <1>12, <1>13 DEF OrderInv

\* Handing a line on moves its number from the head of the log to the end of
\* what was handed on.
LEMMA CopyOrder ==
  ASSUME CopierInv, OrderInv, CopyLine
  PROVE  OrderInv'
<1>1. PICK q \in Seq(LogLine) : q = log
  BY DEF OrderInv
<1>2. /\ log' = Tail(q) /\ q # <<>> /\ UNCHANGED <<program, written>>
      /\ Len(q) \in Nat /\ Len(q) >= 1 /\ Head(q) = q[1]
      /\ Tail(q) \in Seq(LogLine)
      /\ Len(Tail(q)) = Len(q) - 1
      /\ \A k \in 1 .. Len(q) - 1 : Tail(q)[k] = q[k + 1]
  <2>1. log' = Tail(q) /\ q # <<>> /\ UNCHANGED <<program, written>>
    BY <1>1 DEF CopyLine, command
  <2>2. QED
    BY <2>1, HeadTail
<1>3. CASE run = "returned"
  <2>1. late' = late + 1 /\ handled' = handled
    BY <1>3 DEF CopyLine
  <2>2. late' \in Nat /\ late' # 0
    BY <2>1 DEF OrderInv
  <2>3. QED
    BY <1>2, <2>1, <2>2 DEF OrderInv
<1>4. CASE run # "returned"
  <2>1. late = 0 /\ late' = 0
    BY <1>4 DEF CopyLine, CopierInv, OrderInv
  <2>2. PICK s \in Streams : s = q[1].stream
    BY <1>1, <1>2, <2>1, NextLine
  <2>3. PICK h \in Seq(Nat) : h = handled[s]
    BY DEF OrderInv
  <2>4. Len(h) \in Nat /\ q[1].line = Len(h) + 1 /\ Len(h) + 1 <= written[s]
    BY <1>1, <1>2, <2>1, <2>2, <2>3, NextLine
  <2>5. handled' = [handled EXCEPT ![s] = Append(h, Len(h) + 1)]
    BY <1>1, <1>2, <1>4, <2>2, <2>3, <2>4 DEF CopyLine
  <2>6. /\ Append(h, Len(h) + 1) \in Seq(Nat)
        /\ Len(Append(h, Len(h) + 1)) = Len(h) + 1
        /\ \A i \in 1 .. Len(h) : Append(h, Len(h) + 1)[i] = h[i]
        /\ Append(h, Len(h) + 1)[Len(h) + 1] = Len(h) + 1
    BY <2>4
  <2>7. /\ handled' \in [Streams -> Seq(Nat)] /\ handled'[s] = Append(h, Len(h) + 1)
        /\ Len(handled'[s]) = Len(h) + 1
        /\ \A t \in Streams : t # s => handled'[t] = handled[t]
    BY <2>5, <2>6 DEF OrderInv
  <2>8. \A t \in Streams : \A i \in 1 .. Len(handled'[t]) : handled'[t][i] = i
    <3>1. \A i \in 1 .. Len(handled'[s]) : handled'[s][i] = i
      BY <2>3, <2>4, <2>6, <2>7 DEF OrderInv
    <3>2. QED
      BY <2>7, <3>1 DEF OrderInv
  <2>9. \A t \in Streams : Len(handled'[t]) <= written'[t]
    BY <1>2, <2>4, <2>7 DEF OrderInv
  <2>10. \A j, k \in 1 .. Len(q) :
           j < k /\ q[j].stream = q[k].stream => q[j].line < q[k].line
    BY <1>1, <2>1 DEF OrderInv, LogSorted
  <2>11. LogFollows'
    <3> SUFFICES ASSUME NEW k \in 1 .. Len(log')
                 PROVE  /\ Len(handled'[log'[k].stream]) < log'[k].line
                        /\ log'[k].line <= written'[log'[k].stream]
      BY DEF LogFollows
    <3>1. k + 1 \in 1 .. Len(q) /\ log'[k] = q[k + 1]
      BY <1>2
    <3>2. PICK t \in Streams, n \in Nat : q[k + 1].stream = t /\ q[k + 1].line = n
      <4>1. q[k + 1] \in LogLine
        BY <3>1
      <4>2. QED
        BY <4>1 DEF LogLine
    <3>3. Len(handled[t]) < n /\ n <= written[t]
      BY <1>1, <2>1, <3>1, <3>2 DEF OrderInv, LogFollows
    <3>4. t = s => Len(h) + 1 < n
      BY <1>2, <2>2, <2>4, <2>10, <3>1, <3>2
    <3>5. QED
      BY <1>2, <2>7, <3>1, <3>2, <3>3, <3>4
  <2>12. LogSorted'
    <3> SUFFICES ASSUME NEW j \in 1 .. Len(log'), NEW k \in 1 .. Len(log'),
                        j < k, log'[j].stream = log'[k].stream
                 PROVE  log'[j].line < log'[k].line
      BY DEF LogSorted
    <3>1. j + 1 \in 1 .. Len(q) /\ k + 1 \in 1 .. Len(q) /\ j + 1 < k + 1
      BY <1>2
    <3>2. log'[j] = q[j + 1] /\ log'[k] = q[k + 1]
      BY <1>2
    <3>3. QED
      BY <2>10, <3>1, <3>2
  <2>13. LogGapless'
    <3> SUFFICES ASSUME NEW t \in Streams, NEW n \in Nat, Len(handled'[t]) < n, n <= written'[t]
                 PROVE  \E k \in 1 .. Len(log') : log'[k].stream = t /\ log'[k].line = n
      BY DEF LogGapless
    <3>1. Len(handled[t]) < n /\ n <= written[t] /\ (t = s => n # Len(h) + 1)
      BY <1>2, <2>3, <2>4, <2>7
    <3>2. PICK k \in 1 .. Len(q) : q[k].stream = t /\ q[k].line = n
      BY <1>1, <2>1, <3>1 DEF OrderInv, LogGapless
    <3>3. k # 1
      BY <2>2, <2>4, <3>1, <3>2
    <3>4. k - 1 \in 1 .. Len(log') /\ log'[k - 1] = q[k]
      BY <1>2, <3>2, <3>3
    <3>5. QED
      BY <3>2, <3>4
  <2>14. QED
    BY <1>2, <2>1, <2>7, <2>8, <2>9, <2>11, <2>12, <2>13 DEF OrderInv
<1>5. QED
  BY <1>3, <1>4

\* Every step keeps the lines of every stream together and in order.
LEMMA OrderStep == CopierInv /\ OrderInv /\ [Next]_vars => OrderInv'
<1> SUFFICES ASSUME CopierInv, OrderInv, [Next]_vars PROVE OrderInv'
  OBVIOUS
<1>1. ASSUME NEW s \in Streams, WriteLine(s)
      PROVE  OrderInv'
  BY <1>1, WriteOrder
<1>2. CASE CopyLine
  BY <1>2, CopyOrder
<1>3. CASE UNCHANGED <<program, written, log, handled, late>>
  BY <1>3 DEF OrderInv, LogFollows, LogSorted, LogGapless
<1>4. CASE ExitCommand \/ EndContext \/ AnswerWait \/ EndCopy
  BY <1>3, <1>4 DEF ExitCommand, EndContext, AnswerWait, EndCopy, command, copying, waiting
<1>5. CASE PullImage \/ CreateContainer \/ StartContainer \/ FollowLogs
  BY <1>3, <1>5 DEF PullImage, CreateContainer, StartContainer, FollowLogs, command, copying
<1>6. CASE Select \/ AwaitKill \/ Join \/ Remove \/ Return
  BY <1>3, <1>6 DEF Select, AwaitKill, Join, Remove, Return, command, copying
<1>7. CASE UNCHANGED vars
  BY <1>3, <1>7 DEF vars, command, copying
<1>8. QED
  BY <1>1, <1>2, <1>4, <1>5, <1>6, <1>7
     DEF Next, CommandStep, CopyStep, RunStep, Over

\* CompleteResult, made inductive: without an end of the context and without an
\* error the copier stops only at the end of the log of a container that is over.
CompleteInv ==
  /\ container = "exited" => written = program.lines
  /\ copyErr \in {"none", "error", "deadline", "canceled"}
  /\ copyErr = "canceled" => ctx # "live"
  /\ copier # "done" => copyErr = "none"
  /\ copier = "done" /\ copyErr = "none" => log = <<>> /\ container \in {"exited", "killed"}
  /\ run \in Leaving /\ result.err = "none" => copier = "done" /\ late = 0
  /\ run \in Leaving /\ result.err = "none" /\ ctx = "live" => copyErr = "none"

\* CompleteInv is inductive.
LEMMA CompleteStep ==
  CopierInv /\ DeadlineInv /\ OrderInv /\ CompleteInv /\ [Next]_vars => CompleteInv'
<1> SUFFICES ASSUME CopierInv, DeadlineInv, OrderInv, CompleteInv, [Next]_vars
             PROVE  CompleteInv'
  OBVIOUS
<1> USE DEF CompleteInv, Leaving, vars, command, copying, waiting
<1>1. CASE CommandStep
  BY <1>1 DEF CommandStep, ExitCommand, WriteLine
<1>2. CASE EndContext
  BY <1>2, DockerAssumption DEF EndContext
<1>3. CASE AnswerWait \/ CopyLine
  BY <1>3 DEF AnswerWait, CopyLine
<1>4. CASE EndCopy
  <2>1. \/ log = <<>> /\ container \in {"exited", "killed"} /\ copyErr' = copyErr
        \/ copyErr' \in RequestErrors
    BY <1>4 DEF EndCopy
  <2>2. QED
    BY <1>4, <2>1 DEF EndCopy, RequestErrors, CopierInv, DeadlineInv
<1>5. CASE PullImage \/ CreateContainer \/ StartContainer \/ FollowLogs
  BY <1>5, FailedIsError DEF PullImage, CreateContainer, StartContainer, FollowLogs, CopierInv
<1>6. CASE Select
  <2>1. CASE wait = "failed" /\ Failed(waitErr) /\ run' = "remove" /\ UNCHANGED container
    BY <1>6, <2>1, FailedIsError DEF Select
  <2>2. CASE run' \in {"join", "kill"}
    BY <1>6, <2>2 DEF Select
  <2>3. QED
    BY <1>6, <2>1, <2>2 DEF Select
<1>7. CASE AwaitKill
  BY <1>7 DEF AwaitKill
<1>8. CASE Join
  <2>1. CASE Failed(copyErr)
    BY <1>8, <2>1, FailedIsError DEF Join
  <2>2. CASE copyErr \in {"none", "canceled"}
    BY <1>8, <2>2 DEF Join, CopierInv, OrderInv
  <2>3. QED
    BY <1>8, <2>1, <2>2 DEF Join
<1>9. CASE Remove \/ Return
  BY <1>9 DEF Remove, Return
<1>10. CASE UNCHANGED vars
  BY <1>10
<1>11. QED
  BY <1>1, <1>2, <1>3, <1>4, <1>5, <1>6, <1>7, <1>8, <1>9, <1>10
     DEF Next, CopyStep, RunStep, Over

\* For every program, a command that ends before its context does, and is
\* reported without an error, is reported with its exit code and with all of its
\* output.
THEOREM ResultIsComplete == Spec => []CompleteResult
<1>1. Init => CopierInv /\ DeadlineInv /\ OrderInv /\ CompleteInv
  <2>1. Init => CopierInv /\ DeadlineInv /\ CompleteInv
    BY DockerAssumption
    DEF Init, CopierInv, DeadlineInv, CompleteInv, LateOnlyAfterError, Leaving, Blank, ProgramType
  <2>2. Init => OrderInv
    BY DockerAssumption DEF Init, OrderInv, LogFollows, LogSorted, LogGapless
  <2>3. QED
    BY <2>1, <2>2
<1>2. CopierInv /\ DeadlineInv /\ OrderInv /\ CompleteInv => CompleteResult
  <2> SUFFICES ASSUME CopierInv, DeadlineInv, OrderInv, CompleteInv,
                      run = "returned", result.err = "none", ctx = "live"
               PROVE  /\ container = "exited" /\ result.exit = program.exit
                      /\ \A s \in Streams : handled[s] = [i \in 1 .. program.lines[s] |-> i]
    BY DEF CompleteResult
  <2>1. /\ container = "exited" /\ result.exit = program.exit /\ written = program.lines
        /\ late = 0 /\ log = <<>>
    BY DEF DeadlineInv, CompleteInv, Leaving
  <2>2. ASSUME NEW s \in Streams
        PROVE  handled[s] = [i \in 1 .. program.lines[s] |-> i]
    <3>1. PICK h \in Seq(Nat) : h = handled[s]
      BY DEF OrderInv
    <3>2. Len(h) \in Nat /\ written[s] \in Nat /\ Len(h) <= written[s]
      BY <3>1 DEF OrderInv
    <3>3. ~(Len(h) < written[s])
      BY <2>1, <3>1, <3>2 DEF OrderInv, LogGapless
    <3>4. Len(h) = program.lines[s]
      BY <2>1, <3>2, <3>3
    <3>5. \A i \in 1 .. Len(h) : h[i] = i
      BY <3>1 DEF OrderInv
    <3>6. QED
      BY <3>1, <3>4, <3>5
  <2>3. QED
    BY <2>1, <2>2
<1>3. QED
  BY <1>1, <1>2, CopierStep, DeadlineStep, OrderStep, CompleteStep, PTL DEF Spec

\* A result of 0 without an error is that of a command that has exited with 0:
\* also when the context was over, and the container has been killed for it.
SuccessInv ==
  /\ wait = "answered" => container \in {"exited", "killed"}
  /\ run = "join" /\ result.exit = 0 => container = "exited" /\ program.exit = 0
  /\ run \in Leaving /\ result.err = "none" /\ result.exit = 0 =>
       container = "exited" /\ program.exit = 0

\* SuccessInv is inductive.
LEMMA SuccessStep == CopierInv /\ DeadlineInv /\ SuccessInv /\ [Next]_vars => SuccessInv'
<1> SUFFICES ASSUME CopierInv, DeadlineInv, SuccessInv, [Next]_vars PROVE SuccessInv'
  OBVIOUS
<1> USE DEF SuccessInv, Leaving, vars, command, copying, waiting
<1>1. CASE CommandStep \/ EndContext
  BY <1>1 DEF CommandStep, ExitCommand, WriteLine, EndContext
<1>2. CASE AnswerWait \/ CopyStep
  BY <1>2 DEF AnswerWait, CopyStep, CopyLine, EndCopy
<1>3. CASE PullImage \/ CreateContainer \/ StartContainer \/ FollowLogs
  BY <1>3, FailedIsError DEF PullImage, CreateContainer, StartContainer, FollowLogs, CopierInv
<1>4. CASE Select
  <2>1. CASE wait = "failed" /\ Failed(waitErr) /\ run' = "remove" /\ UNCHANGED container
    BY <1>4, <2>1, FailedIsError DEF Select
  <2>2. CASE wait = "answered" /\ result' = [result EXCEPT !.exit = StatusCode]
             /\ run' = "join" /\ UNCHANGED container
    BY <1>4, <2>2 DEF Select, StatusCode, Killed, DeadlineInv
  <2>3. CASE ctx # "live" /\ run' = "kill"
             /\ container' \in {container, IF container = "running" THEN "killed" ELSE container}
    BY <1>4, <2>3 DEF Select
  <2>4. QED
    BY <1>4, <2>1, <2>2, <2>3 DEF Select
<1>5. CASE AwaitKill
  <2>1. CASE wait = "answered" /\ result' = [result EXCEPT !.exit = StatusCode]
    BY <1>5, <2>1 DEF AwaitKill, StatusCode, Killed, DeadlineInv
  <2>2. CASE result' = [result EXCEPT !.exit = Killed]
    BY <1>5, <2>2 DEF AwaitKill, Killed, DeadlineInv
  <2>3. QED
    BY <1>5, <2>1, <2>2 DEF AwaitKill
<1>6. CASE Join
  <2>1. CASE Failed(copyErr)
    BY <1>6, <2>1, FailedIsError DEF Join
  <2>2. CASE result' = [result EXCEPT !.err = IF result.timedOut THEN "deadline" ELSE "none"]
    <3>1. result'.exit = result.exit
      BY <2>2 DEF DeadlineInv
    <3>2. QED
      BY <1>6, <3>1 DEF Join
  <2>3. QED
    BY <1>6, <2>1, <2>2 DEF Join
<1>7. CASE Remove \/ Return
  BY <1>7 DEF Remove, Return
<1>8. CASE UNCHANGED vars
  BY <1>8
<1>9. QED
  BY <1>1, <1>2, <1>3, <1>4, <1>5, <1>6, <1>7, <1>8 DEF Next, CopyStep, RunStep, Over

\* Every step of the executor is a step of the contract, or none.
LEMMA ContractStep ==
  CopierInv /\ RemovalInv /\ OrderInv /\ SuccessInv /\ [Next]_vars
    => [Contract!Next]_(Contract!vars)
<1> SUFFICES ASSUME CopierInv, RemovalInv, OrderInv, SuccessInv, [Next]_vars
             PROVE  [Contract!Next]_(Contract!vars)
  OBVIOUS
<1> USE DEF vars, command, copying, waiting, Contract!vars, Success
<1>1. ASSUME NEW s \in Streams, WriteLine(s)
      PROVE  Contract!Next
  <2>1. Contract!Write(s)
    BY <1>1 DEF WriteLine, Contract!Write
  <2>2. QED
    BY <2>1 DEF Contract!Next
<1>2. CASE ExitCommand
  <2>1. Contract!End(IF program.exit = 0 THEN "ok" ELSE "bad")
    BY <1>2 DEF ExitCommand, Contract!End
  <2>2. QED
    BY <2>1 DEF Contract!Next
<1>3. CASE EndContext \/ AnswerWait \/ EndCopy
  BY <1>3 DEF EndContext, AnswerWait, EndCopy
<1>4. CASE CopyLine
  <2>1. CASE run = "returned"
    BY <1>4, <2>1 DEF CopyLine
  <2>2. CASE run # "returned"
    <3>1. late = 0 /\ log # <<>>
      BY <1>4, <2>2 DEF CopyLine, CopierInv, OrderInv
    <3>2. PICK s \in Streams : s = Head(log).stream
      BY <3>1, NextLine
    <3>3. Len(handled[s]) + 1 <= written[s] /\ Head(log).line = Len(handled[s]) + 1
      BY <3>1, <3>2, NextLine
    <3>4. Len(handled[s]) \in Nat /\ written[s] \in Nat
      <4>1. handled[s] \in Seq(Nat)
        BY DEF OrderInv
      <4>2. QED
        BY <4>1 DEF OrderInv
    <3>5. Contract!Handle(s)
      BY <1>4, <2>2, <3>2, <3>3, <3>4 DEF CopyLine, Contract!Handle
    <3>6. QED
      BY <3>5 DEF Contract!Next
  <2>3. QED
    BY <2>1, <2>2
<1>5. CASE PullImage \/ CreateContainer \/ StartContainer \/ FollowLogs \/ AwaitKill \/ Join
  <2>1. run # "returned" /\ run' # "returned" /\ UNCHANGED <<program, written, handled>>
    BY <1>5 DEF PullImage, CreateContainer, StartContainer, FollowLogs, AwaitKill, Join
  <2>2. \/ UNCHANGED container
        \/ /\ container \in {"none", "created", "running"}
           /\ container' \in {"none", "created", "running"}
    BY <1>5 DEF PullImage, CreateContainer, StartContainer, FollowLogs, AwaitKill, Join, RemovalInv
  <2>3. QED
    BY <2>1, <2>2
<1>6. CASE Select \/ Remove
  <2>1. /\ run # "returned" /\ run' # "returned" /\ UNCHANGED <<program, written, handled>>
        /\ container' \in {container, IF container = "running" THEN "killed" ELSE container}
    BY <1>6 DEF Select, Remove
  <2>2. CASE UNCHANGED container
    BY <2>1, <2>2
  <2>3. CASE container = "running" /\ container' = "killed"
    <3>1. Contract!End("bad")
      BY <2>1, <2>3 DEF Contract!End
    <3>2. QED
      BY <3>1 DEF Contract!Next
  <2>4. QED
    BY <2>1, <2>2, <2>3
<1>7. CASE Return
  <2>1. CASE result.err = "none" /\ result.exit = 0
    <3>1. container = "exited" /\ program.exit = 0
      BY <1>7, <2>1 DEF Return, SuccessInv, Leaving
    <3>2. Contract!Return("success")
      BY <1>7, <2>1, <3>1 DEF Return, Contract!Return
    <3>3. QED
      BY <3>2 DEF Contract!Next
  <2>2. CASE ~(result.err = "none" /\ result.exit = 0)
    <3>1. Contract!Return("failure")
      BY <1>7, <2>2 DEF Return, Contract!Return
    <3>2. QED
      BY <3>1 DEF Contract!Next
  <2>3. QED
    BY <2>1, <2>2
<1>8. CASE UNCHANGED vars
  BY <1>8
<1>9. QED
  BY <1>1, <1>2, <1>3, <1>4, <1>5, <1>6, <1>7, <1>8
     DEF Next, CommandStep, CopyStep, RunStep, Over

\* For every program, DockerExecutor.Run keeps the contract of an executor: it
\* hands the lines on in order, none twice, and never returns success for a
\* command that has not exited with 0, whoever has ended its context.
THEOREM DockerKeepsContract == Spec => ImplementsContract
<1>1. Init => CopierInv /\ RemovalInv /\ DeadlineInv /\ SuccessInv
  BY DockerAssumption
  DEF Init, CopierInv, RemovalInv, DeadlineInv, SuccessInv, LateOnlyAfterError, Leaving, Blank,
      ProgramType
<1>2. Init => OrderInv
  BY DockerAssumption DEF Init, OrderInv, LogFollows, LogSorted, LogGapless
<1>3. Init => Contract!Init
  BY DEF Init, Contract!Init, Success
<1>4. QED
  BY <1>1, <1>2, <1>3, CopierStep, RemovalStep, DeadlineStep, OrderStep, SuccessStep,
     ContractStep, PTL DEF Spec, ImplementsContract, Contract!Spec

-----------------------------------------------------------------------------
(* Types *)

\* What Run makes of a command.
ResultType == [exit : Int, timedOut : BOOLEAN, err : {"none", "deadline", "error"}]

\* A result keeps its type when one of its fields gets a new value.
LEMMA ResultFields ==
  /\ Blank \in ResultType
  /\ \A r \in ResultType :
       /\ \A x \in Int : [r EXCEPT !.exit = x] \in ResultType
       /\ \A x \in BOOLEAN : [r EXCEPT !.timedOut = x] \in ResultType
       /\ \A x \in {"none", "deadline", "error"} : [r EXCEPT !.err = x] \in ResultType
<1>1. Blank \in ResultType
  BY DEF Blank, ResultType
<1>2. ASSUME NEW r \in ResultType, NEW x \in Int
      PROVE  [r EXCEPT !.exit = x] \in ResultType
  BY DEF ResultType
<1>3. ASSUME NEW r \in ResultType, NEW x \in BOOLEAN
      PROVE  [r EXCEPT !.timedOut = x] \in ResultType
  BY DEF ResultType
<1>4. ASSUME NEW r \in ResultType, NEW x \in {"none", "deadline", "error"}
      PROVE  [r EXCEPT !.err = x] \in ResultType
  BY DEF ResultType
<1>5. QED
  BY <1>1, <1>2, <1>3, <1>4

\* The errors and results of a request.
LEMMA RequestType ==
  ASSUME TypeOK
  PROVE  /\ RequestErrors \subseteq {"error", "deadline", "canceled"}
         /\ StatusCode \in Int
         /\ \A err \in {"none", "error", "deadline", "canceled"} : Failed(err) =>
              result' \in ResultType
<1>1. RequestErrors \subseteq {"error", "deadline", "canceled"}
  BY DockerAssumption DEF RequestErrors, TypeOK
<1>2. StatusCode \in Int
  BY DockerAssumption DEF StatusCode, Killed, TypeOK, ProgramType
<1>3. ASSUME NEW err \in {"none", "error", "deadline", "canceled"}, Failed(err)
      PROVE  result' \in ResultType
  <2>1. Reported(err) \in {"deadline", "error"}
    BY DEF Reported
  <2>2. QED
    BY <1>3, <2>1, ResultFields DEF Failed
<1>4. QED
  BY <1>1, <1>2, <1>3

\* Every step keeps the type of every variable.
LEMMA TypeStep == TypeOK /\ [Next]_vars => TypeOK'
<1> SUFFICES ASSUME TypeOK, [Next]_vars PROVE TypeOK'
  OBVIOUS
<1> USE DEF command, copying, waiting, vars
<1>0. result \in ResultType
  BY DEF TypeOK, ResultType
<1>1. ASSUME NEW s \in Streams, WriteLine(s)
      PROVE  TypeOK'
  <2>1. written' \in [Streams -> Nat]
    BY <1>1 DEF WriteLine, TypeOK
  <2>2. log' \in Seq([stream : Streams, line : Nat])
    <3>1. [stream |-> s, line |-> written[s] + 1] \in [stream : Streams, line : Nat]
      BY DEF TypeOK
    <3>2. QED
      BY <1>1, <3>1, AppendProperties DEF WriteLine, TypeOK
  <2>3. QED
    BY <1>1, <2>1, <2>2 DEF WriteLine, TypeOK
<1>2. CASE ExitCommand \/ EndContext
  BY <1>2 DEF ExitCommand, EndContext, TypeOK
<1>3. CASE AnswerWait \/ EndCopy
  BY <1>3, RequestType DEF AnswerWait, EndCopy, TypeOK
<1>4. CASE CopyLine
  <2>1. /\ Head(log) \in [stream : Streams, line : Nat]
        /\ Tail(log) \in Seq([stream : Streams, line : Nat])
    BY <1>4, HeadTailProperties DEF CopyLine, TypeOK
  <2>2. PICK t \in Streams, n \in Nat : t = Head(log).stream /\ n = Head(log).line
    BY <2>1
  <2>3. [handled EXCEPT ![t] = Append(@, n)] \in [Streams -> Seq(Nat)]
    BY DEF TypeOK
  <2>4. handled' \in [Streams -> Seq(Nat)] /\ late' \in Nat
    <3>1. handled' = handled \/ handled' = [handled EXCEPT ![t] = Append(@, n)]
      BY <1>4, <2>2 DEF CopyLine
    <3>2. late' = late \/ late' = late + 1
      BY <1>4 DEF CopyLine
    <3>3. QED
      <4>1. handled \in [Streams -> Seq(Nat)] /\ late \in Nat
        BY DEF TypeOK
      <4>2. late + 1 \in Nat
        BY <4>1
      <4>3. QED
        BY <2>3, <3>1, <3>2, <4>1, <4>2
  <2>5. QED
    BY <1>4, <2>1, <2>4 DEF CopyLine, TypeOK
<1>5. CASE PullImage \/ CreateContainer \/ StartContainer \/ FollowLogs
  <2>1. result' \in ResultType
    BY <1>5, RequestType
    DEF PullImage, CreateContainer, StartContainer, FollowLogs, TypeOK,
        ResultType
  <2>2. QED
    BY <1>5, <2>1 DEF PullImage, CreateContainer, StartContainer, FollowLogs, TypeOK, ResultType
<1>6. CASE Select \/ AwaitKill \/ Join
  <2>1. result' \in ResultType
    <3>1. CASE Select
      <4>1. waitErr \in {"none", "error", "deadline", "canceled"}
        BY DEF TypeOK
      <4>2. PICK t \in BOOLEAN : t = (ctx = "deadline")
        OBVIOUS
      <4>3. \/ Failed(waitErr)
            \/ result' = [result EXCEPT !.exit = StatusCode]
            \/ result' = [result EXCEPT !.timedOut = t]
        BY <3>1, <4>2 DEF Select
      <4>4. QED
        BY <1>0, <4>1, <4>3, RequestType, ResultFields
    <3>2. CASE AwaitKill
      <4>1. Killed \in Int
        BY DEF Killed
      <4>2. \/ result' = [result EXCEPT !.exit = StatusCode]
            \/ result' = [result EXCEPT !.exit = Killed]
        BY <3>2 DEF AwaitKill
      <4>3. QED
        BY <1>0, <4>1, <4>2, RequestType, ResultFields
    <3>3. CASE Join
      <4>1. copyErr \in {"none", "error", "deadline", "canceled"} /\ result.timedOut \in BOOLEAN
        BY DEF TypeOK
      <4>2. \/ Failed(copyErr)
            \/ result' = [result EXCEPT !.err = IF result.timedOut THEN "deadline" ELSE "none"]
        BY <3>3 DEF Join
      <4>3. QED
        BY <1>0, <4>1, <4>2, RequestType, ResultFields
    <3>4. QED
      BY <1>6, <3>1, <3>2, <3>3
  <2>2. QED
    BY <1>6, <2>1 DEF Select, AwaitKill, Join, TypeOK, ResultType
<1>7. CASE Remove \/ Return
  <2>1. /\ UNCHANGED <<ctx, program, written, copying, waiting, result>>
        /\ run' \in {"leave", "returned"} /\ removal' \in BOOLEAN
        /\ container' = container \/ container' = "killed"
    BY <1>7 DEF Remove, Return, TypeOK
  <2>2. QED
    BY <2>1 DEF TypeOK
<1>8. CASE UNCHANGED vars
  BY <1>8 DEF TypeOK
<1>9. QED
  BY <1>1, <1>2, <1>3, <1>4, <1>5, <1>6, <1>7, <1>8 DEF Next, CommandStep, CopyStep, RunStep, Over

\* Every variable keeps its type, for every program.
THEOREM TypeCorrect == Spec => []TypeOK
<1>1. Init => TypeOK
  <2> SUFFICES ASSUME Init PROVE TypeOK
    OBVIOUS
  <2>1. result \in ResultType
    BY ResultFields DEF Init
  <2>2. written \in [Streams -> Nat] /\ handled \in [Streams -> Seq(Nat)]
    BY DEF Init
  <2>3. log \in Seq([stream : Streams, line : Nat])
    BY DEF Init
  <2>4. QED
    BY <2>1, <2>2, <2>3 DEF Init, TypeOK, ResultType
<1>2. QED
  BY <1>1, TypeStep, PTL DEF Spec
=============================================================================
