------------------------ MODULE OpenSandboxExec_proofs ------------------------
(***************************************************************************)
(* Theorems about OpenSandboxExec, for every set of commands and every     *)
(* capacity of the connection and of the log channel: an exit code that has *)
(* reached the session is reported, a stream that was not cut makes a      *)
(* complete and true result, every command keeps the contract of an        *)
(* executor, and every variable keeps its type.  What the second and the   *)
(* third rest on is OrderInv: of every stream the log channel, the         *)
(* consumer and the connection hold the next lines, in this order.         *)
(***************************************************************************)
EXTENDS OpenSandboxExec, BackendExecutor_proofs

EventType == [kind : {"init", "line", "error"}, stream : Streams, line : Nat]

\* The goroutine of the stream is started once, and the channel is closed by
\* its last step.
CloseInv ==
  /\ net \in Seq(EventType)
  /\ written \in [Streams -> Nat]
  /\ program \in ProgramType
  /\ call = "new" => consumer = "off"
  /\ call = "init" => run = "exec"
  /\ closed => consumer = "done"
  /\ ctx = "live" /\ run = "status" => closed

\* FailureSurvives, made inductive: only a failing command sends an error event,
\* and nothing comes to the session after Run has seen the channel closed.
FailureInv ==
  /\ \A i \in 1 .. Len(net) : net[i].kind = "error" => program.exit # 0
  /\ code # {} => code = {program.exit} /\ program.exit # 0 /\ program.numeric
  /\ run = "returned" /\ result.err = "none" /\ ctx = "live" =>
       closed /\ (code # {} => result.exit # 0)

\* What a step on the connection may add is an event of the right type.
LEMMA TransmitType ==
  ASSUME CloseInv, NEW event \in EventType, Transmit(event)
  PROVE  net' \in Seq(EventType)
BY DEF CloseInv, Transmit

\* It adds it at the end, or nothing.
LEMMA TransmitEvents ==
  ASSUME CloseInv, NEW event \in EventType, Transmit(event),
         NEW i \in 1 .. Len(net')
  PROVE  net'[i] = event \/ (i \in 1 .. Len(net) /\ net'[i] = net[i])
BY DEF CloseInv, Transmit

\* A cut connection keeps a prefix.
LEMMA CutType ==
  ASSUME CloseInv, Cut
  PROVE  /\ net' \in Seq(EventType)
         /\ \A i \in 1 .. Len(net') : i \in 1 .. Len(net) /\ net'[i] = net[i]
<1>1. PICK n \in 0 .. Len(net) : net' = SubSeq(net, 1, n)
  BY DEF Cut
<1>2. QED
  BY <1>1 DEF CloseInv

\* The events execd sends have the type of an event.
LEMMA LineEvent ==
  ASSUME CloseInv, NEW s \in Streams
  PROVE  /\ Event("line", s, written[s] + 1) \in EventType
         /\ Event("error", "stderr", written["stderr"] + 1) \in EventType
         /\ Event("init", "stdout", 0) \in EventType
BY DEF CloseInv, Event, EventType, Streams

\* Every step keeps what the session and its channel are.
LEMMA CloseStep == CloseInv /\ [Next]_vars => CloseInv'
<1> SUFFICES ASSUME CloseInv, [Next]_vars PROVE CloseInv'
  OBVIOUS
<1> USE DEF executorVars, execd, connection, session, vars
<1>1. ASSUME NEW s \in Streams, WriteLine(s)
      PROVE  CloseInv'
  <2>1. written' = [written EXCEPT ![s] = @ + 1] /\ written'[s] = written[s] + 1
    BY <1>1 DEF WriteLine, CloseInv
  <2>2. net' \in Seq(EventType)
    BY <1>1, <2>1, LineEvent, TransmitType DEF WriteLine
  <2>3. QED
    BY <1>1, <2>1, <2>2 DEF WriteLine, CloseInv
<1>2. CASE Fail
  <2>1. /\ written' = [written EXCEPT !["stderr"] = @ + 1]
        /\ written'["stderr"] = written["stderr"] + 1
    BY <1>2 DEF Fail, CloseInv, Streams
  <2>2. net' \in Seq(EventType)
    BY <1>2, <2>1, LineEvent, TransmitType DEF Fail, Streams
  <2>3. QED
    BY <1>2, <2>1, <2>2 DEF Fail, CloseInv, Streams
<1>3. CASE ExitCommand \/ Abandon
  BY <1>3 DEF ExitCommand, Abandon, CloseInv
<1>4. CASE CutStream
  BY <1>4, CutType DEF CutStream, CloseInv
<1>5. CASE Request
  <2>1. <<Event("init", "stdout", 0)>> \in Seq(EventType)
    BY LineEvent DEF Streams
  <2>2. net' \in Seq(EventType)
    BY <1>5, <2>1 DEF Request, CloseInv
  <2>3. QED
    BY <1>5, <2>2 DEF Request, StartFailed, CloseInv
<1>6. CASE ReceiveInit \/ ReceiveError
  BY <1>6 DEF ReceiveInit, ReceiveError, Started, StartFailed, CloseInv
<1>7. CASE GiveUpExec
  BY <1>7, CutType DEF GiveUpExec, StartFailed, CloseInv
<1>8. CASE Consume
  <2>1. net' \in Seq(EventType)
    BY <1>8 DEF Consume, CloseInv
  <2>2. QED
    BY <1>8, <2>1 DEF Consume, ConsumerUnchanged, CloseInv
<1>9. CASE Send
  BY <1>9 DEF Send, SendUnchanged, ConsumerUnchanged, Finish, CloseInv
<1>10. CASE EndOfStream
  BY <1>10 DEF EndOfStream, ConsumerUnchanged, Finish, CloseInv
<1>11. CASE TakeChunk \/ EndOfLogs
  BY <1>11 DEF TakeChunk, Receive, EndOfLogs, SeeClosed, CloseInv
<1>12. CASE Interrupt
  BY <1>12 DEF Interrupt, StopWaiting, CloseInv
<1>13. CASE GetStatus
  BY <1>13 DEF GetStatus, Return, CloseInv
<1>14. CASE EndOfContext
  <2>1. ctx' # "live"
    BY <1>14, ExecutorAssumption DEF EndOfContext, EndContext
  <2>2. QED
    BY <1>14, <2>1 DEF EndOfContext, EndContext, CloseInv
<1>15. CASE UNCHANGED vars
  BY <1>15 DEF CloseInv
<1>16. QED
  BY <1>1, <1>2, <1>3, <1>4, <1>5, <1>6, <1>7, <1>8, <1>9, <1>10, <1>11, <1>12, <1>13,
     <1>14, <1>15 DEF Next, CommandStep, ExecStep, ConsumerStep, RunStep, Over

\* The status of a failed command is not 0, whichever way it comes.
LEMMA StatusOfFailure ==
  ASSUME FailureInv, CloseInv, code # {}, GetStatus
  PROVE  result'.exit # 0
<1>1. PICK reply : /\ Return(StatusCode(reply))
                   /\ reply = "final" => command \notin {"running", "failing"}
  BY DEF GetStatus
<1>2. FinalCode # 0 /\ code = {program.exit} /\ program.exit # 0
  BY DEF FailureInv, FinalCode, Interrupted, CloseInv, ProgramType
<1>3. StatusCode(reply) = {FinalCode} \/ StatusCode(reply) = {program.exit}
  BY <1>2 DEF StatusCode
<1>4. ExitOf(StatusCode(reply)) # 0
  BY <1>2, <1>3 DEF ExitOf
<1>5. result'.exit = ExitOf(StatusCode(reply))
  BY <1>1 DEF Return
<1>6. QED
  BY <1>4, <1>5

\* Every step keeps what is known of a failure.
LEMMA FailureStep == CloseInv /\ FailureInv /\ [Next]_vars => FailureInv'
<1> SUFFICES ASSUME CloseInv, FailureInv, [Next]_vars PROVE FailureInv'
  OBVIOUS
<1> USE DEF executorVars, execd, connection, session, vars
<1>1. ASSUME NEW s \in Streams, WriteLine(s)
      PROVE  FailureInv'
  <2>1. Event("line", s, written'[s]) \in EventType
    BY <1>1, LineEvent DEF WriteLine, CloseInv
  <2>2. ASSUME NEW i \in 1 .. Len(net')
        PROVE  net'[i].kind = "error" => program.exit # 0
    BY <1>1, <2>1, TransmitEvents DEF WriteLine, FailureInv, Event
  <2>3. QED
    BY <1>1, <2>2 DEF WriteLine, FailureInv
<1>2. CASE Fail
  BY <1>2 DEF Fail, FailureInv
<1>3. CASE ExitCommand \/ Abandon
  BY <1>3 DEF ExitCommand, Abandon, FailureInv
<1>4. CASE CutStream
  BY <1>4, CutType DEF CutStream, FailureInv
<1>5. CASE Request
  <2>1. ASSUME NEW i \in 1 .. Len(net')
        PROVE  net'[i].kind = "error" => program.exit # 0
    BY <1>5 DEF Request, FailureInv, Event
  <2>2. QED
    BY <1>5, <2>1 DEF Request, StartFailed, Nothing, FailureInv
<1>6. CASE ReceiveInit \/ ReceiveError
  BY <1>6 DEF ReceiveInit, ReceiveError, Started, StartFailed, Nothing, FailureInv
<1>7. CASE GiveUpExec
  BY <1>7, CutType DEF GiveUpExec, StartFailed, Nothing, FailureInv
<1>8. CASE Consume
  <2>1. \A i \in 1 .. Len(net') : i + 1 \in 1 .. Len(net) /\ net'[i] = net[i + 1]
    BY <1>8 DEF Consume, CloseInv
  <2>2. Head(net) = net[1] /\ 1 \in 1 .. Len(net)
    BY <1>8 DEF Consume, CloseInv
  <2>3. code' # {} => code' = {program.exit} /\ program.exit # 0 /\ program.numeric
    BY <1>8, <2>2 DEF Consume, CodeAfter, ConsumerUnchanged, FailureInv
  <2>4. ~closed
    BY <1>8 DEF Consume, CloseInv
  <2>5. QED
    BY <1>8, <2>1, <2>3, <2>4 DEF Consume, ConsumerUnchanged, FailureInv
<1>9. CASE Send
  BY <1>9 DEF Send, SendUnchanged, ConsumerUnchanged, Finish, FailureInv
<1>10. CASE EndOfStream
  BY <1>10 DEF EndOfStream, ConsumerUnchanged, Finish, FailureInv
<1>11. CASE TakeChunk \/ EndOfLogs
  BY <1>11 DEF TakeChunk, Receive, EndOfLogs, SeeClosed, FailureInv
<1>12. CASE Interrupt
  BY <1>12 DEF Interrupt, StopWaiting, FailureInv
<1>13. CASE GetStatus
  <2>1. ctx = "live" => closed
    BY <1>13 DEF GetStatus, Return, CloseInv
  <2>2. code # {} => result'.exit # 0
    BY <1>13, StatusOfFailure
  <2>3. QED
    BY <1>13, <2>1, <2>2 DEF GetStatus, Return, FailureInv
<1>14. CASE EndOfContext
  <2>1. ctx' # "live"
    BY <1>14, ExecutorAssumption DEF EndOfContext, EndContext
  <2>2. QED
    BY <1>14, <2>1 DEF EndOfContext, EndContext, FailureInv
<1>15. CASE UNCHANGED vars
  BY <1>15 DEF FailureInv
<1>16. QED
  BY <1>1, <1>2, <1>3, <1>4, <1>5, <1>6, <1>7, <1>8, <1>9, <1>10, <1>11, <1>12, <1>13,
     <1>14, <1>15 DEF Next, CommandStep, ExecStep, ConsumerStep, RunStep, Over

\* Once the session has the exit code of a failure, from an error event with a number
\* (consumeExecStream), BackendExecutor.Run reports a failure, wherever the stream is
\* cut and however the status request ends.
THEOREM FailureIsReported == Spec => []FailureSurvives
<1>1. Init => CloseInv /\ FailureInv
  BY StreamAssumption DEF Init, ExecutorInit, CloseInv, FailureInv
<1>2. FailureInv => FailureSurvives
  BY DEF FailureInv, FailureSurvives
<1>3. QED
  BY <1>1, <1>2, CloseStep, FailureStep, PTL DEF Spec

-----------------------------------------------------------------------------
(* Queues of lines: the connection and the log channel *)

\* Queue q holds line n of stream s.
Holds(q, s, n) == \E i \in 1 .. Len(q) : q[i].stream = s /\ q[i].line = n

\* The lines of a stream are in the order of their numbers.
Sorted(q) ==
  \A i, j \in 1 .. Len(q) : i < j /\ q[i].stream = q[j].stream => q[i].line < q[j].line

\* A line that follows those of its stream may be added at the end.
LEMMA AddLast ==
  ASSUME NEW S, NEW q \in Seq(S), NEW e \in S,
         \A x \in S : x.stream \in Streams /\ x.line \in Nat,
         Sorted(q), \A n \in Nat : Holds(q, e.stream, n) => n < e.line
  PROVE  /\ Sorted(Append(q, e))
         /\ \A s \in Streams : \A n \in Nat :
              Holds(Append(q, e), s, n) <=> Holds(q, s, n) \/ (e.stream = s /\ e.line = n)
<1> DEFINE r == Append(q, e)
<1>1. /\ r \in Seq(S) /\ Len(q) \in Nat /\ Len(r) = Len(q) + 1
      /\ \A i \in 1 .. Len(q) : r[i] = q[i]
      /\ r[Len(q) + 1] = e
  BY AppendProperties
<1> HIDE DEF r
<1>2. ASSUME NEW i \in 1 .. Len(q), q[i].stream = e.stream
      PROVE  q[i].line < e.line
  <2>1. q[i] \in S /\ q[i].line \in Nat
    OBVIOUS
  <2>2. Holds(q, e.stream, q[i].line)
    BY <1>2 DEF Holds
  <2>3. QED
    BY <2>1, <2>2
<1>3. Sorted(r)
  <2> SUFFICES ASSUME NEW i \in 1 .. Len(r), NEW j \in 1 .. Len(r), i < j, r[i].stream = r[j].stream
               PROVE  r[i].line < r[j].line
    BY DEF Sorted
  <2>1. i \in 1 .. Len(q) /\ r[i] = q[i]
    BY <1>1
  <2>2. CASE j = Len(q) + 1
    <3>1. q[i].stream = e.stream /\ r[j] = e
      BY <1>1, <2>1, <2>2
    <3>2. QED
      BY <1>2, <2>1, <3>1
  <2>3. CASE j \in 1 .. Len(q)
    <3>1. q[i].stream = q[j].stream /\ r[j] = q[j]
      BY <1>1, <2>1, <2>3
    <3>2. QED
      BY <2>1, <2>3, <3>1 DEF Sorted
  <2>4. j = Len(q) + 1 \/ j \in 1 .. Len(q)
    <3>1. PICK m \in Nat : Len(q) = m /\ Len(r) = m + 1
      BY <1>1
    <3>2. j \in 1 .. (m + 1)
      BY <3>1
    <3>3. j = m + 1 \/ j \in 1 .. m
      BY <3>2
    <3>4. QED
      BY <3>1, <3>3
  <2>5. QED
    BY <2>2, <2>3, <2>4
<1>4. ASSUME NEW s \in Streams, NEW n \in Nat
      PROVE  Holds(r, s, n) <=> Holds(q, s, n) \/ (e.stream = s /\ e.line = n)
  <2>1. Holds(r, s, n) => Holds(q, s, n) \/ (e.stream = s /\ e.line = n)
    BY <1>1 DEF Holds
  <2>2. Holds(q, s, n) => Holds(r, s, n)
    BY <1>1 DEF Holds
  <2>3. e.stream = s /\ e.line = n => Holds(r, s, n)
    BY <1>1 DEF Holds
  <2>4. QED
    BY <2>1, <2>2, <2>3
<1>5. QED
  BY <1>3, <1>4 DEF r

\* The first line precedes the others of its stream; without it they remain.
LEMMA TakeFirst ==
  ASSUME NEW S, NEW q \in Seq(S), q # <<>>,
         \A x \in S : x.stream \in Streams /\ x.line \in Nat,
         Sorted(q)
  PROVE  /\ Head(q) \in S /\ Tail(q) \in Seq(S) /\ Sorted(Tail(q))
         /\ Holds(q, Head(q).stream, Head(q).line)
         /\ \A n \in Nat : Holds(q, Head(q).stream, n) => Head(q).line <= n
         /\ \A s \in Streams : \A n \in Nat :
              Holds(Tail(q), s, n) <=> Holds(q, s, n) /\ ~(Head(q).stream = s /\ Head(q).line = n)
<1> DEFINE h == Head(q)
           r == Tail(q)
<1>1. /\ h \in S /\ r \in Seq(S) /\ Len(r) = Len(q) - 1
      /\ \A i \in 1 .. Len(r) : r[i] = q[i + 1]
  BY HeadTailProperties
<1>2. Len(q) \in Nat /\ Len(q) # 0 /\ h = q[1]
  OBVIOUS
<1> HIDE DEF h, r
<1>3. ASSUME NEW i \in 1 .. Len(q), i # 1, q[i].stream = h.stream
      PROVE  h.line < q[i].line
  BY <1>2, <1>3 DEF Sorted
<1>4. Sorted(r)
  <2> SUFFICES ASSUME NEW i \in 1 .. Len(r), NEW j \in 1 .. Len(r), i < j, r[i].stream = r[j].stream
               PROVE  r[i].line < r[j].line
    BY DEF Sorted
  <2>1. i + 1 \in 1 .. Len(q) /\ j + 1 \in 1 .. Len(q) /\ i + 1 < j + 1
    BY <1>1, <1>2
  <2>2. QED
    BY <1>1, <2>1 DEF Sorted
<1>5. Holds(q, h.stream, h.line)
  BY <1>2 DEF Holds
<1>6. ASSUME NEW n \in Nat, Holds(q, h.stream, n)
      PROVE  h.line <= n
  <2>1. PICK i \in 1 .. Len(q) : q[i].stream = h.stream /\ q[i].line = n
    BY <1>6 DEF Holds
  <2>2. h.line \in Nat
    BY <1>1
  <2>3. QED
    BY <1>2, <1>3, <2>1, <2>2
<1>7. ASSUME NEW s \in Streams, NEW n \in Nat
      PROVE  Holds(r, s, n) <=> Holds(q, s, n) /\ ~(h.stream = s /\ h.line = n)
  <2>1. ASSUME Holds(r, s, n)
        PROVE  Holds(q, s, n) /\ ~(h.stream = s /\ h.line = n)
    <3>1. PICK i \in 1 .. Len(r) : r[i].stream = s /\ r[i].line = n
      BY <2>1 DEF Holds
    <3>2. i + 1 \in 1 .. Len(q) /\ q[i + 1].stream = s /\ q[i + 1].line = n /\ i + 1 # 1
      BY <1>1, <1>2, <3>1
    <3>3. h.stream = s => h.line < n
      BY <1>3, <3>2
    <3>4. QED
      BY <3>2, <3>3 DEF Holds
  <2>2. ASSUME Holds(q, s, n), ~(h.stream = s /\ h.line = n)
        PROVE  Holds(r, s, n)
    <3>1. PICK i \in 1 .. Len(q) : q[i].stream = s /\ q[i].line = n
      BY <2>2 DEF Holds
    <3>2. i # 1
      BY <1>2, <2>2, <3>1
    <3>3. i - 1 \in 1 .. Len(r) /\ r[i - 1] = q[i]
      BY <1>1, <1>2, <3>1, <3>2
    <3>4. QED
      BY <3>1, <3>3 DEF Holds
  <2>3. QED
    BY <2>1, <2>2
<1>8. QED
  BY <1>1, <1>4, <1>5, <1>6, <1>7 DEF h, r

\* What is left of a queue whose end is cut off.
LEMMA KeepFront ==
  ASSUME NEW S, NEW q \in Seq(S), NEW k \in 0 .. Len(q),
         \A x \in S : x.stream \in Streams /\ x.line \in Nat,
         Sorted(q)
  PROVE  /\ SubSeq(q, 1, k) \in Seq(S) /\ Sorted(SubSeq(q, 1, k))
         /\ \A s \in Streams : \A n \in Nat : Holds(SubSeq(q, 1, k), s, n) =>
              /\ Holds(q, s, n)
              /\ \A m \in Nat : m < n /\ Holds(q, s, m) => Holds(SubSeq(q, 1, k), s, m)
<1> DEFINE r == SubSeq(q, 1, k)
<1>1. Len(q) \in Nat /\ k \in Nat
  OBVIOUS
<1>2. r \in Seq(S) /\ Len(r) = k /\ \A i \in 1 .. k : r[i] = q[i]
  <2>1. \A i \in 1 .. k : q[i] \in S
    BY <1>1
  <2>2. QED
    BY <1>1, <2>1, SubSeqProperties
<1> HIDE DEF r
<1>3. Sorted(r)
  <2> SUFFICES ASSUME NEW i \in 1 .. k, NEW j \in 1 .. k, i < j, r[i].stream = r[j].stream
               PROVE  r[i].line < r[j].line
    BY <1>2 DEF Sorted
  <2>1. i \in 1 .. Len(q) /\ j \in 1 .. Len(q) /\ r[i] = q[i] /\ r[j] = q[j]
    BY <1>1, <1>2
  <2>2. QED
    BY <2>1 DEF Sorted
<1>4. ASSUME NEW s \in Streams, NEW n \in Nat, Holds(r, s, n)
      PROVE  /\ Holds(q, s, n)
             /\ \A m \in Nat : m < n /\ Holds(q, s, m) => Holds(r, s, m)
  <2>1. PICK i \in 1 .. k : r[i].stream = s /\ r[i].line = n /\ q[i] = r[i] /\ i \in 1 .. Len(q)
    BY <1>1, <1>2, <1>4 DEF Holds
  <2>2. ASSUME NEW m \in Nat, m < n, Holds(q, s, m)
        PROVE  Holds(r, s, m)
    <3>1. PICK j \in 1 .. Len(q) : q[j].stream = s /\ q[j].line = m
      BY <2>2 DEF Holds
    <3>2. ~(i < j)
      <4>1. i < j => n < m
        BY <2>1, <3>1 DEF Sorted
      <4>2. QED
        BY <2>2, <4>1
    <3>3. j \in 1 .. k /\ r[j] = q[j]
      BY <1>1, <1>2, <2>1, <3>1, <3>2
    <3>4. QED
      BY <1>2, <3>1, <3>3 DEF Holds
  <2>3. QED
    BY <2>1, <2>2 DEF Holds
<1>5. QED
  BY <1>2, <1>3, <1>4 DEF r

-----------------------------------------------------------------------------
(* The lines between execd and the handler *)

\* An event on the connection: only the first one, which is no line, has number 0.
GoodEvent == {e \in EventType : e.kind = "init" <=> e.line = 0}

\* The consumer holds a line of stream s.
Holding(s) == consumer = "send" /\ held.stream = s

\* The lines of stream s up to number last are handed on or in the log channel.
LogLines(s, last) ==
  /\ Len(handled[s]) <= last
  /\ \A n \in Nat : Holds(logs, s, n) <=> Len(handled[s]) < n /\ n <= last

\* The connection continues with the line after next, without a gap; it ends with
\* the last line that was written, if it was not cut.
NetLines(s, next) ==
  /\ \A n \in Nat \ {0} : Holds(net, s, n) => next < n /\ n <= written[s]
  /\ \A n \in Nat \ {0} : \A m \in Nat \ {0} :
       Holds(net, s, n) /\ next < m /\ m < n => Holds(net, s, m)
  /\ netState # "cut" => \A m \in Nat \ {0} : next < m /\ m <= written[s] => Holds(net, s, m)

\* The connection continues behind the log channel and what the consumer holds.
After(s, last) == IF Holding(s) THEN last + 1 ELSE last

\* Of every stream the log channel, the consumer and the connection hold the next
\* lines, in this order, as long as somebody reads them; and if the context lives
\* and the connection was not cut, the consumer does not end before the stream.
StreamInv(s) ==
  \E last \in Nat :
    /\ LogLines(s, last)
    /\ last <= written[s]
    /\ Holding(s) => held.line = last + 1 /\ last + 1 <= written[s]
    /\ consumer # "done" => NetLines(s, After(s, last))
    /\ consumer = "done" /\ ctx = "live" /\ netState # "cut" => last = written[s]

\* What is between execd and the handler is in order.
OrderInv ==
  /\ program \in ProgramType
  /\ ctx \in {"live"} \cup CtxEnds
  /\ netState \in {"open", "ended", "cut"}
  /\ written \in [Streams -> Nat]
  /\ handled \in [Streams -> Seq(Nat)]
  /\ logs \in Seq(ChunkType) /\ Sorted(logs)
  /\ held \in ChunkType
  /\ net \in Seq(GoodEvent) /\ (consumer # "done" => Sorted(net))
  /\ \A s \in Streams : \A i \in 1 .. Len(handled[s]) : handled[s][i] = i
  /\ \A s \in Streams : StreamInv(s)
  /\ call = "new" => command = "none" /\ consumer = "off" /\ \A s \in Streams : written[s] = 0
  /\ command = "none" => net = <<>>
  /\ netState = "ended" => command = "exited"
  /\ consumer = "done" /\ ctx = "live" => netState # "open"

\* Both kinds of records have a stream and a number.
LEMMA LineTypes ==
  /\ \A x \in ChunkType : x.stream \in Streams /\ x.line \in Nat
  /\ \A x \in GoodEvent : x \in EventType /\ x.stream \in Streams /\ x.line \in Nat
BY DEF ChunkType, GoodEvent, EventType

\* A step that does not touch the lines of a stream keeps them in order.
LEMMA SameStream ==
  ASSUME NEW s \in Streams, StreamInv(s),
         UNCHANGED <<written, handled, logs, net>>,
         Holding(s)' = Holding(s), Holding(s) => UNCHANGED held,
         consumer = "done" => consumer' = "done",
         consumer' = "done" => consumer = "done" \/ ctx' # "live",
         ctx' = "live" => ctx = "live",
         netState = "cut" => netState' = "cut"
  PROVE  StreamInv(s)'
<1>1. PICK last \in Nat :
        /\ LogLines(s, last) /\ last <= written[s]
        /\ Holding(s) => held.line = last + 1 /\ last + 1 <= written[s]
        /\ consumer # "done" => NetLines(s, After(s, last))
        /\ consumer = "done" /\ ctx = "live" /\ netState # "cut" => last = written[s]
  BY DEF StreamInv
<1>2. LogLines(s, last)'
  BY <1>1 DEF LogLines
<1>3. \A next \in Nat : NetLines(s, next) => NetLines(s, next)'
  BY DEF NetLines
<1>4. consumer' # "done" => NetLines(s, After(s, last))'
  <2>1. CASE Holding(s)
    BY <1>1, <1>3, <2>1 DEF After
  <2>2. CASE ~Holding(s)
    BY <1>1, <1>3, <2>2 DEF After
  <2>3. QED
    BY <2>1, <2>2
<1>5. QED
  BY <1>1, <1>2, <1>4 DEF StreamInv

\* execd sends the next line of a stream.
LEMMA TransmitOrder ==
  ASSUME OrderInv, NEW s \in Streams, NEW kind \in {"line", "error"},
         Transmit(Event(kind, s, written'[s])), command = "running",
         written' = [written EXCEPT ![s] = @ + 1],
         UNCHANGED <<program, ctx, netState, handled, logs, held, consumer, call>>,
         command' \in {"running", "failing"}
  PROVE  OrderInv'
<1>1. PICK w \in Nat : w = written[s]
  BY DEF OrderInv
<1>2. /\ written' \in [Streams -> Nat] /\ written'[s] = w + 1
      /\ \A t \in Streams : t # s => written'[t] = written[t]
  BY <1>1 DEF OrderInv
<1>3. PICK e \in GoodEvent : e = Event(kind, s, w + 1) /\ e.stream = s /\ e.line = w + 1
  <2>1. /\ Event(kind, s, w + 1) \in EventType /\ Event(kind, s, w + 1).line # 0
        /\ Event(kind, s, w + 1).kind # "init"
    BY <1>1 DEF Event, EventType
  <2>2. QED
    BY <2>1 DEF GoodEvent, Event
<1>4. ASSUME NEW t \in Streams
      PROVE  \E last \in Nat :
        /\ LogLines(t, last)' /\ LogLines(t, last)
        /\ last <= written[t] /\ written[t] \in Nat /\ last <= written'[t]
        /\ Holding(t) => held.line = last + 1 /\ last + 1 <= written[t] /\ last + 1 <= written'[t]
        /\ After(t, last) \in Nat /\ After(t, last) <= written[t]
        /\ consumer # "done" => NetLines(t, After(t, last))
        /\ consumer = "done" /\ ctx = "live" /\ netState # "cut" => last = written[t]
  <2>1. PICK last \in Nat :
        /\ LogLines(t, last) /\ last <= written[t] /\ written[t] \in Nat
        /\ Holding(t) => held.line = last + 1 /\ last + 1 <= written[t]
        /\ consumer # "done" => NetLines(t, After(t, last))
        /\ consumer = "done" /\ ctx = "live" /\ netState # "cut" => last = written[t]
    BY DEF OrderInv, StreamInv
  <2>2. written'[t] \in Nat /\ written[t] <= written'[t]
    BY <1>1, <1>2, <2>1
  <2>3. LogLines(t, last)'
    BY <2>1 DEF LogLines
  <2>4. After(t, last) \in Nat /\ After(t, last) <= written[t]
    BY <2>1 DEF After
  <2>5. QED
    BY <2>1, <2>2, <2>3, <2>4
<1>5. netState # "ended"
  BY DEF OrderInv
<1>6. \A t \in Streams : Holding(t)' = Holding(t)
  BY DEF Holding
<1>7. CASE netState = "cut"
  <2>1. net' = net
    BY <1>7 DEF Transmit
  <2>2. ASSUME NEW t \in Streams
        PROVE  StreamInv(t)'
    <3>1. PICK last \in Nat :
        /\ LogLines(t, last)'
        /\ last <= written[t] /\ written[t] \in Nat /\ last <= written'[t]
        /\ Holding(t) => held.line = last + 1 /\ last + 1 <= written'[t]
        /\ consumer # "done" => NetLines(t, After(t, last))
      BY <1>4
    <3>2. written'[t] \in Nat /\ written[t] <= written'[t]
      BY <1>1, <1>2, <3>1
    <3>3. ASSUME NEW next \in Nat, NetLines(t, next)
          PROVE  NetLines(t, next)'
      BY <1>7, <2>1, <3>1, <3>2, <3>3 DEF NetLines
    <3>4. consumer # "done" => NetLines(t, After(t, last))'
      <4>1. CASE Holding(t)
        BY <1>6, <3>1, <3>3, <4>1 DEF After
      <4>2. CASE ~Holding(t)
        BY <1>6, <3>1, <3>3, <4>2 DEF After
      <4>3. QED
        BY <4>1, <4>2
    <3>5. QED
      BY <1>6, <1>7, <3>1, <3>4 DEF StreamInv
  <2>3. QED
    BY <1>2, <1>7, <2>1, <2>2 DEF OrderInv
<1>8. CASE netState = "open" /\ consumer = "done"
  <2>1. net' = Append(net, e) /\ ctx # "live"
    BY <1>2, <1>3, <1>8 DEF Transmit, OrderInv
  <2>2. net' \in Seq(GoodEvent)
    BY <2>1, AppendProperties DEF OrderInv
  <2>3. ASSUME NEW t \in Streams
        PROVE  StreamInv(t)'
    <3>1. PICK last \in Nat : LogLines(t, last)' /\ last <= written'[t]
      BY <1>4
    <3>2. ~Holding(t)'
      BY <1>8 DEF Holding
    <3>3. QED
      BY <1>8, <2>1, <3>1, <3>2 DEF StreamInv
  <2>4. QED
    BY <1>2, <1>8, <2>1, <2>2, <2>3 DEF OrderInv
<1>9. CASE netState = "open" /\ consumer # "done"
  <2>1. net' = Append(net, e) /\ net \in Seq(GoodEvent) /\ Sorted(net)
    BY <1>2, <1>3, <1>9 DEF Transmit, OrderInv
  <2>2. \A n \in Nat : Holds(net, s, n) => n < w + 1
    <3>1. PICK last \in Nat : NetLines(s, After(s, last))
      BY <1>4, <1>9
    <3>2. \A n \in Nat \ {0} : Holds(net, s, n) => n <= w
      BY <1>1, <3>1 DEF NetLines
    <3>3. QED
      BY <1>1, <3>2
  <2>3. /\ Sorted(net')
        /\ \A t \in Streams : \A n \in Nat :
             Holds(net', t, n) <=> Holds(net, t, n) \/ (s = t /\ w + 1 = n)
    BY <1>3, <2>1, <2>2, LineTypes, AddLast
  <2>4. net' \in Seq(GoodEvent)
    BY <2>1, AppendProperties
  <2>5. ASSUME NEW t \in Streams
        PROVE  StreamInv(t)'
    <3>1. PICK last \in Nat :
        /\ LogLines(t, last)'
        /\ last <= written[t] /\ written[t] \in Nat /\ last <= written'[t]
        /\ Holding(t) => held.line = last + 1 /\ last + 1 <= written'[t]
        /\ After(t, last) \in Nat /\ After(t, last) <= written[t]
        /\ NetLines(t, After(t, last))
      BY <1>4, <1>9
    <3>2. PICK next \in Nat : next = After(t, last)
      BY <3>1
    <3>3. /\ next <= written[t] /\ NetLines(t, next)
          /\ \A m \in Nat \ {0} : next < m /\ m <= written[t] => Holds(net, t, m)
      BY <1>9, <3>1, <3>2 DEF NetLines
    <3>4. NetLines(t, next)'
      <4>1. CASE t = s
        <5>1. \A n \in Nat \ {0} : Holds(net', s, n) => next < n /\ n <= w + 1
          BY <1>1, <2>3, <3>3, <4>1 DEF NetLines
        <5>2. \A m \in Nat \ {0} : next < m /\ m <= w + 1 => Holds(net', s, m)
          BY <1>1, <2>3, <3>3, <4>1
        <5>3. \A n \in Nat \ {0} : \A m \in Nat \ {0} :
                Holds(net', s, n) /\ next < m /\ m < n => Holds(net', s, m)
          BY <1>1, <5>1, <5>2
        <5>4. QED
          BY <1>2, <4>1, <5>1, <5>2, <5>3 DEF NetLines, Holds
      <4>2. CASE t # s
        <5>1. \A n \in Nat \ {0} : Holds(net', t, n) <=> Holds(net, t, n)
          BY <2>3, <4>2
        <5>2. written'[t] = written[t]
          BY <1>2, <4>2
        <5>3. QED
          BY <3>3, <5>1, <5>2 DEF NetLines, Holds
      <4>3. QED
        BY <4>1, <4>2
    <3>5. After(t, last)' = next
      BY <1>6, <3>2 DEF After
    <3>6. NetLines(t, After(t, last))'
      BY <3>4, <3>5 DEF NetLines
    <3>7. QED
      BY <1>6, <1>9, <3>1, <3>6 DEF StreamInv
  <2>6. QED
    BY <1>2, <1>9, <2>3, <2>4, <2>5 DEF OrderInv
<1>10. QED
  BY <1>5, <1>7, <1>8, <1>9 DEF OrderInv

\* A connection that is cut keeps what is at its front.
LEMMA CutOrder ==
  ASSUME OrderInv, Cut, call # "new",
         UNCHANGED <<program, ctx, command, written, handled, logs, held, consumer>>,
         call' # "new"
  PROVE  OrderInv'
<1>1. PICK k \in 0 .. Len(net) : net' = SubSeq(net, 1, k)
  BY DEF Cut
<1>2. net' \in Seq(GoodEvent) /\ (net = <<>> => net' = <<>>)
  <2>1. Len(net) \in Nat /\ k \in Nat /\ net \in Seq(GoodEvent)
    BY DEF OrderInv
  <2>2. \A i \in 1 .. k : net[i] \in GoodEvent
    BY <2>1
  <2>3. net = <<>> => k = 0
    BY <2>1
  <2>4. QED
    BY <1>1, <2>1, <2>2, <2>3, SubSeqProperties, SubSeqEmpty
<1>3. ASSUME consumer # "done"
      PROVE  /\ Sorted(net')
             /\ \A s \in Streams : \A n \in Nat : Holds(net', s, n) =>
                  /\ Holds(net, s, n)
                  /\ \A m \in Nat : m < n /\ Holds(net, s, m) => Holds(net', s, m)
  <2>1. net \in Seq(GoodEvent) /\ Sorted(net)
    BY <1>3 DEF OrderInv
  <2>2. QED
    BY <1>1, <2>1, LineTypes, KeepFront
<1>4. ASSUME NEW s \in Streams
      PROVE  StreamInv(s)'
  <2>1. PICK last \in Nat :
        /\ LogLines(s, last) /\ last <= written[s]
        /\ Holding(s) => held.line = last + 1 /\ last + 1 <= written[s]
        /\ consumer # "done" => NetLines(s, After(s, last))
    BY DEF OrderInv, StreamInv
  <2>2. LogLines(s, last)' /\ Holding(s)' = Holding(s)
    BY <2>1 DEF LogLines, Holding
  <2>3. netState' = "cut"
    BY DEF Cut
  <2>4. PICK next \in Nat : next = After(s, last) /\ After(s, last)' = next
    BY <2>2 DEF After
  <2>5. consumer # "done" => NetLines(s, next)'
    <3>1. ASSUME consumer # "done"
          PROVE  /\ \A n \in Nat \ {0} : Holds(net', s, n) => next < n /\ n <= written[s]
                 /\ \A n \in Nat \ {0} : \A m \in Nat \ {0} :
                      Holds(net', s, n) /\ next < m /\ m < n => Holds(net', s, m)
      BY <1>3, <2>1, <2>4, <3>1 DEF NetLines
    <3>2. QED
      BY <2>3, <3>1 DEF NetLines, Holds
  <2>6. consumer' # "done" => NetLines(s, After(s, last))'
    BY <2>4, <2>5 DEF NetLines
  <2>7. QED
    BY <2>1, <2>2, <2>3, <2>6 DEF StreamInv
<1>5. QED
  BY <1>2, <1>3, <1>4 DEF OrderInv, Cut

\* The request brings the first event, or nothing.
LEMMA RequestOrder ==
  ASSUME OrderInv, Request
  PROVE  OrderInv'
<1>1. /\ call = "new" /\ command = "none" /\ consumer = "off" /\ net = <<>>
      /\ \A s \in Streams : written[s] = 0
      /\ UNCHANGED <<ctx, program, written, handled, logs, held>>
      /\ call' # "new" /\ command' \in {"none", "running"}
  BY DEF Request, StartFailed, executorVars, OrderInv
<1>2. /\ net' \in Seq(GoodEvent) /\ Sorted(net') /\ (command' = "none" => net' = <<>>)
      /\ \A s \in Streams : \A n \in Nat \ {0} : ~Holds(net', s, n)
  <2>1. CASE net' = <<>>
    BY <2>1 DEF Sorted, Holds
  <2>2. CASE net' = <<Event("init", "stdout", 0)>> /\ command' = "running"
    <3>1. PICK e \in GoodEvent : e = Event("init", "stdout", 0) /\ e.line = 0
      <4>1. /\ Event("init", "stdout", 0) \in EventType /\ Event("init", "stdout", 0).line = 0
            /\ Event("init", "stdout", 0).kind = "init"
        BY DEF Event, EventType, Streams
      <4>2. QED
        BY <4>1 DEF GoodEvent
    <3>2. net' = <<e>> /\ net' \in Seq(GoodEvent) /\ Len(net') = 1 /\ net'[1] = e
      BY <2>2, <3>1
    <3>3. QED
      BY <2>2, <3>1, <3>2 DEF Sorted, Holds
  <2>3. QED
    BY <1>1, <2>1, <2>2 DEF Request
<1>3. ASSUME NEW s \in Streams
      PROVE  StreamInv(s)'
  <2>1. PICK last \in Nat : LogLines(s, last) /\ last <= written[s]
    BY DEF OrderInv, StreamInv
  <2>2. last = 0 /\ written'[s] = 0
    BY <1>1, <2>1
  <2>3. LogLines(s, last)'
    BY <1>1, <2>1 DEF LogLines
  <2>4. consumer' \in {"off", "read"}
    BY <1>1 DEF Request
  <2>5. ~Holding(s)' /\ After(s, last)' = last
    BY <2>4 DEF Holding, After
  <2>6. NetLines(s, last)'
    BY <1>2, <2>2 DEF NetLines, Holds
  <2>7. NetLines(s, After(s, last))'
    BY <2>5, <2>6 DEF NetLines
  <2>8. QED
    BY <2>2, <2>3, <2>4, <2>5, <2>7 DEF StreamInv
<1>4. consumer' \in {"off", "read"} /\ netState' \in {"open", "ended", "cut"}
      /\ (netState' = "ended" => command' = "exited")
  BY <1>1 DEF Request, OrderInv
<1>5. QED
  BY <1>1, <1>2, <1>3, <1>4 DEF OrderInv

\* An event that is read moves its line from the front of the connection to the
\* consumer.
LEMMA ConsumeOrder ==
  ASSUME OrderInv, Consume
  PROVE  OrderInv'
<1>1. /\ consumer = "read" /\ net # <<>> /\ net' = Tail(net)
      /\ UNCHANGED <<ctx, program, command, written, handled, logs, netState, call>>
      /\ call # "new" /\ command # "none"
  BY DEF Consume, ConsumerUnchanged, execd, OrderInv
<1>2. PICK e \in GoodEvent : e = Head(net)
  <2>1. net \in Seq(GoodEvent) /\ net # <<>>
    BY <1>1 DEF OrderInv
  <2>2. QED
    BY <2>1, HeadTailProperties
<1>3. PICK t \in Streams, k \in Nat : t = e.stream /\ k = e.line
  BY LineTypes
<1>4. /\ net' \in Seq(GoodEvent) /\ Sorted(net') /\ Holds(net, t, k)
      /\ \A n \in Nat : Holds(net, t, n) => k <= n
      /\ \A s \in Streams : \A n \in Nat :
           Holds(net', s, n) <=> Holds(net, s, n) /\ ~(t = s /\ k = n)
  <2>1. net \in Seq(GoodEvent) /\ Sorted(net)
    BY <1>1 DEF OrderInv
  <2>2. QED
    BY <1>1, <1>2, <1>3, <2>1, LineTypes, TakeFirst
<1>5. ASSUME NEW s \in Streams
      PROVE  \E last \in Nat :
        /\ LogLines(s, last) /\ LogLines(s, last)' /\ last <= written[s] /\ written[s] \in Nat
        /\ NetLines(s, last)
  <2>1. PICK last \in Nat :
        /\ LogLines(s, last) /\ last <= written[s] /\ NetLines(s, After(s, last))
    BY <1>1 DEF OrderInv, StreamInv
  <2>2. After(s, last) = last /\ LogLines(s, last)' /\ written[s] \in Nat
    BY <1>1, <2>1 DEF After, Holding, LogLines, OrderInv
  <2>3. QED
    BY <2>1, <2>2
  \* A stream whose front is as it was.
<1>6. ASSUME NEW s \in Streams, s # t \/ k = 0, ~Holding(s)', consumer' # "done"
      PROVE  StreamInv(s)'
  <2>1. PICK last \in Nat : LogLines(s, last)' /\ last <= written[s] /\ NetLines(s, last)
    BY <1>5
  <2>2. \A n \in Nat \ {0} : Holds(net', s, n) <=> Holds(net, s, n)
    BY <1>4, <1>6
  <2>3. NetLines(s, last)'
    BY <1>1, <2>1, <2>2 DEF NetLines, Holds
  <2>4. NetLines(s, After(s, last))'
    BY <1>6, <2>3 DEF NetLines, After
  <2>5. QED
    BY <1>1, <1>6, <2>1, <2>4 DEF StreamInv
<1>7. CASE e.kind = "init"
  <2>1. k = 0 /\ consumer' = "read" /\ held' = held
    BY <1>1, <1>2, <1>3, <1>7 DEF Consume, GoodEvent
  <2>2. \A s \in Streams : StreamInv(s)'
    BY <1>6, <2>1 DEF Holding
  <2>3. QED
    BY <1>1, <1>4, <2>1, <2>2 DEF OrderInv
<1>8. CASE e.kind # "init"
  <2>1. k # 0 /\ consumer' = "send" /\ held' = [stream |-> t, line |-> k]
    BY <1>1, <1>2, <1>3, <1>8 DEF Consume, GoodEvent
  <2>2. held' \in ChunkType /\ held'.stream = t /\ held'.line = k
    BY <2>1 DEF ChunkType
  <2>3. StreamInv(t)'
    <3>1. PICK last \in Nat :
            LogLines(t, last)' /\ last <= written[t] /\ written[t] \in Nat /\ NetLines(t, last)
      BY <1>5
    <3>2. last < k /\ k <= written[t]
      BY <1>4, <2>1, <3>1 DEF NetLines
    <3>3. k = last + 1
      <4>1. last + 1 < k => Holds(net, t, last + 1)
        BY <1>4, <2>1, <3>1 DEF NetLines
      <4>2. last + 1 < k => k <= last + 1
        BY <1>4, <4>1
      <4>3. QED
        BY <3>2, <4>2
    <3>4. /\ \A n \in Nat \ {0} : Holds(net', t, n) => k < n /\ n <= written[t]
          /\ \A n \in Nat \ {0} : \A m \in Nat \ {0} :
               Holds(net', t, n) /\ k < m /\ m < n => Holds(net', t, m)
          /\ netState # "cut" =>
               \A m \in Nat \ {0} : k < m /\ m <= written[t] => Holds(net', t, m)
      <4>1. \A n \in Nat : Holds(net', t, n) <=> Holds(net, t, n) /\ n # k
        BY <1>4
      <4>2. \A n \in Nat \ {0} : Holds(net', t, n) => k < n /\ n <= written[t]
        BY <1>4, <3>1, <3>3, <4>1 DEF NetLines
      <4>3. \A n \in Nat \ {0} : \A m \in Nat \ {0} :
              Holds(net', t, n) /\ k < m /\ m < n => Holds(net', t, m)
        BY <3>1, <3>3, <4>1 DEF NetLines
      <4>4. netState # "cut" =>
              \A m \in Nat \ {0} : k < m /\ m <= written[t] => Holds(net', t, m)
        BY <3>1, <3>3, <4>1 DEF NetLines
      <4>5. QED
        BY <4>2, <4>3, <4>4
    <3>5. NetLines(t, k)'
      BY <1>1, <3>4 DEF NetLines, Holds
    <3>6. Holding(t)' /\ After(t, last)' = k
      BY <2>1, <2>2, <3>3 DEF Holding, After
    <3>7. NetLines(t, After(t, last))'
      BY <3>5, <3>6 DEF NetLines
    <3>8. QED
      BY <1>1, <2>1, <2>2, <3>1, <3>2, <3>3, <3>6, <3>7 DEF StreamInv
  <2>4. \A s \in Streams : StreamInv(s)'
    <3>1. \A s \in Streams \ {t} : ~Holding(s)'
      BY <2>2 DEF Holding
    <3>2. \A s \in Streams \ {t} : StreamInv(s)'
      BY <1>6, <2>1, <3>1
    <3>3. QED
      BY <2>3, <3>2
  <2>5. QED
    BY <1>1, <1>4, <2>1, <2>2, <2>4 DEF OrderInv
<1>9. QED
  BY <1>7, <1>8

\* The line the consumer holds follows those of its stream in the log channel; one
\* that it drops at the end of the context is the last it has read.
LEMMA SendOrder ==
  ASSUME OrderInv, Send
  PROVE  OrderInv'
<1>1. /\ consumer = "send" /\ call # "new"
      /\ UNCHANGED <<ctx, program, command, written, handled, net, netState, held, call>>
  BY DEF Send, SendUnchanged, ConsumerUnchanged, execd, OrderInv
<1>2. CASE logs' = Append(logs, held) /\ consumer' = "read"
  <2>1. PICK t \in Streams, k \in Nat : t = held.stream /\ k = held.line
    BY LineTypes DEF OrderInv
  <2>2. PICK last \in Nat :
          /\ LogLines(t, last) /\ k = last + 1 /\ k <= written[t] /\ NetLines(t, k)
    <3>1. PICK last \in Nat :
            /\ LogLines(t, last) /\ (Holding(t) => held.line = last + 1 /\ last + 1 <= written[t])
            /\ NetLines(t, After(t, last))
      BY <1>1 DEF OrderInv, StreamInv
    <3>2. Holding(t)
      BY <1>1, <2>1 DEF Holding
    <3>3. QED
      BY <2>1, <3>1, <3>2 DEF After
  <2>3. PICK a \in Nat : a = Len(handled[t]) /\ a <= last
    <3>1. handled[t] \in Seq(Nat)
      BY DEF OrderInv
    <3>2. QED
      BY <2>2, <3>1 DEF LogLines
  <2>4. \A n \in Nat : Holds(logs, t, n) <=> a < n /\ n <= last
    BY <2>2, <2>3 DEF LogLines
  <2>5. logs \in Seq(ChunkType) /\ held \in ChunkType /\ Sorted(logs)
    BY DEF OrderInv
  <2>6. \A n \in Nat : Holds(logs, held.stream, n) => n < held.line
    BY <2>1, <2>2, <2>4
  <2>7. /\ Sorted(logs')
        /\ \A s \in Streams : \A n \in Nat :
             Holds(logs', s, n) <=> Holds(logs, s, n) \/ (t = s /\ k = n)
    BY <1>2, <2>1, <2>5, <2>6, LineTypes, AddLast
  <2>8. logs' \in Seq(ChunkType)
    BY <1>2, <2>5, AppendProperties
  <2>9. StreamInv(t)'
    <3>1. \A n \in Nat : Holds(logs', t, n) <=> a < n /\ n <= k
      BY <2>2, <2>3, <2>4, <2>7
    <3>2. LogLines(t, k)'
      BY <1>1, <2>2, <2>3, <3>1 DEF LogLines, Holds
    <3>3. ~Holding(t)' /\ After(t, k)' = k
      BY <1>2 DEF Holding, After
    <3>4. NetLines(t, k)'
      BY <1>1, <2>2 DEF NetLines
    <3>5. NetLines(t, After(t, k))'
      BY <3>3, <3>4 DEF NetLines
    <3>6. QED
      BY <1>1, <1>2, <2>2, <3>2, <3>3, <3>5 DEF StreamInv
  <2>10. ASSUME NEW s \in Streams, s # t
         PROVE  StreamInv(s)'
    <3>1. ~Holding(s)
      BY <2>1, <2>10 DEF Holding
    <3>2. PICK last1 \in Nat : LogLines(s, last1) /\ last1 <= written[s] /\ NetLines(s, last1)
      BY <1>1, <3>1 DEF OrderInv, StreamInv, After
    <3>3. \A n \in Nat : Holds(logs', s, n) <=> Holds(logs, s, n)
      BY <2>7, <2>10
    <3>4. LogLines(s, last1)'
      BY <1>1, <3>2, <3>3 DEF LogLines, Holds
    <3>5. ~Holding(s)' /\ After(s, last1)' = last1
      BY <1>2 DEF Holding, After
    <3>6. NetLines(s, last1)'
      BY <1>1, <3>2 DEF NetLines
    <3>7. NetLines(s, After(s, last1))'
      BY <3>5, <3>6 DEF NetLines
    <3>8. QED
      BY <1>1, <1>2, <3>2, <3>4, <3>5, <3>7 DEF StreamInv
  <2>11. QED
    BY <1>1, <1>2, <2>7, <2>8, <2>9, <2>10 DEF OrderInv
<1>3. CASE ctx # "live" /\ consumer' = "done" /\ logs' = logs
  <2>1. ASSUME NEW s \in Streams
        PROVE  StreamInv(s)'
    <3>1. PICK last \in Nat : LogLines(s, last) /\ last <= written[s]
      BY DEF OrderInv, StreamInv
    <3>2. LogLines(s, last)' /\ ~Holding(s)'
      BY <1>1, <1>3, <3>1 DEF LogLines, Holding
    <3>3. QED
      BY <1>1, <1>3, <3>1, <3>2 DEF StreamInv
  <2>2. QED
    BY <1>1, <1>3, <2>1 DEF OrderInv
<1>4. QED
  BY <1>2, <1>3 DEF Send, Finish

\* At its end a stream that was not cut has brought every line.
LEMMA EndOrder ==
  ASSUME OrderInv, EndOfStream
  PROVE  OrderInv'
<1>1. /\ consumer = "read" /\ consumer' = "done" /\ net = <<>> /\ netState # "open"
      /\ call # "new"
      /\ UNCHANGED <<ctx, program, command, written, handled, logs, net, netState, held, call>>
  BY DEF EndOfStream, Finish, ConsumerUnchanged, execd, OrderInv
<1>2. ASSUME NEW s \in Streams
      PROVE  StreamInv(s)'
  <2>1. PICK last \in Nat : LogLines(s, last) /\ last <= written[s] /\ NetLines(s, last)
    BY <1>1 DEF OrderInv, StreamInv, After, Holding
  <2>2. written[s] \in Nat
    BY DEF OrderInv
  <2>3. netState # "cut" => last = written[s]
    <3>1. \A n \in Nat : ~Holds(net, s, n)
      BY <1>1 DEF Holds
    <3>2. netState # "cut" /\ last < written[s] => Holds(net, s, written[s])
      BY <2>1, <2>2 DEF NetLines
    <3>3. QED
      BY <2>1, <2>2, <3>1, <3>2
  <2>4. LogLines(s, last)' /\ ~Holding(s)'
    BY <1>1, <2>1 DEF LogLines, Holding
  <2>5. QED
    BY <1>1, <2>1, <2>3, <2>4 DEF StreamInv
<1>3. QED
  BY <1>1, <1>2 DEF OrderInv

\* The next line in the log channel is the next one of its stream.
LEMMA NextLine ==
  ASSUME OrderInv, logs # <<>>
  PROVE  /\ Head(logs) \in ChunkType
         /\ Head(logs).line = Len(handled[Head(logs).stream]) + 1
         /\ Head(logs).line <= written[Head(logs).stream]
<1>1. /\ Head(logs) \in ChunkType
      /\ Holds(logs, Head(logs).stream, Head(logs).line)
      /\ \A n \in Nat : Holds(logs, Head(logs).stream, n) => Head(logs).line <= n
  <2>1. logs \in Seq(ChunkType) /\ Sorted(logs)
    BY DEF OrderInv
  <2>2. QED
    BY <2>1, LineTypes, TakeFirst
<1>2. PICK t \in Streams, k \in Nat : t = Head(logs).stream /\ k = Head(logs).line
  BY <1>1, LineTypes
<1>3. PICK last \in Nat : LogLines(t, last) /\ last <= written[t]
  BY DEF OrderInv, StreamInv
<1>4. PICK a \in Nat : a = Len(handled[t])
  <2>1. handled[t] \in Seq(Nat)
    BY DEF OrderInv
  <2>2. QED
    BY <2>1
<1>5. a < k /\ k <= last
  BY <1>1, <1>2, <1>3, <1>4 DEF LogLines
<1>6. Holds(logs, t, a + 1)
  BY <1>3, <1>4, <1>5 DEF LogLines
<1>7. k <= a + 1
  BY <1>1, <1>2, <1>6
<1>8. k <= written[t]
  <2>1. written[t] \in Nat
    BY DEF OrderInv
  <2>2. QED
    BY <1>3, <1>5, <2>1
<1>9. QED
  BY <1>1, <1>2, <1>4, <1>5, <1>7, <1>8

\* Handing a line on moves it from the front of the log channel to the end of what
\* was handed on.
LEMMA ReceiveOrder ==
  ASSUME OrderInv, TakeChunk
  PROVE  OrderInv'
<1>1. /\ logs # <<>> /\ logs' = Tail(logs)
      /\ UNCHANGED <<ctx, program, command, written, net, netState, held, call, consumer>>
      /\ handled' = [handled EXCEPT ![Head(logs).stream] = Append(@, Head(logs).line)]
  BY DEF TakeChunk, Receive, execd, connection, session
<1>2. PICK t \in Streams, h \in Seq(Nat) : t = Head(logs).stream /\ h = handled[t]
  BY <1>1, NextLine, LineTypes DEF OrderInv
<1>3. Len(h) \in Nat /\ Head(logs).line = Len(h) + 1
  BY <1>1, <1>2, NextLine
<1>4. /\ logs' \in Seq(ChunkType) /\ Sorted(logs')
      /\ \A s \in Streams : \A n \in Nat :
           Holds(logs', s, n) <=> Holds(logs, s, n) /\ ~(t = s /\ Len(h) + 1 = n)
  <2>1. logs \in Seq(ChunkType) /\ Sorted(logs)
    BY DEF OrderInv
  <2>2. QED
    BY <1>1, <1>2, <1>3, <2>1, LineTypes, TakeFirst
<1>5. /\ Append(h, Len(h) + 1) \in Seq(Nat) /\ Len(Append(h, Len(h) + 1)) = Len(h) + 1
      /\ \A i \in 1 .. Len(h) : Append(h, Len(h) + 1)[i] = h[i]
      /\ Append(h, Len(h) + 1)[Len(h) + 1] = Len(h) + 1
  BY <1>3, AppendProperties
<1>6. handled' = [handled EXCEPT ![t] = Append(h, Len(h) + 1)]
  BY <1>1, <1>2, <1>3
<1>7. /\ handled' \in [Streams -> Seq(Nat)] /\ handled'[t] = Append(h, Len(h) + 1)
      /\ \A s \in Streams : s # t => handled'[s] = handled[s]
  BY <1>5, <1>6 DEF OrderInv
<1>8. \A s \in Streams : \A i \in 1 .. Len(handled'[s]) : handled'[s][i] = i
  <2>1. \A i \in 1 .. Len(handled'[t]) : handled'[t][i] = i
    BY <1>2, <1>3, <1>5, <1>7 DEF OrderInv
  <2>2. QED
    BY <1>7, <2>1 DEF OrderInv
<1>9. ASSUME NEW s \in Streams
      PROVE  StreamInv(s)'
  <2>1. PICK last \in Nat :
        /\ LogLines(s, last) /\ last <= written[s]
        /\ Holding(s) => held.line = last + 1 /\ last + 1 <= written[s]
        /\ consumer # "done" => NetLines(s, After(s, last))
        /\ consumer = "done" /\ ctx = "live" /\ netState # "cut" => last = written[s]
    BY DEF OrderInv, StreamInv
  <2>2. LogLines(s, last)'
    <3>1. CASE s = t
      <4>1. \A n \in Nat : Holds(logs, t, n) <=> Len(h) < n /\ n <= last
        BY <1>2, <2>1, <3>1 DEF LogLines
      <4>2. Len(h) + 1 <= last
        <5>1. Holds(logs, t, Len(h) + 1)
          <6>1. Holds(logs, Head(logs).stream, Head(logs).line)
            <7>1. logs \in Seq(ChunkType) /\ Sorted(logs)
              BY DEF OrderInv
            <7>2. QED
              BY <1>1, <7>1, LineTypes, TakeFirst
          <6>2. QED
            BY <1>2, <1>3, <6>1
        <5>2. QED
          BY <1>3, <4>1, <5>1
      <4>3. \A n \in Nat : Holds(logs', t, n) <=> Len(h) + 1 < n /\ n <= last
        BY <1>3, <1>4, <4>1
      <4>4. Len(handled'[t]) = Len(h) + 1
        BY <1>5, <1>7
      <4>5. QED
        BY <3>1, <4>2, <4>3, <4>4 DEF LogLines, Holds
    <3>2. CASE s # t
      <4>1. \A n \in Nat : Holds(logs', s, n) <=> Holds(logs, s, n)
        BY <1>4, <3>2
      <4>2. handled'[s] = handled[s]
        BY <1>7, <3>2
      <4>3. QED
        BY <2>1, <4>1, <4>2 DEF LogLines, Holds
    <3>3. QED
      BY <3>1, <3>2
  <2>3. Holding(s)' = Holding(s) /\ After(s, last)' = After(s, last)
    BY <1>1 DEF Holding, After
  <2>4. \A next \in Nat : NetLines(s, next) => NetLines(s, next)'
    BY <1>1 DEF NetLines
  <2>5. consumer' # "done" => NetLines(s, After(s, last))'
    <3>1. PICK next \in Nat : next = After(s, last)
      BY DEF After
    <3>2. QED
      BY <1>1, <2>1, <2>3, <2>4, <3>1 DEF NetLines
  <2>6. QED
    BY <1>1, <2>1, <2>2, <2>3, <2>5 DEF StreamInv
<1>10. QED
  BY <1>1, <1>4, <1>7, <1>8, <1>9 DEF OrderInv

\* Every step keeps the lines in order.
LEMMA OrderStep == OrderInv /\ [Next]_vars => OrderInv'
<1> SUFFICES ASSUME OrderInv, [Next]_vars PROVE OrderInv'
  OBVIOUS
<1>1. ASSUME NEW s \in Streams, WriteLine(s)
      PROVE  OrderInv'
  <2>1. /\ Transmit(Event("line", s, written'[s])) /\ command = "running" /\ command' = "running"
        /\ written' = [written EXCEPT ![s] = @ + 1]
        /\ UNCHANGED <<program, ctx, netState, handled, logs, held, consumer, call>>
    BY <1>1 DEF WriteLine, executorVars, session
  <2>2. QED
    BY <2>1, TransmitOrder
<1>2. CASE Fail
  <2>1. /\ Transmit(Event("error", "stderr", written'["stderr"]))
        /\ command = "running" /\ command' = "failing" /\ "stderr" \in Streams
        /\ written' = [written EXCEPT !["stderr"] = @ + 1]
        /\ UNCHANGED <<program, ctx, netState, handled, logs, held, consumer, call>>
    BY <1>2 DEF Fail, executorVars, session, Streams
  <2>2. QED
    BY <2>1, TransmitOrder
<1>3. CASE CutStream
  <2>1. /\ Cut /\ call # "new" /\ call' = call
        /\ UNCHANGED <<program, ctx, command, written, handled, logs, held, consumer>>
    BY <1>3 DEF CutStream, executorVars, execd, session
  <2>2. QED
    BY <2>1, CutOrder
<1>4. CASE GiveUpExec
  <2>1. /\ Cut /\ call # "new" /\ call' # "new"
        /\ UNCHANGED <<program, ctx, command, written, handled, logs, held, consumer>>
    BY <1>4 DEF GiveUpExec, StartFailed, execd
  <2>2. QED
    BY <2>1, CutOrder
<1>5. CASE Request
  BY <1>5, RequestOrder
<1>6. CASE Consume
  BY <1>6, ConsumeOrder
<1>7. CASE Send
  BY <1>7, SendOrder
<1>8. CASE EndOfStream
  BY <1>8, EndOrder
<1>9. CASE TakeChunk
  BY <1>9, ReceiveOrder
  \* The other steps do not touch a line.
<1>10. CASE ExitCommand \/ Abandon
  <2>1. /\ UNCHANGED <<program, ctx, written, handled, logs, net, held, consumer, call>>
        /\ command # "none" /\ command' # "none" /\ call # "new"
        /\ netState' \in {"open", "ended", "cut"}
        /\ netState = "cut" => netState' = "cut"
        /\ netState' = "ended" => command' = "exited"
        /\ netState' = "open" => netState = "open"
    BY <1>10 DEF ExitCommand, Abandon, executorVars, connection, session, OrderInv
  <2>2. ASSUME NEW s \in Streams
        PROVE  StreamInv(s)'
    <3>1. Holding(s)' = Holding(s)
      BY <2>1 DEF Holding
    <3>2. StreamInv(s)
      BY DEF OrderInv
    <3>3. QED
      BY <2>1, <3>1, <3>2, SameStream
  <2>3. QED
    BY <2>1, <2>2 DEF OrderInv
<1>11. CASE ReceiveInit \/ ReceiveError \/ Interrupt \/ GetStatus \/ EndOfLogs
            \/ EndOfContext \/ UNCHANGED vars
  <2>1. /\ UNCHANGED <<program, written, handled, logs, net, netState, held, consumer>>
        /\ command' = command \/ (command \in {"running", "failing"} /\ command' = "interrupted")
        /\ call' = "new" => call = "new"
        /\ ctx' \in {"live"} \cup CtxEnds
        /\ ctx' = "live" => ctx = "live"
    BY <1>11 DEF ReceiveInit, ReceiveError, Started, StartFailed, Interrupt, StopWaiting, GetStatus,
                 Return, EndOfLogs, SeeClosed, EndOfContext, EndContext, vars, executorVars, execd,
                 connection, session, OrderInv
  <2>2. ASSUME NEW s \in Streams
        PROVE  StreamInv(s)'
    <3>1. Holding(s)' = Holding(s)
      BY <2>1 DEF Holding
    <3>2. StreamInv(s)
      BY DEF OrderInv
    <3>3. QED
      BY <2>1, <3>1, <3>2, SameStream
  <2>3. QED
    BY <2>1, <2>2 DEF OrderInv
<1>12. QED
  BY <1>1, <1>2, <1>3, <1>4, <1>5, <1>6, <1>7, <1>8, <1>9, <1>10, <1>11
     DEF Next, CommandStep, ExecStep, ConsumerStep, RunStep, Over

\* Before the command starts nothing is out of order.
LEMMA OrderStart == Init => OrderInv
<1> SUFFICES ASSUME Init PROVE OrderInv
  OBVIOUS
<1>1. /\ program \in ProgramType /\ ctx = "live" /\ netState = "open" /\ consumer = "off"
      /\ written = [s \in Streams |-> 0] /\ handled = [s \in Streams |-> <<>>]
      /\ logs = <<>> /\ net = <<>> /\ held = [stream |-> "stdout", line |-> 0]
      /\ call = "new" /\ command = "none"
  BY StreamAssumption DEF Init, ExecutorInit
<1>2. /\ <<>> \in Seq(ChunkType) /\ <<>> \in Seq(GoodEvent) /\ <<>> \in Seq(Nat) /\ Len(<<>>) = 0
      /\ Sorted(<<>>) /\ \A s \in Streams : \A n \in Nat : ~Holds(<<>>, s, n)
  BY DEF Sorted, Holds
<1>3. held \in ChunkType
  BY <1>1 DEF ChunkType, Streams
<1>4. ASSUME NEW s \in Streams
      PROVE  StreamInv(s)
  <2>1. handled[s] = <<>> /\ written[s] = 0 /\ ~Holding(s) /\ After(s, 0) = 0
    BY <1>1 DEF Holding, After
  <2>2. LogLines(s, 0)
    BY <1>1, <1>2, <2>1 DEF LogLines
  <2>3. NetLines(s, 0)
    BY <1>1, <1>2, <2>1 DEF NetLines
  <2>4. QED
    BY <1>1, <2>1, <2>2, <2>3 DEF StreamInv
<1>5. \A s \in Streams : \A i \in 1 .. Len(handled[s]) : handled[s][i] = i
  BY <1>1, <1>2
<1>6. handled \in [Streams -> Seq(Nat)] /\ written \in [Streams -> Nat]
  BY <1>1, <1>2
<1>7. QED
  BY <1>1, <1>2, <1>3, <1>4, <1>5, <1>6 DEF OrderInv

-----------------------------------------------------------------------------
(* The exit code of a stream that was not cut *)

ErrorOnItsWay == \E j \in 1 .. Len(net) : net[j].kind = "error"

\* The error event of a failing command, if it has the exit code, is on the connection
\* until the session has that; and a consumer that has ended leaves nothing behind.
ErrorInv ==
  /\ netState # "cut" /\ command \in {"failing", "exited"} /\ program.exit # 0
       /\ program.numeric => code # {} \/ ErrorOnItsWay
  /\ consumer = "done" /\ ctx = "live" => net = <<>>

\* What the result of a command says that has exited.
ReportedCode == IF CodeUnknown THEN 0 ELSE program.exit

\* A result that is no error was made of all there is in the log channel and, if
\* the connection was not cut, of the exit code of a command that has exited.
ResultInv ==
  /\ run # "returned" => answer = "none"
  /\ ctx = "live" /\ run = "status" => closed /\ logs = <<>>
  /\ ctx = "live" /\ run = "returned" /\ result.err = "none" =>
       /\ closed /\ logs = <<>>
       /\ netState # "cut" => command = "exited" /\ result.exit = ReportedCode

\* No step loses the error event, other than one that cuts the stream.
LEMMA ErrorStep == CloseInv /\ OrderInv /\ ErrorInv /\ [Next]_vars => ErrorInv'
<1> SUFFICES ASSUME CloseInv, OrderInv, ErrorInv, [Next]_vars PROVE ErrorInv'
  OBVIOUS
<1>1. ASSUME NEW s \in Streams, WriteLine(s)
      PROVE  ErrorInv'
  <2>1. /\ command' = "running"
        /\ UNCHANGED <<ctx, consumer>> /\ (netState # "open" => net' = net)
    BY <1>1 DEF WriteLine, Transmit, executorVars, session
  <2>2. QED
    BY <2>1 DEF ErrorInv, OrderInv
<1>2. CASE Fail
  <2>1. /\ UNCHANGED <<ctx, consumer, netState>> /\ (netState # "open" => net' = net)
        /\ netState # "ended"
    BY <1>2 DEF Fail, Transmit, executorVars, session, OrderInv
  <2>2. netState' # "cut" => ErrorOnItsWay'
    <3>1. PICK e \in EventType :
            e = Event("error", "stderr", written'["stderr"]) /\ e.kind = "error"
      <4>1. written'["stderr"] = written["stderr"] + 1 /\ "stderr" \in Streams
        BY <1>2 DEF Fail, CloseInv, Streams
      <4>2. Event("error", "stderr", written'["stderr"]) \in EventType
        BY <4>1, LineEvent
      <4>3. Event("error", "stderr", written'["stderr"]).kind = "error"
        BY DEF Event
      <4>4. QED
        BY <4>2, <4>3
    <3>2. netState' # "cut" => net' = Append(net, e)
      BY <1>2, <2>1, <3>1 DEF Fail, Transmit, OrderInv
    <3>3. net \in Seq(EventType)
      BY DEF CloseInv
    <3>4. /\ Append(net, e)[Len(net) + 1] = e /\ Len(Append(net, e)) = Len(net) + 1
          /\ Len(net) \in Nat
      BY <3>3, AppendProperties
    <3>5. QED
      BY <3>1, <3>2, <3>4 DEF ErrorOnItsWay
  <2>3. QED
    BY <2>1, <2>2 DEF ErrorInv, OrderInv
<1>3. CASE ExitCommand \/ Abandon
  <2>1. /\ UNCHANGED <<ctx, consumer, net, program, code>>
        /\ netState = "cut" => netState' = "cut"
        /\ \/ command = "failing" \/ command' = "interrupted" \/ program.exit = 0
    BY <1>3 DEF ExitCommand, Abandon, executorVars, connection, session
  <2>2. QED
    BY <2>1 DEF ErrorInv, ErrorOnItsWay
<1>4. CASE CutStream \/ GiveUpExec
  <2>1. netState' = "cut" /\ UNCHANGED <<ctx, consumer>> /\ Cut
    BY <1>4 DEF CutStream, GiveUpExec, Cut, StartFailed, executorVars, session
  <2>2. net = <<>> => net' = <<>>
    <3>1. /\ net' \in Seq(EventType)
          /\ \A i \in 1 .. Len(net') : i \in 1 .. Len(net) /\ net'[i] = net[i]
      BY <2>1, CutType
    <3>2. net = <<>> => Len(net') = 0
      BY <3>1
    <3>3. QED
      BY <3>1, <3>2
  <2>3. QED
    BY <2>1, <2>2 DEF ErrorInv
<1>5. CASE Request
  <2>1. consumer' # "done" /\ command' \notin {"failing", "exited"}
    BY <1>5 DEF Request, OrderInv
  <2>2. QED
    BY <2>1 DEF ErrorInv
<1>6. CASE Consume
  <2>1. /\ UNCHANGED <<ctx, program, command, netState>> /\ consumer' # "done"
        /\ net # <<>> /\ net' = Tail(net)
        /\ Head(net).kind # "error" => code' = code
        /\ Head(net).kind = "error" /\ program.numeric => code' # {}
    BY <1>6 DEF Consume, CodeAfter, ConsumerUnchanged, execd
  <2>2. /\ net \in Seq(EventType) /\ Len(net) \in Nat /\ Head(net) = net[1]
        /\ Len(net') = Len(net) - 1 /\ \A i \in 1 .. Len(net') : net'[i] = net[i + 1]
    <3>1. net \in Seq(EventType)
      BY DEF CloseInv
    <3>2. QED
      BY <2>1, <3>1, HeadTailProperties
  <2>3. Head(net).kind # "error" /\ ErrorOnItsWay => ErrorOnItsWay'
    <3>1. ASSUME NEW j \in 1 .. Len(net), net[j].kind = "error", Head(net).kind # "error"
          PROVE  ErrorOnItsWay'
      <4>1. j # 1 /\ j - 1 \in 1 .. Len(net') /\ net'[j - 1] = net[j]
        BY <2>2, <3>1
      <4>2. QED
        BY <3>1, <4>1 DEF ErrorOnItsWay
    <3>2. QED
      BY <3>1 DEF ErrorOnItsWay
  <2>4. code # {} => code' # {}
    BY <1>6 DEF Consume, CodeAfter
  <2>5. QED
    BY <2>1, <2>3, <2>4 DEF ErrorInv
<1>7. CASE Send
  <2>1. /\ UNCHANGED <<ctx, program, command, netState, net, code>>
        /\ consumer' = "done" => ctx # "live"
    BY <1>7 DEF Send, SendUnchanged, ConsumerUnchanged, execd
  <2>2. QED
    BY <2>1 DEF ErrorInv, ErrorOnItsWay
<1>8. CASE EndOfStream
  BY <1>8 DEF EndOfStream, ConsumerUnchanged, execd, ErrorInv, ErrorOnItsWay
<1>9. CASE ReceiveInit \/ ReceiveError \/ TakeChunk \/ EndOfLogs \/ Interrupt \/ GetStatus
           \/ EndOfContext \/ UNCHANGED vars
  <2>1. /\ UNCHANGED <<program, net, netState, consumer, code>>
        /\ command' = command \/ command' = "interrupted"
        /\ ctx' = "live" => ctx = "live"
    BY <1>9 DEF ReceiveInit, ReceiveError, Started, StartFailed, TakeChunk, Receive, EndOfLogs,
                SeeClosed, Interrupt, StopWaiting, GetStatus, Return, EndOfContext, EndContext,
                vars, executorVars, execd, connection, session
  <2>2. QED
    BY <2>1 DEF ErrorInv, ErrorOnItsWay
<1>10. QED
  BY <1>1, <1>2, <1>3, <1>4, <1>5, <1>6, <1>7, <1>8, <1>9
     DEF Next, CommandStep, ExecStep, ConsumerStep, RunStep, Over

\* The status of a stream that was not cut has the exit code of the command, from execd
\* or, if that request fails, from the session, unless neither has it.
LEMMA TrueStatus ==
  ASSUME CloseInv, FailureInv, OrderInv, ErrorInv, ResultInv, GetStatus,
         ctx = "live", netState # "cut"
  PROVE  command = "exited" /\ result'.exit = ReportedCode'
<1>1. consumer = "done"
  BY DEF GetStatus, Return, CloseInv
<1>2. command = "exited" /\ net = <<>>
  BY <1>1 DEF OrderInv, ErrorInv
<1>3. program.exit # 0 /\ program.numeric => code # {}
  BY <1>2 DEF ErrorInv, ErrorOnItsWay
<1>4. /\ code # {} => code = {program.exit} /\ program.numeric
      /\ code = {} => program.exit = 0 \/ ~program.numeric
  BY <1>3 DEF FailureInv
<1>5. PICK reply \in {"failed", "final"} : Return(StatusCode(reply)) /\ answer' = reply
  BY <1>2 DEF GetStatus
<1>6. program' = program
  BY DEF GetStatus, execd
<1>7. result'.exit = ExitOf(StatusCode(reply))
  BY <1>5 DEF Return
<1>8. CASE reply = "final"
  <2>1. StatusCode(reply) = {program.exit}
    BY <1>2, <1>8 DEF StatusCode, FinalCode
  <2>2. ExitOf(StatusCode(reply)) = program.exit
    BY <2>1 DEF ExitOf
  <2>3. ReportedCode' = program.exit
    BY <1>5, <1>6, <1>8 DEF ReportedCode, CodeUnknown
  <2>4. QED
    BY <1>2, <1>7, <2>2, <2>3
<1>9. CASE reply = "failed"
  <2>1. StatusCode(reply) = code
    BY <1>9 DEF StatusCode
  <2>2. ReportedCode' = IF program.exit # 0 /\ ~program.numeric THEN 0 ELSE program.exit
    BY <1>5, <1>6, <1>9 DEF ReportedCode, CodeUnknown
  <2>3. CASE code = {}
    BY <1>2, <1>4, <1>7, <2>1, <2>2, <2>3 DEF ExitOf
  <2>4. CASE code # {}
    <3>1. ExitOf(code) = program.exit
      BY <1>4, <2>4 DEF ExitOf
    <3>2. QED
      BY <1>2, <1>4, <1>7, <2>1, <2>2, <2>4, <3>1
  <2>5. QED
    BY <2>3, <2>4
<1>10. QED
  BY <1>5, <1>8, <1>9

\* Only GetStatus makes a result that is no error, and it stays.
LEMMA ResultStep ==
  CloseInv /\ FailureInv /\ OrderInv /\ ErrorInv /\ ResultInv /\ [Next]_vars => ResultInv'
<1> SUFFICES ASSUME CloseInv, FailureInv, OrderInv, ErrorInv, ResultInv, [Next]_vars
             PROVE  ResultInv'
  OBVIOUS
<1>1. CASE CommandStep \/ Abandon \/ CutStream
  <2>1. /\ UNCHANGED executorVars /\ UNCHANGED <<program, answer>>
        /\ command = "exited" => command' = "exited"
        /\ netState = "cut" => netState' = "cut"
    BY <1>1 DEF CommandStep, WriteLine, Fail, ExitCommand, Abandon, CutStream, Cut, execd,
                connection, session
  <2>2. ReportedCode' = ReportedCode
    BY <2>1 DEF ReportedCode, CodeUnknown
  <2>3. QED
    BY <2>1, <2>2 DEF ResultInv, executorVars
<1>2. CASE ExecStep
  <2>1. CASE Request /\ UNCHANGED executorVars
    BY <2>1 DEF Request, executorVars, ResultInv
  <2>2. CASE Request /\ StartFailed("error")
    BY <2>2 DEF StartFailed, Nothing, ResultInv
  <2>3. CASE ReceiveInit
    BY <2>3 DEF ReceiveInit, Started, ResultInv
  <2>4. CASE ReceiveError
    BY <2>4 DEF ReceiveError, StartFailed, Nothing, ResultInv
  <2>5. CASE GiveUpExec
    BY <2>5 DEF GiveUpExec, StartFailed, Nothing, ResultInv
  <2>6. QED
    BY <1>2, <2>1, <2>2, <2>3, <2>4, <2>5 DEF ExecStep, Request
<1>3. CASE ConsumerStep
  <2>1. ~closed /\ UNCHANGED <<ctx, run, result, answer>>
    BY <1>3 DEF ConsumerStep, Consume, Send, EndOfStream, SendUnchanged, ConsumerUnchanged, CloseInv
  <2>2. QED
    BY <2>1 DEF ResultInv
<1>4. CASE TakeChunk \/ Interrupt
  <2>1. /\ run = "loop" /\ (run' = "loop" \/ (run' = "status" /\ ctx' # "live"))
        /\ answer' = answer
    BY <1>4 DEF TakeChunk, Receive, Interrupt, StopWaiting, session
  <2>2. QED
    BY <2>1 DEF ResultInv
<1>5. CASE EndOfLogs
  BY <1>5 DEF EndOfLogs, SeeClosed, session, ResultInv
<1>6. CASE GetStatus
  <2>1. /\ run = "status" /\ run' = "returned"
        /\ UNCHANGED <<ctx, logs, closed, program, command, netState>>
    BY <1>6 DEF GetStatus, Return, execd, connection
  <2>2. ctx = "live" /\ netState # "cut" => command = "exited" /\ result'.exit = ReportedCode'
    BY <1>6, TrueStatus
  <2>3. QED
    BY <2>1, <2>2 DEF ResultInv
<1>7. CASE EndOfContext
  <2>1. ctx' # "live" /\ UNCHANGED <<run, answer>>
    BY <1>7, ExecutorAssumption DEF EndOfContext, EndContext, session
  <2>2. QED
    BY <2>1 DEF ResultInv
<1>8. CASE UNCHANGED vars
  BY <1>8 DEF vars, executorVars, execd, connection, session, ResultInv, ReportedCode,
              CodeUnknown
<1>9. QED
  BY <1>1, <1>2, <1>3, <1>4, <1>5, <1>6, <1>7, <1>8 DEF Next, RunStep, Over

\* Of a stream that was not cut the handler got everything.
LEMMA AllHandled ==
  ASSUME OrderInv, CloseInv, closed, logs = <<>>, ctx = "live", netState # "cut",
         NEW s \in Streams
  PROVE  handled[s] = [i \in 1 .. written[s] |-> i]
<1>1. PICK last \in Nat : LogLines(s, last) /\ last = written[s]
  BY DEF OrderInv, StreamInv, CloseInv
<1>2. PICK h \in Seq(Nat) : h = handled[s]
  BY DEF OrderInv
<1>3. PICK n \in Nat : n = Len(h)
  OBVIOUS
<1>4. n = last
  <2>1. ~Holds(logs, s, n + 1)
    BY DEF Holds
  <2>2. n <= last /\ ~(n + 1 <= last)
    BY <1>1, <1>2, <1>3, <2>1 DEF LogLines
  <2>3. QED
    BY <2>2
<1>5. \A i \in 1 .. n : h[i] = i
  BY <1>2, <1>3 DEF OrderInv
<1>6. h = [i \in 1 .. n |-> h[i]]
  BY <1>3
<1>7. QED
  BY <1>1, <1>2, <1>4, <1>5, <1>6

\* A stream that was not cut makes a complete and true result: the command has exited,
\* its exit code is the one reported, and every line was handed on in order, whichever
\* answer the status request got; only a code that neither the error event nor the
\* status request has is taken for 0 (BackendExecutor.Run, ExecStatus).
THEOREM ResultIsTrue == Spec => []StreamedResult
<1>1. Init => CloseInv /\ FailureInv /\ ErrorInv /\ ResultInv
  BY StreamAssumption DEF Init, ExecutorInit, CloseInv, FailureInv, ErrorInv, ResultInv
<1>2. CloseInv /\ OrderInv /\ ResultInv => StreamedResult
  BY AllHandled DEF ResultInv, StreamedResult, ReportedCode
<1>3. QED
  BY <1>1, <1>2, OrderStart, CloseStep, FailureStep, OrderStep, ErrorStep, ResultStep, PTL DEF Spec

-----------------------------------------------------------------------------
(* The contract *)

\* Every step is one of the contract, or a stuttering one.
LEMMA ContractStep ==
  CloseInv /\ OrderInv /\ ResultInv /\ ResultInv' /\ [Next]_vars => [Contract!Next]_(Contract!vars)
<1> SUFFICES ASSUME CloseInv, OrderInv, ResultInv, ResultInv', [Next]_vars
             PROVE  [Contract!Next]_(Contract!vars)
  OBVIOUS
<1> USE DEF executorVars, execd, connection, session, vars, Contract!vars, Success, CodeUnknown
<1>1. ASSUME NEW s \in Streams, WriteLine(s)
      PROVE  Contract!Next
  <2>1. Contract!Write(s)
    BY <1>1 DEF WriteLine, Contract!Write
  <2>2. QED
    BY <2>1 DEF Contract!Next
<1>2. CASE Fail
  <2>1. /\ command = "running" /\ command' = "failing" /\ "stderr" \in Streams
        /\ written' = [written EXCEPT !["stderr"] = @ + 1]
        /\ UNCHANGED <<program, ctx, netState, handled, run, result, answer>>
    BY <1>2 DEF Fail, Streams
  <2>2. Contract!Write("stderr")
    BY <2>1 DEF Contract!Write
  <2>3. QED
    BY <2>1, <2>2 DEF Contract!Next
<1>3. CASE ExitCommand
  <2>1. /\ command \in {"running", "failing"} /\ command' = "exited"
        /\ netState' = "cut" <=> netState = "cut"
        /\ UNCHANGED <<program, ctx, written, handled, run, result, answer>>
    BY <1>3 DEF ExitCommand
  <2>2. Contract!End(IF program.exit = 0 THEN "ok" ELSE "bad")
    BY <2>1 DEF Contract!End
  <2>3. QED
    BY <2>2 DEF Contract!Next
<1>4. CASE Abandon
  <2>1. Contract!End("bad")
    BY <1>4 DEF Abandon, Contract!End
  <2>2. QED
    BY <2>1 DEF Contract!Next
<1>5. CASE CutStream
  <2>1. netState' = "cut" /\ UNCHANGED <<program, command, ctx, written, handled, run, result, answer>>
    BY <1>5 DEF CutStream, Cut
  <2>2. CASE ctx = "canceled" \/ CodeUnknown
    BY <2>1, <2>2
  <2>3. CASE ctx # "canceled" /\ ~CodeUnknown
    <3>1. netState # "cut"
      BY <1>5 DEF CutStream
    <3>2. Contract!GiveUp
      BY <2>1, <2>3, <3>1 DEF Contract!GiveUp
    <3>3. QED
      BY <3>2 DEF Contract!Next
  <2>4. QED
    BY <2>2, <2>3
<1>6. CASE Request
  <2>1. /\ command = "none" /\ command' \in {"none", "running"}
        /\ UNCHANGED <<program, ctx, written, handled, answer>>
    BY <1>6 DEF Request, StartFailed, OrderInv
  <2>2. CASE UNCHANGED <<run, result, netState>>
    BY <2>1, <2>2
  <2>3. CASE StartFailed("error") /\ netState' = "cut"
    <3>1. run = "exec" /\ run' = "returned" /\ result'.err = "error"
      BY <2>3 DEF StartFailed, Nothing
    <3>2. Contract!Return("failure")
      BY <2>1, <2>3, <3>1 DEF Contract!Return
    <3>3. QED
      BY <3>2 DEF Contract!Next
  <2>4. QED
    BY <1>6, <2>2, <2>3 DEF Request
<1>7. CASE ReceiveInit
  <2>1. /\ run = "exec" /\ run' = "loop"
        /\ UNCHANGED <<program, command, ctx, netState, written, handled, result, answer>>
    BY <1>7 DEF ReceiveInit, Started
  <2>2. QED
    BY <2>1
<1>8. CASE ReceiveError \/ GiveUpExec
  <2>1. /\ run = "exec" /\ run' = "returned" /\ result'.err # "none"
        /\ netState' = netState \/ netState' = "cut"
        /\ UNCHANGED <<program, command, ctx, written, handled, answer>>
    BY <1>8 DEF ReceiveError, GiveUpExec, StartFailed, Nothing, Cut
  <2>2. Contract!Return("failure")
    BY <2>1 DEF Contract!Return
  <2>3. QED
    BY <2>2 DEF Contract!Next
<1>9. CASE ConsumerStep \/ EndOfLogs \/ UNCHANGED vars
  <2>1. /\ run' = run \/ (run = "loop" /\ run' = "status")
        /\ UNCHANGED <<program, command, ctx, netState, written, handled, result, answer>>
    BY <1>9 DEF ConsumerStep, Consume, Send, EndOfStream, SendUnchanged, ConsumerUnchanged,
                EndOfLogs, SeeClosed
  <2>2. QED
    BY <2>1
<1>10. CASE TakeChunk
  <2>1. /\ run = "loop" /\ logs # <<>>
        /\ handled' = [handled EXCEPT ![Head(logs).stream] = Append(@, Head(logs).line)]
        /\ UNCHANGED <<program, command, ctx, netState, written, run, result, answer>>
    BY <1>10 DEF TakeChunk, Receive
  <2>2. PICK s \in Streams : s = Head(logs).stream
    BY <2>1, NextLine, LineTypes
  <2>3. Head(logs).line = Len(handled[s]) + 1 /\ Len(handled[s]) + 1 <= written[s]
    BY <2>1, <2>2, NextLine
  <2>4. Len(handled[s]) < written[s]
    <3>1. handled[s] \in Seq(Nat) /\ written[s] \in Nat
      BY DEF OrderInv
    <3>2. QED
      BY <2>3, <3>1
  <2>5. Contract!Handle(s)
    BY <2>1, <2>2, <2>3, <2>4 DEF Contract!Handle
  <2>6. QED
    BY <2>5 DEF Contract!Next
<1>11. CASE Interrupt
  <2>1. /\ run = "loop" /\ run' = "status"
        /\ UNCHANGED <<program, ctx, netState, written, handled, result, answer>>
        /\ \/ command' = command
           \/ command \in {"running", "failing"} /\ command' = "interrupted"
    BY <1>11 DEF Interrupt, StopWaiting
  <2>2. CASE command' = command
    BY <2>1, <2>2
  <2>3. CASE command \in {"running", "failing"} /\ command' = "interrupted"
    <3>1. Contract!End("bad")
      BY <2>1, <2>3 DEF Contract!End
    <3>2. QED
      BY <3>1 DEF Contract!Next
  <2>4. QED
    BY <2>1, <2>2, <2>3
<1>12. CASE EndOfContext
  <2>1. ctx = "live" /\ UNCHANGED <<program, command, netState, written, handled, run, result, answer>>
    BY <1>12 DEF EndOfContext, EndContext
  <2>2. CASE ctx' = "canceled" /\ netState # "cut" /\ ~CodeUnknown
    <3>1. Contract!GiveUp
      BY <2>1, <2>2 DEF Contract!GiveUp
    <3>2. QED
      BY <3>1 DEF Contract!Next
  <2>3. CASE ctx' # "canceled" \/ netState = "cut" \/ CodeUnknown
    BY <2>1, <2>3
  <2>4. QED
    BY <2>2, <2>3
<1>13. CASE GetStatus
  <2>1. /\ run = "status" /\ run' = "returned" /\ answer = "none"
        /\ UNCHANGED <<program, command, ctx, netState, written, handled>>
        /\ ctx = "deadline" => result'.err = "deadline"
    BY <1>13 DEF GetStatus, Return, ResultInv
  <2>2. CASE result'.err = "none" /\ result'.exit = 0
    <3>1. \/ command = "exited" /\ program.exit = 0
          \/ ctx = "canceled" \/ netState = "cut" \/ CodeUnknown'
      <4>1. ctx # "live" => ctx = "canceled"
        BY <2>1, <2>2, ExecutorAssumption DEF OrderInv
      <4>2. ctx = "live" /\ netState # "cut" =>
              command = "exited" /\ (program.exit = 0 \/ CodeUnknown')
        BY <2>1, <2>2 DEF ResultInv, ReportedCode
      <4>3. QED
        BY <4>1, <4>2
    <3>2. Contract!Return("success")
      BY <2>1, <2>2, <3>1 DEF Contract!Return
    <3>3. QED
      BY <3>2 DEF Contract!Next
  <2>3. CASE ~(result'.err = "none" /\ result'.exit = 0)
    <3>1. Contract!Return("failure")
      BY <2>1, <2>3 DEF Contract!Return
    <3>2. QED
      BY <3>1 DEF Contract!Next
  <2>4. QED
    BY <2>2, <2>3
<1>14. QED
  BY <1>1, <1>2, <1>3, <1>4, <1>5, <1>6, <1>7, <1>8, <1>9, <1>10, <1>11, <1>12, <1>13
     DEF Next, CommandStep, ExecStep, RunStep, Over

\* For every command and all capacities, a command of this backend keeps the contract
\* of an executor: its lines are handed on in order and none twice, and a success is
\* that of a command that has exited with 0, unless the context was cancelled, the
\* stream was cut, or neither error event nor status request had the exit code.
THEOREM StreamKeepsContract == Spec => ImplementsContract
<1>1. Init => CloseInv /\ FailureInv /\ ErrorInv /\ ResultInv
  BY StreamAssumption DEF Init, ExecutorInit, CloseInv, FailureInv, ErrorInv, ResultInv
<1>2. Init => Contract!Init
  BY DEF Init, ExecutorInit, CodeUnknown, Contract!Init
<1>3. QED
  BY <1>1, <1>2, OrderStart, CloseStep, FailureStep, OrderStep, ErrorStep, ResultStep,
     ContractStep, PTL DEF Spec, ImplementsContract, Contract!Spec

-----------------------------------------------------------------------------
(* Types *)

\* An event is sent into an open connection only if there is room.
LEMMA TransmitFits ==
  ASSUME TypeOK, NEW event \in EventType, Transmit(event)
  PROVE  net' \in Seq(EventType) /\ Len(net') <= NetCap
<1>1. PICK q \in Seq(EventType) : q = net /\ Len(q) <= NetCap
  BY DEF TypeOK, EventType
<1>2. Append(q, event) \in Seq(EventType) /\ Len(Append(q, event)) = Len(q) + 1 /\ Len(q) \in Nat
  BY AppendProperties
<1>3. CASE net' = q
  BY <1>1, <1>3
<1>4. CASE Len(q) < NetCap /\ net' = Append(q, event)
  BY <1>2, <1>4, StreamAssumption
<1>5. QED
  BY <1>1, <1>3, <1>4 DEF Transmit

\* What is left of a connection fits, too.
LEMMA CutFits ==
  ASSUME TypeOK, Cut
  PROVE  net' \in Seq(EventType) /\ Len(net') <= NetCap /\ netState' = "cut"
<1>1. PICK q \in Seq(EventType) : q = net /\ Len(q) <= NetCap
  BY DEF TypeOK, EventType
<1>2. PICK k \in 0 .. Len(q) : net' = SubSeq(q, 1, k)
  BY <1>1 DEF Cut
<1>3. Len(q) \in Nat /\ k \in Nat /\ \A i \in 1 .. k : q[i] \in EventType
  OBVIOUS
<1>4. SubSeq(q, 1, k) \in Seq(EventType) /\ Len(SubSeq(q, 1, k)) = k
  BY <1>3, SubSeqProperties
<1>5. QED
  BY <1>1, <1>2, <1>3, <1>4, StreamAssumption DEF Cut

\* Every step keeps the type of every variable.
LEMMA TypeStep == TypeOK /\ [Next]_vars => TypeOK'
<1> SUFFICES ASSUME TypeOK, [Next]_vars PROVE TypeOK'
  OBVIOUS
<1>0. ExecutorTypeOK /\ code \in Codes /\ held \in ChunkType /\ net \in Seq(EventType)
  BY DEF TypeOK, Codes, ChunkType, EventType
<1>1. ASSUME NEW s \in Streams, WriteLine(s)
      PROVE  TypeOK'
  <2>1. written' \in [Streams -> Nat] /\ written'[s] \in Nat
    BY <1>1 DEF WriteLine, TypeOK
  <2>2. Event("line", s, written'[s]) \in EventType
    BY <2>1 DEF Event, EventType
  <2>3. net' \in Seq(EventType) /\ Len(net') <= NetCap
    BY <1>1, <2>2, TransmitFits DEF WriteLine
  <2>4. ExecutorTypeOK'
    BY <1>0, <1>1, ExecutorTypes DEF WriteLine
  <2>5. QED
    BY <1>1, <2>1, <2>3, <2>4 DEF WriteLine, session, TypeOK, EventType
<1>2. CASE Fail
  <2>1. written' \in [Streams -> Nat] /\ written'["stderr"] \in Nat
    BY <1>2 DEF Fail, TypeOK, Streams
  <2>2. Event("error", "stderr", written'["stderr"]) \in EventType
    BY <2>1 DEF Event, EventType, Streams
  <2>3. net' \in Seq(EventType) /\ Len(net') <= NetCap
    BY <1>2, <2>2, TransmitFits DEF Fail
  <2>4. ExecutorTypeOK'
    BY <1>0, <1>2, ExecutorTypes DEF Fail
  <2>5. QED
    BY <1>2, <2>1, <2>3, <2>4 DEF Fail, session, TypeOK, EventType
<1>3. CASE ExitCommand \/ Abandon
  <2>1. ExecutorTypeOK'
    BY <1>0, <1>3, ExecutorTypes DEF ExitCommand, Abandon
  <2>2. QED
    BY <1>3, <2>1 DEF ExitCommand, Abandon, connection, session, TypeOK
<1>4. CASE CutStream
  <2>1. net' \in Seq(EventType) /\ Len(net') <= NetCap /\ netState' = "cut"
    BY <1>4, CutFits DEF CutStream
  <2>2. ExecutorTypeOK'
    BY <1>0, <1>4, ExecutorTypes DEF CutStream
  <2>3. QED
    BY <1>4, <2>1, <2>2 DEF CutStream, execd, session, TypeOK, EventType
<1>5. CASE Request
  <2>1. ExecutorTypeOK'
    BY <1>0, <1>5, ExecutorTypes DEF Request
  <2>2. net' \in Seq(EventType) /\ Len(net') <= NetCap
    <3>1. CASE net' = net
      BY <3>1 DEF TypeOK, EventType
    <3>2. CASE net' = <<Event("init", "stdout", 0)>>
      <4>1. Event("init", "stdout", 0) \in EventType
        BY DEF Event, EventType, Streams
      <4>2. QED
        BY <3>2, <4>1, StreamAssumption
    <3>3. QED
      BY <1>5, <3>1, <3>2 DEF Request
  <2>3. QED
    BY <1>5, <2>1, <2>2 DEF Request, TypeOK, EventType
<1>6. CASE ReceiveInit \/ ReceiveError
  <2>1. ExecutorTypeOK'
    BY <1>0, <1>6, ExecutorTypes DEF ReceiveInit, ReceiveError
  <2>2. QED
    BY <1>6, <2>1 DEF ReceiveInit, ReceiveError, execd, connection, TypeOK
<1>7. CASE GiveUpExec
  <2>1. net' \in Seq(EventType) /\ Len(net') <= NetCap /\ netState' = "cut"
    BY <1>7, CutFits DEF GiveUpExec
  <2>2. ExecutorTypeOK'
    BY <1>0, <1>7, ExecutorTypes DEF GiveUpExec
  <2>3. QED
    BY <1>7, <2>1, <2>2 DEF GiveUpExec, execd, TypeOK, EventType
<1>8. CASE Consume
  <2>1. PICK q \in Seq(EventType) : q = net /\ q # <<>> /\ Len(q) <= NetCap
    BY <1>8 DEF Consume, TypeOK, EventType
  <2>2. /\ Head(q) \in EventType /\ Tail(q) \in Seq(EventType) /\ Len(Tail(q)) = Len(q) - 1
        /\ Len(q) \in Nat
    BY <2>1, HeadTailProperties
  <2>3. net' \in Seq(EventType) /\ Len(net') <= NetCap
    BY <1>8, <2>1, <2>2, StreamAssumption DEF Consume
  <2>4. held' \in ChunkType
    <3>1. held' = held \/ held' = [stream |-> Head(q).stream, line |-> Head(q).line]
      BY <1>8, <2>1 DEF Consume
    <3>2. Head(q).stream \in Streams /\ Head(q).line \in Nat
      BY <2>2 DEF EventType
    <3>3. QED
      BY <1>0, <3>1, <3>2 DEF ChunkType
  <2>5. code' \in Codes
    <3>1. program.exit \in Int
      BY StreamAssumption DEF TypeOK, ProgramType
    <3>2. code' = code \/ code' = {program.exit}
      BY <1>8 DEF Consume, CodeAfter
    <3>3. QED
      BY <1>0, <3>1, <3>2, CodesHold
  <2>6. ExecutorTypeOK'
    BY <1>0, <1>8, ExecutorTypes DEF Consume, ConsumerUnchanged, executorVars
  <2>7. consumer' \in {"read", "send"} /\ signal' \in {"none", "init", "error"}
    BY <1>8 DEF Consume, TypeOK
  <2>8. QED
    BY <1>8, <2>3, <2>4, <2>5, <2>6, <2>7
       DEF Consume, ConsumerUnchanged, execd, TypeOK, Codes, ChunkType, EventType
<1>9. CASE Send
  <2>1. ExecutorTypeOK'
    <3>1. CASE Len(logs) < LogCap /\ logs' = Append(logs, held) /\ closed' = closed
      BY <1>0, <1>9, <3>1, ChunkSent DEF Send, SendUnchanged, ConsumerUnchanged
    <3>2. CASE logs' = logs /\ closed' = TRUE
      BY <1>9, <3>2 DEF Send, SendUnchanged, ConsumerUnchanged, TypeOK, ExecutorTypeOK
    <3>3. QED
      BY <1>9, <3>1, <3>2 DEF Send, Finish
  <2>2. consumer' \in {"read", "done"}
    BY <1>9 DEF Send, Finish
  <2>3. QED
    BY <1>9, <2>1, <2>2 DEF Send, SendUnchanged, ConsumerUnchanged, execd, TypeOK
<1>10. CASE EndOfStream
  <2>1. ExecutorTypeOK'
    BY <1>10 DEF EndOfStream, Finish, ConsumerUnchanged, TypeOK, ExecutorTypeOK
  <2>2. QED
    BY <1>10, <2>1 DEF EndOfStream, Finish, ConsumerUnchanged, execd, TypeOK
<1>11. CASE Interrupt
  <2>1. ExecutorTypeOK'
    BY <1>0, <1>11, ExecutorTypes DEF Interrupt
  <2>2. command' \in {"none", "running", "failing", "exited", "interrupted"}
    BY <1>11 DEF Interrupt, TypeOK
  <2>3. QED
    BY <1>11, <2>1, <2>2 DEF Interrupt, connection, session, TypeOK
<1>12. CASE GetStatus
  <2>1. PICK reply \in {"failed", "running", "final"} :
          Return(StatusCode(reply)) /\ answer' = reply
    BY <1>12 DEF GetStatus
  <2>2. StatusCode(reply) \in Codes
    <3>1. program.exit \in Int
      BY StreamAssumption DEF TypeOK, ProgramType
    <3>2. FinalCode \in Int
      BY <3>1 DEF FinalCode, Interrupted
    <3>3. QED
      BY <1>0, <3>2, CodesHold DEF StatusCode
  <2>3. ExecutorTypeOK'
    BY <1>0, <2>1, <2>2, ExecutorTypes
  <2>4. QED
    BY <1>12, <2>1, <2>3 DEF GetStatus, execd, connection, TypeOK
<1>13. CASE TakeChunk \/ EndOfLogs \/ EndOfContext \/ UNCHANGED vars
  <2>1. ExecutorTypeOK'
    BY <1>0, <1>13, ExecutorTypes DEF TakeChunk, EndOfLogs, EndOfContext, vars
  <2>2. UNCHANGED <<execd, connection, session>>
    BY <1>13 DEF TakeChunk, EndOfLogs, EndOfContext, vars
  <2>3. QED
    BY <2>1, <2>2 DEF execd, connection, session, TypeOK
<1>14. QED
  BY <1>1, <1>2, <1>3, <1>4, <1>5, <1>6, <1>7, <1>8, <1>9, <1>10, <1>11, <1>12, <1>13
     DEF Next, CommandStep, ExecStep, ConsumerStep, RunStep, Over

\* Every variable keeps its type, and neither the connection nor the log channel holds
\* more than it can, for every command and all capacities.
THEOREM TypeCorrect == Spec => []TypeOK
<1>1. Init => TypeOK
  <2> SUFFICES ASSUME Init PROVE TypeOK
    OBVIOUS
  <2>1. ExecutorTypeOK /\ code \in Codes
    BY ExecutorStart, CodesHold DEF Init
  <2>2. written \in [Streams -> Nat] /\ held \in [stream : Streams, line : Nat]
    BY DEF Init, Streams
  <2>3. net \in Seq([kind : {"init", "line", "error"}, stream : Streams, line : Nat])
        /\ Len(net) <= NetCap
    BY StreamAssumption DEF Init
  <2>4. QED
    BY <2>1, <2>2, <2>3 DEF Init, TypeOK, Codes
<1>2. QED
  BY <1>1, TypeStep, PTL DEF Spec
=============================================================================
