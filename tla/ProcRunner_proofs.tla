-------------------------- MODULE ProcRunner_proofs --------------------------
(***************************************************************************)
(* Theorems about ProcRunner, for every set of programs and every capacity *)
(* of the pipes: Run joins its goroutines, implements ExecContract, makes  *)
(* complete results, and keeps the types.                                  *)
(***************************************************************************)
EXTENDS ProcRunner, TLAPS

\* NoLateLine, made inductive: the readers are started once, and Run passes its
\* join only when both are done.
JoinInv ==
  /\ reader \in [Streams -> {"off", "read", "done"}]
  /\ run = "start" => child = "new" /\ \A s \in Streams : reader[s] = "off"
  /\ run = "wait" => \A s \in Streams : reader[s] = "done"
  /\ run = "returned" => \A s \in Streams : reader[s] \in {"off", "done"}

\* While a stream is read, the handler has had its first lines, the pipe holds
\* the following ones, and no line is anywhere else.
LineInv ==
  /\ written \in [Streams -> Nat]
  /\ pipe \in [Streams -> Seq(Nat)]
  /\ handled \in [Streams -> Seq(Nat)]
  /\ \A s \in Streams : reader[s] # "done" =>
       /\ written[s] = Len(handled[s]) + Len(pipe[s])
       /\ \A i \in 1 .. Len(pipe[s]) : pipe[s][i] = Len(handled[s]) + i

\* No step passes the join early or revives a reader.
LEMMA JoinStep == JoinInv /\ [Next]_vars => JoinInv'
<1> SUFFICES ASSUME JoinInv, [Next]_vars PROVE JoinInv'
  OBVIOUS
<1> USE DEF process, vars, JoinInv
<1>1. CASE ProcessStep
  BY <1>1 DEF ProcessStep, ExitProcess, Write
<1>2. CASE ExitDaemon \/ KillOnContext \/ EndContext
  BY <1>2 DEF ExitDaemon, KillOnContext, EndContext
<1>3. CASE RunStep
  BY <1>3 DEF RunStep, Start, Join, Return
<1>4. ASSUME NEW s \in Streams, Read(s)
      PROVE  JoinInv'
  BY <1>4 DEF Read, ReadUnchanged
<1>5. CASE UNCHANGED vars
  BY <1>5
<1>6. QED
  BY <1>1, <1>2, <1>3, <1>4, <1>5 DEF Next, Over

\* When Run returns its goroutines are gone, so that no line reaches a handler
\* whose files have been closed.
THEOREM ReadersJoined == Spec => []NoLateLine
<1>1. Init => JoinInv
  BY DEF Init, JoinInv
<1>2. JoinInv => NoLateLine
  BY DEF JoinInv, NoLateLine
<1>3. QED
  BY <1>1, <1>2, JoinStep, PTL DEF Spec

\* A line goes to the end of its pipe.
LEMMA WriteLines ==
  ASSUME LineInv, NEW s \in Streams, Write(s)
  PROVE  LineInv'
<1>1. /\ written' = [written EXCEPT ![s] = written[s] + 1]
      /\ pipe' = [pipe EXCEPT ![s] = Append(pipe[s], written[s] + 1)]
      /\ UNCHANGED <<reader, handled>>
  BY DEF Write
<1>2. Append(pipe[s], written[s] + 1) \in Seq(Nat)
  BY DEF LineInv
<1>3. /\ written' \in [Streams -> Nat] /\ pipe' \in [Streams -> Seq(Nat)]
      /\ handled' \in [Streams -> Seq(Nat)]
  BY <1>1, <1>2 DEF LineInv
<1>4. ASSUME NEW t \in Streams, reader'[t] # "done"
      PROVE  /\ written'[t] = Len(handled'[t]) + Len(pipe'[t])
             /\ \A i \in 1 .. Len(pipe'[t]) : pipe'[t][i] = Len(handled'[t]) + i
  <2>1. CASE t = s
    <3> DEFINE q == pipe[s]
               h == handled[s]
               n == written[s] + 1
    <3>1. /\ q \in Seq(Nat) /\ h \in Seq(Nat) /\ n \in Nat
          /\ n = Len(h) + Len(q) + 1 /\ \A i \in 1 .. Len(q) : q[i] = Len(h) + i
      BY <1>1, <1>4, <2>1 DEF LineInv
    <3>2. written'[t] = n /\ pipe'[t] = Append(q, n) /\ handled'[t] = h
      BY <1>1, <2>1 DEF LineInv
    <3> HIDE DEF q, h, n
    <3>3. /\ Len(Append(q, n)) = Len(q) + 1
          /\ \A i \in 1 .. Len(q) : Append(q, n)[i] = q[i]
          /\ Append(q, n)[Len(q) + 1] = n
      BY <3>1
    <3>4. Len(q) \in Nat /\ Len(h) \in Nat
      BY <3>1
    <3>5. n = Len(h) + Len(Append(q, n))
      BY <3>1, <3>3, <3>4
    <3>6. \A i \in 1 .. Len(Append(q, n)) : Append(q, n)[i] = Len(h) + i
      BY <3>1, <3>3, <3>4
    <3>7. QED
      BY <3>2, <3>5, <3>6
  <2>2. CASE t # s
    BY <1>1, <1>4, <2>2 DEF LineInv
  <2>3. QED
    BY <2>1, <2>2
<1>5. QED
  BY <1>3, <1>4 DEF LineInv

\* A reader moves the first line of its pipe, or stops.
LEMMA ReadLines ==
  ASSUME LineInv, JoinInv, NEW s \in Streams, Read(s)
  PROVE  /\ LineInv'
         /\ \/ UNCHANGED handled
            \/ /\ handled' = [handled EXCEPT ![s] = Append(@, Len(@) + 1)]
               /\ Len(handled[s]) < written[s]
<1>1. /\ reader[s] = "read" /\ UNCHANGED written
      /\ handled[s] \in Seq(Nat) /\ pipe[s] \in Seq(Nat)
      /\ written[s] = Len(handled[s]) + Len(pipe[s])
      /\ \A i \in 1 .. Len(pipe[s]) : pipe[s][i] = Len(handled[s]) + i
  BY DEF Read, ReadUnchanged, process, LineInv
<1>2. CASE reader' = [reader EXCEPT ![s] = "done"] /\ UNCHANGED handled
  <2>1. pipe' \in [Streams -> Seq(Nat)] /\ \A t \in Streams \ {s} : pipe'[t] = pipe[t]
    <3>1. pipe[s] # <<>> => Tail(pipe[s]) \in Seq(Nat)
      BY <1>1
    <3>2. QED
      BY <3>1 DEF Read, LineInv
  <2>2. reader'[s] = "done" /\ \A t \in Streams \ {s} : reader'[t] = reader[t]
    BY <1>2 DEF JoinInv
  <2>3. QED
    BY <1>1, <1>2, <2>1, <2>2 DEF LineInv
<1>3. CASE /\ pipe[s] # <<>> /\ pipe' = [pipe EXCEPT ![s] = Tail(@)]
           /\ handled' = [handled EXCEPT ![s] = Append(@, Head(pipe[s]))]
           /\ UNCHANGED reader
  <2> DEFINE q == pipe[s]
             h == handled[s]
  <2>0. /\ q \in Seq(Nat) /\ q # <<>> /\ h \in Seq(Nat)
        /\ written[s] = Len(h) + Len(q) /\ \A i \in 1 .. Len(q) : q[i] = Len(h) + i
    BY <1>1, <1>3
  <2> HIDE DEF q, h
  <2>8. Len(q) \in Nat \ {0} /\ Len(h) \in Nat /\ Head(q) = q[1]
    BY <2>0
  <2>1. Head(pipe[s]) = Len(handled[s]) + 1 /\ Len(handled[s]) < written[s]
    <3>1. 1 \in 1 .. Len(q) /\ Len(h) < written[s]
      BY <2>0, <2>8
    <3>2. Head(q) = Len(h) + 1
      BY <2>0, <2>8, <3>1
    <3>3. QED
      BY <3>1, <3>2 DEF q, h
  <2>2. /\ handled'[s] = Append(handled[s], Len(handled[s]) + 1)
        /\ pipe'[s] = Tail(pipe[s])
        /\ \A t \in Streams \ {s} : handled'[t] = handled[t] /\ pipe'[t] = pipe[t]
    BY <1>3, <2>1 DEF LineInv
  <2>3. handled'[s] \in Seq(Nat) /\ pipe'[s] \in Seq(Nat)
    BY <1>1, <1>3, <2>2
  <2>4. /\ written[s] = Len(handled'[s]) + Len(pipe'[s])
        /\ \A i \in 1 .. Len(pipe'[s]) : pipe'[s][i] = Len(handled'[s]) + i
    <3>1. Len(Tail(q)) = Len(q) - 1 /\ \A i \in 1 .. Len(Tail(q)) : Tail(q)[i] = q[i + 1]
      BY <2>0, <2>8
    <3>2. Len(Append(h, Len(h) + 1)) = Len(h) + 1
      BY <2>0
    <3>3. handled'[s] = Append(h, Len(h) + 1) /\ pipe'[s] = Tail(q)
      BY <2>2 DEF q, h
    <3>4. QED
      BY <2>0, <2>8, <3>1, <3>2, <3>3
  <2>5. /\ handled' \in [Streams -> Seq(Nat)] /\ pipe' \in [Streams -> Seq(Nat)]
    BY <1>3, <2>3, <2>2 DEF LineInv
  <2>6. LineInv'
    BY <1>1, <1>3, <2>2, <2>4, <2>5 DEF LineInv
  <2>7. QED
    BY <1>3, <2>1, <2>6
<1>4. QED
  BY <1>1, <1>2, <1>3 DEF Read

\* Every step keeps the lines of a stream together and in order.
LEMMA LineStep == JoinInv /\ LineInv /\ [Next]_vars => LineInv'
<1> SUFFICES ASSUME JoinInv, LineInv, [Next]_vars PROVE LineInv'
  OBVIOUS
<1> USE DEF process, vars
<1>1. CASE ExitProcess \/ ExitDaemon \/ KillOnContext \/ EndContext
  BY <1>1 DEF ExitProcess, ExitDaemon, KillOnContext, EndContext, LineInv
<1>2. ASSUME NEW s \in Streams, Write(s)
      PROVE  LineInv'
  BY <1>2, WriteLines
<1>3. CASE Start
  BY <1>3 DEF Start, JoinInv, LineInv
<1>4. CASE Join \/ Return
  BY <1>4 DEF Join, Return, LineInv
<1>5. ASSUME NEW s \in Streams, Read(s)
      PROVE  LineInv'
  BY <1>5, ReadLines
<1>6. CASE UNCHANGED vars
  BY <1>6 DEF LineInv
<1>7. QED
  BY <1>1, <1>2, <1>3, <1>4, <1>5, <1>6 DEF Next, ProcessStep, RunStep, Over

\* The result says success only for a process that has exited with 0.
LEMMA TrueSuccess ==
  ASSUME Return, result'.err = "none", result'.exit = 0
  PROVE  child = "exited" /\ program.exit = 0
<1>1. ctx # "deadline" /\ WaitCode = 0
  BY DEF Return, Outcomes, Blank
<1>2. QED
  BY <1>1 DEF WaitCode, Killed, Return

\* Every step of the runner is a step of the contract, or none.
LEMMA ContractStep ==
  JoinInv /\ LineInv /\ [Next]_vars => [Contract!Next]_(Contract!vars)
<1> SUFFICES ASSUME JoinInv, LineInv, [Next]_vars
             PROVE  [Contract!Next]_(Contract!vars)
  OBVIOUS
<1> USE DEF process, vars, Contract!vars, Success
<1>1. ASSUME NEW s \in Streams, Write(s)
      PROVE  Contract!Next
  <2>1. Contract!Write(s)
    BY <1>1 DEF Write, Contract!Write
  <2>2. QED
    BY <2>1 DEF Contract!Next
<1>2. CASE ExitProcess
  <2>1. Contract!End(IF program.exit = 0 THEN "ok" ELSE "bad")
    BY <1>2 DEF ExitProcess, Contract!End
  <2>2. QED
    BY <2>1 DEF Contract!Next
<1>3. CASE KillOnContext
  <2>1. Contract!End("bad")
    BY <1>3 DEF KillOnContext, Contract!End
  <2>2. QED
    BY <2>1 DEF Contract!Next
<1>4. CASE ExitDaemon \/ EndContext \/ Join
  BY <1>4 DEF ExitDaemon, EndContext, Join
<1>5. CASE Start
  <2>1. CASE run' = "returned"
    <3>1. result'.err # "none" /\ UNCHANGED child
      BY <1>5, <2>1 DEF Start, Blank
    <3>2. Contract!Return("failure")
      BY <1>5, <2>1, <3>1 DEF Start, Contract!Return
    <3>3. QED
      BY <3>2 DEF Contract!Next
  <2>2. CASE run' = "join"
    BY <1>5, <2>2 DEF Start, JoinInv
  <2>3. QED
    BY <1>5, <2>1, <2>2 DEF Start
<1>6. CASE Return
  <2>1. CASE result'.err = "none" /\ result'.exit = 0
    <3>1. child = "exited" /\ program.exit = 0
      BY <1>6, <2>1, TrueSuccess
    <3>2. Contract!Return("success")
      BY <1>6, <2>1, <3>1 DEF Return, Contract!Return
    <3>3. QED
      BY <3>2 DEF Contract!Next
  <2>2. CASE ~(result'.err = "none" /\ result'.exit = 0)
    <3>1. Contract!Return("failure")
      BY <1>6, <2>2 DEF Return, Contract!Return
    <3>2. QED
      BY <3>1 DEF Contract!Next
  <2>3. QED
    BY <2>1, <2>2
<1>7. ASSUME NEW s \in Streams, Read(s)
      PROVE  [Contract!Next]_(Contract!vars)
  <2>1. run # "returned" /\ UNCHANGED <<written, child, program, run, result>>
    BY <1>7 DEF Read, ReadUnchanged, JoinInv
  <2>2. CASE UNCHANGED handled
    BY <2>1, <2>2
  <2>3. CASE /\ handled' = [handled EXCEPT ![s] = Append(@, Len(@) + 1)]
             /\ Len(handled[s]) < written[s]
    <3>1. Contract!Handle(s)
      BY <2>1, <2>3 DEF Contract!Handle
    <3>2. QED
      BY <3>1 DEF Contract!Next
  <2>4. QED
    BY <1>7, <2>2, <2>3, ReadLines
<1>8. CASE UNCHANGED vars
  BY <1>8
<1>9. QED
  BY <1>1, <1>2, <1>3, <1>4, <1>5, <1>6, <1>7, <1>8 DEF Next, ProcessStep, RunStep, Over

\* For every program, Runner.Run keeps the contract of an executor: it hands the
\* lines on in order, none twice and none after its return, and never returns
\* success for a command that has not ended successfully.
THEOREM RunnerKeepsContract == Spec => ImplementsContract
<1>1. Init => JoinInv /\ LineInv
  BY DEF Init, JoinInv, LineInv
<1>2. Init => Contract!Init
  BY DEF Init, Contract!Init
<1>3. QED
  BY <1>1, <1>2, JoinStep, LineStep, ContractStep, PTL
     DEF Spec, ImplementsContract, Contract!Spec

\* CompleteResult, made inductive: what is known of the output as long as the
\* context lives and no line is too long.
CompleteInv ==
  /\ program \in Programs
  /\ child = "exited" => written = program.lines
  /\ child = "killed" => ctx # "live"
  /\ \A s \in Streams : \A i \in 1 .. Len(handled[s]) : handled[s][i] = i
  /\ ctx = "live" /\ program.long = {} =>
       \A s \in Streams : reader[s] = "done" =>
         child = "exited" /\ Len(handled[s]) = written[s]
  /\ run = "returned" /\ result.err = "none" /\ ctx = "live" =>
       /\ child = "exited" /\ result.exit = program.exit
       /\ \A s \in Streams : reader[s] = "done"

\* Reading to the end of a pipe is reading all that was written.
LEMMA CompleteRead ==
  ASSUME JoinInv, LineInv, CompleteInv, NEW s \in Streams, Read(s)
  PROVE  CompleteInv'
<1>1. /\ reader[s] = "read" /\ run # "returned"
      /\ UNCHANGED <<ctx, program, child, daemon, written, run, result>>
  BY DEF Read, ReadUnchanged, process, JoinInv
<1>2. \A t \in Streams : \A i \in 1 .. Len(handled'[t]) : handled'[t][i] = i
  <2>1. CASE UNCHANGED handled
    BY <2>1 DEF CompleteInv
  <2>2. CASE handled' = [handled EXCEPT ![s] = Append(@, Len(@) + 1)]
    <3>1. PICK h \in Seq(Nat) : h = handled[s]
      BY DEF LineInv
    <3>2. handled'[s] = Append(h, Len(h) + 1) /\ \A t \in Streams \ {s} : handled'[t] = handled[t]
      BY <2>2, <3>1 DEF LineInv
    <3>3. /\ Len(h) \in Nat /\ Len(Append(h, Len(h) + 1)) = Len(h) + 1
          /\ \A i \in 1 .. Len(h) : Append(h, Len(h) + 1)[i] = h[i]
          /\ Append(h, Len(h) + 1)[Len(h) + 1] = Len(h) + 1
      OBVIOUS
    <3>4. \A i \in 1 .. Len(handled'[s]) : handled'[s][i] = i
      BY <3>1, <3>2, <3>3 DEF CompleteInv
    <3>5. QED
      BY <3>2, <3>4 DEF CompleteInv
  <2>3. QED
    BY <2>1, <2>2, ReadLines
<1>3. ASSUME ctx = "live", program.long = {}, NEW t \in Streams, reader'[t] = "done"
      PROVE  child = "exited" /\ Len(handled'[t]) = written[t]
  <2>1. CASE t = s
    <3>1. Ended(s) /\ UNCHANGED handled
      BY <1>1, <1>3, <2>1 DEF Read, JoinInv
    <3>2. child = "exited"
      BY <1>3, <3>1 DEF Ended, CompleteInv
    <3>3. written[s] = Len(handled[s]) + Len(pipe[s]) /\ pipe[s] = <<>> /\ handled[s] \in Seq(Nat)
      BY <1>1, <3>1 DEF LineInv, Ended
    <3>4. QED
      BY <2>1, <3>1, <3>2, <3>3
  <2>2. CASE t # s
    <3>1. reader[t] = "done" /\ handled'[t] = handled[t]
      BY <1>3, <2>2, ReadLines DEF Read, JoinInv, LineInv
    <3>2. QED
      BY <1>3, <3>1 DEF CompleteInv
  <2>3. QED
    BY <2>1, <2>2
<1>4. QED
  BY <1>1, <1>2, <1>3 DEF CompleteInv

\* CompleteInv is inductive.
LEMMA CompleteStep == JoinInv /\ LineInv /\ CompleteInv /\ [Next]_vars => CompleteInv'
<1> SUFFICES ASSUME JoinInv, LineInv, CompleteInv, [Next]_vars PROVE CompleteInv'
  OBVIOUS
<1> USE DEF process, vars
<1>1. CASE ExitProcess
  BY <1>1 DEF ExitProcess, CompleteInv
<1>2. ASSUME NEW s \in Streams, Write(s)
      PROVE  CompleteInv'
  <2>1. child = "running" /\ UNCHANGED <<ctx, program, child, reader, run, handled, result>>
    BY <1>2 DEF Write
  <2>2. QED
    BY <2>1 DEF CompleteInv
<1>3. CASE ExitDaemon
  BY <1>3 DEF ExitDaemon, CompleteInv
<1>4. CASE KillOnContext
  BY <1>4 DEF KillOnContext, CompleteInv
<1>5. CASE EndContext
  <2>1. ctx' # "live"
    BY <1>5, RunnerAssumption DEF EndContext
  <2>2. QED
    BY <1>5, <2>1 DEF EndContext, CompleteInv
<1>6. CASE Start
  <2>1. CASE run' = "returned"
    <3>1. result'.err # "none" /\ UNCHANGED <<ctx, program, child, reader, written, handled>>
      BY <1>6, <2>1 DEF Start, Blank
    <3>2. QED
      BY <3>1 DEF CompleteInv
  <2>2. CASE run' = "join"
    <3>1. /\ child' = "running" /\ UNCHANGED <<ctx, program, written, handled>>
          /\ \A s \in Streams : reader'[s] = "read"
      BY <1>6, <2>2 DEF Start
    <3>2. QED
      BY <2>2, <3>1 DEF CompleteInv
  <2>3. QED
    BY <1>6, <2>1, <2>2 DEF Start
<1>7. CASE Join
  BY <1>7 DEF Join, CompleteInv
<1>8. CASE Return
  <2>1. /\ \A s \in Streams : reader[s] = "done" /\ reader'[s] = "done"
        /\ child \in {"exited", "killed"} /\ result' \in Outcomes
        /\ UNCHANGED <<ctx, program, child, reader, written, handled>>
    BY <1>8 DEF Return, JoinInv
  <2>2. ctx = "live" => child = "exited" /\ result'.exit = program.exit
    BY <2>1 DEF CompleteInv, Outcomes, WaitCode, Blank
  <2>3. QED
    BY <2>1, <2>2 DEF CompleteInv
<1>9. ASSUME NEW s \in Streams, Read(s)
      PROVE  CompleteInv'
  BY <1>9, CompleteRead
<1>10. CASE UNCHANGED vars
  BY <1>10 DEF CompleteInv
<1>11. QED
  BY <1>1, <1>2, <1>3, <1>4, <1>5, <1>6, <1>7, <1>8, <1>9, <1>10
     DEF Next, ProcessStep, RunStep, Over

\* For every program, a command that ends before its context does is reported
\* with its exit code and, unless a line was too long, with all of its output.
THEOREM ResultIsComplete == Spec => []CompleteResult
<1>1. Init => JoinInv /\ LineInv /\ CompleteInv
  BY DEF Init, JoinInv, LineInv, CompleteInv
<1>2. JoinInv /\ LineInv /\ CompleteInv => CompleteResult
  <2> SUFFICES ASSUME JoinInv, LineInv, CompleteInv, run = "returned", result.err = "none",
                      ctx = "live"
               PROVE  /\ result.exit = program.exit
                      /\ program.long = {} =>
                           \A s \in Streams : handled[s] = [i \in 1 .. program.lines[s] |-> i]
    BY DEF CompleteResult
  <2>1. /\ result.exit = program.exit /\ child = "exited" /\ written = program.lines
        /\ \A s \in Streams : reader[s] = "done"
    BY DEF CompleteInv
  <2>2. ASSUME program.long = {}, NEW s \in Streams
        PROVE  handled[s] = [i \in 1 .. program.lines[s] |-> i]
    <3>1. handled[s] \in Seq(Nat) /\ Len(handled[s]) = program.lines[s]
      BY <2>1, <2>2 DEF CompleteInv, LineInv
    <3>2. \A i \in 1 .. Len(handled[s]) : handled[s][i] = i
      BY DEF CompleteInv
    <3>3. QED
      BY <3>1, <3>2
  <2>3. QED
    BY <2>1, <2>2
<1>3. QED
  BY <1>1, <1>2, JoinStep, LineStep, CompleteStep, PTL DEF Spec

-----------------------------------------------------------------------------
(* Types *)

\* What Run makes of a command.
ResultType == [exit : Int, timedOut : BOOLEAN, err : {"none", "deadline", "error"}]

\* A result keeps its type when one of its fields gets a new value.
LEMMA ResultFields ==
  /\ Blank \in ResultType
  /\ \A r \in ResultType :
       /\ \A x \in Int : [r EXCEPT !.exit = x] \in ResultType
       /\ \A x \in BOOLEAN : [r EXCEPT !.timedOut = x] \in ResultType
       /\ \A x \in {"none", "deadline", "error"} : [r EXCEPT !.err = x] \in ResultType
<1>1. Blank \in ResultType
  BY DEF Blank, ResultType
<1>2. ASSUME NEW r \in ResultType, NEW x \in Int
      PROVE  [r EXCEPT !.exit = x] \in ResultType
  BY DEF ResultType
<1>3. ASSUME NEW r \in ResultType, NEW x \in BOOLEAN
      PROVE  [r EXCEPT !.timedOut = x] \in ResultType
  BY DEF ResultType
<1>4. ASSUME NEW r \in ResultType, NEW x \in {"none", "deadline", "error"}
      PROVE  [r EXCEPT !.err = x] \in ResultType
  BY DEF ResultType
<1>5. QED
  BY <1>1, <1>2, <1>3, <1>4

\* Every step keeps the type of every variable; what a step does to a pipe is
\* looked at by itself.
LEMMA TypeStep == TypeOK /\ [Next]_vars => TypeOK'
<1> SUFFICES ASSUME TypeOK, [Next]_vars PROVE TypeOK'
  OBVIOUS
<1> USE DEF process, vars
<1>0. result \in ResultType
  BY DEF TypeOK, ResultType
<1>1. ASSUME NEW s \in Streams, Write(s)
      PROVE  TypeOK'
  <2>1. PICK q \in Seq(Nat), n \in Nat : q = pipe[s] /\ n = written[s]
    BY DEF TypeOK
  <2>2. Append(q, n + 1) \in Seq(Nat) /\ Len(Append(q, n + 1)) = Len(q) + 1
    OBVIOUS
  <2>3. /\ pipe' \in [Streams -> Seq(Nat)] /\ written' \in [Streams -> Nat]
        /\ pipe'[s] = Append(q, n + 1) /\ \A t \in Streams \ {s} : pipe'[t] = pipe[t]
    BY <1>1, <2>1, <2>2 DEF Write, TypeOK
  <2>4. Len(pipe'[s]) <= PipeCap
    BY <1>1, <2>1, <2>2, <2>3, RunnerAssumption DEF Write
  <2>5. \A t \in Streams : Len(pipe'[t]) <= PipeCap
    BY <2>3, <2>4 DEF TypeOK
  <2>6. QED
    BY <1>1, <2>3, <2>5 DEF Write, TypeOK
<1>2. CASE ExitProcess \/ ExitDaemon \/ KillOnContext \/ Join
  BY <1>2 DEF ExitProcess, ExitDaemon, KillOnContext, Join, TypeOK
<1>3. CASE EndContext
  BY <1>3 DEF EndContext, TypeOK
<1>4. CASE Start
  <2>1. program.daemon \in BOOLEAN
    BY RunnerAssumption DEF TypeOK, ProgramType
  <2>2. result' \in ResultType
    <3>1. \/ result' = result
          \/ \E err \in {"error", "deadline"} : result' = [Blank EXCEPT !.err = err]
      BY <1>4 DEF Start
    <3>2. QED
      BY <1>0, <3>1, ResultFields
  <2>3. QED
    BY <1>4, <2>1, <2>2 DEF Start, TypeOK, ResultType
<1>5. ASSUME NEW s \in Streams, Read(s)
      PROVE  TypeOK'
  <2>1. PICK q \in Seq(Nat), h \in Seq(Nat) : q = pipe[s] /\ h = handled[s] /\ Len(q) <= PipeCap
    BY DEF TypeOK
  <2>2. reader' \in [Streams -> {"off", "read", "done"}]
    BY <1>5 DEF Read, TypeOK
  <2>3. CASE UNCHANGED <<pipe, handled>>
    BY <1>5, <2>2, <2>3 DEF Read, ReadUnchanged, TypeOK
  <2>4. CASE /\ q # <<>> /\ pipe' = [pipe EXCEPT ![s] = Tail(@)]
             /\ handled' = handled \/ handled' = [handled EXCEPT ![s] = Append(@, Head(q))]
    <3>1. /\ Head(q) \in Nat /\ Append(h, Head(q)) \in Seq(Nat)
          /\ Tail(q) \in Seq(Nat) /\ Len(Tail(q)) <= Len(q)
      BY <2>4
    <3>2. /\ pipe' \in [Streams -> Seq(Nat)] /\ pipe'[s] = Tail(q)
          /\ \A t \in Streams \ {s} : pipe'[t] = pipe[t]
      BY <2>1, <2>4, <3>1 DEF TypeOK
    <3>3. \A t \in Streams : Len(pipe'[t]) <= PipeCap
      <4>1. Len(q) \in Nat /\ Len(Tail(q)) \in Nat /\ PipeCap \in Nat
        BY <3>1, RunnerAssumption
      <4>2. Len(pipe'[s]) <= PipeCap
        BY <2>1, <3>1, <3>2, <4>1
      <4>3. QED
        BY <3>2, <4>2 DEF TypeOK
    <3>4. handled' \in [Streams -> Seq(Nat)]
      BY <2>1, <2>4, <3>1 DEF TypeOK
    <3>5. QED
      BY <1>5, <2>2, <3>2, <3>3, <3>4 DEF Read, ReadUnchanged, TypeOK
  <2>5. QED
    BY <1>5, <2>1, <2>3, <2>4 DEF Read
<1>6. CASE Return
  <2>1. program.exit \in Int /\ WaitCode \in Int
    BY RunnerAssumption DEF TypeOK, ProgramType, WaitCode, Killed
  <2>2. result' \in ResultType
    <3>1. \/ result' = [exit |-> -1, timedOut |-> TRUE, err |-> "deadline"]
          \/ result' = [Blank EXCEPT !.exit = WaitCode]
          \/ result' = [Blank EXCEPT !.err = "error"]
      BY <1>6 DEF Return, Outcomes
    <3>2. [exit |-> -1, timedOut |-> TRUE, err |-> "deadline"] \in ResultType
      BY DEF ResultType
    <3>3. QED
      BY <2>1, <3>1, <3>2, ResultFields
  <2>3. QED
    BY <1>6, <2>2 DEF Return, TypeOK, ResultType
<1>7. CASE UNCHANGED vars
  BY <1>7 DEF TypeOK
<1>8. QED
  BY <1>1, <1>2, <1>3, <1>4, <1>5, <1>6, <1>7 DEF Next, ProcessStep, RunStep, Over

\* Every variable keeps its type, and no pipe holds more than it can, for every
\* program and every capacity.
THEOREM TypeCorrect == Spec => []TypeOK
<1>1. Init => TypeOK
  <2> SUFFICES ASSUME Init PROVE TypeOK
    OBVIOUS
  <2>1. result \in ResultType
    BY ResultFields DEF Init
  <2>2. written \in [Streams -> Nat] /\ handled \in [Streams -> Seq(Nat)]
    BY DEF Init
  <2>3. pipe \in [Streams -> Seq(Nat)] /\ \A s \in Streams : Len(pipe[s]) <= PipeCap
    BY RunnerAssumption DEF Init
  <2>4. QED
    BY <2>1, <2>2, <2>3 DEF Init, TypeOK, ResultType
<1>2. QED
  BY <1>1, TypeStep, PTL DEF Spec
=============================================================================
