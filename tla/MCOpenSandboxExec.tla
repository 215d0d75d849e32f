--------------------------- MODULE MCOpenSandboxExec ---------------------------
(* Instances of OpenSandboxExec for TLC. *)
EXTENDS OpenSandboxExec

Program(out, err, exit, hangs, numeric) ==
  [lines |-> [s \in Streams |-> IF s = "stdout" THEN out ELSE err],
   exit |-> exit, hangs |-> hangs, numeric |-> numeric]

\* Commands that end, well or badly, one of them with more lines than the
\* connection and the log channel hold together; failures without a number; and
\* a command that hangs.
MCPrograms ==
  {Program(out, err, exit, FALSE, TRUE) : out \in {0, 2}, err \in {0, 1}, exit \in {0, 3}}
  \cup {Program(4, 2, 0, FALSE, TRUE), Program(1, 1, 0, TRUE, TRUE)}
  \cup {Program(0, 0, 3, FALSE, FALSE), Program(2, 1, 3, FALSE, FALSE)}

\* The command that is still running when its stream is cut.
LongProgram == {Program(1, 0, 0, TRUE, TRUE)}

BothEnds == {"deadline", "canceled"}
NoEnd == {}
=============================================================================
