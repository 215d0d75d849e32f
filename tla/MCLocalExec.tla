----------------------------- MODULE MCLocalExec -----------------------------
(* Instances of LocalExec for TLC. *)
EXTENDS LocalExec

Program(out, err, long, exit, hangs) ==
  [lines |-> [s \in Streams |-> IF s = "stdout" THEN out ELSE err],
   long |-> long, exit |-> exit, hangs |-> hangs]

\* Well-behaved programs; one more line than the pipe and the channel hold
\* together; programs that hang; and one whose first line is too long.
MCPrograms ==
  {Program(out, err, {}, exit, FALSE) : out \in {0, 2}, err \in {0, 1}, exit \in {0, 3}}
  \cup {Program(4, 1, {}, 0, FALSE), Program(1, 1, {}, 0, TRUE), Program(3, 1, {1}, 0, FALSE)}

\* One program that ends, and one that does not.
EndingProgram == {Program(1, 1, {}, 0, FALSE)}
HangingProgram == {Program(1, 0, {}, 0, TRUE)}

BothEnds == {"deadline", "canceled"}
NoEnd == {}
=============================================================================
