----------------------------- MODULE MCProcRunner -----------------------------
(* Instances of ProcRunner for TLC. *)
EXTENDS ProcRunner

Program(out, err, long, exit, hangs, left) ==
  [lines |-> [s \in Streams |-> IF s = "stdout" THEN out ELSE err],
   long |-> long, exit |-> exit, hangs |-> hangs, daemon |-> left]

\* Well-behaved programs, some with more lines than a pipe holds; programs that
\* hang, with and without a daemon; and one whose first line is too long.
MCPrograms ==
  {Program(out, err, {}, exit, FALSE, left) :
     out \in {0, 3}, err \in {0, 2}, exit \in {0, 3}, left \in BOOLEAN}
  \cup {Program(2, 1, {}, 0, TRUE, left) : left \in BOOLEAN}
  \cup {Program(3, 1, {1}, 0, FALSE, FALSE)}

BothEnds == {"deadline", "canceled"}
=============================================================================
