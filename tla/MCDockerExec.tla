----------------------------- MODULE MCDockerExec -----------------------------
(* Instances of DockerExec for TLC. *)
EXTENDS DockerExec

Program(out, err, exit, hangs) ==
  [lines |-> [s \in Streams |-> IF s = "stdout" THEN out ELSE err],
   exit |-> exit, hangs |-> hangs]

\* Commands that end, well or badly, and commands that hang.
MCPrograms ==
  {Program(out, err, exit, FALSE) : out \in {0, 2}, err \in {0, 1}, exit \in {0, 3}}
  \cup {Program(2, 2, 0, FALSE), Program(1, 1, 0, TRUE)}

BothEnds == {"deadline", "canceled"}
=============================================================================
