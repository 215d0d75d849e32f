----------------------------- MODULE ExecContract -----------------------------
(***************************************************************************)
(* What a backend executor promises the engine about one command: the     *)
(* lines it hands on are the command's, in order, stream by stream, none   *)
(* twice; it returns once; and it returns success only when the command    *)
(* has ended successfully, unless the command was given up: by its caller, *)
(* or because what would tell how it ended is lost.                        *)
(***************************************************************************)
EXTENDS Integers, Sequences

CONSTANT Streams

VARIABLES
  written,   \* lines the command has written, per stream
  handled,   \* the numbers of the lines handed to the log handler
  ended,     \* "running", "ok" (exit code 0) or "bad"
  givenUp,   \* the caller has cancelled its context, or the end cannot be known
  returned   \* what the engine got: "nothing", "failure" or "success"

vars == <<written, handled, ended, givenUp, returned>>

Init ==
  /\ written = [s \in Streams |-> 0]
  /\ handled = [s \in Streams |-> <<>>]
  /\ ended = "running"
  /\ givenUp = FALSE
  /\ returned = "nothing"

Write(s) ==
  /\ ended = "running"
  /\ written' = [written EXCEPT ![s] = @ + 1]
  /\ UNCHANGED <<handled, ended, givenUp, returned>>

\* The next line of a stream is handed on.
Handle(s) ==
  /\ returned = "nothing"
  /\ Len(handled[s]) < written[s]
  /\ handled' = [handled EXCEPT ![s] = Append(@, Len(@) + 1)]
  /\ UNCHANGED <<written, ended, givenUp, returned>>

\* Lines not handed on by the time of Return are lost: the contract is silent
\* about how many.
End(code) ==
  /\ ended = "running"
  /\ ended' = code
  /\ UNCHANGED <<written, handled, givenUp, returned>>

GiveUp ==
  /\ ~givenUp
  /\ givenUp' = TRUE
  /\ UNCHANGED <<written, handled, ended, returned>>

\* The command may be given up by the step that returns.
Return(outcome) ==
  /\ returned = "nothing"
  /\ returned' = outcome
  /\ givenUp' \in {givenUp, TRUE}
  /\ outcome = "success" => ended = "ok" \/ givenUp'
  /\ UNCHANGED <<written, handled, ended>>

Next ==
  \/ \E s \in Streams : Write(s) \/ Handle(s)
  \/ \E code \in {"ok", "bad"} : End(code)
  \/ GiveUp
  \/ \E outcome \in {"failure", "success"} : Return(outcome)

Spec == Init /\ [][Next]_vars

=============================================================================
