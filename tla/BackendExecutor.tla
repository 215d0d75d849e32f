--------------------------- MODULE BackendExecutor ---------------------------
(***************************************************************************)
(* The consumer half of a command on a managed backend: BackendExecutor.Run *)
(* (src/internal/executor/backend.go).  It starts the command through the  *)
(* backend, takes log chunks from the channel the backend fills until that *)
(* is closed or its own context ends, asks for the status once and builds  *)
(* the result.  The backends are modelled by the modules that extend this  *)
(* one and add the producer half.                                          *)
(***************************************************************************)
EXTENDS Integers, Sequences, FiniteSets

CONSTANTS
  LogCap,   \* capacity of the log channel
  CtxEnds   \* the ways in which the caller's context may end

ASSUME ExecutorAssumption ==
  /\ LogCap \in Nat \ {0}
  /\ CtxEnds \subseteq {"deadline", "canceled"}

Streams == {"stdout", "stderr"}

Nothing == [exit |-> 0, timedOut |-> FALSE, err |-> "none"]

VARIABLES
  ctx,      \* "live", or how the context of the caller ended
  logs,     \* the log channel: chunks of the form [stream, line]
  closed,   \* the log channel has been closed
  run,      \* where Run stands: "exec", "loop", "status" or "returned"
  handled,  \* the lines given to the log handler, per stream
  result    \* the result and error of Run

executorVars == <<ctx, logs, closed, run, handled, result>>

ExecutorInit ==
  /\ ctx = "live"
  /\ logs = <<>> /\ closed = FALSE
  /\ run = "exec"
  /\ handled = [s \in Streams |-> <<>>]
  /\ result = Nothing

ExecutorTypeOK ==
  /\ ctx \in {"live"} \cup CtxEnds
  /\ logs \in Seq([stream : Streams, line : Nat]) /\ Len(logs) <= LogCap
  /\ closed \in BOOLEAN
  /\ run \in {"exec", "loop", "status", "returned"}
  /\ handled \in [Streams -> Seq(Nat)]
  /\ result \in [exit : Int, timedOut : BOOLEAN, err : {"none", "deadline", "error"}]

\* A timeout of the caller, or its cancellation.
EndContext ==
  /\ ctx = "live"
  /\ ctx' \in CtxEnds
  /\ UNCHANGED <<logs, closed, run, handled, result>>

\* Backend.Exec and StreamLogs hand back the channel, or one of them fails.
Started ==
  /\ run = "exec" /\ run' = "loop"
  /\ UNCHANGED <<ctx, logs, closed, handled, result>>

StartFailed(err) ==
  /\ run = "exec" /\ run' = "returned"
  /\ result' = [Nothing EXCEPT !.err = err]
  /\ UNCHANGED <<ctx, logs, closed, handled>>

\* The select of the loop: a chunk, the end of the channel, the context.
Receive ==
  /\ run = "loop" /\ logs # <<>>
  /\ LET chunk == Head(logs)
     IN  handled' = [handled EXCEPT ![chunk.stream] = Append(@, chunk.line)]
  /\ logs' = Tail(logs)
  /\ UNCHANGED <<ctx, closed, run, result>>

SeeClosed ==
  /\ run = "loop" /\ logs = <<>> /\ closed
  /\ run' = "status"
  /\ UNCHANGED <<ctx, logs, closed, handled, result>>

\* CancelExec, part of this step, is the backend's.
StopWaiting ==
  /\ run = "loop" /\ ctx # "live"
  /\ run' = "status"
  /\ UNCHANGED <<ctx, logs, closed, handled, result>>

\* Without an exit code the command counts as having exited with 0.
ExitOf(codes) == IF codes = {} THEN 0 ELSE CHOOSE code \in codes : TRUE

\* The result, from the exit code in the backend's status.  Only an expired
\* context is an error.
Return(codes) ==
  /\ run = "status" /\ run' = "returned"
  /\ LET timedOut == ctx = "deadline"
     IN  result' = [exit |-> ExitOf(codes),
                    timedOut |-> timedOut,
                    err |-> IF timedOut THEN "deadline" ELSE "none"]
  /\ UNCHANGED <<ctx, logs, closed, handled>>

Success == run = "returned" /\ result.err = "none" /\ result.exit = 0
=============================================================================
