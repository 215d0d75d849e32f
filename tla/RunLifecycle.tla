---------------------------- MODULE RunLifecycle ----------------------------
(***************************************************************************)
(* What a run of sandbox-runner promises, seen from outside the engine.    *)
(*                                                                         *)
(* A run goes through prepare, setup, execute, verify and collect.  The    *)
(* configuration may disable setup, execute and verify.  The first of the  *)
(* four main phases that fails ends the main part; collect comes after it  *)
(* in every run that produced an artifact directory, and a sandbox the run *)
(* got hold of in prepare is settled (deleted, paused, stopped or          *)
(* deliberately kept) in collect, before the run is over and after the     *)
(* last command.  RunEngine is shown to implement this specification.      *)
(***************************************************************************)

\* The phases a configuration may disable.
Optional == {"setup", "execute", "verify"}

Phases == {"prepare", "setup", "execute", "verify", "collect"}

\* The main phases that must have succeeded before p may run.
Before(p) ==
  CASE p = "prepare" -> {}
    [] p = "setup"   -> {"prepare"}
    [] p = "execute" -> {"prepare", "setup"}
    [] p = "verify"  -> {"prepare", "setup", "execute"}
    [] p = "collect" -> {"prepare", "setup", "execute", "verify"}

VARIABLES
  disabled,   \* the phases this run skips
  outcome,    \* "pending", "ok" or "failed", per phase
  sandbox,    \* "none", "held" or "settled"
  over        \* the engine has returned

vars == <<disabled, outcome, sandbox, over>>

TypeOK ==
  /\ disabled \subseteq Optional
  /\ outcome \in [Phases -> {"pending", "ok", "failed"}]
  /\ sandbox \in {"none", "held", "settled"}
  /\ over \in BOOLEAN

Init ==
  /\ disabled \in SUBSET Optional
  /\ outcome = [p \in Phases |-> "pending"]
  /\ sandbox = "none"
  /\ over = FALSE

Failed == \E p \in Phases : outcome[p] = "failed"

\* p may run: it is enabled, and everything enabled before it went well.
Turn(p) ==
  /\ p \notin disabled
  /\ outcome[p] = "pending"
  /\ \A q \in Before(p) \ disabled : outcome[q] = "ok"

\* The main part is finished, well or badly; only collect is left.
CollectDue == Failed \/ Turn("collect")

\* The request is turned down before there is anywhere to write.
Refuse ==
  /\ ~over /\ outcome["prepare"] = "pending" /\ sandbox = "none"
  /\ outcome' = [outcome EXCEPT !["prepare"] = "failed"]
  /\ over' = TRUE
  /\ UNCHANGED <<disabled, sandbox>>

\* Prepare gets hold of a sandbox.
Acquire ==
  /\ ~over /\ outcome["prepare"] = "pending" /\ sandbox = "none"
  /\ sandbox' = "held"
  /\ UNCHANGED <<disabled, outcome, over>>

\* A main phase ends, in its turn, before the sandbox is given up.
EndMainPhase(p) ==
  /\ ~over /\ p # "collect" /\ Turn(p) /\ sandbox # "settled"
  /\ \E end \in {"ok", "failed"} : outcome' = [outcome EXCEPT ![p] = end]
  /\ UNCHANGED <<disabled, sandbox, over>>

\* Collect disposes of the sandbox.
Settle ==
  /\ ~over /\ CollectDue /\ sandbox = "held"
  /\ sandbox' = "settled"
  /\ UNCHANGED <<disabled, outcome, over>>

\* Collect ends and the run with it; no sandbox is still held.
EndCollect ==
  /\ ~over /\ CollectDue /\ sandbox # "held"
  /\ \E end \in {"ok", "failed"} : outcome' = [outcome EXCEPT !["collect"] = end]
  /\ over' = TRUE
  /\ UNCHANGED <<disabled, sandbox>>

Next ==
  \/ Refuse
  \/ Acquire
  \/ \E p \in Phases : EndMainPhase(p)
  \/ Settle
  \/ EndCollect

Spec == Init /\ [][Next]_vars

=============================================================================
