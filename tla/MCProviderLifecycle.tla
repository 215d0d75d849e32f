------------------------- MODULE MCProviderLifecycle -------------------------
(* Instances of ProviderLifecycle for TLC. *)
EXTENDS ProviderLifecycle

TwoRuns == {"r1", "r2"}

Conf(kind, mode, key, options) ==
  [kind |-> kind, mode |-> mode, key |-> key, options |-> options]
Pair(a, b) == [r \in TwoRuns |-> IF r = "r1" THEN a ELSE b]

\* Dev containers of one workspace, machines of one name, Apple containers of one
\* run ID or of two.
Containers ==
  <<Conf("devcontainer", "delete", 1, {"userCommands", "down"}),
    Conf("devcontainer", "delete", 1, {"replace"}),
    Conf("devcontainer", "keep", 1, {})>>
Machines ==
  <<Conf("machine", "delete", 1, {"autoCreate"}), Conf("machine", "keep", 1, {}),
    Conf("machine", "stop", 1, {"autoCreate"})>>
Apples ==
  <<Conf("apple", "delete", 1, {}), Conf("apple", "keep", 1, {}),
    Conf("apple", "delete", 2, {})>>
Sandbox == Conf("opensandbox", "pause", 1, {})
Probing == Conf("opensandbox", "delete", 1, {"probe"})

\* All pairs of one kind (the two runs are alike), a probe beside a run of another kind,
\* and two OpenSandbox runs.
Pairs(confs) ==
  {Pair(confs[p[1]], confs[p[2]]) :
     p \in {q \in (1 .. 3) \X (1 .. 3) : q[1] <= q[2]}}
MCConfigurations ==
  UNION {Pairs(confs) : confs \in {Containers, Machines, Apples}}
    \cup {Pair(Probing, Machines[2]), Pair(Sandbox, Sandbox)}

\* Nothing, or the user's own container and machine.
Own(kind, id) ==
  [id |-> id, name |-> <<kind, 1>>, maker |-> "user", use |-> "run", state |-> "stopped",
   tree |-> "whole", archive |-> "none"]
MCFoundBoxes == {{}, {Own("devcontainer", 1), Own("machine", 2)}}
=============================================================================
