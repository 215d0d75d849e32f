----------------------------- MODULE MCRunEngine -----------------------------
(* Instances of RunEngine for TLC. *)
EXTENDS RunEngine

Full(kind, cleanup) ==
  [kind |-> kind, cleanup |-> cleanup, setup |-> TRUE, execute |-> TRUE,
   verify |-> TRUE, smoke |-> TRUE, upload |-> TRUE]

\* Every phase enabled, over each backend kind and cleanup mode; and the direct
\* backend with every choice of phases.
MCConfigs ==
  {Full(k, c) : k \in Kinds \ {"unmanaged"}, c \in CleanupModes}
  \cup [kind : {"unmanaged"}, cleanup : {"keep"}, setup : BOOLEAN,
        execute : BOOLEAN, verify : BOOLEAN, smoke : BOOLEAN, upload : BOOLEAN]

\* The smallest run: a direct one with its main command only.
OneConfig ==
  {[kind |-> "unmanaged", cleanup |-> "keep", setup |-> FALSE, execute |-> TRUE,
    verify |-> FALSE, smoke |-> FALSE, upload |-> FALSE]}

\* Success, a failing command, and the -1 of a command killed at its deadline.
MCExitCodes == {0, 3, -1}
=============================================================================
