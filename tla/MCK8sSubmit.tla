------------------------------ MODULE MCK8sSubmit ------------------------------
(* Instances of K8sSubmit for TLC. *)
EXTENDS K8sSubmit

TwoSubmissions == {"s1", "s2"}
OneSecond == {"t"}

Given(file, env) == [file |-> file, env |-> env]
NoEnv == [f \in {} |-> ""]

\* Files with an execution section: complete, incomplete, or wrong.
Executions ==
  [id : {"a"}, backend : Backends \cup {"other"}, mode : {"", "local_direct", "stg_linux"},
   provider : {"", "native", "orbstack", "minikube", "gke"},
   profile : {"", "default", "kata", "microvm"}, kind : {"direct", "docker"},
   docker : {"docker", "orbstack"}, kataClass : {"", "kata"}]

\* Files without one.
Legacies ==
  [id : {"a"}, kind : Backends \cup {""}, kata : BOOLEAN,
   mode : {"", "local_direct", "local_docker", "local_apple_container", "stg_linux",
           "stg_opensandbox_k8s"},
   runtime : {"native", "kata", "microvm"}, class : {"", "class"},
   docker : {"docker", "orbstack"}, k8s : {"", "remote", "minikube"}]

\* Files with a part of one.
Partials == [id : {"a"}, mode : {"stg_linux"}, profile : {"kata", "default"}]

Files == Executions \cup Legacies \cup Partials

\* The other submission: of the same run, of another, or with a run ID to be made up;
\* the environment gives the last one its mode.
Others ==
  {Given([id |-> "a", backend |-> "k8s", mode |-> ""], NoEnv),
   Given([id |-> "b", backend |-> "k8s", provider |-> "k3s", mode |-> ""], NoEnv),
   Given([id |-> "", profile |-> ""], [mode |-> "stg_linux", class |-> "class"])}

MCInputs ==
  {[s \in TwoSubmissions |-> IF s = "s1" THEN Given(file, NoEnv) ELSE other] :
     file \in Files, other \in Others}
    \cup {[s \in TwoSubmissions |-> other] : other \in Others}
=============================================================================
