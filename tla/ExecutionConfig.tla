---------------------------- MODULE ExecutionConfig ----------------------------
(***************************************************************************)
(* How the configuration of a run is read, normalised and validated        *)
(* (src/internal/config, src/internal/compat, src/internal/model).         *)
(*                                                                         *)
(* A configuration says twice where a run is executed: with the triple of  *)
(* its execution section, and with the older fields of the other sections. *)
(* Normalising derives the one from the other.  Validation looks at a copy *)
(* that it normalises itself.  All of it is pure; K8sSubmit puts it to use.*)
(*                                                                         *)
(* The fields are named after the section where the code has two of one    *)
(* name: backend, provider and profile are execution.*, kind is            *)
(* backend.kind, runtime is runtime.profile, docker and k8s are the        *)
(* providers of these sections, kataClass is kata.runtime_class_name.      *)
(* Only the fields that decide where a run is executed are kept.           *)
(***************************************************************************)

\* The backends; each legacy kind has here the name of its backend.
Backends ==
  {"direct", "docker", "k8s", "opensandbox", "devcontainer", "apple", "machine"}

\* The profiles with a runtime of their own, which needs a runtime class.
Isolated == {"kata", "gvisor", "firecracker"}

\* The clusters that k8s.provider knows by name; all others are "remote".
NamedClusters == {"orbstack", "minikube", "k3s", "microk8s"}

Triple(c) == <<c.backend, c.provider, c.profile>>

-----------------------------------------------------------------------------
(* Reading *)

DefaultRunConfig ==
  [id |-> "", backend |-> "", provider |-> "", profile |-> "",
   kind |-> "direct", mode |-> "local_direct", runtime |-> "native", class |-> "",
   kata |-> FALSE, kataClass |-> "kata", docker |-> "docker", k8s |-> "remote",
   sandboxes |-> "docker"]

\* c with the fields that a file, or the environment, gives.
Overlay(c, given) == [f \in DOMAIN c |-> IF f \in DOMAIN given THEN given[f] ELSE c[f]]

\* What the environment can give.
EnvFields == {"id", "kind", "mode", "runtime", "class", "docker", "k8s", "sandboxes"}

ApplyRunEnvOverrides(c, env) == Overlay(c, [f \in DOMAIN env \cap EnvFields |-> env[f]])

\* The microVM profile is Firecracker's by another name.
NormalizeProfile(profile) == IF profile = "microvm" THEN "firecracker" ELSE profile

-----------------------------------------------------------------------------
(* The execution triple *)

\* The backend each run mode is for.
InferBackendKind(mode) ==
  CASE mode = "local_docker" -> "docker"
    [] mode = "local_devcontainer" -> "devcontainer"
    [] mode = "local_apple_container" -> "apple"
    [] mode = "local_orbstack_machine" -> "machine"
    [] mode = "stg_linux" -> "k8s"
    [] mode \in {"local_opensandbox_docker", "stg_opensandbox_k8s"} -> "opensandbox"
    [] OTHER -> "direct"

InferRunModeFromExecution(c) ==
  CASE c.backend = "direct" -> "local_direct"
    [] c.backend = "docker" -> "local_docker"
    [] c.backend = "devcontainer" -> "local_devcontainer"
    [] c.backend = "apple" -> "local_apple_container"
    [] c.backend = "machine" -> "local_orbstack_machine"
    [] c.backend = "k8s" -> "stg_linux"
    [] c.backend = "opensandbox" ->
         IF c.sandboxes = "kubernetes" THEN "stg_opensandbox_k8s" ELSE "local_opensandbox_docker"
    [] OTHER -> c.mode

DefaultProviderForBackend(backend) ==
  CASE backend = "opensandbox" -> "opensandbox"
    [] backend = "machine" -> "orbstack"
    [] backend \in Backends \ {"opensandbox", "machine"} -> "native"
    [] OTHER -> ""

\* The kind, unless the run mode tells more.
ExecutionBackendFromLegacy(c) ==
  LET kind == IF c.kind \in {"", "direct"} THEN InferBackendKind(c.mode) ELSE c.kind IN
  IF kind \in Backends THEN kind ELSE "direct"

ExecutionProviderFromLegacy(c, backend) ==
  CASE backend = "docker" -> IF c.docker = "orbstack" THEN "orbstack" ELSE "native"
    [] backend = "k8s" -> IF c.k8s \in NamedClusters THEN c.k8s ELSE "native"
    [] OTHER -> DefaultProviderForBackend(backend)

ExecutionRuntimeProfileFromLegacy(c) ==
  IF c.runtime \in Isolated THEN c.runtime ELSE IF c.kata THEN "kata" ELSE "default"

\* Without a backend, the triple is what the other sections say.
DeriveExecutionConfig(c) ==
  LET backend == ExecutionBackendFromLegacy(c) IN
  [c EXCEPT !.backend = backend,
            !.provider = ExecutionProviderFromLegacy(c, backend),
            !.profile = ExecutionRuntimeProfileFromLegacy(c)]

\* A triple with a backend is completed.
CompleteExecutionConfig(c) ==
  [c EXCEPT !.provider = IF @ = "" THEN DefaultProviderForBackend(c.backend) ELSE @,
            !.profile = IF @ = "" THEN "default" ELSE NormalizeProfile(@)]

InternalRuntimeProfileForExecution(c) ==
  IF c.profile \in Isolated THEN c.profile
  ELSE IF c.backend \in {"apple", "machine"} THEN c.backend ELSE "native"

\* A backend that is not known counts as direct.
LegacyBackendKindForExecution(backend) == IF backend \in Backends THEN backend ELSE "direct"

\* The other sections take what the triple says.
ApplyExecutionConfig(c) ==
  [c EXCEPT
     !.kind = LegacyBackendKindForExecution(c.backend),
     !.mode = IF @ = "" THEN InferRunModeFromExecution(c) ELSE @,
     !.runtime = InternalRuntimeProfileForExecution(c),
     !.docker = IF c.backend # "docker" THEN @
                ELSE IF c.provider = "orbstack" THEN "orbstack"
                ELSE IF @ = "" THEN "docker" ELSE @,
     !.k8s = IF c.backend # "k8s" THEN @
             ELSE IF c.provider \in NamedClusters THEN c.provider ELSE "remote"]

NormalizeExecutionConfig(c) ==
  ApplyExecutionConfig(IF c.backend = "" THEN DeriveExecutionConfig(c)
                                         ELSE CompleteExecutionConfig(c))

-----------------------------------------------------------------------------
(* The whole configuration *)

\* The runtime profile tells OrbStack's Docker and Kubernetes from the others.
NativeRuntimeProfile(c) ==
  IF c.runtime # "native" THEN c.runtime
  ELSE CASE c.kind \in {"apple", "machine"} -> c.kind
         [] c.kind = "docker" /\ c.docker = "orbstack" -> "orbstack-docker"
         [] c.kind = "k8s" /\ c.k8s = "orbstack" -> "orbstack-k8s"
         [] OTHER -> "native"

\* A runtime class is needed: then it is Kata's, if no other is given, and
\* Kata's becomes the one that is.
ClassName(c) == IF c.class = "" /\ c.profile \in Isolated THEN c.kataClass ELSE c.class

WithRuntimeClass(c) ==
  [c EXCEPT !.class = ClassName(c),
            !.kataClass = IF ClassName(c) # "" THEN ClassName(c) ELSE @]

NormalizeRunConfig(raw) ==
  LET c == NormalizeExecutionConfig([raw EXCEPT !.runtime = NormalizeProfile(@)])
      k == [c EXCEPT !.kind = IF @ = "direct" THEN InferBackendKind(c.mode) ELSE @]
      r == [k EXCEPT !.runtime = NativeRuntimeProfile(k)]
  IN WithRuntimeClass([r EXCEPT !.kata = @ \/ r.runtime = "kata",
                                !.docker = IF @ = "" THEN "docker" ELSE @,
                                !.k8s = IF @ = "" THEN "remote" ELSE @])

-----------------------------------------------------------------------------
(* Validation *)

\* The run modes a backend kind goes with.
ModesOf(kind) ==
  IF kind = "opensandbox" THEN {"local_opensandbox_docker", "stg_opensandbox_k8s"}
  ELSE {InferRunModeFromExecution([backend |-> kind, mode |-> ""])}

ValidateBackendRunMode(c) == c.mode \in ModesOf(c.kind)

RuntimeClassNameForConfig(c) ==
  IF c.class # "" THEN c.class ELSE IF c.profile \in Isolated THEN c.kataClass ELSE ""

\* Only a cluster has runtime classes.
RequiresRuntimeClassForBackend(c) ==
  c.backend = "k8s" \/ (c.backend = "opensandbox" /\ c.sandboxes = "kubernetes")

ValidateExecutionRuntime(c, os) ==
  /\ c.profile \in Isolated /\ RequiresRuntimeClassForBackend(c) =>
       RuntimeClassNameForConfig(c) # ""
  /\ c.backend \in {"apple", "machine"} => os = "darwin"

\* The compatibility matrix.
AllowedRules ==
  ({"docker"} \X {"native", "orbstack", "docker-desktop", "colima"} \X {"default"})
    \cup ({"k8s"} \X {"native", "minikube", "k3s", "microk8s"} \X ({"default"} \cup Isolated))
    \cup ({"k8s"} \X {"orbstack", "kind", "docker-desktop", "gke", "eks", "aks"} \X {"default"})
    \cup {<<"k8s", "gke", "kata">>, <<"k8s", "gke", "gvisor">>, <<"k8s", "eks", "kata">>}
    \cup ({"opensandbox"} \X {"opensandbox"} \X ({"default"} \cup Isolated))
    \cup ({"direct", "devcontainer", "apple"} \X {"native"} \X {"default"})
    \cup {<<"machine", "orbstack", "default">>}

ValidateCompatibility(c) == Triple(c) \in AllowedRules

ValidateRunConfigModeMutant(c, os) ==
  LET v == NormalizeExecutionConfig(c) IN
  /\ ValidateExecutionRuntime(v, os) /\ ValidateCompatibility(v)

\* ValidateRunConfig on a host with this OS.  What it asks of the fields that
\* are left out here is a choice of its caller's.
ValidateRunConfig(c, os) ==
  LET v == NormalizeExecutionConfig(c) IN
  /\ ValidateBackendRunMode(v)
  /\ ValidateExecutionRuntime(v, os)
  /\ ValidateCompatibility(v)
  /\ v.kind = "docker" => v.docker \in {"docker", "orbstack"}

\* The configuration LoadRunConfig returns; it is to be validated.
LoadRunConfig(file, env) ==
  NormalizeRunConfig(ApplyRunEnvOverrides(Overlay(DefaultRunConfig, file), env))
=============================================================================
