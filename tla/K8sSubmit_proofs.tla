---------------------------- MODULE K8sSubmit_proofs ----------------------------
(***************************************************************************)
(* Every submission, for any number of them, any files and environments    *)
(* and any answers of the cluster.  The first half is about ExecutionConfig*)
(* alone: what normalising changes, that doing it again changes nothing,   *)
(* and what validation shows of a normalised configuration.                *)
(***************************************************************************)
EXTENDS K8sSubmit, TLAPS

\* The fields of a configuration.
Fields ==
  {"id", "backend", "provider", "profile", "kind", "mode", "runtime", "class", "kata",
   "kataClass", "docker", "k8s", "sandboxes"}

\* A configuration: these fields, of which the switch for Kata is a Boolean.  The texts
\* may be anything.
IsConfig(c) == c = [f \in Fields |-> c[f]] /\ c.kata \in BOOLEAN

\* The defaults are a configuration.
LEMMA DefaultTyped == IsConfig(DefaultRunConfig)
  BY DEF DefaultRunConfig, IsConfig, Fields

\* So is what a file or the environment makes of one.
LEMMA OverlayTyped ==
  ASSUME NEW c, IsConfig(c), NEW g, "kata" \in DOMAIN g => g["kata"] \in BOOLEAN
  PROVE IsConfig(Overlay(c, g))
  BY DEF IsConfig, Overlay, Fields

\* Completing the triple leaves a configuration.
LEMMA CompleteTyped ==
  ASSUME NEW c, IsConfig(c) PROVE IsConfig(CompleteExecutionConfig(c))
  BY DEF IsConfig, CompleteExecutionConfig, Fields

\* Deriving the triple leaves a configuration.
LEMMA DeriveTyped ==
  ASSUME NEW c, IsConfig(c) PROVE IsConfig(DeriveExecutionConfig(c))
  BY DEF IsConfig, DeriveExecutionConfig, Fields

\* The values that ApplyExecutionConfig gives to the run mode and to the two providers.
ModeFor(c) == IF c.mode = "" THEN InferRunModeFromExecution(c) ELSE c.mode

\* The provider of the Docker section.
DockerFor(c) == IF c.backend # "docker" THEN c.docker
                ELSE IF c.provider = "orbstack" THEN "orbstack"
                ELSE IF c.docker = "" THEN "docker" ELSE c.docker

\* The provider of the Kubernetes section.
K8sFor(c) == IF c.backend # "k8s" THEN c.k8s
             ELSE IF c.provider \in NamedClusters THEN c.provider ELSE "remote"

\* Field by field, what ApplyExecutionConfig changes and what it leaves alone.
LEMMA ApplyFields ==
  ASSUME NEW c, IsConfig(c), NEW d, d = ApplyExecutionConfig(c)
  PROVE
   /\ IsConfig(d)
   /\ \A f \in Fields \ {"kind", "mode", "runtime", "docker", "k8s"} : d[f] = c[f]
   /\ d.kind = LegacyBackendKindForExecution(c.backend)
   /\ d.mode = ModeFor(c)
   /\ d.runtime = InternalRuntimeProfileForExecution(c)
   /\ d.docker = DockerFor(c)
   /\ d.k8s = K8sFor(c)
  <1>1. d = [c EXCEPT !.kind = LegacyBackendKindForExecution(c.backend), !.mode = ModeFor(c),
                !.runtime = InternalRuntimeProfileForExecution(c), !.docker = DockerFor(c),
                !.k8s = K8sFor(c)]
    BY DEF ApplyExecutionConfig, ModeFor, DockerFor, K8sFor
  <1>2. QED BY <1>1 DEF IsConfig, Fields

\* A triple that CompleteExecutionConfig has nothing to add to; only a backend that is not
\* known goes without a provider.
Complete(c) == 
  /\ c.backend # ""
  /\ c.provider = "" => DefaultProviderForBackend(c.backend) = ""
  /\ c.profile \notin {"", "microvm"}

\* CompleteExecutionConfig completes every triple that has a backend.
LEMMA CompleteC ==
  ASSUME NEW c, IsConfig(c), c.backend # "" PROVE Complete(CompleteExecutionConfig(c))
  BY DEF IsConfig, CompleteExecutionConfig, Fields, Complete, NormalizeProfile,
         DefaultProviderForBackend

\* DeriveExecutionConfig completes every triple that has none.
LEMMA DeriveC ==
  ASSUME NEW c, IsConfig(c) PROVE Complete(DeriveExecutionConfig(c))
  BY DEF IsConfig, DeriveExecutionConfig, Fields, Complete, DefaultProviderForBackend,
         ExecutionBackendFromLegacy, ExecutionProviderFromLegacy,
         ExecutionRuntimeProfileFromLegacy, InferBackendKind, NamedClusters, Isolated, Backends

\* The sections are always derived from a complete triple.
LEMMA Executed ==
  ASSUME NEW raw, IsConfig(raw)
  PROVE \E c : /\ IsConfig(c) /\ Complete(c)
               /\ NormalizeExecutionConfig(raw) = ApplyExecutionConfig(c)
  BY CompleteTyped, DeriveTyped, CompleteC, DeriveC DEF NormalizeExecutionConfig

\* The backend kind, and the runtime profile, of a normalised configuration.
KindFor(c) ==
  LET kind == LegacyBackendKindForExecution(c.backend) IN
  IF kind = "direct" THEN InferBackendKind(c.mode) ELSE kind

\* Its runtime profile is that of the triple, told from OrbStack's.
RuntimeFor(c) == NativeRuntimeProfile([c EXCEPT !.runtime = InternalRuntimeProfileForExecution(c)])

\* Each section agrees with the triple: nothing is left for normalising to do.
Normal(d) ==
  /\ IsConfig(d)
  /\ Complete(d)
  /\ d.mode = ModeFor(d)
  /\ d.kind = KindFor(d)
  /\ d.runtime = RuntimeFor(d)
  /\ d.docker = DockerFor(d) /\ d.docker # ""
  /\ d.k8s = K8sFor(d) /\ d.k8s # ""
  /\ d.runtime = "kata" => d.kata
  /\ d.profile \in Isolated /\ d.class = "" => d.kataClass = ""
  /\ d.class # "" => d.kataClass = d.class

\* What NormalizeRunConfig does after the execution section.
Rest(c) ==
  LET k == [c EXCEPT !.kind = IF @ = "direct" THEN InferBackendKind(c.mode) ELSE @]
      r == [k EXCEPT !.runtime = NativeRuntimeProfile(k)]
  IN WithRuntimeClass([r EXCEPT !.kata = @ \/ r.runtime = "kata",
                                !.docker = IF @ = "" THEN "docker" ELSE @,
                                !.k8s = IF @ = "" THEN "remote" ELSE @])

\* The backend kind it settles on, and the runtime profile with that kind.
KindOf(c) == IF c.kind = "direct" THEN InferBackendKind(c.mode) ELSE c.kind

\* The runtime profile it settles on.
RuntimeOf(c) == NativeRuntimeProfile([c EXCEPT !.kind = KindOf(c)])

\* Field by field, what it changes and what it leaves alone.
LEMMA RestFields ==
  ASSUME NEW c, IsConfig(c), NEW d, d = Rest(c)
  PROVE
   /\ IsConfig(d)
   /\ \A f \in Fields \ {"kind", "runtime", "kata", "docker", "k8s", "class", "kataClass"} :
        d[f] = c[f]
   /\ d.kind = KindOf(c)
   /\ d.runtime = RuntimeOf(c)
   /\ d.kata = (c.kata \/ RuntimeOf(c) = "kata")
   /\ d.docker = IF c.docker = "" THEN "docker" ELSE c.docker
   /\ d.k8s = IF c.k8s = "" THEN "remote" ELSE c.k8s
   /\ d.class = ClassName(c)
   /\ d.kataClass = IF ClassName(c) # "" THEN ClassName(c) ELSE c.kataClass
  <1> DEFINE k == [c EXCEPT !.kind = KindOf(c)]
             r == [k EXCEPT !.runtime = RuntimeOf(c)]
             w == [r EXCEPT !.kata = @ \/ RuntimeOf(c) = "kata",
                                !.docker = IF @ = "" THEN "docker" ELSE @,
                                !.k8s = IF @ = "" THEN "remote" ELSE @]
  <1>1. r.runtime = RuntimeOf(c)
    BY DEF IsConfig, Fields
  <1>2. d = WithRuntimeClass(w)
    BY <1>1 DEF Rest, KindOf, RuntimeOf
  <1>3. /\ IsConfig(w)
        /\ \A f \in Fields \ {"kind", "runtime", "kata", "docker", "k8s"} : w[f] = c[f]
        /\ w.kind = KindOf(c) /\ w.runtime = RuntimeOf(c)
        /\ w.docker = (IF c.docker = "" THEN "docker" ELSE c.docker)
        /\ w.k8s = (IF c.k8s = "" THEN "remote" ELSE c.k8s)
    BY DEF IsConfig, Fields
  <1>6. w.kata = (c.kata \/ RuntimeOf(c) = "kata")
    BY DEF IsConfig, Fields
  <1>4. ClassName(w) = ClassName(c)
    BY <1>3 DEF ClassName, Fields
  <1> HIDE DEF w
  <1>5. QED
    BY <1>2, <1>3, <1>4,<1>6 DEF WithRuntimeClass, IsConfig, Fields

\* NormalizeRunConfig is the execution section and then the rest.
LEMMA RestOfExecution ==
  ASSUME NEW raw
  PROVE NormalizeRunConfig(raw)
          = Rest(NormalizeExecutionConfig([raw EXCEPT !.runtime = NormalizeProfile(@)]))
  BY DEF NormalizeRunConfig, Rest

\* NativeRuntimeProfile looks at the kind, the profile and OrbStack's two providers only.
LEMMA NativeRuntime ==
  ASSUME NEW c, IsConfig(c), NEW d, IsConfig(d),
         d.runtime = c.runtime, d.kind = c.kind, 
         (d.docker = "orbstack") = (c.docker = "orbstack"),
         (d.k8s = "orbstack") = (c.k8s = "orbstack")
  PROVE NativeRuntimeProfile(c) = NativeRuntimeProfile(d)
  BY DEF NativeRuntimeProfile

\* One pass over a complete triple gives a normal configuration.
LEMMA RestNormal ==
  ASSUME NEW c, IsConfig(c), Complete(c)
  PROVE Normal(Rest(ApplyExecutionConfig(c)))
  <1> DEFINE e == ApplyExecutionConfig(c)
             d == Rest(e)
  <1>1. /\ IsConfig(e)
        /\ \A f \in Fields \ {"kind", "mode", "runtime", "docker", "k8s"} : e[f] = c[f]
        /\ e.kind = LegacyBackendKindForExecution(c.backend)
        /\ e.mode = ModeFor(c)
        /\ e.runtime = InternalRuntimeProfileForExecution(c)
        /\ e.docker = DockerFor(c)
        /\ e.k8s = K8sFor(c)
    BY ApplyFields
  <1>2. /\ IsConfig(d)
        /\ \A f \in Fields \ {"kind", "runtime", "kata", "docker", "k8s", "class", "kataClass"} :
             d[f] = e[f]
        /\ d.kind = KindOf(e)
        /\ d.runtime = RuntimeOf(e)
        /\ d.kata = (e.kata \/ RuntimeOf(e) = "kata")
        /\ d.docker = IF e.docker = "" THEN "docker" ELSE e.docker
        /\ d.k8s = IF e.k8s = "" THEN "remote" ELSE e.k8s
        /\ d.class = ClassName(e)
        /\ d.kataClass = IF ClassName(e) # "" THEN ClassName(e) ELSE e.kataClass
    BY <1>1, RestFields
  <1> HIDE DEF e, d
  <1>3. /\ d.backend = c.backend /\ d.provider = c.provider /\ d.profile = c.profile
        /\ d.sandboxes = c.sandboxes /\ d.mode = ModeFor(c)
    BY <1>1, <1>2 DEF Fields
  <1>4. Complete(d)
    BY <1>3 DEF Complete
  <1>5. d.mode = ModeFor(d)
    BY <1>3 DEF ModeFor, InferRunModeFromExecution
  <1>6. d.kind = KindFor(d)
    BY <1>1, <1>2, <1>3 DEF KindFor, KindOf
  <1>7. d.docker = DockerFor(d) /\ d.docker # ""
    BY <1>1, <1>2, <1>3 DEF DockerFor
  <1>8. d.k8s = K8sFor(d) /\ d.k8s # ""
    BY <1>1, <1>2, <1>3 DEF K8sFor, NamedClusters
  <1>9. d.runtime = RuntimeFor(d)
    <2> DEFINE a == [e EXCEPT !.kind = KindOf(e)]
               b == [d EXCEPT !.runtime = InternalRuntimeProfileForExecution(d)]
    <2>1. /\ IsConfig(a) /\ a.kind = d.kind /\ a.runtime = e.runtime
          /\ a.docker = e.docker /\ a.k8s = e.k8s
      BY <1>1, <1>2 DEF IsConfig, Fields
    <2>2. /\ IsConfig(b) /\ b.kind = d.kind /\ b.runtime = InternalRuntimeProfileForExecution(d)
          /\ b.docker = d.docker /\ b.k8s = d.k8s
      BY <1>2 DEF IsConfig, Fields
    <2>3. e.runtime = InternalRuntimeProfileForExecution(d)
      BY <1>1, <1>3 DEF InternalRuntimeProfileForExecution
    <2>4. /\ (d.docker = "orbstack") = (e.docker = "orbstack")
          /\ (d.k8s = "orbstack") = (e.k8s = "orbstack")
      BY <1>2
    <2> HIDE DEF a, b
    <2>5. NativeRuntimeProfile(a) = NativeRuntimeProfile(b)
      BY <2>1, <2>2, <2>3, <2>4, NativeRuntime
    <2>6. QED
      BY <2>5, <1>2 DEF RuntimeOf, RuntimeFor, a, b
  <1>10. d.runtime = "kata" => d.kata
    BY <1>2
  <1>11. /\ d.profile \in Isolated /\ d.class = "" => d.kataClass = ""
         /\ d.class # "" => d.kataClass = d.class
    BY <1>1, <1>2, <1>3 DEF ClassName, Fields
  <1>12. QED
    BY <1>2, <1>4, <1>5, <1>6, <1>7, <1>8, <1>9, <1>10, <1>11 DEF Normal, d, e

\* NormalizeRunConfig returns a normal configuration, whatever it is given.
LEMMA NormalizedIsNormal ==
  ASSUME NEW raw, IsConfig(raw) PROVE Normal(NormalizeRunConfig(raw))
  <1> DEFINE n == [raw EXCEPT !.runtime = NormalizeProfile(@)]
  <1>1. IsConfig(n)
    BY DEF IsConfig, Fields
  <1>2. QED
    BY <1>1, Executed, RestNormal, RestOfExecution

\* NormalizeRunConfig leaves a normal configuration as it is.
LEMMA NormalizeKeepsNormal ==
  ASSUME NEW d, Normal(d) PROVE NormalizeRunConfig(d) = d
  <1> DEFINE n == [d EXCEPT !.runtime = NormalizeProfile(@)]
             c == CompleteExecutionConfig(n)
             e == ApplyExecutionConfig(c)
             r == Rest(e)
  <1>1. IsConfig(n) /\ \A f \in Fields \ {"runtime"} : n[f] = d[f]
    BY DEF Normal, IsConfig, Fields
  <1>2. IsConfig(c) /\ \A f \in Fields \ {"runtime"} : c[f] = d[f]
    <2>1. IsConfig(c)
      BY <1>1, CompleteTyped
    <2>2. /\ n.provider = "" => DefaultProviderForBackend(n.backend) = n.provider
          /\ n.profile # "" /\ NormalizeProfile(n.profile) = n.profile
      BY <1>1 DEF Normal, Complete, NormalizeProfile, Fields
    <2>3. \A f \in Fields \ {"runtime"} : c[f] = n[f]
      BY <2>2, <1>1 DEF CompleteExecutionConfig, IsConfig, Fields
    <2>4. QED BY <2>1, <2>3, <1>1
  <1>3. /\ IsConfig(e)
        /\ \A f \in Fields \ {"kind", "mode", "runtime", "docker", "k8s"} : e[f] = c[f]
        /\ e.kind = LegacyBackendKindForExecution(c.backend)
        /\ e.mode = ModeFor(c)
        /\ e.runtime = InternalRuntimeProfileForExecution(c)
        /\ e.docker = DockerFor(c)
        /\ e.k8s = K8sFor(c)
    BY <1>2, ApplyFields
  <1>4. /\ IsConfig(r)
        /\ \A f \in Fields \ {"kind", "runtime", "kata", "docker", "k8s", "class", "kataClass"} :
             r[f] = e[f]
        /\ r.kind = KindOf(e)
        /\ r.runtime = RuntimeOf(e)
        /\ r.kata = (e.kata \/ RuntimeOf(e) = "kata")
        /\ r.docker = IF e.docker = "" THEN "docker" ELSE e.docker
        /\ r.k8s = IF e.k8s = "" THEN "remote" ELSE e.k8s
        /\ r.class = ClassName(e)
        /\ r.kataClass = IF ClassName(e) # "" THEN ClassName(e) ELSE e.kataClass
    BY <1>3, RestFields
  <1>5. NormalizeRunConfig(d) = r
    BY <1>1, RestOfExecution DEF NormalizeExecutionConfig, Normal, Complete, Fields
  <1> HIDE DEF n, c, e, r
  <1>6. e.docker = d.docker /\ e.k8s = d.k8s /\ e.mode = d.mode
    BY <1>2, <1>3 DEF Normal, DockerFor, K8sFor, ModeFor, InferRunModeFromExecution, Fields
  <1>7. r.kind = d.kind
    <2>1. e.kind = LegacyBackendKindForExecution(d.backend)
      BY <1>2, <1>3 DEF Fields
    <2>2. QED
      BY <2>1, <1>4, <1>6 DEF Normal, KindOf, KindFor
  <1>8. r.runtime = d.runtime
    <2> DEFINE a == [e EXCEPT !.kind = KindOf(e)]
               b == [d EXCEPT !.runtime = InternalRuntimeProfileForExecution(d)]
    <2>1. /\ IsConfig(a) /\ a.kind = d.kind /\ a.runtime = e.runtime
          /\ a.docker = d.docker /\ a.k8s = d.k8s
      BY <1>3, <1>4, <1>6, <1>7 DEF IsConfig, Fields
    <2>2. /\ IsConfig(b) /\ b.kind = d.kind /\ b.runtime = InternalRuntimeProfileForExecution(d)
          /\ b.docker = d.docker /\ b.k8s = d.k8s
      BY DEF Normal, IsConfig, Fields
    <2>3. e.runtime = InternalRuntimeProfileForExecution(d)
      BY <1>2, <1>3 DEF InternalRuntimeProfileForExecution, Fields
    <2> HIDE DEF a, b
    <2>5. NativeRuntimeProfile(a) = NativeRuntimeProfile(b)
      BY <2>1, <2>2, <2>3, NativeRuntime
    <2>6. QED
      BY <2>5, <1>4 DEF RuntimeOf, RuntimeFor, Normal, a, b
  <1>9. r.docker = d.docker /\ r.k8s = d.k8s
    BY <1>4, <1>6 DEF Normal
  <1>10. r.kata = d.kata
    BY <1>2, <1>3, <1>4, <1>8 DEF Normal, Fields, IsConfig
  <1>11. r.class = d.class /\ r.kataClass = d.kataClass
    BY <1>2, <1>3, <1>4 DEF ClassName, Normal, Fields
  <1>12. \A f \in Fields : r[f] = d[f]
    <2>1. \A f \in {"id", "backend", "provider", "profile", "sandboxes"} : r[f] = d[f]
      BY <1>2, <1>3, <1>4 DEF Fields
    <2>2. r.mode = d.mode
      BY <1>4, <1>6 DEF Fields
    <2>3. QED
      BY <2>1, <2>2, <1>7, <1>8, <1>9, <1>10, <1>11 DEF Fields
  <1>13. QED
    BY <1>4, <1>5, <1>12 DEF Normal, IsConfig

-----------------------------------------------------------------------------

\* Normalising twice is normalising once: the CLI, the loader in the pod and the engine
\* may each do it again (normalizeRunConfigWithBase).
THEOREM NormalizeIsIdempotent ==
  ASSUME NEW raw, IsConfig(raw)
  PROVE NormalizeRunConfig(NormalizeRunConfig(raw)) = NormalizeRunConfig(raw)
  BY NormalizedIsNormal, NormalizeKeepsNormal

\* What ValidateRunConfig asks of a normal configuration.
Accepted(c, os) ==
  /\ c.mode \in ModesOf(LegacyBackendKindForExecution(c.backend))
  /\ ValidateExecutionRuntime(c, os)
  /\ Triple(c) \in AllowedRules
  /\ c.backend = "docker" => c.docker \in {"docker", "orbstack"}

\* The copy that ValidateRunConfig normalises for itself makes no difference then.
LEMMA NormalAccepted ==
  ASSUME NEW d, Normal(d), NEW os
  PROVE ValidateRunConfig(d, os) <=> Accepted(d, os)
  <1> DEFINE c == CompleteExecutionConfig(d)
             v == ApplyExecutionConfig(c)
  <1>1. NormalizeExecutionConfig(d) = v
    BY DEF NormalizeExecutionConfig, Normal, Complete
  <1>2. IsConfig(c) /\ \A f \in Fields : c[f] = d[f]
    <2>1. /\ IsConfig(c)
          /\ d.provider = "" => DefaultProviderForBackend(d.backend) = d.provider
          /\ d.profile # "" /\ NormalizeProfile(d.profile) = d.profile
      BY CompleteTyped DEF Normal, Complete, NormalizeProfile
    <2>2. QED
      BY <2>1 DEF CompleteExecutionConfig, Normal, IsConfig, Fields
  <1>3. c = d
    BY <1>2 DEF Normal, IsConfig
  <1>4. /\ IsConfig(v)
        /\ \A f \in Fields \ {"kind", "mode", "runtime", "docker", "k8s"} : v[f] = d[f]
        /\ v.kind = LegacyBackendKindForExecution(d.backend)
        /\ v.mode = d.mode
        /\ v.docker = d.docker
    BY <1>2, <1>3, ApplyFields DEF Normal
  <1> HIDE DEF v
  <1>5. ValidateExecutionRuntime(v, os) <=> ValidateExecutionRuntime(d, os)
    BY <1>4 DEF ValidateExecutionRuntime, RequiresRuntimeClassForBackend,
           RuntimeClassNameForConfig, Fields
  <1>6. Triple(v) = Triple(d)
    BY <1>4 DEF Triple, Fields
  <1>7. v.kind = "docker" <=> d.backend = "docker"
    BY <1>4 DEF LegacyBackendKindForExecution, Backends
  <1>8. QED
    BY <1>1, <1>4, <1>5, <1>6, <1>7
       DEF ValidateRunConfig, Accepted, ValidateBackendRunMode, ValidateCompatibility

\* The compatibility matrix has no backend that is not known.
LEMMA RulesNameBackends ==
  ASSUME NEW c, Triple(c) \in AllowedRules
  PROVE c.backend \in Backends
  BY DEF Triple, AllowedRules, Backends

\* What AcceptedAgree says of one configuration.
Agree(c) ==
  /\ c.kind = c.backend /\ c.mode \in ModesOf(c.backend)
  /\ c.profile \in Isolated => c.runtime = c.profile
  /\ c.backend = "k8s" => c.k8s = IF c.provider \in NamedClusters THEN c.provider ELSE "remote"
  /\ c.backend = "docker" /\ c.provider = "orbstack" => c.docker = "orbstack"
  /\ c.profile \in Isolated /\ RequiresRuntimeClassForBackend(c) => c.class # ""
  /\ c.runtime = "kata" => c.kata

\* A configuration that is normal and accepted agrees with its triple.
LEMMA AcceptedConfigAgrees ==
  ASSUME NEW c, Normal(c), NEW os, Accepted(c, os)
  PROVE Agree(c)
  <1>1. LegacyBackendKindForExecution(c.backend) = c.backend
    BY RulesNameBackends DEF Accepted, LegacyBackendKindForExecution
  <1>2. c.mode \in ModesOf(c.backend)
    BY <1>1 DEF Accepted
  <1>3. c.backend = "direct" => InferBackendKind(c.mode) = "direct"
    BY <1>2 DEF ModesOf, InferRunModeFromExecution, InferBackendKind
  <1>4. c.kind = c.backend
    BY <1>1, <1>3 DEF Normal, KindFor
  <1>5. c.profile \in Isolated => c.runtime = c.profile
    <2> SUFFICES ASSUME c.profile \in Isolated PROVE c.runtime = c.profile
      OBVIOUS
    <2> DEFINE b == [c EXCEPT !.runtime = InternalRuntimeProfileForExecution(c)]
    <2>1. b.runtime = c.profile /\ c.profile # "native"
      BY DEF Normal, IsConfig, Fields, InternalRuntimeProfileForExecution, Isolated
    <2>2. QED
      BY <2>1 DEF Normal, RuntimeFor, NativeRuntimeProfile
  <1>6. c.profile \in Isolated /\ RequiresRuntimeClassForBackend(c) => c.class # ""
    BY DEF Accepted, ValidateExecutionRuntime, RuntimeClassNameForConfig, Normal
  <1>7. QED
    BY <1>2, <1>4, <1>5, <1>6 DEF Agree, Normal, K8sFor, DockerFor

\* A run ID that is made up afterwards changes nothing of that.
LEMMA OtherId ==
  ASSUME NEW c, Normal(c), NEW id, NEW os, Accepted(c, os)
  PROVE LET d == [c EXCEPT !.id = id] IN
        Normal(d) /\ Accepted(d, os) /\ d.id = id
  <1> DEFINE d == [c EXCEPT !.id = id]
  <1>1. IsConfig(d) /\ d.id = id /\ \A f \in Fields \ {"id"} : d[f] = c[f]
    BY DEF Normal, IsConfig, Fields
  <1>2. RuntimeFor(d) = RuntimeFor(c)
    <2> DEFINE a == [d EXCEPT !.runtime = InternalRuntimeProfileForExecution(d)]
               b == [c EXCEPT !.runtime = InternalRuntimeProfileForExecution(c)]
    <2>1. InternalRuntimeProfileForExecution(d) = InternalRuntimeProfileForExecution(c)
      BY <1>1 DEF InternalRuntimeProfileForExecution, Fields
    <2>2. /\ IsConfig(a) /\ IsConfig(b) /\ a.runtime = b.runtime /\ a.kind = b.kind
          /\ a.docker = b.docker /\ a.k8s = b.k8s
      BY <2>1, <1>1 DEF Normal, IsConfig, Fields
    <2> HIDE DEF a, b
    <2>3. NativeRuntimeProfile(a) = NativeRuntimeProfile(b)
      BY <2>2, NativeRuntime
    <2>4. QED
      BY <2>3 DEF RuntimeFor, a, b
  <1> HIDE DEF d
  <1>3. Complete(d)
    BY <1>1 DEF Normal, Complete, Fields
  <1>4. /\ ModeFor(d) = ModeFor(c) /\ KindFor(d) = KindFor(c)
        /\ DockerFor(d) = DockerFor(c) /\ K8sFor(d) = K8sFor(c)
    BY <1>1 DEF ModeFor, KindFor, DockerFor, K8sFor, InferRunModeFromExecution, Fields
  <1>5. Normal(d)
    BY <1>1, <1>2, <1>3, <1>4 DEF Normal, Fields
  <1>6. Accepted(d, os)
    BY <1>1 DEF Accepted, ValidateExecutionRuntime, RequiresRuntimeClassForBackend,
           RuntimeClassNameForConfig, Triple, Fields
  <1>7. QED
    BY <1>1, <1>5, <1>6 DEF d

\* LoadRunConfig returns a normal configuration.
LEMMA Loaded ==
  ASSUME NEW file, NEW env, "kata" \in DOMAIN file => file["kata"] \in BOOLEAN
  PROVE Normal(LoadRunConfig(file, env))
  <1>1. IsConfig(Overlay(DefaultRunConfig, file))
    BY DefaultTyped, OverlayTyped
  <1>2. IsConfig(ApplyRunEnvOverrides(Overlay(DefaultRunConfig, file), env))
    BY <1>1, OverlayTyped DEF ApplyRunEnvOverrides, EnvFields
  <1>3. QED
    BY <1>2, NormalizedIsNormal DEF LoadRunConfig

\* A normal configuration survives the way into the pod unchanged.
LEMMA ReloadedIsTheSame ==
  ASSUME NEW c, Normal(c)
  PROVE NormalizeRunConfig(LoadRunConfig(c, [id |-> c.id])) = c
  <1>1. Overlay(DefaultRunConfig, c) = c
    BY DefaultTyped DEF Normal, IsConfig, Overlay, Fields, DefaultRunConfig
  <1>2. ApplyRunEnvOverrides(c, [id |-> c.id]) = c
    <2> DEFINE env == [id |-> c.id]
               g == [f \in DOMAIN env \cap EnvFields |-> env[f]]
    <2>1. DOMAIN g = {"id"} /\ g["id"] = c["id"]
      BY DEF EnvFields
    <2>2. ApplyRunEnvOverrides(c, env) = Overlay(c, g)
      BY DEF ApplyRunEnvOverrides
    <2> HIDE DEF g
    <2>3. QED
      BY <2>1, <2>2 DEF Normal, IsConfig, Overlay
  <1>3. QED
    BY <1>1, <1>2, NormalizeKeepsNormal DEF LoadRunConfig

-----------------------------------------------------------------------------

\* A submission holds nothing before it has loaded a configuration, and a normal and
\* accepted one with a run ID from then on; its ConfigMap is there before its job is.
RequestInv(s) ==
  /\ submission[s] = [pc |-> submission[s].pc, request |-> Request(s)]
  /\ submission[s].pc = "load" => Request(s) = Unread
  /\ submission[s].pc \notin {"load", "failed"} => Request(s) # Unread
  /\ Request(s) # Unread => Normal(Request(s)) /\ Accepted(Request(s), HostOS) /\ Request(s).id # ""
  /\ submission[s].pc = "job" => \E m \in configMaps : m.name = Request(s).id

\* Once a submission has gone on to write its ConfigMap.
Written == {"job", "submitted", "failed"}

\* A ConfigMap holds the configuration of its maker, under that one's run ID.
MadeFrom(m) ==
  /\ m.maker \in Submissions /\ Request(m.maker) # Unread
  /\ submission[m.maker].pc \in Written
  /\ m.file = Request(m.maker) /\ m.name = m.file.id

\* A job has the run ID and the class of its maker's configuration, a ConfigMap of its
\* name is there, and its pod has the configuration of some submission with its run ID.
JobInv(j) ==
  /\ j = [id |-> j.id, maker |-> j.maker, class |-> j.class, pod |-> j.pod]
  /\ j.maker \in Submissions /\ Request(j.maker) # Unread
  /\ j.id = Request(j.maker).id /\ j.class = RuntimeClassName(Request(j.maker))
  /\ \E m \in configMaps : m.name = j.id
  /\ j.pod # Unread => \E t \in Submissions :
       /\ Request(t) # Unread /\ Request(t).id = j.id /\ j.pod = Request(t)
       /\ submission[t].pc \in Written

\* The inductive invariant.
Inv ==
  /\ input \in Inputs
  /\ submission = [s \in Submissions |-> submission[s]]
  /\ \A s \in Submissions : RequestInv(s)
  /\ \A m \in configMaps : MadeFrom(m)
  /\ \A j \in jobs : JobInv(j)

\* It holds at first.
LEMMA InitInv == Init => Inv
  <1>1. ASSUME Init, NEW s \in Submissions PROVE RequestInv(s)
    BY <1>1 DEF Init, RequestInv, Request
  <1>2. QED
    BY <1>1 DEF Init, Inv

\* The type of the state of a submission.
LEMMA Shape ==
  ASSUME Inv, NEW s \in Submissions
  PROVE /\ submission = [t \in Submissions |-> submission[t]]
        /\ submission[s] = [pc |-> submission[s].pc, request |-> Request(s)]
  BY DEF Inv, RequestInv

\* What a step must leave alone for the ConfigMaps and jobs there are to keep their
\* invariant: a configuration that is held, the name of each ConfigMap, and that a
\* submission has gone on to write its own.
Frozen ==
  /\ input' = input
  /\ submission' = [s \in Submissions |-> submission'[s]]
  /\ \A s \in Submissions : Request(s) # Unread => Request(s)' = Request(s)
  /\ \A s \in Submissions : submission[s].pc \in Written => submission'[s].pc \in Written
  /\ \A m \in configMaps : \E n \in configMaps' : n.name = m.name

\* They keep it then.
LEMMA FrozenKeeps ==
  ASSUME Inv, Frozen
  PROVE /\ \A m \in configMaps : MadeFrom(m)'
        /\ \A j \in jobs : JobInv(j)'
  <1>1. ASSUME NEW m \in configMaps PROVE MadeFrom(m)'
    BY DEF Inv, Frozen, MadeFrom
  <1>2. ASSUME NEW j \in jobs PROVE JobInv(j)'
    <2>1. JobInv(j) /\ Request(j.maker)' = Request(j.maker)
      BY DEF Inv, Frozen, JobInv
    <2>2. RuntimeClassName(Request(j.maker))' = RuntimeClassName(Request(j.maker))
      BY <2>1 DEF RuntimeClassName, RuntimeClassNameForConfig
    <2>3. j.pod # Unread => \E t \in Submissions :
             /\ Request(t)' # Unread /\ Request(t)'.id = j.id /\ j.pod = Request(t)'
             /\ submission'[t].pc \in Written
      BY <2>1 DEF JobInv, Frozen
    <2>4. QED
      BY <2>1, <2>2, <2>3 DEF JobInv, Frozen
  <1>3. QED
    BY <1>1, <1>2

\* A submission that only goes on to another step.
LEMMA Moves ==
  ASSUME Inv, NEW s \in Submissions, NEW pc, Goto(s, pc)
  PROVE /\ submission' = [t \in Submissions |-> submission'[t]]
        /\ submission'[s] = [pc |-> pc, request |-> Request(s)]
        /\ \A t \in Submissions \ {s} : submission'[t] = submission[t]
        /\ \A t \in Submissions : Request(t)' = Request(t)
  <1>1. /\ submission = [t \in Submissions |-> submission[t]]
        /\ submission[s] = [pc |-> submission[s].pc, request |-> Request(s)]
    BY Shape
  <1>2. QED
    BY <1>1 DEF Goto, Request

\* It keeps its invariant if it holds what that step needs.
LEMMA Goes ==
  ASSUME Inv, NEW s \in Submissions, NEW pc, Goto(s, pc), input' = input,
         \A m \in configMaps : \E n \in configMaps' : n.name = m.name,
         pc # "load", pc # "failed" => Request(s) # Unread,
         submission[s].pc \in Written => pc \in Written,
         pc = "job" => \E m \in configMaps' : m.name = Request(s).id
  PROVE Frozen /\ \A t \in Submissions : RequestInv(t)'
  <1>1. /\ submission' = [t \in Submissions |-> submission'[t]]
        /\ submission'[s] = [pc |-> pc, request |-> Request(s)]
        /\ \A t \in Submissions \ {s} : submission'[t] = submission[t]
        /\ \A t \in Submissions : Request(t)' = Request(t)
    BY Moves
  <1>2. Frozen
    BY <1>1 DEF Frozen
  <1>3. RequestInv(s)'
    <2>1. RequestInv(s)
      BY DEF Inv
    <2>2. submission'[s].pc = pc
      BY <1>1
    <2>3. QED
      BY <1>1, <2>1, <2>2 DEF RequestInv
  <1>4. ASSUME NEW t \in Submissions \ {s} PROVE RequestInv(t)'
    <2>1. RequestInv(t)
      BY DEF Inv
    <2>2. QED
      BY <1>1, <2>1 DEF RequestInv
  <1>5. QED
    BY <1>2, <1>3, <1>4

\* LoadRequest keeps the invariant: what is accepted is normal, also with a run ID
\* from the clock.
LEMMA LoadStep ==
  ASSUME Inv, NEW s \in Submissions, LoadRequest(s)
  PROVE Inv'
  <1> DEFINE c == LoadRunConfig(input[s].file, input[s].env)
  <1>1. Normal(c)
    BY Loaded, SubmitAssumption DEF Inv
  <1> HIDE DEF c
  <1>2. UNCHANGED <<input, configMaps, jobs>> /\ Request(s) = Unread
    BY DEF LoadRequest, Untouched, Inv, RequestInv, At
  <1>4. CASE Fail(s)
    BY <1>2, <1>4, Goes, FrozenKeeps DEF Fail, Inv, Frozen, Written
  <1>5. ASSUME ValidateRunConfig(c, HostOS), NEW request \in EnsureK8sRequestIdentity(c),
               submission' = [submission EXCEPT ![s].request = request, ![s].pc = "lookup"]
        PROVE Inv'
    <2>1. Accepted(c, HostOS)
      BY <1>1, <1>5, NormalAccepted
    <2>2. Normal(request) /\ Accepted(request, HostOS) /\ request.id # ""
      <3>1. CASE c.id # "" 
        BY <1>1, <2>1, <1>5, <3>1 DEF EnsureK8sRequestIdentity
      <3>2. CASE c.id = ""
        <4>1. PICK id \in Seconds : request = [c EXCEPT !.id = id]
          BY <1>5, <3>2 DEF EnsureK8sRequestIdentity
        <4>2. QED
          BY <1>1, <2>1, <4>1, OtherId, SubmitAssumption
      <3>3. QED BY <3>1, <3>2
    <2>3. request # Unread
      <3>1. Unread.id = ""
        BY DEF Unread
      <3>2. QED
        BY <3>1, <2>2
    <2>4. /\ submission' = [t \in Submissions |-> submission'[t]]
          /\ submission'[s] = [pc |-> "lookup", request |-> request]
      <3>1. /\ submission = [t \in Submissions |-> submission[t]]
            /\ submission[s] = [pc |-> submission[s].pc, request |-> Request(s)]
        BY Shape
      <3>2. QED
        BY <1>5, <3>1
    <2>5. \A t \in Submissions \ {s} : submission'[t] = submission[t]
      BY <1>5, Shape
    <2>6. RequestInv(s)'
      <3>1. Request(s)' = request /\ submission'[s].pc = "lookup"
        BY <2>4 DEF Request
      <3>2. QED
        BY <2>2, <2>3, <2>4, <3>1 DEF RequestInv
    <2>7. ASSUME NEW t \in Submissions \ {s} PROVE RequestInv(t)'
      <3>1. RequestInv(t)
        BY DEF Inv
      <3>2. QED
        BY <2>5, <1>2, <3>1 DEF RequestInv, Request
    <2>8. Frozen
      <3>1. submission[s].pc = "load"
        BY DEF LoadRequest, At
      <3>2. QED
        BY <1>2, <2>4, <2>5, <3>1 DEF Frozen, Request, Written
    <2>9. QED
      BY <1>2, <2>6, <2>7, <2>8, FrozenKeeps DEF Inv, Frozen
  <1>6. QED
    BY <1>4, <1>5 DEF LoadRequest, c

\* So does LookupConfigMap.
LEMMA LookupStep ==
  ASSUME Inv, NEW s \in Submissions, LookupConfigMap(s)
  PROVE Inv'
  <1>1. /\ UNCHANGED <<input, configMaps, jobs>> /\ Request(s) # Unread
        /\ submission[s].pc = "lookup"
    BY DEF LookupConfigMap, Untouched, Inv, RequestInv, At
  <1>2. \E pc \in {"create", "update", "failed"} : Goto(s, pc)
    BY DEF LookupConfigMap, Fail
  <1>3. QED
    BY <1>1, <1>2, Goes, FrozenKeeps DEF Inv, Frozen, Written

\* A submission that puts its ConfigMap there, over an older one or not.
LEMMA Puts ==
  ASSUME Inv, NEW s \in Submissions, Request(s) # Unread,
         \/ configMaps' = configMaps \cup {BuildConfigMap(s)}
         \/ configMaps' = (configMaps \ Found(Request(s).id)) \cup {BuildConfigMap(s)},
         Goto(s, "job") \/ Fail(s), UNCHANGED <<input, jobs>>
  PROVE Inv'
  <1> DEFINE b == BuildConfigMap(s)
  <1>1. b.name = Request(s).id /\ b.maker = s /\ b.file = Request(s)
    BY DEF BuildConfigMap, ConfigMapName
  <1>2. b \in configMaps' /\ configMaps' \subseteq configMaps \cup {b}
    OBVIOUS
  <1>3. \A m \in configMaps : m \in configMaps' \/ m.name = b.name
    BY <1>1 DEF Found, ConfigMapName
  <1> HIDE DEF b
  <1>4. \A m \in configMaps : \E n \in configMaps' : n.name = m.name
    BY <1>2, <1>3
  <1>5. PICK pc \in {"job", "failed"} : Goto(s, pc)
    BY DEF Fail
  <1>6. Frozen /\ \A t \in Submissions : RequestInv(t)'
    BY <1>1, <1>2, <1>4, <1>5, Goes DEF Written
  <1>7. ASSUME NEW m \in configMaps' PROVE MadeFrom(m)'
    <2>1. CASE m \in configMaps
      BY <2>1, <1>6, FrozenKeeps
    <2>2. CASE m = b
      <3>1. submission'[s].pc \in Written
        <4>1. submission'[s] = [pc |-> pc, request |-> Request(s)]
          BY <1>5, Moves
        <4>2. QED
          BY <4>1 DEF Written
      <3>2. QED
        BY <2>2, <1>1, <1>6, <3>1 DEF MadeFrom, Frozen
    <2>3. QED
      BY <1>2, <2>1, <2>2
  <1>8. QED
    BY <1>6, <1>7, FrozenKeeps DEF Inv, Frozen

\* A submission that fails and leaves the cluster alone.
LEMMA FailStep ==
  ASSUME Inv, NEW s \in Submissions, Fail(s), UNCHANGED <<input, configMaps, jobs>>
  PROVE Inv'
  BY Goes, FrozenKeeps DEF Fail, Inv, Frozen, Written

\* UpdateConfigMap and CreateConfigMap keep the invariant.
LEMMA ConfigMapStep ==
  ASSUME Inv, NEW s \in Submissions, UpdateConfigMap(s) \/ CreateConfigMap(s)
  PROVE Inv'
  <1>1. Request(s) # Unread
    BY DEF UpdateConfigMap, CreateConfigMap, Inv, RequestInv, At
  <1>2. QED
    BY <1>1, Puts, FailStep DEF UpdateConfigMap, CreateConfigMap

\* So does CreateJob, whether the submission hears of it or not.
LEMMA CreateJobStep ==
  ASSUME Inv, NEW s \in Submissions, CreateJob(s)
  PROVE Inv'
  <1> DEFINE b == BuildJob(s)
  <1>1. /\ UNCHANGED <<input, configMaps>> /\ Request(s) # Unread
        /\ \E m \in configMaps : m.name = Request(s).id
    BY DEF CreateJob, Inv, RequestInv, At
  <1>2. CASE Fail(s) /\ UNCHANGED jobs
    BY <1>1, <1>2, FailStep
  <1>3. ASSUME jobs' = jobs \cup {b}, Goto(s, "submitted") \/ Fail(s)
        PROVE Inv'
    <2>1. /\ b = [id |-> b.id, maker |-> b.maker, class |-> b.class, pod |-> b.pod]
          /\ b.id = Request(s).id /\ b.maker = s /\ b.pod = Unread
          /\ b.class = RuntimeClassName(Request(s))
      BY DEF BuildJob
    <2> HIDE DEF b
    <2>2. Frozen /\ \A t \in Submissions : RequestInv(t)'
      BY <1>1, <1>3, Goes DEF Fail, Written
    <2>3. ASSUME NEW j, j = b PROVE JobInv(j)'
      <3>1. Request(s)' = Request(s)
        BY <1>1, <2>2 DEF Frozen
      <3>2. RuntimeClassName(Request(s)') = RuntimeClassName(Request(s))
        BY <3>1
      <3>3. \E m \in configMaps' : m.name = j.id
        BY <1>1, <2>1, <2>3
      <3>4. RuntimeClassName(Request(j.maker))' = RuntimeClassName(Request(s))
        BY <2>1, <2>3, <3>1 DEF RuntimeClassName, RuntimeClassNameForConfig
      <3>5. QED
        BY <3>1, <3>3, <3>4, <2>1, <2>3, <1>1 DEF JobInv
    <2>4. QED
      BY <1>1, <1>3, <2>2, <2>3, FrozenKeeps DEF Inv, Frozen
  <1>4. QED
    BY <1>2, <1>3 DEF CreateJob

\* So does StartPod: the configuration in the pod is the one in the ConfigMap, read over
\* the defaults and normalised twice more.
LEMMA StartPodStep ==
  ASSUME Inv, StartPod
  PROVE Inv'
  <1>0. PICK j \in jobs : \E m \in Found(j.id) :
          /\ jobs' = (jobs \ {j}) \cup {[j EXCEPT !.pod = LoadInPod(j, m.file)]}
          /\ UNCHANGED <<input, submission, configMaps>>
    BY DEF StartPod
  <1>1. PICK m \in Found(j.id) :
          /\ jobs' = (jobs \ {j}) \cup {[j EXCEPT !.pod = LoadInPod(j, m.file)]}
          /\ UNCHANGED <<input, submission, configMaps>>
    BY <1>0
  <1>2. MadeFrom(m) /\ m.name = j.id /\ m.file.id = j.id /\ JobInv(j)
    BY DEF Inv, Found, ConfigMapName, MadeFrom
  <1>3. LoadInPod(j, m.file) = Request(m.maker)
    <2>1. Normal(m.file) /\ m.file = Request(m.maker)
      BY <1>2 DEF Inv, MadeFrom, RequestInv
    <2>2. QED
      BY <1>2, <2>1, ReloadedIsTheSame DEF LoadInPod
  <1>4. PICK k : k = [j EXCEPT !.pod = LoadInPod(j, m.file)]
    OBVIOUS
  <1>5. k = [id |-> j.id, maker |-> j.maker, class |-> j.class, pod |-> Request(m.maker)]
    BY <1>2, <1>3, <1>4 DEF JobInv
  <1>6. JobInv(k)
    BY <1>2, <1>5 DEF JobInv, MadeFrom
  <1>7. \A s \in Submissions : RequestInv(s)'
    BY <1>1 DEF Inv, RequestInv, Request
  <1>8. Frozen
    BY <1>1 DEF Frozen, Inv, Request
  <1>9. JobInv(k)'
    <2>1. k.pod # Unread => \E t \in Submissions :
             /\ Request(t)' # Unread /\ Request(t)'.id = k.id /\ k.pod = Request(t)'
             /\ submission'[t].pc \in Written
      BY <1>6, <1>1 DEF JobInv, Request
    <2>2. Request(k.maker)' = Request(k.maker)
      BY <1>1 DEF Request
    <2>3. RuntimeClassName(Request(k.maker))' = RuntimeClassName(Request(k.maker))
      BY <2>2 DEF RuntimeClassName, RuntimeClassNameForConfig
    <2>4. QED
      BY <1>1, <1>6, <2>1, <2>2, <2>3 DEF JobInv
  <1>10. QED
    BY <1>1, <1>4, <1>7, <1>8, <1>9, FrozenKeeps DEF Inv, Frozen

\* So does the removal of a job.
LEMMA RestStep ==
  ASSUME Inv, RemoveJob \/ Over \/ UNCHANGED vars
  PROVE Inv'
  <1>1. UNCHANGED <<input, submission, configMaps>> /\ jobs' \subseteq jobs
    BY DEF RemoveJob, Over, vars
  <1>2. \A s \in Submissions : RequestInv(s)'
    BY <1>1 DEF Inv, RequestInv, Request
  <1>3. Frozen
    BY <1>1 DEF Frozen, Inv, Request
  <1>4. QED
    BY <1>1, <1>2, <1>3, FrozenKeeps DEF Inv, Frozen

\* The inductive invariant holds throughout.
THEOREM Invariance == Spec => []Inv
  <1>1. Inv /\ [Next]_vars => Inv'
    BY LoadStep, LookupStep, ConfigMapStep, CreateJobStep, StartPodStep, RestStep
       DEF Next, Submit
  <1>2. QED
    BY InitInv, <1>1, PTL DEF Spec

\* Every variable has its type.
THEOREM TypeCorrect == Spec => []TypeOK
  <1>1. Inv => TypeOK
    <2>1. ASSUME NEW c, Normal(c) PROVE DOMAIN c = DOMAIN DefaultRunConfig
      BY <2>1 DEF Normal, IsConfig, Fields, DefaultRunConfig
    <2>2. QED
      BY <2>1 DEF Inv, RequestInv, TypeOK, MadeFrom, JobInv
  <1>2. QED
    BY Invariance, <1>1, PTL

\* No job is ever without its ConfigMap, and that is one of a submission with its run ID,
\* its maker's own if nobody else has that ID (ApplyConfigMap comes before CreateJob, and
\* no ConfigMap is deleted).
THEOREM JobsHaveTheirConfig == Spec => []OwnConfig
  <1>1. Inv => OwnConfig
    BY DEF Inv, MadeFrom, JobInv, OwnConfig, Found, ConfigMapName, Alone
  <1>2. QED
    BY Invariance, <1>1, PTL

\* A pod of a submission with a run ID of its own executes where that submission was
\* accepted to (ApplyConfigMap, LoadRunConfig and the engine's normalising in between).
THEOREM PodsAgree == Spec => []PodAgrees
  <1>1. ASSUME Inv, NEW j \in jobs, j.pod # Unread, Alone(j.maker)
        PROVE /\ Place(j.pod) = Place(Request(j.maker))
              /\ RuntimeClassName(j.pod) = j.class
              /\ j.pod.backend \in {"apple", "machine"} \/ ValidateRunConfig(j.pod, "linux")
    <2>1. JobInv(j) /\ j.pod = Request(j.maker)
      BY <1>1 DEF Inv, JobInv, Alone
    <2>2. Normal(j.pod) /\ Accepted(j.pod, HostOS)
      BY <1>1, <2>1 DEF Inv, RequestInv, JobInv
    <2>3. j.pod.backend \in {"apple", "machine"} \/ Accepted(j.pod, "linux")
      BY <2>2 DEF Accepted, ValidateExecutionRuntime
    <2>4. QED
      BY <2>1, <2>2, <2>3, NormalAccepted DEF JobInv
  <1>2. Inv => PodAgrees
    BY <1>1 DEF PodAgrees
  <1>3. QED
    BY Invariance, <1>2, PTL

\* Also when submissions race for one ConfigMap (the GET and then the PUT or POST of
\* ApplyConfigMap), a pod executes where one of them that has gone on to write it was
\* accepted to.
THEOREM PodsRunOneRequest == Spec => []PodOfOne
  <1>1. ASSUME Inv, NEW j \in jobs, j.pod # Unread
        PROVE \E s \in Submissions :
                /\ submission[s].pc \in {"job", "submitted", "failed"}
                /\ Request(s) # Unread /\ Request(s).id = j.id
                /\ Place(j.pod) = Place(Request(s))
                /\ j.pod.backend \in {"apple", "machine"} \/ ValidateRunConfig(j.pod, "linux")
    <2>1. PICK s \in Submissions :
            /\ Request(s) # Unread /\ Request(s).id = j.id /\ j.pod = Request(s)
            /\ submission[s].pc \in Written
      BY <1>1 DEF Inv, JobInv
    <2>2. Normal(j.pod) /\ Accepted(j.pod, HostOS)
      BY <1>1, <2>1 DEF Inv, RequestInv
    <2>3. j.pod.backend \in {"apple", "machine"} \/ Accepted(j.pod, "linux")
      BY <2>2 DEF Accepted, ValidateExecutionRuntime
    <2>4. QED
      BY <2>1, <2>2, <2>3, NormalAccepted DEF Written
  <1>2. Inv => PodOfOne
    BY <1>1 DEF PodOfOne
  <1>3. QED
    BY Invariance, <1>2, PTL

\* The sections of every accepted configuration agree with its triple, although
\* ValidateRunConfig looks at a copy.
THEOREM AcceptedConfigsAgree == Spec => []AcceptedAgree
  <1>1. Inv => AcceptedAgree
    BY AcceptedConfigAgrees DEF Inv, RequestInv, AcceptedAgree, Agree
  <1>2. QED
    BY Invariance, <1>1, PTL
=============================================================================
