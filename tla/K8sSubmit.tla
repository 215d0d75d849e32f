------------------------------- MODULE K8sSubmit -------------------------------
(***************************************************************************)
(* Submitting runs as Kubernetes jobs, and what their pods make of the     *)
(* configuration they are given (src/internal/cli/commands.go, src/pkg/sdk,*)
(* src/internal/kubernetes, src/internal/capability/k8s.go).               *)
(*                                                                         *)
(* A submission loads and validates a configuration, writes it into a      *)
(* ConfigMap and creates a job.  The names of both come from the run ID,   *)
(* which has a resolution of one second when it is made up.  Submissions   *)
(* do not know of each other.  A request may fail also after it has been   *)
(* carried out.                                                            *)
(***************************************************************************)
EXTENDS ExecutionConfig

CONSTANTS
  Submissions,  \* the calls of k8s submit-job
  Inputs,       \* what each of them is given: [Submissions -> [file, env]]
  Seconds,      \* the run IDs the clock may give
  HostOS        \* where they are made

ASSUME SubmitAssumption ==
  /\ "" \notin Seconds
  /\ HostOS \in {"darwin", "linux"}
  /\ \A given \in Inputs : DOMAIN given = Submissions
  /\ \A given \in Inputs : \A s \in Submissions :
       "kata" \in DOMAIN given[s].file => given[s].file["kata"] \in BOOLEAN

VARIABLES
  input,       \* the file and the environment of each submission
  submission,  \* its state
  configMaps,  \* the ConfigMaps of the cluster, with the configuration in them
  jobs         \* its jobs

vars == <<input, submission, configMaps, jobs>>

\* A configuration that is not there (yet).
Unread == [id |-> ""]

\* request: the configuration that has been accepted.
Init ==
  /\ input \in Inputs
  /\ submission = [s \in Submissions |-> [pc |-> "load", request |-> Unread]]
  /\ configMaps = {}
  /\ jobs = {}

-----------------------------------------------------------------------------
(* Submission *)

At(s, pc) == submission[s].pc = pc
Request(s) == submission[s].request
Goto(s, pc) == submission' = [submission EXCEPT ![s].pc = pc]
Fail(s) == Goto(s, "failed")
Untouched == UNCHANGED <<input, configMaps, jobs>>

\* A blank run ID is taken from the clock.
EnsureK8sRequestIdentity(c) ==
  IF c.id # "" THEN {c} ELSE {[c EXCEPT !.id = id] : id \in Seconds}

\* The configuration is read and checked, and the submitter made; anything else
\* that is checked may be wrong as well.
LoadRequest(s) ==
  /\ At(s, "load")
  /\ LET c == LoadRunConfig(input[s].file, input[s].env) IN
     \/ /\ ValidateRunConfig(c, HostOS)
        /\ \E request \in EnsureK8sRequestIdentity(c) :
             submission' = [submission EXCEPT ![s].request = request, ![s].pc = "lookup"]
     \/ Fail(s)
  /\ Untouched

ConfigMapNameBareMutant(id) == "sandbox-runner-config"

\* Like the name of the job, the name of the ConfigMap is that of its run.
ConfigMapName(id) == id

Found(id) == {m \in configMaps : m.name = ConfigMapName(id)}

BuildConfigMapLegacyMutant(s) ==
  [name |-> ConfigMapName(Request(s).id), maker |-> s,
   file |-> [Request(s) EXCEPT !.backend = "", !.provider = "", !.profile = ""]]

\* The ConfigMap has the configuration as it was accepted (the kubeconfig and
\* the context of the host are taken out; they are not modelled).
BuildConfigMap(s) ==
  [name |-> ConfigMapName(Request(s).id), maker |-> s, file |-> Request(s)]

\* ApplyConfigMap asks whether there is one already.
LookupConfigMap(s) ==
  /\ At(s, "lookup")
  /\ \/ Goto(s, IF Found(Request(s).id) = {} THEN "create" ELSE "update")
     \/ Fail(s)
  /\ Untouched

UpdateConfigMapMergeMutant(s) ==
  /\ At(s, "update")
  /\ \/ /\ configMaps' = {[BuildConfigMap(s) EXCEPT !.file = [@ EXCEPT !.backend = m.file.backend,
                             !.provider = m.file.provider, !.profile = m.file.profile]] :
                             m \in Found(Request(s).id)}
                            \cup (configMaps \ Found(Request(s).id))
        /\ Goto(s, "job")
     \/ Fail(s) /\ UNCHANGED configMaps
  /\ UNCHANGED <<input, jobs>>

\* A ConfigMap that is there is replaced, whoever has changed it since.
UpdateConfigMap(s) ==
  /\ At(s, "update")
  /\ \/ /\ configMaps' = (configMaps \ Found(Request(s).id)) \cup {BuildConfigMap(s)}
        /\ Goto(s, "job") \/ Fail(s)
     \/ Fail(s) /\ UNCHANGED configMaps
  /\ UNCHANGED <<input, jobs>>

\* One that has come up since is a conflict.
CreateConfigMap(s) ==
  /\ At(s, "create")
  /\ \/ /\ Found(Request(s).id) = {}
        /\ configMaps' = configMaps \cup {BuildConfigMap(s)}
        /\ Goto(s, "job") \/ Fail(s)
     \/ Fail(s) /\ UNCHANGED configMaps
  /\ UNCHANGED <<input, jobs>>

\* Only a profile that needs a runtime class gets one.
RuntimeClassName(c) == IF c.profile \in Isolated THEN RuntimeClassNameForConfig(c) ELSE ""

\* The pod of a new job waits for its ConfigMap.
BuildJob(s) ==
  [id |-> Request(s).id, maker |-> s, class |-> RuntimeClassName(Request(s)), pod |-> Unread]

\* The job a submission finds under its name.
Clashing(s) == {j \in jobs : j.id = Request(s).id}

\* SubmitJob: a name that is taken is refused.
CreateJob(s) ==
  /\ At(s, "job")
  /\ \/ /\ Clashing(s) = {}
        /\ jobs' = jobs \cup {BuildJob(s)}
        /\ Goto(s, "submitted") \/ Fail(s)
     \/ Fail(s) /\ UNCHANGED jobs
  /\ UNCHANGED <<input, configMaps>>

-----------------------------------------------------------------------------
(* The cluster *)

\* The configuration in the pod: the file is read over the defaults with the
\* environment of the job, and the engine normalises once more.
LoadInPod(j, file) == NormalizeRunConfig(LoadRunConfig(file, [id |-> j.id]))

\* The pod mounts the ConfigMap there is when it starts.
StartPod ==
  \E j \in jobs : \E m \in Found(j.id) :
    /\ j.pod = Unread
    /\ jobs' = (jobs \ {j}) \cup {[j EXCEPT !.pod = LoadInPod(j, m.file)]}
    /\ UNCHANGED <<input, submission, configMaps>>

\* A job that has finished is removed after a while; its ConfigMap is not.
RemoveJob ==
  \E j \in jobs :
    /\ j.pod # Unread /\ jobs' = jobs \ {j}
    /\ UNCHANGED <<input, submission, configMaps>>

-----------------------------------------------------------------------------
(* Specification *)

Submit(s) ==
  \/ LoadRequest(s) \/ LookupConfigMap(s) \/ UpdateConfigMap(s) \/ CreateConfigMap(s)
  \/ CreateJob(s)

\* All submissions are over, and no pod is still to start.
Over ==
  /\ \A s \in Submissions : submission[s].pc \in {"submitted", "failed"}
  /\ jobs = {}
  /\ UNCHANGED vars

Next == (\E s \in Submissions : Submit(s)) \/ StartPod \/ RemoveJob \/ Over

Spec == Init /\ [][Next]_vars

-----------------------------------------------------------------------------
(* Properties *)

\* Every variable has the type of what it stands for.
TypeOK ==
  /\ \A s \in Submissions :
       Request(s) = Unread \/ DOMAIN Request(s) = DOMAIN DefaultRunConfig
  /\ \A m \in configMaps : m.maker \in Submissions
  /\ \A j \in jobs : j.maker \in Submissions

\* Nobody else has this submission's run ID.
Alone(s) == \A t \in Submissions \ {s} : Request(t) = Unread \/ Request(t).id # Request(s).id

\* There is no job without its ConfigMap, which is that of a submission with the
\* job's run ID: the one that made the job, unless it shares that ID.
OwnConfig ==
  \A j \in jobs :
    /\ Found(j.id) # {}
    /\ \A m \in Found(j.id) : m.file.id = j.id /\ (Alone(j.maker) => m.maker = j.maker)

\* What decides where a run is executed.
Place(c) == <<Triple(c), c.kind, c.mode, c.runtime, c.k8s, c.docker, c.sandboxes>>

\* The configuration a pod ends up with, read over the defaults and normalised
\* twice more, is executed where the submission was accepted to be, with the
\* runtime class its job has; it is accepted in the pod too, unless only a Mac has
\* the backend.
PodAgrees ==
  \A j \in jobs : j.pod # Unread /\ Alone(j.maker) =>
    /\ Place(j.pod) = Place(Request(j.maker))
    /\ RuntimeClassName(j.pod) = j.class
    /\ j.pod.backend \in {"apple", "machine"} \/ ValidateRunConfig(j.pod, "linux")

\* Also when submissions share a run ID, and whichever of them writes the ConfigMap
\* before, between or after the others, a pod is executed where one of them that has gone
\* on to write it was accepted to be: never as a mixture of two, or as none was.
PodOfOne ==
  \A j \in jobs : j.pod # Unread => \E s \in Submissions :
    /\ submission[s].pc \in {"job", "submitted", "failed"}
    /\ Request(s) # Unread /\ Request(s).id = j.id
    /\ Place(j.pod) = Place(Request(s))
    /\ j.pod.backend \in {"apple", "machine"} \/ ValidateRunConfig(j.pod, "linux")

\* Validation looks at a copy, yet the sections of the configuration that is
\* used agree with its execution triple (a docker.provider of OrbStack may go with
\* the native one), and an isolated profile in a cluster has its runtime class.
AcceptedAgree ==
  \A s \in Submissions : LET c == Request(s) IN c # Unread =>
    /\ c.kind = c.backend /\ c.mode \in ModesOf(c.backend)
    /\ c.profile \in Isolated => c.runtime = c.profile
    /\ c.backend = "k8s" => c.k8s = IF c.provider \in NamedClusters THEN c.provider ELSE "remote"
    /\ c.backend = "docker" /\ c.provider = "orbstack" => c.docker = "orbstack"
    /\ c.profile \in Isolated /\ RequiresRuntimeClassForBackend(c) => c.class # ""
    /\ c.runtime = "kata" => c.kata

\* The execution section of the file is kept: what it says is what is executed.
\* (docs/execution-model.md:11, docs/backends-and-platforms.md:58)
WrittenTripleKept ==
  \A s \in Submissions : Request(s) # Unread =>
    \A f \in DOMAIN input[s].file \cap {"backend", "provider", "profile"} :
      input[s].file[f] # "" => Request(s)[f] = NormalizeProfile(input[s].file[f])
=============================================================================
