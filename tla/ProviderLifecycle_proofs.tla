------------------------ MODULE ProviderLifecycle_proofs ------------------------
(***************************************************************************)
(* Any number of runs, configured in any way, and any sandboxes that are   *)
(* there before them.  The invariant has a part for the sandboxes, which   *)
(* have unique IDs and names, and one for each run.  A step of one run     *)
(* keeps the parts of all others because of what it may do to the          *)
(* sandboxes (Evolves); for the run itself there is a lemma per call.      *)
(***************************************************************************)
EXTENDS ProviderLifecycle, FiniteSetTheorems, TLAPS

-----------------------------------------------------------------------------
(* The inductive invariant *)

\* Where a run may be.
Stages ==
  {"probe", "probeWait", "probeGood", "probeBad", "create", "up", "userCommands",
   "createMachine", "confirmMachine", "startMachine", "start", "syncIn", "upload", "extract",
   "setup", "execute", "collect", "archive", "fetch", "unpack", "cleanup", "rm", "done"}

\* While the probe is on.
Probing == {"probe", "probeWait", "probeGood", "probeBad"}

\* Before Create has returned.
Creating == {"create", "up", "userCommands", "createMachine", "confirmMachine", "startMachine"}

\* From Create to the main command.
Starting == {"start", "syncIn", "upload", "extract", "setup"}

\* From collect on.
Collecting == {"collect", "archive", "fetch", "unpack", "cleanup", "rm"}

\* The kinds of backend that get to a stage.
KindOfStage(pc) ==
  CASE pc \in {"up", "userCommands", "rm"} -> {"devcontainer"}
    [] pc \in {"createMachine", "confirmMachine", "startMachine"} -> {"machine"}
    [] pc \in {"probeWait", "probeGood", "probeBad", "syncIn", "upload", "extract", "archive",
               "fetch", "unpack"} -> {"opensandbox"}
    [] OTHER -> Kinds

\* Where a command ran.
Use == [id : Nat, maker : Runs \cup {"user"}, tree : Amounts]

\* The type of the state of a run.
Run ==
  [pc : Stages, probe : Nat, name : (Kinds \X Nat) \cup {NoName}, container : Nat,
   used : SUBSET Use, tar : Amounts, tree : Amounts,
   result : {"none", "SUCCEEDED", "PARTIAL", "FAILED"},
   notes : SUBSET {"probe", "syncOut", "nothing", "cleanup"}]

\* Every variable has its type.
TypeInv ==
  /\ config \in Configurations
  /\ boxes \subseteq Box
  /\ made \in Nat
  /\ run \in [Runs -> Run]

\* No two sandboxes have one ID or one name, and a run's sandbox has the name it is to
\* have.
BoxInv ==
  /\ \A b \in boxes :
       /\ b.id \in 1 .. made
       /\ b.name[1] = "opensandbox" => b.name = <<"opensandbox", b.id>>
       /\ b.maker \in Runs =>
            IF config[b.maker].kind = "opensandbox" THEN b.name[1] = "opensandbox"
            ELSE b.name = OwnName(b.maker) /\ b.use = "run" /\ b.tree = "whole"
  /\ \A b, c \in boxes : b.id = c.id \/ b.name = c.name => b = c

\* What a run holds at each stage.
StageInv(r) ==
  LET s == run[r] IN
  /\ config[r].kind \in KindOfStage(s.pc)
  /\ s.pc \in Probing \cup Creating => s.name = NoName
  /\ s.pc \in Starting \cup {"execute", "archive", "fetch", "unpack", "rm"} => s.name # NoName
  /\ s.name # NoName =>
       IF config[r].kind = "opensandbox"
       THEN s.name[1] = "opensandbox" /\ s.name[2] \in 1 .. made
       ELSE s.name = OwnName(r)
  /\ s.pc \in Probing \cup Creating \cup Starting \cup {"execute"} => s.result = "none"
  /\ s.pc \in Collecting => s.result \in {"SUCCEEDED", "FAILED"}
  /\ s.pc \in Collecting \cup {"done"} =>
       s.result # "none" /\ (s.name = NoName => s.result = "FAILED")

\* The sandbox of a run is its own, and no other one of the run is left.
OwnInv(r) ==
  LET s == run[r] IN
  \A b \in boxes :
    /\ b.maker = r /\ b.use = "run" =>
         /\ s.pc \notin Probing \cup {"create", "up", "createMachine"}
         /\ config[r].kind = "opensandbox" /\ s.name # NoName => b.name = s.name
         /\ s.container # 0 => b.id = s.container
    /\ config[r].kind = "opensandbox" /\ b.name = s.name => b.maker = r /\ b.use = "run"
    /\ s.container # 0 /\ b.id = s.container => b.name = OwnName(r)

\* A container ID is known from up on, and is the one that docker rm is given.
ContainerInv(r) ==
  LET s == run[r] IN
  /\ s.container # 0 => config[r].kind = "devcontainer"
  /\ s.pc \in {"create", "up"} => s.container = 0
  /\ s.container \in 0 .. made
  /\ s.pc = "rm" => s.container # 0 /\ config[r].mode # "keep"

\* The container of an Apple run stays until that run deletes it.
AppleInv(r) ==
  LET s == run[r] IN
  config[r].kind = "apple" /\ s.name # NoName /\ s.pc # "done" =>
    \E b \in boxes : b.maker = r /\ \A u \in s.used : u.id = b.id

\* Commands run in that sandbox only, with the whole workspace.
UsedInv(r) ==
  LET s == run[r] IN
  config[r].kind \in {"apple", "opensandbox"} =>
    /\ s.used # {} => s.name # NoName
    /\ \A u \in s.used : /\ u.maker = r /\ u.tree = "whole"
                         /\ config[r].kind = "opensandbox" => u.id = s.name[2]
    /\ \A u, v \in s.used : u.id = v.id
    /\ s.pc \in {"setup", "execute"} => \A b \in boxes : b.name = s.name => b.tree = "whole"

\* The sandbox of the probe is known by its ID from the answer on, nothing else has that
\* ID, and there is no second one.
ProbeInv(r) ==
  LET s == run[r] IN
  /\ s.pc = "probe" => s.probe = 0
  /\ s.pc \in Probing \ {"probe"} => s.probe # 0
  /\ s.probe \in 0 .. made
  /\ \A b \in boxes :
       /\ b.id = s.probe => b.maker = r /\ b.use = "probe"
       /\ b.maker = r /\ b.use = "probe" =>
            /\ s.pc # "probe"
            /\ s.pc \in Probing => b.id = s.probe
            /\ s.pc \notin Probing =>
                 "probe" \in s.notes \/ (s.result = "FAILED" /\ s.pc = "done")
  /\ \A b, c \in boxes :
       b.maker = r /\ b.use = "probe" /\ c.maker = r /\ c.use = "probe" => b.id = c.id

\* What has been fetched of a remote workspace.
FetchInv(r) ==
  LET s == run[r] IN
  /\ s.pc = "fetch" => \A b \in boxes : b.name = s.name => b.archive = "whole"
  /\ s.pc = "unpack" => s.tar = "whole"
  /\ config[r].kind = "opensandbox" /\ s.pc \in {"cleanup", "done"} =>
       s.tree = "whole" \/ s.notes \cap {"syncOut", "nothing"} # {} \/ s.name = NoName

\* What a run that is done has left.
LeftInv(r) ==
  LET s == run[r] IN
  \A b \in boxes :
    b.maker = r /\ b.use = "run" /\ config[r].mode = "delete" /\ s.pc = "done" =>
      /\ s.result \in {"PARTIAL", "FAILED"}
      /\ "cleanup" \in s.notes \/ s.name = NoName

\* All that holds of one run.
RunInv(r) ==
  /\ StageInv(r) /\ OwnInv(r) /\ ContainerInv(r) /\ AppleInv(r) /\ UsedInv(r)
  /\ ProbeInv(r) /\ FetchInv(r) /\ LeftInv(r)

\* The inductive invariant.
Inv == TypeInv /\ BoxInv /\ \A r \in Runs : RunInv(r)

-----------------------------------------------------------------------------
(* The requests of OpenSandbox, and the initial states *)

\* doRaw: a create request is carried out at most once, however often it may be sent,
\* and exactly once if it is answered: the body that has been sent is not sent again.
LEMMA CarriedOutOnce ==
  ASSUME NEW retries \in Nat, NEW reply \in Replies(retries)
  PROVE reply.made \in {0, 1} /\ (reply.ok => reply.made = 1) /\ reply.ok \in BOOLEAN
  <1>1. PICK n \in 1 .. retries + 1 : \E s \in [1 .. n -> Fates] :
          /\ \A i \in 1 .. Len(s) - 1 : s[i] \in {"unsent", "lost"}
          /\ \A i, j \in DOMAIN s : i < j /\ s[i] = "lost" => s[j] = "unsent"
          /\ reply = [made |-> Cardinality({i \in DOMAIN s : s[i] \in {"lost", "garbled", "done"}}),
                      ok |-> s[Len(s)] = "done"]
    BY DEF Replies
  <1>2. PICK s \in [1 .. n -> Fates] :
          /\ \A i \in 1 .. Len(s) - 1 : s[i] \in {"unsent", "lost"}
          /\ \A i, j \in DOMAIN s : i < j /\ s[i] = "lost" => s[j] = "unsent"
          /\ reply = [made |-> Cardinality({i \in DOMAIN s : s[i] \in {"lost", "garbled", "done"}}),
                      ok |-> s[Len(s)] = "done"]
    BY <1>1
  <1> DEFINE done == {i \in DOMAIN s : s[i] \in {"lost", "garbled", "done"}}
  <1>3. n \in Nat \ {0} /\ DOMAIN s = 1 .. n /\ Len(s) = n
    OBVIOUS
  <1>4. \A i, j \in done : i = j
    <2>1. ASSUME NEW i \in done, NEW j \in done, i < j PROVE FALSE
      BY <1>2, <1>3, <2>1
    <2>2. QED
      BY <2>1, <1>3
  <1>5. reply.ok => n \in done
    <2>1. reply.ok = (s[Len(s)] = "done")
      BY <1>2
    <2>2. s[n] = "done" => n \in done
      BY <1>3
    <2>3. QED
      BY <1>3, <2>1, <2>2
  <1>6. done = {} \/ \E i \in done : done = {i}
    BY <1>4
  <1>7. Cardinality(done) \in {0, 1} /\ (done # {} => Cardinality(done) = 1)
    BY <1>6, FS_EmptySet, FS_Singleton
  <1>8. QED
    BY <1>2, <1>5, <1>7

\* The invariant holds when no run has asked for anything.
LEMMA InitInv == Init => Inv
  <1> SUFFICES ASSUME Init PROVE Inv
    OBVIOUS
  <1>1. made \in Nat /\ \A b \in boxes : b.maker = "user" /\ b.id \in 1 .. made
    BY ProviderAssumption, FS_CardinalityType DEF Init
  <1>2. TypeInv
    <2>1. ASSUME NEW r \in Runs PROVE run[r] \in Run
      BY DEF Init, Fresh, Run, Stages, Amounts
    <2>2. QED
      BY <1>1, <2>1, ProviderAssumption DEF TypeInv, Init
  <1>3. BoxInv
    BY <1>1, ProviderAssumption DEF Init, BoxInv
  <1>4. ASSUME NEW r \in Runs PROVE RunInv(r)
    <2>1. run[r] = Fresh(config[r]) /\ config[r].kind \in Kinds
      BY ProviderAssumption DEF Init, Configuration
    <2>2. \A b \in boxes : b.maker # r /\ b.name # NoName /\ b.id # 0
      BY <1>1, <1>2, ProviderAssumption DEF TypeInv, Box, NoName, Kinds
    <2>3. QED
      BY <2>1, <2>2, <1>1 DEF Fresh, RunInv, StageInv, OwnInv, ContainerInv, AppleInv, UsedInv,
         ProbeInv, FetchInv, LeftInv, KindOfStage, Probing, Creating, Starting, Collecting, NoName
  <1>5. QED
    BY <1>2, <1>3, <1>4 DEF Inv

-----------------------------------------------------------------------------
(* What a step may do to the sandboxes *)

\* c is b, perhaps in another state.
Same(c, b) == c.id = b.id /\ c.name = b.name /\ c.maker = b.maker /\ c.use = b.use

\* The workspace and the archive in it are the same, too.
Alike(c, b) == Same(c, b) /\ c.tree = b.tree /\ c.archive = b.archive

\* What a step of one actor does to the sandboxes.
Evolves(actor) ==
  /\ config' = config /\ made' \in Nat /\ made' >= made /\ boxes' \subseteq Box
  /\ \A c \in boxes' :
       \/ c.id > made /\ c.maker = actor
       \/ \E b \in boxes : Same(c, b) /\ (Alike(c, b) \/ b.maker = actor)
  /\ \A b \in boxes : b.name[1] = "apple" /\ b.maker # actor =>
       \E c \in boxes' : Same(c, b)

\* No step of another actor breaks what holds of a run: no two of them share a sandbox of
\* OpenSandbox or an Apple container.
LEMMA OthersKeep ==
  ASSUME Inv, NEW actor, Evolves(actor), BoxInv', NEW r \in Runs, r # actor, run'[r] = run[r]
  PROVE RunInv(r)'
  <1> USE DEF Inv, TypeInv, RunInv
  <1>1. ASSUME NEW c \in boxes', c.id > made, config[r].kind = "opensandbox"
        PROVE c.name # run[r].name
    <2>1. c.name # NoName
      BY DEF Evolves, Box, NoName, Kinds
    <2>2. c.name[1] = "opensandbox" => c.name[2] = c.id
      BY DEF BoxInv
    <2>3. run[r].name = NoName \/ (run[r].name[1] = "opensandbox" /\ run[r].name[2] \in 1 .. made)
      BY <1>1 DEF StageInv
    <2>4. c.id \in Nat
      BY DEF Evolves, Box
    <2>5. QED
      BY <1>1, <2>1, <2>2, <2>3, <2>4
  <1>2. ASSUME NEW c \in boxes', config[r].kind \in {"apple", "opensandbox"},
               run[r].pc # "done", run[r].name # NoName, c.name = run[r].name
        PROVE \E b \in boxes : Alike(c, b) /\ b.maker = r
    <2>1. CASE config[r].kind = "opensandbox"
      BY <2>1, <1>1, <1>2 DEF Evolves, Same, OwnInv
    <2>2. CASE config[r].kind = "apple"
      <3>1. PICK b \in boxes : b.maker = r
        BY <2>2, <1>2 DEF AppleInv
      <3>2. b.name = OwnName(r) /\ b.name[1] = "apple" /\ run[r].name = OwnName(r)
        BY <2>2, <3>1, <1>2 DEF BoxInv, StageInv, OwnName
      <3>3. PICK d \in boxes' : Same(d, b)
        BY <3>1, <3>2 DEF Evolves
      <3>4. c = d
        BY <3>2, <3>3, <1>2 DEF BoxInv, Same
      <3>5. QED
        BY <3>1, <3>3, <3>4 DEF Evolves, Same, Alike, BoxInv
    <2>3. QED BY <1>2, <2>1, <2>2
  <1>3. StageInv(r)'
    BY DEF StageInv, Evolves, OwnName
  <1>4. OwnInv(r)'
    <2> SUFFICES ASSUME NEW c \in boxes'
        PROVE LET s == run[r] IN
           /\ c.maker = r /\ c.use = "run" =>
                /\ s.pc \notin Probing \cup {"create", "up", "createMachine"}
                /\ config[r].kind = "opensandbox" /\ s.name # NoName => c.name = s.name
                /\ s.container # 0 => c.id = s.container
           /\ config[r].kind = "opensandbox" /\ c.name = s.name => c.maker = r /\ c.use = "run"
           /\ s.container # 0 /\ c.id = s.container => c.name = OwnName(r)
      BY DEF OwnInv, Evolves, OwnName
    <2>1. CASE c.id > made /\ c.maker = actor
      <3>1. c.id # run[r].container
        BY <2>1 DEF ContainerInv
      <3>2. config[r].kind = "opensandbox" => c.name # run[r].name
        BY <2>1, <1>1
      <3>3. QED BY <2>1, <3>1, <3>2
    <2>2. CASE \E b \in boxes : Same(c, b)
      BY <2>2 DEF OwnInv, Same
    <2>3. QED BY <2>1, <2>2 DEF Evolves
  <1>5. ContainerInv(r)'
    BY DEF ContainerInv, Evolves
  <1>6. AppleInv(r)'
    <2>1. \A b \in boxes : b.maker = r /\ config[r].kind = "apple" => b.name[1] = "apple"
      BY DEF BoxInv, OwnName
    <2>2. QED
      BY <2>1 DEF AppleInv, Evolves, Same
  <1>7. UsedInv(r)'
    <2>1. run[r].pc \in {"setup", "execute"} => run[r].name # NoName
      BY DEF StageInv, Starting
    <2>2. QED
      BY <1>2, <2>1 DEF UsedInv, Evolves, Alike, Same
  <1>8. ProbeInv(r)'
    <2>1. ASSUME NEW c \in boxes'
          PROVE LET s == run[r] IN
                /\ c.id = s.probe => c.maker = r /\ c.use = "probe"
                /\ c.maker = r /\ c.use = "probe" =>
                     /\ s.pc # "probe"
                     /\ s.pc \in Probing => c.id = s.probe
                     /\ s.pc \notin Probing =>
                          "probe" \in s.notes \/ (s.result = "FAILED" /\ s.pc = "done")
      <3>1. CASE c.id > made /\ c.maker = actor
        BY <3>1 DEF ProbeInv
      <3>2. CASE \E b \in boxes : Same(c, b)
        BY <3>2 DEF ProbeInv, Same
      <3>3. QED BY <3>1, <3>2 DEF Evolves
    <2>2. ASSUME NEW c \in boxes', c.maker = r PROVE \E b \in boxes : Same(c, b)
      BY <2>2 DEF Evolves
    <2>3. ASSUME NEW b \in boxes', NEW c \in boxes', b.maker = r, b.use = "probe",
                 c.maker = r, c.use = "probe"
          PROVE b.id = c.id
      BY <2>2, <2>3 DEF ProbeInv, Same
    <2>4. run[r]' = run[r] /\ made <= made' /\ made' \in Nat /\ made \in Nat
      BY DEF Evolves
    <2>5. QED
      BY <2>1, <2>3, <2>4 DEF ProbeInv
  <1>9. FetchInv(r)'
    <2>1. run[r].pc = "fetch" => run[r].name # NoName /\ config[r].kind = "opensandbox"
      BY DEF StageInv, KindOfStage
    <2>2. QED
      BY <1>2, <2>1 DEF FetchInv, Evolves, Alike, Same
  <1>10. LeftInv(r)'
    BY DEF LeftInv, Evolves, Same
  <1>11. QED BY <1>3, <1>4, <1>5, <1>6, <1>7, <1>8, <1>9, <1>10

\* A step of run r that makes no sandbox.
Quiet(r) ==
  /\ UNCHANGED <<config, made>> /\ boxes' \subseteq Box
  /\ \A c \in boxes' : \E b \in boxes :
       Same(c, b) /\ (Alike(c, b) \/ (b.maker = r /\ config[r].kind = "opensandbox"))
  /\ \A c, d \in boxes' : c.id = d.id => c = d
  /\ \A b \in boxes : b.name[1] = "apple" /\ b.maker # r => \E c \in boxes' : Same(c, b)

\* Such a step keeps IDs and names unique.
LEMMA QuietKeeps ==
  ASSUME Inv, NEW r, Quiet(r)
  PROVE BoxInv' /\ Evolves(r) /\ made' \in Nat
  <1> USE DEF Inv, TypeInv
  <1>1. Evolves(r) /\ made' \in Nat
    BY DEF Quiet, Evolves
  <1>2. ASSUME NEW c \in boxes'
        PROVE /\ c.id \in 1 .. made
              /\ c.name[1] = "opensandbox" => c.name = <<"opensandbox", c.id>>
              /\ c.maker \in Runs =>
                   IF config[c.maker].kind = "opensandbox" THEN c.name[1] = "opensandbox"
                   ELSE c.name = OwnName(c.maker) /\ c.use = "run" /\ c.tree = "whole"
    <2>1. PICK b \in boxes :
            Same(c, b) /\ (Alike(c, b) \/ (b.maker = r /\ config[r].kind = "opensandbox"))
      BY DEF Quiet
    <2>2. QED
      BY <2>1 DEF BoxInv, Same, Alike
  <1>3. ASSUME NEW c \in boxes', NEW d \in boxes', c.id = d.id \/ c.name = d.name
        PROVE c = d
    <2>1. PICK b \in boxes : Same(c, b)
      BY DEF Quiet
    <2>2. PICK a \in boxes : Same(d, a)
      BY DEF Quiet
    <2>3. a = b
      BY <1>3, <2>1, <2>2 DEF BoxInv, Same
    <2>4. QED
      BY <2>1, <2>2, <2>3 DEF Quiet, Same
  <1>4. QED
    BY <1>1, <1>2, <1>3 DEF BoxInv, Quiet, OwnName

\* A step that leaves all sandboxes alone is one.
LEMMA UnmadeIsQuiet ==
  ASSUME Inv, NEW r, Unmade
  PROVE Quiet(r)
  BY DEF Inv, TypeInv, BoxInv, Unmade, Quiet, Same, Alike

\* So is a call that brings a sandbox into a state,
LEMMA SetIsQuiet ==
  ASSUME Inv, NEW r, UNCHANGED <<config, made>>, NEW name,
         NEW state \in {"pending", "running", "failed", "paused", "stopped"},
         boxes' = Set(name, state)
  PROVE Quiet(r)
  <1>1. \A b \in boxes : LET c == [b EXCEPT !.state = state] IN c \in Box /\ Alike(c, b)
    BY DEF Inv, TypeInv, Box, Alike, Same
  <1>2. ASSUME NEW c \in boxes'
        PROVE \E b \in boxes : c = IF b.name = name THEN [b EXCEPT !.state = state] ELSE b
    BY DEF Set, Unnamed, Named
  <1>3. \A c \in boxes' : c \in Box /\ \E b \in boxes : Alike(c, b)
    <2> SUFFICES ASSUME NEW c \in boxes' PROVE c \in Box /\ \E b \in boxes : Alike(c, b)
      OBVIOUS
    <2>1. PICK b \in boxes : c = IF b.name = name THEN [b EXCEPT !.state = state] ELSE b
      BY <1>2
    <2>2. c \in Box /\ Alike(c, b)
      BY <1>1, <2>1 DEF Inv, TypeInv, Alike, Same
    <2>3. QED BY <2>2
  <1>4. ASSUME NEW c \in boxes', NEW d \in boxes', c.id = d.id PROVE c = d
    <2>1. PICK b \in boxes : c = IF b.name = name THEN [b EXCEPT !.state = state] ELSE b
      BY <1>2
    <2>2. PICK a \in boxes : d = IF a.name = name THEN [a EXCEPT !.state = state] ELSE a
      BY <1>2
    <2>3. c.id = b.id /\ d.id = a.id
      BY <1>1, <2>1, <2>2 DEF Alike, Same
    <2>4. a = b
      BY <1>4, <2>3 DEF Inv, BoxInv
    <2>5. QED
      BY <2>1, <2>2, <2>4
  <1>5. \A b \in boxes : \E c \in boxes' : Same(c, b)
    BY <1>1 DEF Set, Unnamed, Named, Alike, Same
  <1>6. QED
    BY <1>3, <1>4, <1>5 DEF Quiet, Alike

\* one that removes sandboxes but no other run's Apple container,
LEMMA FewerIsQuiet ==
  ASSUME Inv, NEW r, UNCHANGED <<config, made>>, boxes' \subseteq boxes,
         \A b \in boxes : b.name[1] = "apple" /\ b.maker # r => b \in boxes'
  PROVE Quiet(r)
  BY DEF Inv, TypeInv, BoxInv, Quiet, Same, Alike

\* and one that changes one sandbox.
LEMMA ChangeIsQuiet ==
  ASSUME Inv, NEW r, UNCHANGED <<config, made>>, NEW b \in boxes, NEW c \in Box,
         Same(c, b), Alike(c, b) \/ (b.maker = r /\ config[r].kind = "opensandbox"),
         boxes' = (boxes \ {b}) \cup {c}
  PROVE Quiet(r)
  BY DEF Inv, TypeInv, BoxInv, Quiet, Same, Alike

\* Create of a CLI backend makes a sandbox under the name of the run.
LEMMA Made ==
  ASSUME Inv, NEW r \in Runs, config[r].kind # "opensandbox",
         NEW state \in {"pending", "running", "failed", "paused", "stopped"},
         config[r].kind = "apple" => Named(OwnName(r)) = {},
         boxes' = Unnamed(OwnName(r)) \cup {NextBox(r, state)}, made' = made + 1, config' = config
  PROVE /\ BoxInv' /\ Evolves(r) /\ made' \in Nat
        /\ LET c == NextBox(r, state) IN c.id = made + 1 /\ c.maker = r /\ c.use = "run" /\ c.name = OwnName(r)
  <1> DEFINE n == NextBox(r, state)
  <1>1. config[r] \in Configuration
    BY ProviderAssumption DEF Inv, TypeInv
  <1>2. /\ n \in Box /\ n.id = made + 1 /\ n.maker = r /\ n.use = "run"
        /\ n.name = OwnName(r) /\ n.tree = "whole"
    BY <1>1 DEF NextBox, NewBox, OwnName, Inv, TypeInv, Box, Amounts, Configuration
  <1> HIDE DEF n
  <1>3. made \in Nat /\ \A b \in boxes : b.id \in 1 .. made
    BY DEF Inv, TypeInv, BoxInv
  <1>4. OwnName(r)[1] # "opensandbox" /\ (OwnName(r)[1] = "apple" => config[r].kind = "apple")
    BY DEF OwnName
  <1>5. BoxInv'
    <2>1. ASSUME NEW c \in boxes'
          PROVE /\ c.id \in 1 .. made'
                /\ c.name[1] = "opensandbox" => c.name = <<"opensandbox", c.id>>
                /\ c.maker \in Runs =>
                   IF config[c.maker].kind = "opensandbox" THEN c.name[1] = "opensandbox"
                   ELSE c.name = OwnName(c.maker) /\ c.use = "run" /\ c.tree = "whole"
      <3>1. CASE c = n
        BY <3>1, <1>2, <1>3, <1>4
      <3>2. CASE c \in boxes
        BY <3>2, <1>3 DEF Inv, BoxInv
      <3>3. QED BY <3>1, <3>2 DEF n, Unnamed, Named
    <2>2. ASSUME NEW c \in boxes', NEW d \in boxes', c.id = d.id \/ c.name = d.name
          PROVE c = d
      <3>1. (c \in boxes /\ c.name # OwnName(r)) \/ c = n
        BY DEF n, Unnamed, Named
      <3>2. (d \in boxes /\ d.name # OwnName(r)) \/ d = n
        BY DEF n, Unnamed, Named
      <3>3. QED
        BY <2>2, <3>1, <3>2, <1>2, <1>3 DEF Inv, BoxInv
    <2>3. QED
      BY <2>1, <2>2 DEF BoxInv, OwnName
  <1>6. Evolves(r)
    <2>1. \A b \in boxes : b.name[1] = "apple" /\ b.maker # r => b \in boxes'
      BY <1>4 DEF Unnamed, Named
    <2>2. boxes' \subseteq boxes \cup {n}
      BY DEF n, Unnamed
    <2>3. QED
      BY <1>2, <1>3, <2>1, <2>2 DEF Evolves, Inv, TypeInv, Same, Alike
  <1>7. QED
    BY <1>2, <1>3, <1>5, <1>6 DEF n

\* A create request of OpenSandbox makes one with a new ID.
LEMMA Posted ==
  ASSUME Inv, NEW r \in Runs, config[r].kind = "opensandbox", NEW use \in {"run", "probe"},
         NEW reply, reply.made \in {0, 1}, PostSandbox(r, use, reply)
  PROVE /\ BoxInv' /\ Evolves(r) /\ made' = made + reply.made /\ made' \in Nat
        /\ \A c \in boxes' : c \in boxes \/
             (/\ reply.made = 1 /\ c.id = made + 1 /\ c.name = <<"opensandbox", made + 1>>
              /\ c.maker = r /\ c.use = use)
        /\ boxes \subseteq boxes'
  <1> USE DEF Inv, TypeInv
  <1>1. PICK n : n = NewBox(r, made + 1, <<"opensandbox", made + 1>>, use, "pending")
    OBVIOUS
  <1>2. /\ n \in Box /\ n.id = made + 1 /\ n.maker = r /\ n.use = use
        /\ n.name = <<"opensandbox", made + 1>>
    BY <1>1 DEF NewBox, Box, Amounts, Kinds
  <1>3. /\ reply.made = 0 => boxes' = boxes
        /\ reply.made = 1 => boxes' = boxes \cup {n}
    <2>1. 1 .. 0 = {} /\ 1 .. 1 = {1}
      OBVIOUS
    <2>2. ASSUME reply.made = 0 PROVE MadeBy(r, use, reply) = {}
      BY <2>1, <2>2 DEF MadeBy
    <2>3. ASSUME reply.made = 1 PROVE MadeBy(r, use, reply) = {n}
      BY <2>1, <2>3, <1>1 DEF MadeBy
    <2>4. QED
      BY <2>2, <2>3 DEF PostSandbox
  <1>4. made' = made + reply.made /\ made' \in Nat /\ config' = config
    BY DEF PostSandbox
  <1>5. \A b \in boxes : b.id \in 1 .. made /\ b.name # n.name
    BY <1>2 DEF BoxInv
  <1>6. BoxInv'
    <2>1. ASSUME NEW c \in boxes'
          PROVE /\ c.id \in 1 .. made'
                /\ c.name[1] = "opensandbox" => c.name = <<"opensandbox", c.id>>
                /\ c.maker \in Runs =>
                   IF config[c.maker].kind = "opensandbox" THEN c.name[1] = "opensandbox"
                   ELSE c.name = OwnName(c.maker) /\ c.use = "run" /\ c.tree = "whole"
      <3>1. CASE c \in boxes
        BY <3>1, <1>4, <1>5 DEF BoxInv
      <3>2. CASE c = n /\ reply.made = 1
        BY <3>2, <1>2, <1>4
      <3>3. QED BY <3>1, <3>2, <1>3
    <2>2. ASSUME NEW c \in boxes', NEW d \in boxes', c.id = d.id \/ c.name = d.name
          PROVE c = d
      BY <2>2, <1>2, <1>3, <1>5 DEF BoxInv
    <2>3. QED
      BY <2>1, <2>2, <1>4 DEF BoxInv, OwnName
  <1>7. Evolves(r)
    BY <1>2, <1>3, <1>4 DEF Evolves, Same, Alike
  <1>8. QED
    BY <1>2, <1>3, <1>4, <1>6, <1>7

-----------------------------------------------------------------------------
(* What a step does to the run that takes it *)

\* What a step of run r does.
Good(r) ==
  /\ BoxInv' /\ Evolves(r)
  /\ run' \in [Runs -> Run] /\ \A q \in Runs \ {r} : run'[q] = run[q]
  /\ RunInv(r)'

\* Such a step keeps the invariant.
LEMMA GoodKeeps ==
  ASSUME Inv, NEW r \in Runs, Good(r)
  PROVE Inv'
  <1>1. TypeInv'
    BY DEF Inv, TypeInv, Good, Evolves
  <1>2. ASSUME NEW q \in Runs PROVE RunInv(q)'
    <2>1. CASE q = r
      BY <2>1 DEF Good
    <2>2. CASE q # r
      BY <2>2, OthersKeep DEF Good
    <2>3. QED BY <2>1, <2>2
  <1>3. QED
    BY <1>1, <1>2 DEF Inv, Good

\* The types of a run and of its configuration.
LEMMA KindOfRun ==
  ASSUME Inv, NEW r \in Runs
  PROVE /\ config[r] \in Configuration /\ config[r].kind \in Kinds /\ run[r] \in Run
        /\ OwnName(r) \in Kinds \X Nat /\ OwnName(r)[1] = config[r].kind
  BY ProviderAssumption DEF Inv, TypeInv, Configuration, OwnName

\* The state of run r is the only one that changes, and keeps its type.
Moves(r) == run' \in [Runs -> Run] /\ \A q \in Runs \ {r} : run'[q] = run[q]

\* For a step that makes no sandbox, what holds of the run itself is left to show.
LEMMA QuietIsGood ==
  ASSUME Inv, NEW r \in Runs, Quiet(r), Moves(r), RunInv(r)'
  PROVE Good(r)
  BY QuietKeeps DEF Good, Moves

\* The same, for a step that leaves all sandboxes alone.
LEMMA UnmadeIsGood ==
  ASSUME Inv, NEW r \in Runs, Unmade, Moves(r), RunInv(r)'
  PROVE Good(r)
  BY UnmadeIsQuiet, QuietIsGood

\* What Goto changes and what it leaves alone.
LEMMA GotoMoves ==
  ASSUME Inv, NEW r \in Runs, NEW pc \in Stages, Goto(r, pc)
  PROVE /\ Moves(r) /\ run'[r].pc = pc
        /\ run'[r].name = run[r].name /\ run'[r].container = run[r].container
        /\ run'[r].used = run[r].used /\ run'[r].probe = run[r].probe
        /\ run'[r].notes = run[r].notes /\ run'[r].tree = run[r].tree
        /\ run'[r].tar = run[r].tar /\ run'[r].result = run[r].result
  BY DEF Inv, TypeInv, Goto, Moves, Run

\* What Created changes and what it leaves alone.
LEMMA CreatedMoves ==
  ASSUME Inv, NEW r \in Runs, NEW name \in Kinds \X Nat, Created(r, name)
  PROVE /\ Moves(r)
        /\ run'[r].pc = "start"
        /\ run'[r].name = name /\ run'[r].container = run[r].container
        /\ run'[r].used = run[r].used /\ run'[r].probe = run[r].probe
        /\ run'[r].notes = run[r].notes /\ run'[r].tree = run[r].tree
        /\ run'[r].tar = run[r].tar /\ run'[r].result = run[r].result
  <1>1. run \in [Runs -> Run] /\ run[r] \in Run
    BY DEF Inv, TypeInv
  <1>2. run'[r] \in Run
    BY <1>1 DEF Created, Run, Stages
  <1>3. run' \in [Runs -> Run] /\ \A q \in Runs \ {r} : run'[q] = run[q]
    BY <1>1, <1>2 DEF Created
  <1>4. QED
    BY <1>1, <1>3 DEF Created, Moves, Run

\* What Fail changes and what it leaves alone.
LEMMA FailMoves ==
  ASSUME Inv, NEW r \in Runs, Fail(r)
  PROVE /\ Moves(r)
        /\ run'[r].pc = "collect" /\ run'[r].result = "FAILED" /\ run'[r].tar = "none"
        /\ run'[r].name = run[r].name /\ run'[r].container = run[r].container
        /\ run'[r].used = run[r].used /\ run'[r].probe = run[r].probe
        /\ run'[r].notes = run[r].notes /\ run'[r].tree = run[r].tree
  <1>1. run \in [Runs -> Run] /\ run[r] \in Run
    BY DEF Inv, TypeInv
  <1>2. run'[r] \in Run
    BY <1>1 DEF Fail, Run, Stages, Amounts
  <1>3. run' \in [Runs -> Run] /\ \A q \in Runs \ {r} : run'[q] = run[q]
    BY <1>1, <1>2 DEF Fail
  <1>4. QED
    BY <1>1, <1>3 DEF Fail, Moves, Run

\* What Note changes and what it leaves alone.
LEMMA NoteMoves ==
  ASSUME Inv, NEW r \in Runs, NEW note \in {"syncOut", "nothing"}, Note(r, note, "cleanup")
  PROVE /\ Moves(r)
        /\ run'[r].pc = "cleanup" /\ run'[r].notes = run[r].notes \cup {note}
        /\ run'[r].name = run[r].name /\ run'[r].container = run[r].container
        /\ run'[r].used = run[r].used /\ run'[r].probe = run[r].probe
        /\ run'[r].tree = run[r].tree
        /\ run'[r].tar = run[r].tar /\ run'[r].result = run[r].result
  <1>1. run \in [Runs -> Run] /\ run[r] \in Run
    BY DEF Inv, TypeInv
  <1>2. run'[r] \in Run
    BY <1>1 DEF Note, Run, Stages
  <1>3. run' \in [Runs -> Run] /\ \A q \in Runs \ {r} : run'[q] = run[q]
    BY <1>1, <1>2 DEF Note
  <1>4. QED
    BY <1>1, <1>3 DEF Note, Moves, Run

\* What Finish changes and what it leaves alone.
LEMMA FinishMoves ==
  ASSUME Inv, NEW r \in Runs, NEW clean \in BOOLEAN, Finish(r, clean)
  PROVE /\ Moves(r)
        /\ run'[r].pc = "done"
        /\ run'[r].notes = (IF clean THEN run[r].notes ELSE run[r].notes \cup {"cleanup"})
        /\ run'[r].result = (IF ~clean /\ run[r].result = "SUCCEEDED" THEN "PARTIAL"
                            ELSE run[r].result)
        /\ run'[r].name = run[r].name /\ run'[r].container = run[r].container
        /\ run'[r].used = run[r].used /\ run'[r].probe = run[r].probe
        /\ run'[r].tree = run[r].tree /\ run'[r].tar = run[r].tar
  <1>1. run \in [Runs -> Run] /\ run[r] \in Run
    BY DEF Inv, TypeInv
  <1>2. run'[r] \in Run
    BY <1>1 DEF Finish, Run, Stages
  <1>3. run' \in [Runs -> Run] /\ \A q \in Runs \ {r} : run'[q] = run[q]
    BY <1>1, <1>2 DEF Finish
  <1>4. QED
    BY <1>1, <1>3 DEF Finish, Moves, Run

\* A call that fails, and has made no sandbox, keeps the invariant.
LEMMA FailIsGood ==
  ASSUME Inv, NEW r \in Runs, run[r].pc \in Creating \cup Starting \cup {"execute"},
         Fail(r), Quiet(r),
         config[r].kind = "apple" => \A b \in boxes : \E c \in boxes' : Same(c, b)
  PROVE Good(r)
  <1>1. Moves(r) /\ run'[r].pc = "collect" /\ run'[r].result = "FAILED" /\ run'[r].tar = "none"
        /\ run'[r].name = run[r].name /\ run'[r].container = run[r].container
        /\ run'[r].used = run[r].used /\ run'[r].probe = run[r].probe
        /\ run'[r].notes = run[r].notes /\ run'[r].tree = run[r].tree
    BY FailMoves
  <1>2. config' = config /\ made' = made
    BY DEF Quiet
  <1>3. \A c \in boxes' : \E b \in boxes : Same(c, b)
    BY DEF Quiet
  <1>4. RunInv(r)'
    <2> USE <1>1, <1>2, <1>3 DEF Inv, TypeInv, RunInv, Same
    <2>1. StageInv(r)'
      BY KindOfRun DEF StageInv, OwnName, KindOfStage, Probing, Creating, Starting, Collecting
    <2>2. OwnInv(r)'
      BY DEF OwnInv, OwnName, Probing, Creating, Starting
    <2>3. ContainerInv(r)' /\ UsedInv(r)' /\ FetchInv(r)' /\ LeftInv(r)'
      BY DEF ContainerInv, UsedInv, FetchInv, LeftInv
    <2>4. AppleInv(r)'
      BY DEF AppleInv, Creating, Starting
    <2>5. ProbeInv(r)'
      BY DEF ProbeInv, Probing, Creating, Starting
    <2>6. QED
      BY <2>1, <2>2, <2>3, <2>4, <2>5
  <1>5. QED
    BY <1>1, <1>4, QuietIsGood

\* The same, when it has changed no sandbox at all.
LEMMA FailUnmadeIsGood ==
  ASSUME Inv, NEW r \in Runs, run[r].pc \in Creating \cup Starting \cup {"execute"},
         Fail(r), Unmade
  PROVE Good(r)
  BY FailIsGood, UnmadeIsQuiet DEF Unmade, Same

-----------------------------------------------------------------------------
(* Calls that leave all sandboxes alone *)

\* waitForOpenSandboxProbeSandbox, whatever it finds.
LEMMA ProbeWaitGood ==
  ASSUME Inv, NEW r \in Runs, ProbeWait(r) \/ ProbeWaitFails(r)
  PROVE Good(r)
  <1>1. PICK pc \in {"probeGood", "probeBad"} :
          Unmade /\ At(r, "opensandbox", "probeWait") /\ Goto(r, pc)
    BY DEF ProbeWait, ProbeWaitFails, ProbeVerdict
  <1>2. RunInv(r)'
    BY <1>1, KindOfRun, GotoMoves
       DEF At, Stages, Inv, TypeInv, RunInv, Unmade, StageInv, OwnInv, ContainerInv, AppleInv,
           UsedInv, OwnName,
       ProbeInv, FetchInv, LeftInv, KindOfStage, Probing, Creating, Starting, Collecting
  <1>3. QED BY <1>1, <1>2, UnmadeIsGood, GotoMoves DEF Stages

\* The devcontainer CLI reads the configuration.
LEMMA ReadConfigurationGood ==
  ASSUME Inv, NEW r \in Runs, ReadConfiguration(r)
  PROVE Good(r)
  <1>1. Unmade /\ At(r, "devcontainer", "create") /\ (Goto(r, "up") \/ Fail(r))
    BY DEF ReadConfiguration
  <1>2. CASE Fail(r)
    BY <1>1, <1>2, FailUnmadeIsGood DEF At, Creating
  <1>3. CASE Goto(r, "up")
    <2>1. RunInv(r)'
      BY <1>1, <1>3, KindOfRun, GotoMoves
         DEF At, Stages, Inv, TypeInv, RunInv, Unmade, StageInv, OwnInv, ContainerInv,
             AppleInv, UsedInv, OwnName,
       ProbeInv, FetchInv, LeftInv, KindOfStage, Probing, Creating, Starting, Collecting
    <2>2. QED BY <1>1, <1>3, <2>1, UnmadeIsGood, GotoMoves DEF Stages
  <1>4. QED BY <1>1, <1>2, <1>3

\* Create of a dev container returns, or the commands of the user fail.
LEMMA RunUserCommandsGood ==
  ASSUME Inv, NEW r \in Runs, RunUserCommands(r)
  PROVE Good(r)
  <1>1. Unmade /\ At(r, "devcontainer", "userCommands") /\ (Created(r, OwnName(r)) \/ Fail(r))
    BY DEF RunUserCommands
  <1>2. CASE Fail(r)
    BY <1>1, <1>2, FailUnmadeIsGood DEF At, Creating
  <1>3. CASE Created(r, OwnName(r))
    <2>1. /\ Moves(r) /\ run'[r].pc = "start"
          /\ run'[r].name = OwnName(r) /\ run'[r].container = run[r].container
          /\ run'[r].used = run[r].used /\ run'[r].probe = run[r].probe
          /\ run'[r].notes = run[r].notes /\ run'[r].tree = run[r].tree
          /\ run'[r].tar = run[r].tar /\ run'[r].result = run[r].result
      BY <1>3, KindOfRun, CreatedMoves
    <2>2. OwnName(r) # NoName
      BY KindOfRun DEF NoName, Kinds
    <2>3. RunInv(r)'
      BY <1>1, <2>1, <2>2, KindOfRun
         DEF At, Inv, TypeInv, RunInv, Unmade, StageInv, OwnInv, ContainerInv, AppleInv,
             UsedInv, OwnName,
       ProbeInv, FetchInv, LeftInv, KindOfStage, Probing, Creating, Starting, Collecting
    <2>4. QED BY <1>1, <2>1, <2>3, UnmadeIsGood
  <1>4. QED BY <1>1, <1>2, <1>3

\* machineInfo, before the machine is made and after.
LEMMA FindMachineGood ==
  ASSUME Inv, NEW r \in Runs, FindMachine(r) \/ ConfirmMachine(r)
  PROVE Good(r)
  <1>1. /\ Unmade /\ (At(r, "machine", "create") \/ At(r, "machine", "confirmMachine"))
        /\ \/ Fail(r)
           \/ Goto(r, "startMachine")
           \/ Goto(r, "createMachine") /\ At(r, "machine", "create")
    BY DEF FindMachine, ConfirmMachine
  <1>2. CASE Fail(r)
    BY <1>1, <1>2, FailUnmadeIsGood DEF At, Creating
  <1>3. CASE Goto(r, "startMachine")
    <2>1. RunInv(r)'
      BY <1>1, <1>3, KindOfRun, GotoMoves
         DEF At, Stages, Inv, TypeInv, RunInv, Unmade, StageInv, OwnInv, ContainerInv,
             AppleInv, UsedInv, OwnName,
       ProbeInv, FetchInv, LeftInv, KindOfStage, Probing, Creating, Starting, Collecting
    <2>2. QED BY <1>1, <1>3, <2>1, UnmadeIsGood, GotoMoves DEF Stages
  <1>4. CASE Goto(r, "createMachine") /\ At(r, "machine", "create")
    <2>1. RunInv(r)'
      BY <1>1, <1>4, KindOfRun, GotoMoves
         DEF At, Stages, Inv, TypeInv, RunInv, Unmade, StageInv, OwnInv, ContainerInv,
             AppleInv, UsedInv, OwnName,
       ProbeInv, FetchInv, LeftInv, KindOfStage, Probing, Creating, Starting, Collecting
    <2>2. QED BY <1>1, <1>4, <2>1, UnmadeIsGood, GotoMoves DEF Stages
  <1>5. QED BY <1>1, <1>2, <1>3, <1>4

\* Start of a sandbox waits for it, or fails.
LEMMA StartSandboxGood ==
  ASSUME Inv, NEW r \in Runs, StartSandbox(r) \/ StartFails(r)
  PROVE Good(r)
  <1>1. /\ Unmade /\ At(r, "opensandbox", "start")
        /\ Fail(r) \/ Goto(r, "syncIn")
    BY DEF StartSandbox, StartFails
  <1>2. CASE Fail(r)
    BY <1>1, <1>2, FailUnmadeIsGood DEF At, Starting
  <1>3. CASE Goto(r, "syncIn")
    <2>1. RunInv(r)'
      BY <1>1, <1>3, KindOfRun, GotoMoves
         DEF At, Stages, Inv, TypeInv, RunInv, Unmade, StageInv, OwnInv, ContainerInv,
             AppleInv, UsedInv, OwnName,
       ProbeInv, FetchInv, LeftInv, KindOfStage, Probing, Creating, Starting, Collecting
    <2>2. QED BY <1>1, <1>3, <2>1, UnmadeIsGood, GotoMoves DEF Stages
  <1>4. QED BY <1>1, <1>2, <1>3

\* Start of a dev container.
LEMMA StartDevContainerGood ==
  ASSUME Inv, NEW r \in Runs, StartDevContainer(r)
  PROVE Good(r)
  <1>1. Unmade /\ At(r, "devcontainer", "start") /\ Goto(r, "setup")
    BY DEF StartDevContainer
  <1>2. RunInv(r)'
    BY <1>1, KindOfRun, GotoMoves
       DEF At, Stages, Inv, TypeInv, RunInv, Unmade, StageInv, OwnInv, ContainerInv, AppleInv,
           UsedInv, OwnName,
       ProbeInv, FetchInv, LeftInv, KindOfStage, Probing, Creating, Starting, Collecting
  <1>3. QED BY <1>1, <1>2, UnmadeIsGood, GotoMoves DEF Stages

\* The local workspace is archived, perhaps not to its end.
LEMMA ArchiveWorkspaceGood ==
  ASSUME Inv, NEW r \in Runs, ArchiveWorkspace(r)
  PROVE Good(r)
  <1>1. /\ Unmade /\ At(r, "opensandbox", "syncIn")
        /\ \/ \E amount \in {"part", "whole"} :
                run' = [run EXCEPT ![r].tar = amount, ![r].pc = "upload"]
           \/ Fail(r)
    BY DEF ArchiveWorkspace
  <1>2. CASE Fail(r)
    BY <1>1, <1>2, FailUnmadeIsGood DEF At, Starting
  <1>3. ASSUME NEW amount \in {"part", "whole"},
               run' = [run EXCEPT ![r].tar = amount, ![r].pc = "upload"]
        PROVE Good(r)
    <2>1. run \in [Runs -> Run] /\ run[r] \in Run
      BY DEF Inv, TypeInv
    <2>2. run'[r] \in Run
      BY <1>3, <2>1 DEF Run, Stages, Amounts
    <2>3. Moves(r)
      BY <1>3, <2>1, <2>2 DEF Moves
    <2>4. /\ run'[r].pc = "upload"
          /\ run'[r].name = run[r].name /\ run'[r].container = run[r].container
          /\ run'[r].used = run[r].used /\ run'[r].probe = run[r].probe
          /\ run'[r].notes = run[r].notes /\ run'[r].tree = run[r].tree
          /\ run'[r].result = run[r].result
      BY <1>3 DEF Inv, TypeInv, Run
    <2>5. RunInv(r)'
      BY <1>1, <2>4, KindOfRun
         DEF At, Inv, TypeInv, RunInv, Unmade, StageInv, OwnInv, ContainerInv, AppleInv,
             UsedInv, OwnName,
       ProbeInv, FetchInv, LeftInv, KindOfStage, Probing, Creating, Starting, Collecting
    <2>6. QED BY <1>1, <2>3, <2>5, UnmadeIsGood
  <1>4. QED BY <1>1, <1>2, <1>3

\* The other backends, and a run without a sandbox, fetch nothing.
LEMMA SkipSyncOutGood ==
  ASSUME Inv, NEW r \in Runs, SkipSyncOut(r)
  PROVE Good(r)
  <1>1. /\ Unmade /\ run[r].pc = "collect" /\ Goto(r, "cleanup")
        /\ config[r].kind # "opensandbox" \/ run[r].name = NoName
    BY DEF SkipSyncOut
  <1>2. RunInv(r)'
    BY <1>1, KindOfRun, GotoMoves
       DEF At, Stages, Inv, TypeInv, RunInv, Unmade, StageInv, OwnInv, ContainerInv, AppleInv,
           UsedInv, OwnName,
       ProbeInv, FetchInv, LeftInv, KindOfStage, Probing, Creating, Starting, Collecting
  <1>3. QED BY <1>1, <1>2, UnmadeIsGood, GotoMoves DEF Stages

\* The remote directory is there, is not, or the question fails.
LEMMA CheckRemoteDirGood ==
  ASSUME Inv, NEW r \in Runs, CheckRemoteDir(r)
  PROVE Good(r)
  <1>1. /\ Unmade /\ At(r, "opensandbox", "collect") /\ run[r].name # NoName
        /\ \/ Goto(r, "archive")
           \/ \E note \in {"syncOut", "nothing"} : Note(r, note, "cleanup")
    BY DEF CheckRemoteDir
  <1>2. CASE Goto(r, "archive")
    <2>1. RunInv(r)'
      BY <1>1, <1>2, KindOfRun, GotoMoves
         DEF At, Stages, Inv, TypeInv, RunInv, Unmade, StageInv, OwnInv, ContainerInv,
             AppleInv, UsedInv, OwnName,
       ProbeInv, FetchInv, LeftInv, KindOfStage, Probing, Creating, Starting, Collecting
    <2>2. QED BY <1>1, <1>2, <2>1, UnmadeIsGood, GotoMoves DEF Stages
  <1>3. ASSUME NEW note \in {"syncOut", "nothing"}, Note(r, note, "cleanup") PROVE Good(r)
    <2>1. /\ run'[r].pc = "cleanup" /\ run'[r].notes = run[r].notes \cup {note}
          /\ run'[r].name = run[r].name /\ run'[r].container = run[r].container
          /\ run'[r].used = run[r].used /\ run'[r].probe = run[r].probe
          /\ run'[r].result = run[r].result
      BY <1>3, NoteMoves
    <2>2. RunInv(r)'
      BY <1>1, <2>1, KindOfRun
         DEF At, Inv, TypeInv, RunInv, Unmade, StageInv, OwnInv, ContainerInv, AppleInv,
             UsedInv, OwnName,
       ProbeInv, FetchInv, LeftInv, KindOfStage, Probing, Creating, Starting, Collecting
    <2>3. QED BY <1>1, <1>3, <2>2, UnmadeIsGood, NoteMoves
  <1>4. QED BY <1>1, <1>2, <1>3

\* Only an archive that tar has finished is downloaded.
LEMMA DownloadArchiveGood ==
  ASSUME Inv, NEW r \in Runs, DownloadArchive(r)
  PROVE Good(r)
  <1>1. /\ Unmade /\ At(r, "opensandbox", "fetch")
        /\ \/ \E b \in Working(r) : run' = [run EXCEPT ![r].tar = b.archive, ![r].pc = "unpack"]
           \/ Note(r, "syncOut", "cleanup")
    BY DEF DownloadArchive
  <1>2. ASSUME NEW b \in Working(r),
               run' = [run EXCEPT ![r].tar = b.archive, ![r].pc = "unpack"]
        PROVE Good(r)
    <2>1. b.archive = "whole"
      BY <1>1 DEF Working, Named, At, Inv, RunInv, FetchInv
    <2>2. run \in [Runs -> Run] /\ run[r] \in Run
      BY DEF Inv, TypeInv
    <2>3. run'[r] \in Run
      BY <1>2, <2>2, <2>1 DEF Run, Stages, Amounts
    <2>4. Moves(r)
      BY <1>2, <2>2, <2>3 DEF Moves
    <2>5. /\ run'[r].pc = "unpack" /\ run'[r].tar = "whole"
          /\ run'[r].name = run[r].name /\ run'[r].container = run[r].container
          /\ run'[r].used = run[r].used /\ run'[r].probe = run[r].probe
          /\ run'[r].notes = run[r].notes /\ run'[r].tree = run[r].tree
          /\ run'[r].result = run[r].result
      BY <1>2, <2>1 DEF Inv, TypeInv, Run
    <2>6. RunInv(r)'
      BY <1>1, <2>5, KindOfRun
         DEF At, Inv, TypeInv, RunInv, Unmade, StageInv, OwnInv, ContainerInv, AppleInv,
             UsedInv, OwnName,
       ProbeInv, FetchInv, LeftInv, KindOfStage, Probing, Creating, Starting, Collecting
    <2>7. QED BY <1>1, <2>4, <2>6, UnmadeIsGood
  <1>3. CASE Note(r, "syncOut", "cleanup")
    <2>1. /\ run'[r].pc = "cleanup" /\ run'[r].notes = run[r].notes \cup {"syncOut"}
          /\ run'[r].name = run[r].name /\ run'[r].container = run[r].container
          /\ run'[r].used = run[r].used /\ run'[r].probe = run[r].probe
          /\ run'[r].result = run[r].result
      BY <1>3, NoteMoves
    <2>2. "syncOut" \in run'[r].notes
      BY <2>1
    <2>3. FetchInv(r)'
      BY <1>1, <2>1, <2>2 DEF FetchInv
    <2>4. OwnInv(r)' /\ ProbeInv(r)' /\ LeftInv(r)'
      BY <1>1, <2>1 DEF At, Inv, RunInv, Unmade, OwnInv, ProbeInv, LeftInv, Probing, OwnName
    <2>5. ContainerInv(r)' /\ AppleInv(r)' /\ UsedInv(r)'
      BY <1>1, <2>1 DEF At, Inv, RunInv, Unmade, ContainerInv, AppleInv, UsedInv
    <2>6. StageInv(r)'
      BY <1>1, <2>1 DEF At, Inv, RunInv, Unmade, StageInv, Kinds, KindOfStage, Probing,
             Creating,
         Starting, Collecting
    <2>7. RunInv(r)'
      BY <2>3, <2>4, <2>5, <2>6 DEF RunInv
    <2>8. QED BY <1>1, <1>3, <2>7, UnmadeIsGood, NoteMoves
  <1>4. QED BY <1>1, <1>2, <1>3

\* Where commands run is the sandbox of the run itself, with the whole workspace, and it
\* is where its commands have run before.
LEMMA WorkingIsOwn ==
  ASSUME Inv, NEW r \in Runs, run[r].pc \in {"setup", "execute"}, NEW b \in Working(r)
  PROVE /\ b \in boxes /\ b.name = run[r].name
        /\ config[r].kind = "apple" =>
             b.maker = r /\ b.tree = "whole" /\ \A u \in run[r].used : u.id = b.id
        /\ config[r].kind = "opensandbox" =>
             b.maker = r /\ b.tree = "whole" /\ run[r].name = <<"opensandbox", b.id>>
  <1>1. b \in boxes /\ b.name = run[r].name
    BY DEF Working, Named
  <1>2. run[r].name # NoName
    BY DEF Inv, RunInv, StageInv, Starting
  <1>3. ASSUME config[r].kind = "apple"
        PROVE b.maker = r /\ b.tree = "whole" /\ \A u \in run[r].used : u.id = b.id
    <2>1. PICK a \in boxes : a.maker = r /\ \A u \in run[r].used : u.id = a.id
      BY <1>2, <1>3 DEF Inv, RunInv, AppleInv
    <2>2. a.name = OwnName(r) /\ a.tree = "whole" /\ run[r].name = OwnName(r)
      BY <1>2, <1>3, <2>1 DEF Inv, BoxInv, RunInv, StageInv
    <2>3. a = b
      BY <1>1, <2>1, <2>2 DEF Inv, BoxInv
    <2>4. QED BY <2>1, <2>2, <2>3
  <1>4. ASSUME config[r].kind = "opensandbox"
        PROVE b.maker = r /\ b.tree = "whole" /\ run[r].name = <<"opensandbox", b.id>>
    <2>1. b.maker = r
      BY <1>1, <1>4 DEF Inv, RunInv, OwnInv
    <2>2. b.name = <<"opensandbox", b.id>>
      BY <1>1, <1>2, <1>4 DEF Inv, RunInv, StageInv, BoxInv
    <2>3. b.tree = "whole"
      BY <1>1, <1>4 DEF Inv, RunInv, UsedInv
    <2>4. QED BY <1>1, <2>1, <2>2, <2>3
  <1>5. QED BY <1>1, <1>3, <1>4

\* A setup step or the main command.
LEMMA RunCommandGood ==
  ASSUME Inv, NEW r \in Runs, RunCommand(r)
  PROVE Good(r)
  <1>1. Unmade /\ run[r].pc \in {"setup", "execute"}
    BY DEF RunCommand
  <1>2. CASE Fail(r)
    BY <1>1, <1>2, FailUnmadeIsGood DEF Starting
  <1>3. ASSUME NEW b \in Working(r), NEW used,
               used = run[r].used \cup {[id |-> b.id, maker |-> b.maker, tree |-> b.tree]},
               \/ run' = [run EXCEPT ![r].used = used, ![r].result = "FAILED", ![r].pc = "collect"]
               \/ run[r].pc = "setup" /\ run' = [run EXCEPT ![r].used = used, ![r].pc = "execute"]
               \/ /\ run[r].pc = "execute"
                  /\ run' = [run EXCEPT ![r].used = used, ![r].result = "SUCCEEDED",
                                        ![r].pc = "collect"]
        PROVE Good(r)
    <2>1. b \in boxes /\ b.id \in Nat /\ b.maker \in Runs \cup {"user"} /\ b.tree \in Amounts
      BY WorkingIsOwn, <1>1 DEF Inv, TypeInv, Box
    <2>2. run \in [Runs -> Run] /\ run[r] \in Run
      BY DEF Inv, TypeInv
    <2>3. used \subseteq Use
      BY <1>3, <2>1, <2>2 DEF Run, Use
    <2>4. run'[r] \in Run
      BY <1>3, <2>2, <2>3 DEF Run, Stages
    <2>5. Moves(r)
      BY <1>3, <2>2, <2>4 DEF Moves
    <2>6. /\ \/ run'[r].pc = "collect" /\ run'[r].result \in {"FAILED", "SUCCEEDED"}
             \/ run'[r].pc = "execute" /\ run'[r].result = run[r].result
          /\ run'[r].name = run[r].name /\ run'[r].container = run[r].container
          /\ run'[r].used = used /\ run'[r].probe = run[r].probe
          /\ run'[r].notes = run[r].notes /\ run'[r].tree = run[r].tree
      BY <1>3, <2>2 DEF Run
    <2>7. UsedInv(r)' /\ AppleInv(r)'
      <3>1. \A u \in used : u \in run[r].used \/ (u.id = b.id /\ u.maker = b.maker /\ u.tree = b.tree)
        BY <1>3
      <3>2. run[r].name # NoName
        BY <1>1 DEF Inv, RunInv, StageInv, Starting
      <3>3. CASE config[r].kind = "apple"
        BY <1>1, <2>1, <2>6, <3>1, <3>2, <3>3, WorkingIsOwn
           DEF Inv, RunInv, UsedInv, AppleInv, Unmade
      <3>4. CASE config[r].kind = "opensandbox"
        <4>1. b.maker = r /\ b.tree = "whole" /\ run[r].name[2] = b.id
          BY <3>4, <1>1, WorkingIsOwn
        <4>2. \A u \in used : u.maker = r /\ u.tree = "whole" /\ u.id = run[r].name[2]
          BY <3>1, <3>4, <4>1 DEF Inv, RunInv, UsedInv
        <4>3. QED
          BY <1>1, <2>6, <3>2, <3>4, <4>2 DEF Inv, RunInv, UsedInv, AppleInv, Unmade
      <3>5. QED
        BY <3>3, <3>4, <1>1, <2>6 DEF UsedInv, AppleInv, Unmade
    <2>8. StageInv(r)'
      BY <1>1, <2>6, KindOfRun
         DEF Inv, RunInv, Unmade, StageInv, OwnName, KindOfStage, Probing, Creating,
         Starting, Collecting
    <2>9. OwnInv(r)' /\ ContainerInv(r)' /\ ProbeInv(r)' /\ FetchInv(r)' /\ LeftInv(r)'
      BY <1>1, <2>6 DEF Inv, RunInv, Unmade, OwnInv, ContainerInv, ProbeInv, FetchInv, LeftInv,
         Probing, OwnName
    <2>10. QED
      BY <1>1, <2>5, <2>7, <2>8, <2>9, UnmadeIsGood DEF RunInv
  <1>4. Fail(r) \/ \E b \in Working(r) : \E used :
          /\ used = run[r].used \cup {[id |-> b.id, maker |-> b.maker, tree |-> b.tree]}
          /\ \/ run' = [run EXCEPT ![r].used = used, ![r].result = "FAILED", ![r].pc = "collect"]
             \/ run[r].pc = "setup" /\ run' = [run EXCEPT ![r].used = used, ![r].pc = "execute"]
             \/ /\ run[r].pc = "execute"
                /\ run' = [run EXCEPT ![r].used = used, ![r].result = "SUCCEEDED",
                                      ![r].pc = "collect"]
    BY DEF RunCommand
  <1>5. QED BY <1>2, <1>3, <1>4

-----------------------------------------------------------------------------
(* The cleanup *)

\* The end of the cleanup, if a clean one that was to delete the sandbox has.
LEMMA FinishIsGood ==
  ASSUME Inv, NEW r \in Runs, run[r].pc \in {"cleanup", "rm"}, Quiet(r),
         NEW clean \in BOOLEAN, Finish(r, clean),
         clean /\ run[r].name # NoName /\ config[r].mode = "delete" =>
           \A c \in boxes' : ~(c.maker = r /\ c.use = "run")
  PROVE Good(r)
  <1>1. Moves(r) /\ run'[r].pc = "done"
        /\ run'[r].notes = (IF clean THEN run[r].notes ELSE run[r].notes \cup {"cleanup"})
        /\ run'[r].result = (IF ~clean /\ run[r].result = "SUCCEEDED" THEN "PARTIAL"
                            ELSE run[r].result)
        /\ run'[r].name = run[r].name /\ run'[r].container = run[r].container
        /\ run'[r].used = run[r].used /\ run'[r].probe = run[r].probe
        /\ run'[r].tree = run[r].tree /\ run'[r].tar = run[r].tar
    BY FinishMoves
  <1>2. config' = config /\ made' = made
    BY DEF Quiet
  <1>3. \A c \in boxes' : \E b \in boxes : Same(c, b)
    BY DEF Quiet
  <1>4. /\ run[r].result \in {"SUCCEEDED", "FAILED"}
        /\ run[r].name = NoName => run[r].result = "FAILED"
    BY DEF Inv, RunInv, StageInv, Collecting
  <1> USE DEF Inv, RunInv
  <1>5. StageInv(r)'
    BY <1>1, <1>2, <1>4, KindOfRun
       DEF StageInv, OwnName, KindOfStage, Probing, Creating, Starting,
       Collecting
  <1>6. OwnInv(r)'
    BY <1>1, <1>2, <1>3 DEF OwnInv, OwnName, Same, Probing
  <1>7. ContainerInv(r)' /\ AppleInv(r)' /\ UsedInv(r)'
    BY <1>1, <1>2 DEF ContainerInv, AppleInv, UsedInv
  <1>8. ProbeInv(r)'
    BY <1>1, <1>2, <1>3 DEF ProbeInv, Same, Probing
  <1>9. FetchInv(r)'
    <2>1. run[r].pc = "rm" => config[r].kind # "opensandbox"
      BY DEF StageInv, KindOfStage
    <2>2. run[r].notes \subseteq run'[r].notes
      BY <1>1
    <2>3. QED BY <1>1, <1>2, <2>1, <2>2 DEF FetchInv
  <1>10. LeftInv(r)'
    <2>1. clean = TRUE \/ clean = FALSE
      OBVIOUS
    <2>2. CASE clean = TRUE
      BY <2>2, <1>1, <1>2, <1>4 DEF LeftInv
    <2>3. CASE clean = FALSE
      BY <2>3, <1>1, <1>2, <1>4 DEF LeftInv
    <2>4. QED BY <2>1, <2>2, <2>3
  <1>11. QED
    BY <1>1, <1>5, <1>6, <1>7, <1>8, <1>9, <1>10, QuietIsGood

\* Nothing is asked of the backend.
LEMMA KeepGood ==
  ASSUME Inv, NEW r \in Runs, Keep(r)
  PROVE Good(r)
  <1>1. Unmade /\ run[r].pc = "cleanup" /\ Disposal(r) = "nothing" /\ Finish(r, TRUE)
    BY DEF Keep
  <1>2. run[r].name = NoName \/ config[r].mode # "delete"
    BY <1>1 DEF Disposal
  <1>3. QED
    BY <1>1, <1>2, FinishIsGood, UnmadeIsQuiet

\* A call of the cleanup, carried out or not, answered or not.
LEMMA DisposeIsGood ==
  ASSUME Inv, NEW r \in Runs, run[r].pc \in {"cleanup", "rm"}, UNCHANGED <<config, made>>,
         NEW after, boxes' = after => Quiet(r),
         run[r].name # NoName /\ config[r].mode = "delete" =>
           \A c \in after : ~(c.maker = r /\ c.use = "run"),
         Dispose(r, after) \/ (Finish(r, FALSE) /\ UNCHANGED boxes)
  PROVE Good(r)
  <1>1. CASE boxes' = after /\ Finish(r, TRUE)
    BY <1>1, FinishIsGood
  <1>2. CASE boxes' \in {boxes, after} /\ Finish(r, FALSE)
    <2>1. Quiet(r)
      BY <1>2, UnmadeIsQuiet DEF Unmade
    <2>2. QED BY <1>2, <2>1, FinishIsGood
  <1>3. QED BY <1>1, <1>2 DEF Dispose

\* The sandbox a run is to delete is the one of its name, and none of another Apple run.
LEMMA UnnamedIsOwn ==
  ASSUME Inv, NEW r \in Runs, run[r].name # NoName, run[r].pc # "done"
  PROVE /\ \A b \in Unnamed(run[r].name) : ~(b.maker = r /\ b.use = "run")
        /\ \A b \in boxes : b.name[1] = "apple" /\ b.maker # r => b \in Unnamed(run[r].name)
  <1>1. \A b \in boxes : b.maker = r /\ b.use = "run" => b.name = run[r].name
    BY DEF Inv, RunInv, StageInv, OwnInv, BoxInv
  <1>2. ASSUME NEW b \in boxes, b.name[1] = "apple", b.name = run[r].name PROVE b.maker = r
    <2>1. config[r].kind = "apple" /\ run[r].name = OwnName(r)
      BY <1>2, KindOfRun DEF Inv, RunInv, StageInv
    <2>2. PICK a \in boxes : a.maker = r
      BY <2>1 DEF Inv, RunInv, AppleInv
    <2>3. a.name = OwnName(r)
      BY <2>1, <2>2 DEF Inv, BoxInv
    <2>4. QED BY <1>2, <2>1, <2>2, <2>3 DEF Inv, BoxInv
  <1>3. QED BY <1>1, <1>2 DEF Unnamed, Named

\* Delete.
LEMMA DeleteGood ==
  ASSUME Inv, NEW r \in Runs, run[r].pc = "cleanup", Disposal(r) = "delete",
         \/ Ask(r, Unnamed(run[r].name))
         \/ Dispose(r, Unnamed(run[r].name)),
         UNCHANGED <<config, made>>
  PROVE Good(r)
  <1>1. run[r].name # NoName
    BY DEF Disposal
  <1>2. boxes' = Unnamed(run[r].name) => Quiet(r)
    BY <1>1, UnnamedIsOwn, FewerIsQuiet DEF Unnamed
  <1>3. QED
    BY <1>1, <1>2, UnnamedIsOwn, DisposeIsGood DEF Ask

\* Delete of a machine that is to be stopped, and Pause.
LEMMA SetInCleanupGood ==
  ASSUME Inv, NEW r \in Runs, run[r].pc = "cleanup", NEW state \in {"stopped", "paused"},
         Disposal(r) \in {"stop", "pause"},
         Ask(r, Set(run[r].name, state)), UNCHANGED <<config, made>>
  PROVE Good(r)
  <1>1. config[r].mode # "delete"
    BY DEF Disposal
  <1>2. boxes' = Set(run[r].name, state) => Quiet(r)
    BY SetIsQuiet
  <1>3. QED
    BY <1>1, <1>2, DisposeIsGood DEF Ask

\* docker rm -f, by the ID that up has told.
LEMMA RemoveContainerGood ==
  ASSUME Inv, NEW r \in Runs, RemoveContainer(r)
  PROVE Good(r)
  <1> DEFINE after == {b \in boxes : b.id # run[r].container}
  <1>1. /\ config[r].kind = "devcontainer" /\ run[r].pc = "rm" /\ run[r].container # 0
        /\ Dispose(r, after) /\ UNCHANGED <<config, made>>
    BY DEF RemoveContainer, At, Inv, RunInv, ContainerInv
  <1>2. \A b \in after : ~(b.maker = r /\ b.use = "run")
    BY <1>1 DEF Inv, RunInv, OwnInv
  <1>3. \A b \in boxes : b.name[1] = "apple" => b \in after
    BY <1>1, KindOfRun DEF Inv, RunInv, OwnInv
  <1>4. boxes' = after => Quiet(r)
    BY <1>1, <1>3, FewerIsQuiet
  <1>5. QED
    BY <1>1, <1>2, <1>4, DisposeIsGood

\* devcontainer down, or what is done without it.
LEMMA DownGood ==
  ASSUME Inv, NEW r \in Runs, Down(r)
  PROVE Good(r)
  <1>1. /\ config[r].kind = "devcontainer" /\ run[r].pc = "cleanup" /\ Disposal(r) = "delete"
        /\ UNCHANGED <<config, made>>
        /\ \/ Dispose(r, Unnamed(run[r].name))
           \/ run[r].container # 0 /\ Goto(r, "rm") /\ UNCHANGED boxes
           \/ Finish(r, FALSE) /\ UNCHANGED boxes
    BY DEF Down, At
  <1>2. CASE Dispose(r, Unnamed(run[r].name))
    BY <1>1, <1>2, DeleteGood
  <1>3. CASE Finish(r, FALSE) /\ UNCHANGED boxes
    BY <1>1, <1>3, FinishIsGood, UnmadeIsQuiet DEF Unmade
  <1>4. CASE run[r].container # 0 /\ Goto(r, "rm") /\ UNCHANGED boxes
    <2>1. config[r].mode # "keep" /\ run[r].name # NoName /\ Unmade
      BY <1>1, <1>4 DEF Disposal, Unmade
    <2>2. /\ Moves(r) /\ run'[r].pc = "rm"
          /\ run'[r].name = run[r].name /\ run'[r].container = run[r].container
          /\ run'[r].used = run[r].used /\ run'[r].probe = run[r].probe
          /\ run'[r].notes = run[r].notes /\ run'[r].tree = run[r].tree
          /\ run'[r].tar = run[r].tar /\ run'[r].result = run[r].result
      BY <1>4, GotoMoves DEF Stages
    <2>3. RunInv(r)'
      BY <1>1, <1>4, <2>1, <2>2
         DEF Inv, TypeInv, RunInv, Unmade, StageInv, OwnInv, ContainerInv, AppleInv, UsedInv,
             OwnName,
       ProbeInv, FetchInv, LeftInv, KindOfStage, Probing, Creating, Starting, Collecting
    <2>4. QED BY <2>1, <2>2, <2>3, UnmadeIsGood
  <1>5. QED BY <1>1, <1>2, <1>3, <1>4

\* cleanupBackend keeps the invariant.
LEMMA CleanupGood ==
  ASSUME Inv, NEW r \in Runs, CleanupStep(r)
  PROVE Good(r)
  <1>1. CASE Keep(r)
    BY <1>1, KeepGood
  <1>2. CASE DeleteContainer(r)
    BY <1>2, DeleteGood DEF DeleteContainer, At
  <1>3. CASE DeleteMachine(r)
    BY <1>3, DeleteGood, SetInCleanupGood DEF DeleteMachine, At
  <1>4. CASE PauseSandbox(r)
    BY <1>4, SetInCleanupGood DEF PauseSandbox, At
  <1>5. CASE DeleteSandbox(r)
    BY <1>5, DeleteGood DEF DeleteSandbox, At
  <1>6. CASE Down(r)
    BY <1>6, DownGood
  <1>7. CASE RemoveContainer(r)
    BY <1>7, RemoveContainerGood
  <1>8. QED
    BY <1>1, <1>2, <1>3, <1>4, <1>5, <1>6, <1>7 DEF CleanupStep

-----------------------------------------------------------------------------
(* Calls that change a sandbox *)

\* A call that brings a sandbox into a state removes none.
LEMMA SetKeeps ==
  ASSUME Inv, NEW r, NEW name,
         NEW state \in {"pending", "running", "failed", "paused", "stopped"},
         boxes' \in {boxes, Set(name, state)}, UNCHANGED <<config, made>>
  PROVE /\ Quiet(r)
        /\ \A c \in boxes' : \E b \in boxes : Alike(c, b)
        /\ \A c \in boxes' : \E b \in boxes : Same(c, b)
        /\ \A b \in boxes : \E c \in boxes' : Same(c, b)
  <1>1. CASE boxes' = boxes
    BY <1>1, UnmadeIsQuiet DEF Unmade, Alike, Same
  <1>2. CASE boxes' = Set(name, state)
    <2>1. \A b \in boxes : Alike([b EXCEPT !.state = state], b)
      BY DEF Inv, TypeInv, Box, Alike, Same
    <2>2. \A c \in boxes' : \E b \in boxes : c = b \/ c = [b EXCEPT !.state = state]
      BY <1>2 DEF Set, Unnamed, Named
    <2>3. \A c \in boxes' : \E b \in boxes : Alike(c, b)
      BY <2>1, <2>2 DEF Alike, Same
    <2>4. \A b \in boxes : \E c \in boxes' : Same(c, b)
      BY <1>2, <2>1 DEF Set, Unnamed, Named, Alike, Same
    <2>5. QED BY <1>2, <2>3, <2>4, SetIsQuiet DEF Alike
  <1>3. QED BY <1>1, <1>2

\* Start of a machine or of an Apple container.
LEMMA StartGood ==
  ASSUME Inv, NEW r \in Runs, StartMachine(r) \/ StartContainer(r)
  PROVE Good(r)
  <1>1. /\ config[r].kind \in {"machine", "apple"} /\ run[r].pc = "start"
        /\ boxes' \in {boxes, Set(run[r].name, "running")}
        /\ Goto(r, "setup") \/ Fail(r)
        /\ UNCHANGED <<config, made>>
    BY DEF StartMachine, StartContainer, At
  <1>2. /\ Quiet(r)
        /\ \A c \in boxes' : \E b \in boxes : Alike(c, b)
        /\ \A c \in boxes' : \E b \in boxes : Same(c, b)
        /\ \A b \in boxes : \E c \in boxes' : Same(c, b)
    BY <1>1, SetKeeps
  <1>3. CASE Fail(r)
    BY <1>1, <1>2, <1>3, FailIsGood DEF Starting
  <1>4. CASE Goto(r, "setup")
    <2>1. /\ Moves(r) /\ run'[r].pc = "setup"
          /\ run'[r].name = run[r].name /\ run'[r].container = run[r].container
          /\ run'[r].used = run[r].used /\ run'[r].probe = run[r].probe
          /\ run'[r].notes = run[r].notes /\ run'[r].tree = run[r].tree
          /\ run'[r].tar = run[r].tar /\ run'[r].result = run[r].result
      BY <1>4, GotoMoves DEF Stages
    <2>2. config[r].kind = "apple" => \A b \in boxes : b.name = run[r].name => b.tree = "whole"
      <3> SUFFICES ASSUME config[r].kind = "apple", NEW b \in boxes, b.name = run[r].name
                   PROVE b.tree = "whole"
        OBVIOUS
      <3>1. run[r].name = OwnName(r) /\ run[r].name # NoName
        BY <1>1 DEF Inv, RunInv, StageInv, Starting
      <3>2. PICK a \in boxes : a.maker = r
        BY <1>1, <3>1 DEF Inv, RunInv, AppleInv
      <3>3. a.name = OwnName(r) /\ a.tree = "whole"
        BY <3>2 DEF Inv, BoxInv
      <3>4. QED BY <3>1, <3>2, <3>3 DEF Inv, BoxInv
    <2>3. StageInv(r)' /\ ContainerInv(r)' /\ FetchInv(r)'
      BY <1>1, <2>1 DEF Inv, RunInv, StageInv, ContainerInv, FetchInv, OwnName, KindOfStage,
             Probing, Creating,
         Starting, Collecting
    <2>4. OwnInv(r)' /\ LeftInv(r)' /\ ProbeInv(r)'
      <3>1. \A c \in boxes' : \E b \in boxes : Same(c, b)
        BY <1>2
      <3>2. OwnInv(r)'
        BY <1>1, <2>1, <3>1 DEF Inv, RunInv, OwnInv, Same, OwnName, Probing
      <3>3. ProbeInv(r)'
        BY <1>1, <2>1, <3>1 DEF Inv, RunInv, ProbeInv, Same, Probing
      <3>4. LeftInv(r)'
        BY <2>1 DEF LeftInv
      <3>5. QED BY <3>2, <3>3, <3>4
    <2>5. UsedInv(r)' /\ AppleInv(r)'
      <3>1. config[r].kind = "apple" => \A c \in boxes' : c.name = run[r].name => c.tree = "whole"
        BY <1>2, <2>2 DEF Alike, Same
      <3>2. UsedInv(r)'
        BY <1>1, <2>1, <3>1 DEF Inv, RunInv, UsedInv
      <3>3. AppleInv(r)'
        BY <1>1, <1>2, <2>1 DEF Inv, RunInv, AppleInv, Same
      <3>4. QED BY <3>2, <3>3
    <2>6. QED
      BY <1>2, <2>1, <2>3, <2>4, <2>5, QuietIsGood DEF RunInv
  <1>5. QED BY <1>1, <1>3, <1>4

\* Create of a machine starts it and returns.
LEMMA StartFoundMachineGood ==
  ASSUME Inv, NEW r \in Runs, StartFoundMachine(r)
  PROVE Good(r)
  <1>1. /\ config[r].kind = "machine" /\ run[r].pc = "startMachine"
        /\ boxes' \in {boxes, Set(OwnName(r), "running")}
        /\ Created(r, OwnName(r)) \/ Fail(r)
        /\ UNCHANGED <<config, made>>
    BY DEF StartFoundMachine, At
  <1>2. /\ Quiet(r)
        /\ \A c \in boxes' : \E b \in boxes : Alike(c, b)
        /\ \A c \in boxes' : \E b \in boxes : Same(c, b)
        /\ \A b \in boxes : \E c \in boxes' : Same(c, b)
    BY <1>1, SetKeeps
  <1>3. CASE Fail(r)
    BY <1>1, <1>2, <1>3, FailIsGood DEF Creating
  <1>4. CASE Created(r, OwnName(r))
    <2>1. /\ Moves(r) /\ run'[r].pc = "start"
          /\ run'[r].name = OwnName(r) /\ run'[r].container = run[r].container
          /\ run'[r].used = run[r].used /\ run'[r].probe = run[r].probe
          /\ run'[r].notes = run[r].notes /\ run'[r].tree = run[r].tree
          /\ run'[r].tar = run[r].tar /\ run'[r].result = run[r].result
      BY <1>4, KindOfRun, CreatedMoves
    <2>2. OwnName(r) # NoName
      BY KindOfRun DEF NoName, Kinds
    <2>3. StageInv(r)' /\ ContainerInv(r)' /\ FetchInv(r)' /\ UsedInv(r)' /\ AppleInv(r)'
      BY <1>1, <2>1, <2>2 DEF Inv, RunInv, StageInv, ContainerInv, FetchInv, UsedInv, AppleInv,
         OwnName, KindOfStage, Kinds, Probing, Creating, Starting, Collecting
    <2>4. OwnInv(r)' /\ LeftInv(r)' /\ ProbeInv(r)'
      <3>1. \A c \in boxes' : \E b \in boxes : Same(c, b)
        BY <1>2
      <3>2. OwnInv(r)'
        BY <1>1, <2>1, <3>1 DEF Inv, RunInv, OwnInv, Same, OwnName, Probing
      <3>3. ProbeInv(r)'
        BY <1>1, <2>1, <3>1 DEF Inv, RunInv, ProbeInv, Same, Probing
      <3>4. LeftInv(r)'
        BY <2>1 DEF LeftInv
      <3>5. QED BY <3>2, <3>3, <3>4
    <2>5. QED
      BY <1>2, <2>1, <2>3, <2>4, QuietIsGood DEF RunInv
  <1>5. QED BY <1>1, <1>3, <1>4

\* A call that changes the run's sandbox in OpenSandbox touches no other.
LEMMA SandboxKeeps ==
  ASSUME Inv, NEW r \in Runs, config[r].kind = "opensandbox", run[r].name # NoName,
         UNCHANGED <<config, made>>, NEW b \in Working(r), NEW c \in Box, Same(c, b),
         boxes' = (boxes \ {b}) \cup {c}
  PROVE /\ Quiet(r)
        /\ \A d \in boxes' : \E a \in boxes : Same(d, a)
        /\ \A a \in boxes : \E d \in boxes' : Same(d, a)
        /\ \A d \in boxes' : d.name = run[r].name => d = c
  <1>1. b \in boxes /\ b.name = run[r].name /\ b.maker = r
    BY DEF Working, Named, Inv, RunInv, OwnInv
  <1>2. Quiet(r)
    BY <1>1, ChangeIsQuiet
  <1>3. \A d \in boxes' : d.name = run[r].name => d = c
    BY <1>1 DEF Inv, BoxInv
  <1>4. QED BY <1>1, <1>2, <1>3 DEF Same

\* The archive is uploaded, perhaps one that ends too early.
LEMMA UploadArchiveGood ==
  ASSUME Inv, NEW r \in Runs, UploadArchive(r)
  PROVE Good(r)
  <1>1. config[r].kind = "opensandbox" /\ run[r].pc = "upload" /\ UNCHANGED <<config, made>>
    BY DEF UploadArchive, At
  <1>2. CASE Fail(r) /\ UNCHANGED boxes
    BY <1>1, <1>2, FailUnmadeIsGood DEF Starting, Unmade
  <1>3. ASSUME NEW b \in Working(r), boxes' = Change(b, "archive", run[r].tar),
               \/ run' = [run EXCEPT ![r].tar = "none", ![r].pc = "extract"]
               \/ Fail(r)
        PROVE Good(r)
    <2> DEFINE c == [b EXCEPT !["archive"] = run[r].tar]
    <2>1. b \in boxes /\ b \in Box /\ run \in [Runs -> Run] /\ run[r] \in Run /\ run[r].name # NoName
      BY <1>1 DEF Working, Named, Inv, TypeInv, RunInv, StageInv, Starting
    <2>2. c \in Box /\ Same(c, b)
      BY <2>1 DEF Box, Same, Run
    <2>3. boxes' = (boxes \ {b}) \cup {c}
      BY <1>3 DEF Change
    <2>4. /\ Quiet(r)
          /\ \A d \in boxes' : \E a \in boxes : Same(d, a)
          /\ \A a \in boxes : \E d \in boxes' : Same(d, a)
      BY <1>1, <2>1, <2>2, <2>3, SandboxKeeps
    <2>5. CASE Fail(r)
      BY <1>1, <2>4, <2>5, FailIsGood DEF Starting
    <2>6. CASE run' = [run EXCEPT ![r].tar = "none", ![r].pc = "extract"]
      <3>1. run'[r] \in Run
        BY <2>1, <2>6 DEF Run, Stages, Amounts
      <3>2. Moves(r)
        BY <2>1, <2>6, <3>1 DEF Moves
      <3>3. /\ run'[r].pc = "extract"
            /\ run'[r].name = run[r].name /\ run'[r].container = run[r].container
            /\ run'[r].used = run[r].used /\ run'[r].probe = run[r].probe
            /\ run'[r].notes = run[r].notes /\ run'[r].tree = run[r].tree
            /\ run'[r].result = run[r].result
        BY <2>1, <2>6 DEF Run
      <3>4. StageInv(r)' /\ ContainerInv(r)' /\ FetchInv(r)' /\ UsedInv(r)' /\ AppleInv(r)'
        BY <1>1, <3>3 DEF Inv, RunInv, StageInv, ContainerInv, FetchInv, UsedInv, AppleInv,
           KindOfStage, Probing, Creating, Starting, Collecting
      <3>5. OwnInv(r)' /\ LeftInv(r)' /\ ProbeInv(r)'
        BY <1>1, <2>4, <3>3 DEF Inv, RunInv, OwnInv, LeftInv, ProbeInv, Same, OwnName, Probing
      <3>6. QED
        BY <2>4, <3>2, <3>4, <3>5, QuietIsGood DEF RunInv
    <2>7. QED BY <1>3, <2>5, <2>6
  <1>4. QED BY <1>2, <1>3 DEF UploadArchive

\* tar unpacks it; only a whole one lets the run go on to its commands.
LEMMA SyncInGood ==
  ASSUME Inv, NEW r \in Runs, SyncIn(r)
  PROVE Good(r)
  <1>1. config[r].kind = "opensandbox" /\ run[r].pc = "extract" /\ UNCHANGED <<config, made>>
    BY DEF SyncIn, At
  <1>2. CASE Fail(r) /\ UNCHANGED boxes
    BY <1>1, <1>2, FailUnmadeIsGood DEF Starting, Unmade
  <1>3. ASSUME NEW b \in Working(r), NEW exit \in {0, 1},
               boxes' = (boxes \ {b}) \cup
                 {[b EXCEPT !.tree = Amount(exit), !.archive = IF exit = 0 THEN "none" ELSE @]},
               \/ exit = 0 /\ Goto(r, "setup")
               \/ Fail(r)
        PROVE Good(r)
    <2> DEFINE c == [b EXCEPT !.tree = Amount(exit), !.archive = IF exit = 0 THEN "none" ELSE @]
    <2>1. b \in boxes /\ b \in Box /\ run[r].name # NoName
      BY <1>1 DEF Working, Named, Inv, TypeInv, RunInv, StageInv, Starting
    <2>2. c \in Box /\ Same(c, b) /\ (exit = 0 => c.tree = "whole")
      BY <2>1 DEF Box, Same, Amount, Amounts
    <2>3. boxes' = (boxes \ {b}) \cup {c}
      BY <1>3
    <2> HIDE DEF c
    <2>4. /\ Quiet(r)
          /\ \A d \in boxes' : \E a \in boxes : Same(d, a)
          /\ \A a \in boxes : \E d \in boxes' : Same(d, a)
          /\ \A d \in boxes' : d.name = run[r].name => d = c
      BY <1>1, <2>1, <2>2, <2>3, SandboxKeeps
    <2>5. CASE Fail(r)
      BY <1>1, <2>4, <2>5, FailIsGood DEF Starting
    <2>6. CASE exit = 0 /\ Goto(r, "setup")
      <3>1. /\ Moves(r) /\ run'[r].pc = "setup"
            /\ run'[r].name = run[r].name /\ run'[r].container = run[r].container
            /\ run'[r].used = run[r].used /\ run'[r].probe = run[r].probe
            /\ run'[r].notes = run[r].notes /\ run'[r].tree = run[r].tree
            /\ run'[r].tar = run[r].tar /\ run'[r].result = run[r].result
        BY <2>6, GotoMoves DEF Stages
      <3>2. StageInv(r)' /\ ContainerInv(r)' /\ FetchInv(r)' /\ AppleInv(r)'
        BY <1>1, <3>1 DEF Inv, RunInv, StageInv, ContainerInv, FetchInv, AppleInv,
           KindOfStage, Kinds, Probing, Creating, Starting, Collecting
      <3>3. OwnInv(r)' /\ LeftInv(r)' /\ ProbeInv(r)'
        BY <1>1, <2>4, <3>1 DEF Inv, RunInv, OwnInv, LeftInv, ProbeInv, Same, OwnName, Probing
      <3>4. UsedInv(r)'
        BY <1>1, <2>2, <2>4, <2>6, <3>1 DEF Inv, RunInv, UsedInv
      <3>5. QED
        BY <2>4, <3>1, <3>2, <3>3, <3>4, QuietIsGood DEF RunInv
    <2>7. QED BY <1>3, <2>5, <2>6
  <1>4. ASSUME NEW exit \in {0, 1}, NEW code \in RunSimpleCommand(exit),
               IF code = 0 THEN Goto(r, "setup") ELSE Fail(r)
        PROVE (exit = 0 /\ Goto(r, "setup")) \/ Fail(r)
    BY <1>4 DEF RunSimpleCommand, Broken
  <1>5. QED BY <1>2, <1>3, <1>4 DEF SyncIn

\* The remote workspace is archived; only a whole archive is fetched.
LEMMA ArchiveRemoteDirGood ==
  ASSUME Inv, NEW r \in Runs, ArchiveRemoteDir(r)
  PROVE Good(r)
  <1>1. config[r].kind = "opensandbox" /\ run[r].pc = "archive" /\ UNCHANGED <<config, made>>
    BY DEF ArchiveRemoteDir, At
  <1>2. run[r].name # NoName
    BY <1>1 DEF Inv, RunInv, StageInv
  <1>3. ASSUME Note(r, "syncOut", "cleanup"), Quiet(r) PROVE Good(r)
    <2>1. /\ Moves(r) /\ run'[r].pc = "cleanup" /\ run'[r].notes = run[r].notes \cup {"syncOut"}
          /\ run'[r].name = run[r].name /\ run'[r].container = run[r].container
          /\ run'[r].used = run[r].used /\ run'[r].probe = run[r].probe
          /\ run'[r].result = run[r].result
      BY <1>3, NoteMoves
    <2>2. \A d \in boxes' : \E a \in boxes : Same(d, a)
      BY <1>3 DEF Quiet
    <2>3. StageInv(r)' /\ ContainerInv(r)'
      BY <1>1, <2>1 DEF Inv, RunInv, StageInv, ContainerInv, KindOfStage, Kinds, Probing,
             Creating,
         Starting, Collecting
    <2>4. UsedInv(r)' /\ AppleInv(r)'
      BY <1>1, <2>1 DEF Inv, RunInv, UsedInv, AppleInv
    <2>5. OwnInv(r)'
      BY <1>1, <2>1, <2>2 DEF Inv, RunInv, OwnInv, Same, OwnName, Probing
    <2>6. ProbeInv(r)' /\ LeftInv(r)'
      BY <1>1, <2>1, <2>2 DEF Inv, RunInv, ProbeInv, LeftInv, Same, Probing
    <2>7. "syncOut" \in run'[r].notes
      BY <2>1
    <2>8. FetchInv(r)'
      BY <2>1, <2>7 DEF FetchInv
    <2>9. QED
      BY <1>3, <2>1, <2>3, <2>4, <2>5, <2>6, <2>8, QuietIsGood DEF RunInv
  <1>4. ASSUME NEW b \in Working(r), NEW exit \in {0, 1},
               boxes' = Change(b, "archive", Amount(exit)),
               \/ exit = 0 /\ Goto(r, "fetch")
               \/ Note(r, "syncOut", "cleanup")
        PROVE Good(r)
    <2> DEFINE c == [b EXCEPT !["archive"] = Amount(exit)]
    <2>1. b \in boxes /\ b \in Box
      BY <1>1 DEF Working, Named, Inv, TypeInv
    <2>2. c \in Box /\ Same(c, b) /\ (exit = 0 => c.archive = "whole")
      BY <2>1 DEF Box, Same, Amount, Amounts
    <2>3. boxes' = (boxes \ {b}) \cup {c}
      BY <1>4 DEF Change
    <2> HIDE DEF c
    <2>4. /\ Quiet(r)
          /\ \A d \in boxes' : \E a \in boxes : Same(d, a)
          /\ \A d \in boxes' : d.name = run[r].name => d = c
      BY <1>1, <1>2, <2>1, <2>2, <2>3, SandboxKeeps
    <2>5. CASE exit = 0 /\ Goto(r, "fetch")
      <3>1. /\ Moves(r) /\ run'[r].pc = "fetch"
            /\ run'[r].name = run[r].name /\ run'[r].container = run[r].container
            /\ run'[r].used = run[r].used /\ run'[r].probe = run[r].probe
            /\ run'[r].notes = run[r].notes /\ run'[r].tree = run[r].tree
            /\ run'[r].tar = run[r].tar /\ run'[r].result = run[r].result
        BY <2>5, GotoMoves DEF Stages
      <3>2. StageInv(r)' /\ ContainerInv(r)' /\ AppleInv(r)' /\ UsedInv(r)'
        BY <1>1, <3>1 DEF Inv, RunInv, StageInv, ContainerInv, AppleInv, UsedInv,
           KindOfStage, Kinds, Probing, Creating, Starting, Collecting
      <3>3. OwnInv(r)' /\ LeftInv(r)' /\ ProbeInv(r)'
        BY <1>1, <2>4, <3>1 DEF Inv, RunInv, OwnInv, LeftInv, ProbeInv, Same, OwnName, Probing
      <3>4. FetchInv(r)'
        BY <2>2, <2>4, <2>5, <3>1 DEF FetchInv
      <3>5. QED
        BY <2>4, <3>1, <3>2, <3>3, <3>4, QuietIsGood DEF RunInv
    <2>6. QED BY <1>3, <1>4, <2>4, <2>5
  <1>5. CASE Note(r, "syncOut", "cleanup") /\ UNCHANGED boxes
    BY <1>1, <1>3, <1>5, UnmadeIsQuiet DEF Unmade
  <1>6. QED BY <1>4, <1>5 DEF ArchiveRemoteDir, RunSimpleCommand, Broken

\* A whole archive is unpacked whole, or it is noted that it was not.
LEMMA ExtractTarGood ==
  ASSUME Inv, NEW r \in Runs, ExtractTar(r)
  PROVE Good(r)
  <1>1. config[r].kind = "opensandbox" /\ run[r].pc = "unpack" /\ UNCHANGED <<config, made>>
    BY DEF ExtractTar, At
  <1>2. run[r].name # NoName /\ run[r].tar = "whole"
    BY <1>1 DEF Inv, RunInv, StageInv, FetchInv
  <1>3. PICK tree \in Amounts, notes \in {run[r].notes, run[r].notes \cup {"syncOut"}} :
          /\ run' = [run EXCEPT ![r].tree = tree, ![r].notes = notes,
                                ![r].tar = "none", ![r].pc = "cleanup"]
          /\ tree = "whole" \/ "syncOut" \in notes
    <2>1. CASE run' = [run EXCEPT ![r].tree = run[r].tar, ![r].tar = "none", ![r].pc = "cleanup"]
      BY <2>1, <1>2 DEF Amounts, Inv, TypeInv, Run
    <2>2. ASSUME NEW tree \in {"none", "part"},
                 run' = [run EXCEPT ![r].tree = tree, ![r].notes = @ \cup {"syncOut"},
                                ![r].tar = "none", ![r].pc = "cleanup"]
          PROVE  /\ run' = [run EXCEPT ![r].tree = tree, ![r].notes = run[r].notes \cup {"syncOut"},
                                ![r].tar = "none", ![r].pc = "cleanup"]
                 /\ tree \in Amounts /\ "syncOut" \in run[r].notes \cup {"syncOut"}
      BY <2>2 DEF Amounts, Inv, TypeInv, Run
    <2>3. QED
      BY <2>1, <2>2 DEF ExtractTar
  <1>4. boxes' = boxes \/ \E b \in Working(r) : boxes' = Change(b, "archive", "none")
    BY DEF ExtractTar
  <1>5. /\ Quiet(r)
        /\ \A d \in boxes' : \E a \in boxes : Same(d, a)
    <2>1. CASE boxes' = boxes
      BY <1>1, <2>1, UnmadeIsQuiet DEF Unmade, Same
    <2>2. ASSUME NEW b \in Working(r), boxes' = Change(b, "archive", "none")
          PROVE Quiet(r) /\ \A d \in boxes' : \E a \in boxes : Same(d, a)
      <3> DEFINE c == [b EXCEPT !["archive"] = "none"]
      <3>1. b \in boxes /\ b \in Box
        BY DEF Working, Named, Inv, TypeInv
      <3>2. c \in Box /\ Same(c, b)
        BY <3>1 DEF Box, Same, Amounts
      <3>3. boxes' = (boxes \ {b}) \cup {c}
        BY <2>2 DEF Change
      <3> HIDE DEF c
      <3>4. QED
        BY <1>1, <1>2, <3>1, <3>2, <3>3, SandboxKeeps
    <2>3. QED BY <1>4, <2>1, <2>2
  <1>6. run \in [Runs -> Run] /\ run[r] \in Run
    BY DEF Inv, TypeInv
  <1>7. run'[r] \in Run
    BY <1>3, <1>6 DEF Run, Stages, Amounts
  <1>8. Moves(r)
    BY <1>3, <1>6, <1>7 DEF Moves
  <1>9. /\ run'[r].pc = "cleanup" /\ run'[r].tree = tree /\ run'[r].notes = notes
        /\ run'[r].name = run[r].name /\ run'[r].container = run[r].container
        /\ run'[r].used = run[r].used /\ run'[r].probe = run[r].probe
        /\ run'[r].result = run[r].result
    BY <1>3, <1>6 DEF Run
  <1>10. StageInv(r)' /\ ContainerInv(r)' /\ AppleInv(r)' /\ UsedInv(r)'
    BY <1>1, <1>9 DEF Inv, RunInv, StageInv, ContainerInv, AppleInv, UsedInv,
       KindOfStage, Kinds, Probing, Creating, Starting, Collecting
  <1>11. OwnInv(r)' /\ LeftInv(r)'
    BY <1>1, <1>5, <1>9 DEF Inv, RunInv, OwnInv, LeftInv, Same, OwnName, Probing
  <1>12. ProbeInv(r)'
    <2>1. run[r].notes \subseteq run'[r].notes
      BY <1>3, <1>9
    <2>2. QED BY <1>1, <1>5, <1>9, <2>1 DEF Inv, RunInv, ProbeInv, Same, Probing
  <1>13. FetchInv(r)'
    BY <1>3, <1>9 DEF FetchInv
  <1>14. QED
    BY <1>5, <1>8, <1>10, <1>11, <1>12, <1>13, QuietIsGood DEF RunInv

-----------------------------------------------------------------------------
(* Calls that make one *)

\* A run of a CLI backend whose sandbox has just been made.
LEMMA MadeGood ==
  ASSUME Inv, NEW r \in Runs, config[r].kind # "opensandbox",
         run[r].pc \in {"create", "createMachine", "up"},
         NEW state \in {"pending", "running", "failed", "paused", "stopped"},
         config[r].kind = "apple" => Named(OwnName(r)) = {},
         boxes' = Unnamed(OwnName(r)) \cup {NextBox(r, state)}, made' = made + 1, config' = config,
         Moves(r), run'[r].used = run[r].used, run'[r].probe = run[r].probe,
         run'[r].notes = run[r].notes,
         \/ run'[r].pc = "collect" /\ run'[r].result = "FAILED" /\ run'[r].name = run[r].name
            /\ run'[r].container = run[r].container
         \/ config[r].kind = "machine" /\ run'[r].pc = "confirmMachine" /\ run'[r].name = run[r].name
            /\ run'[r].result = run[r].result /\ run'[r].container = run[r].container
         \/ config[r].kind = "apple" /\ run'[r].pc = "start" /\ run'[r].name = OwnName(r)
            /\ run'[r].result = run[r].result /\ run'[r].container = run[r].container
         \/ config[r].kind = "devcontainer" /\ run[r].pc = "up" /\ run'[r].pc = "userCommands"
            /\ run'[r].name = run[r].name /\ run'[r].result = run[r].result
            /\ run'[r].container \in {0, made + 1}
  PROVE Good(r)
  <1> DEFINE n == NextBox(r, state)
  <1>1. /\ BoxInv' /\ Evolves(r) /\ made' \in Nat
        /\ n.id = made + 1 /\ n.maker = r /\ n.use = "run" /\ n.name = OwnName(r)
    BY Made
  <1>2. n \in boxes' /\ \A c \in boxes' : c = n \/ (c \in boxes /\ c.name # OwnName(r))
    BY DEF Unnamed, Named
  <1> HIDE DEF n
  <1>3. run[r].container = 0 /\ run[r].name = NoName /\ run[r].result = "none"
    <2>1. run[r].name = NoName /\ run[r].result = "none"
      BY DEF Inv, RunInv, StageInv, Creating
    <2>2. run[r].pc = "createMachine" => config[r].kind = "machine"
      BY DEF Inv, RunInv, StageInv, KindOfStage
    <2>3. run[r].container = 0
      BY <2>2 DEF Inv, RunInv, ContainerInv
    <2>4. QED BY <2>1, <2>3
  <1>4. OwnName(r) # NoName
    BY KindOfRun DEF NoName, Kinds
  <1>5. made \in Nat /\ \A b \in boxes : b.id \in 1 .. made
    BY DEF Inv, TypeInv, BoxInv
  <1>6. run[r].used = {} \/ config[r].kind \notin {"apple", "opensandbox"}
    BY <1>3 DEF Inv, RunInv, UsedInv
  <1>7. config[r].kind \in Kinds
    BY KindOfRun
  <1>8. StageInv(r)'
    BY <1>3, <1>4, <1>7 DEF Inv, RunInv, StageInv, OwnName, KindOfStage, Probing, Creating,
       Starting, Collecting
  <1>9. \A b \in boxes : b.maker = r => b.name = OwnName(r) /\ b.use = "run"
    BY DEF Inv, BoxInv
  <1>10. \A c \in boxes' : c.maker = r => c = n
    BY <1>2, <1>9
  <1>11. OwnInv(r)'
    BY <1>1, <1>2, <1>3, <1>5, <1>10 DEF OwnInv, OwnName, Probing
  <1>12. ContainerInv(r)'
    BY <1>3, <1>5 DEF ContainerInv
  <1>13. AppleInv(r)' /\ UsedInv(r)'
    BY <1>1, <1>2, <1>3, <1>6 DEF AppleInv, UsedInv
  <1>14. ProbeInv(r)'
    BY <1>1, <1>2, <1>5, <1>9 DEF Inv, RunInv, ProbeInv, Probing
  <1>15. FetchInv(r)' /\ LeftInv(r)'
    BY DEF FetchInv, LeftInv
  <1>16. QED
    BY <1>1, <1>8, <1>11, <1>12, <1>13, <1>14, <1>15 DEF Good, Moves, RunInv

\* Create of an Apple container, and of a machine that was missing.
LEMMA CreateContainerGood ==
  ASSUME Inv, NEW r \in Runs, CreateContainer(r) \/ CreateMachine(r)
  PROVE Good(r)
  <1>1. /\ config' = config
        /\ \/ At(r, "apple", "create") \/ At(r, "machine", "createMachine")
    BY DEF CreateContainer, CreateMachine
  <1>2. CASE Fail(r) /\ UNCHANGED <<boxes, made>>
    BY <1>1, <1>2, FailUnmadeIsGood DEF At, Creating, Unmade
  <1>3. ASSUME Named(OwnName(r)) = {}, NEW state \in {"stopped", "running"},
               boxes' = boxes \cup {NextBox(r, state)}, made' = made + 1,
               \/ Fail(r)
               \/ At(r, "apple", "create") /\ Created(r, OwnName(r))
               \/ At(r, "machine", "createMachine") /\ Goto(r, "confirmMachine")
        PROVE Good(r)
    <2>1. boxes' = Unnamed(OwnName(r)) \cup {NextBox(r, state)}
      BY <1>3 DEF Unnamed
    <2>2. CASE Fail(r)
      BY <1>1, <1>3, <2>1, <2>2, FailMoves, MadeGood DEF At
    <2>3. CASE At(r, "apple", "create") /\ Created(r, OwnName(r))
      <3>1. /\ Moves(r) /\ run'[r].pc = "start"
            /\ run'[r].name = OwnName(r) /\ run'[r].container = run[r].container
            /\ run'[r].used = run[r].used /\ run'[r].probe = run[r].probe
            /\ run'[r].notes = run[r].notes /\ run'[r].tree = run[r].tree
            /\ run'[r].tar = run[r].tar /\ run'[r].result = run[r].result
        BY <2>3, KindOfRun, CreatedMoves
      <3>2. QED BY <1>1, <1>3, <2>1, <2>3, <3>1, MadeGood DEF At
    <2>4. CASE At(r, "machine", "createMachine") /\ Goto(r, "confirmMachine")
      BY <1>1, <1>3, <2>1, <2>4, GotoMoves, MadeGood DEF At, Stages
    <2>5. QED BY <1>3, <2>2, <2>3, <2>4
  <1>4. QED BY <1>2, <1>3 DEF CreateContainer, CreateMachine

\* The container of the workspace is used again.
LEMMA ReusedIsQuiet ==
  ASSUME Inv, NEW r \in Runs, config[r].kind = "devcontainer", UNCHANGED <<config, made>>,
         NEW b \in Named(OwnName(r)),
         boxes' = Unnamed(OwnName(r)) \cup {[b EXCEPT !.state = "running"]}
  PROVE /\ Quiet(r)
        /\ \A d \in boxes' : \E a \in boxes : Same(d, a)
        /\ \A a \in boxes : \E d \in boxes' : Same(d, a)
  <1> DEFINE c == [b EXCEPT !.state = "running"]
  <1>1. b \in boxes /\ b \in Box /\ b.name = OwnName(r)
    BY DEF Named, Inv, TypeInv
  <1>2. c \in Box /\ Alike(c, b) /\ Same(c, b)
    BY <1>1 DEF Box, Alike, Same
  <1>3. Unnamed(OwnName(r)) = boxes \ {b}
    BY <1>1 DEF Unnamed, Named, Inv, BoxInv
  <1>4. boxes' = (boxes \ {b}) \cup {c}
    BY <1>3
  <1> HIDE DEF c
  <1>5. Quiet(r)
    BY <1>1, <1>2, <1>4, ChangeIsQuiet
  <1>6. QED BY <1>1, <1>2, <1>4, <1>5 DEF Same

\* What up tells of the container it leaves.
LEMMA UppedMoves ==
  ASSUME Inv, NEW r \in Runs, NEW id \in Nat,
         run' = [run EXCEPT ![r].container = id, ![r].pc = "userCommands"]
  PROVE /\ Moves(r) /\ run'[r].pc = "userCommands" /\ run'[r].container = id
        /\ run'[r].name = run[r].name /\ run'[r].used = run[r].used
        /\ run'[r].probe = run[r].probe /\ run'[r].notes = run[r].notes
        /\ run'[r].result = run[r].result
  <1>1. run \in [Runs -> Run] /\ run[r] \in Run
    BY DEF Inv, TypeInv
  <1>2. run'[r] \in Run
    BY <1>1 DEF Run, Stages
  <1>3. QED
    BY <1>1, <1>2 DEF Moves, Run

\* devcontainer up makes a container, uses one again, or fails in between.
LEMMA UpGood ==
  ASSUME Inv, NEW r \in Runs, Up(r)
  PROVE Good(r)
  <1>1. /\ config[r].kind = "devcontainer" /\ run[r].pc = "up" /\ config' = config
        /\ run[r].pc \in Creating
    BY DEF Up, At, Creating
  <1>2. \A b \in Unnamed(OwnName(r)) : b \in boxes
    BY DEF Unnamed
  <1>3. ASSUME boxes' \in {boxes, Unnamed(OwnName(r)) \cup Reused(r)}, Fail(r), UNCHANGED made
        PROVE Good(r)
    <2>1. boxes' \subseteq boxes
      BY <1>2, <1>3 DEF Reused, Named
    <2>2. \A b \in boxes : b.name[1] = "apple" => b \in boxes'
      BY <1>1, <1>3, KindOfRun DEF Unnamed, Named
    <2>3. Quiet(r)
      BY <1>1, <1>3, <2>1, <2>2, FewerIsQuiet
    <2>4. QED BY <1>1, <1>3, <2>3, FailIsGood
  <1>4. ASSUME Reused(r) = {}, boxes' = Unnamed(OwnName(r)) \cup {Upped(r)}, made' = made + 1,
               \/ Fail(r)
               \/ \E id \in {0, Upped(r).id} :
                    run' = [run EXCEPT ![r].container = id, ![r].pc = "userCommands"]
        PROVE Good(r)
    <2>1. Upped(r) = NextBox(r, "running") /\ Upped(r).id = made + 1
      BY <1>4 DEF Upped, NextBox, NewBox
    <2>2. CASE Fail(r)
      BY <1>1, <1>4, <2>1, <2>2, FailMoves, MadeGood
    <2>3. ASSUME NEW id \in {0, made + 1},
                 run' = [run EXCEPT ![r].container = id, ![r].pc = "userCommands"]
          PROVE Good(r)
      <3>1. id \in Nat
        BY DEF Inv, TypeInv
      <3>2. /\ Moves(r) /\ run'[r].pc = "userCommands" /\ run'[r].container = id
            /\ run'[r].name = run[r].name /\ run'[r].used = run[r].used
            /\ run'[r].probe = run[r].probe /\ run'[r].notes = run[r].notes
            /\ run'[r].result = run[r].result
        BY <2>3, <3>1, UppedMoves
      <3>3. QED
        BY <1>1, <1>4, <2>1, <3>2, MadeGood
    <2>4. QED BY <1>4, <2>1, <2>2, <2>3
  <1>5. ASSUME Reused(r) # {}, boxes' = Unnamed(OwnName(r)) \cup {Upped(r)}, made' = made,
               \/ Fail(r)
               \/ \E id \in {0, Upped(r).id} :
                    run' = [run EXCEPT ![r].container = id, ![r].pc = "userCommands"]
        PROVE Good(r)
    <2>1. PICK b \in Named(OwnName(r)) : Upped(r) = [b EXCEPT !.state = "running"]
      BY <1>5 DEF Upped, Reused
    <2>2. b \in boxes /\ b \in Box /\ Upped(r).id = b.id /\ b.name = OwnName(r)
      BY <2>1 DEF Named, Inv, TypeInv, Box
    <2>3. /\ Quiet(r)
          /\ \A d \in boxes' : \E a \in boxes : Same(d, a)
          /\ \A a \in boxes : \E d \in boxes' : Same(d, a)
      BY <1>1, <1>5, <2>1, ReusedIsQuiet
    <2>4. CASE Fail(r)
      BY <1>1, <2>3, <2>4, FailIsGood
    <2>5. ASSUME NEW id \in {0, b.id},
                 run' = [run EXCEPT ![r].container = id, ![r].pc = "userCommands"]
          PROVE Good(r)
      <3>1. id \in Nat /\ id \in 0 .. made
        BY <2>2 DEF Inv, TypeInv, BoxInv, Box
      <3>2. /\ Moves(r) /\ run'[r].pc = "userCommands" /\ run'[r].container = id
            /\ run'[r].name = run[r].name /\ run'[r].used = run[r].used
            /\ run'[r].probe = run[r].probe /\ run'[r].notes = run[r].notes
            /\ run'[r].result = run[r].result
        BY <2>5, <3>1, UppedMoves
      <3>3. StageInv(r)' /\ ContainerInv(r)' /\ FetchInv(r)' /\ UsedInv(r)' /\ AppleInv(r)'
        BY <1>1, <1>5, <3>1, <3>2 DEF Inv, RunInv, StageInv, ContainerInv, FetchInv, UsedInv,
           AppleInv, KindOfStage, Probing, Creating, Starting, Collecting
      <3>4. ProbeInv(r)' /\ LeftInv(r)'
        BY <1>1, <1>5, <2>3, <3>2 DEF Inv, RunInv, ProbeInv, LeftInv, Same, Probing
      <3>5. OwnInv(r)'
        <4>1. \A a \in boxes : ~(a.maker = r /\ a.use = "run")
          BY <1>1 DEF Inv, RunInv, OwnInv
        <4>2. \A a \in boxes : a.id = id => a.name = OwnName(r)
          BY <2>2 DEF Inv, BoxInv
        <4>3. QED
          BY <1>1, <2>3, <3>2, <4>1, <4>2 DEF OwnInv, Same, OwnName
      <3>6. QED
        BY <2>3, <3>2, <3>3, <3>4, <3>5, QuietIsGood DEF RunInv
    <2>6. QED BY <1>5, <2>2, <2>4, <2>5
  <1>6. QED
    BY <1>3, <1>4, <1>5 DEF Up

\* The create request of the probe, answered or not.
LEMMA ProbeCreateGood ==
  ASSUME Inv, NEW r \in Runs, ProbeCreate(r)
  PROVE Good(r)
  <1>1. config[r].kind = "opensandbox" /\ run[r].pc = "probe"
    BY DEF ProbeCreate, At
  <1>2. PICK reply \in Replies(1) :
          /\ PostSandbox(r, "probe", reply)
          /\ IF reply.ok
               THEN run' = [run EXCEPT ![r].probe = made + reply.made, ![r].pc = "probeWait"]
               ELSE Refuse(r)
    BY DEF ProbeCreate
  <1>3. reply.made \in {0, 1} /\ (reply.ok => reply.made = 1)
    BY CarriedOutOnce
  <1>4. /\ BoxInv' /\ Evolves(r) /\ made' = made + reply.made /\ made' \in Nat
        /\ \A c \in boxes' : c \in boxes \/
             (/\ reply.made = 1 /\ c.id = made + 1 /\ c.name = <<"opensandbox", made + 1>>
              /\ c.maker = r /\ c.use = "probe")
    BY <1>1, <1>2, <1>3, Posted
  <1>5. run \in [Runs -> Run] /\ run[r] \in Run /\ config' = config /\ made \in Nat
    BY <1>4 DEF Inv, TypeInv, Evolves
  <1>6. run[r].name = NoName /\ run[r].probe = 0 /\ run[r].container = 0 /\ run[r].used = {}
        /\ run[r].result = "none"
    BY <1>1 DEF Inv, RunInv, StageInv, ProbeInv, ContainerInv, UsedInv, Probing
  <1>7. /\ \A b \in boxes : b.maker # r
        /\ \A b \in boxes : b.id \in 1 .. made /\ b.name # NoName
    BY <1>1, <1>6 DEF Inv, TypeInv, RunInv, OwnInv, ProbeInv, Probing, BoxInv, Box, NoName,
           Kinds
  <1>8. \A c \in boxes' : c.name # NoName
    BY <1>4, <1>7 DEF NoName
  <1>9. CASE reply.ok
    <2>1. run' = [run EXCEPT ![r].probe = made + 1, ![r].pc = "probeWait"]
      BY <1>2, <1>3, <1>9
    <2>2. run'[r] \in Run
      <3>1. PICK id \in Nat : id = made + 1
        BY <1>5
      <3>2. run' = [run EXCEPT ![r].probe = id, ![r].pc = "probeWait"]
        BY <2>1, <3>1
      <3>3. QED BY <1>5, <3>2 DEF Run, Stages
    <2>3. Moves(r)
      BY <1>5, <2>1, <2>2 DEF Moves
    <2>4. /\ run'[r].pc = "probeWait" /\ run'[r].probe = made + 1
          /\ run'[r].name = run[r].name /\ run'[r].container = run[r].container
          /\ run'[r].used = run[r].used /\ run'[r].notes = run[r].notes
          /\ run'[r].result = run[r].result
      BY <1>5, <2>1 DEF Run
    <2>5. StageInv(r)' /\ ContainerInv(r)' /\ FetchInv(r)' /\ UsedInv(r)' /\ AppleInv(r)' /\ LeftInv(r)'
      BY <1>1, <1>4, <1>5, <1>6, <2>4
         DEF StageInv, ContainerInv, FetchInv, UsedInv, AppleInv, LeftInv,
         KindOfStage, Probing, Creating, Starting, Collecting
    <2>6. OwnInv(r)'
      BY <1>4, <1>5, <1>6, <1>7, <1>8, <2>4 DEF OwnInv
    <2>7. ProbeInv(r)'
      BY <1>3, <1>4, <1>5, <1>7, <1>9, <2>4 DEF ProbeInv, Probing
    <2>8. QED BY <1>4, <2>3, <2>5, <2>6, <2>7 DEF Good, Moves, RunInv
  <1>10. CASE ~reply.ok
    <2>1. run' = [run EXCEPT ![r].result = "FAILED", ![r].pc = "done"]
      BY <1>2, <1>10 DEF Refuse
    <2>2. run'[r] \in Run
      BY <1>5, <2>1 DEF Run, Stages
    <2>3. Moves(r)
      BY <1>5, <2>1, <2>2 DEF Moves
    <2>4. /\ run'[r].pc = "done" /\ run'[r].result = "FAILED" /\ run'[r].probe = run[r].probe
          /\ run'[r].name = run[r].name /\ run'[r].container = run[r].container
          /\ run'[r].used = run[r].used /\ run'[r].notes = run[r].notes
      BY <1>5, <2>1 DEF Run
    <2>5. StageInv(r)' /\ ContainerInv(r)' /\ FetchInv(r)' /\ UsedInv(r)' /\ AppleInv(r)'
      BY <1>1, <1>4, <1>5, <1>6, <2>4 DEF StageInv, ContainerInv, FetchInv, UsedInv, AppleInv,
         KindOfStage, Kinds, Probing, Creating, Starting, Collecting
    <2>6. OwnInv(r)' /\ LeftInv(r)'
      BY <1>4, <1>5, <1>6, <1>7, <1>8, <2>4 DEF OwnInv, LeftInv
    <2>7. ProbeInv(r)'
      BY <1>4, <1>5, <1>6, <1>7, <2>4 DEF ProbeInv, Probing
    <2>8. QED BY <1>4, <2>3, <2>5, <2>6, <2>7 DEF Good, Moves, RunInv
  <1>11. QED BY <1>9, <1>10

\* The create request of Create, answered or not.
LEMMA CreateSandboxGood ==
  ASSUME Inv, NEW r \in Runs, CreateSandbox(r)
  PROVE Good(r)
  <1>1. config[r].kind = "opensandbox" /\ run[r].pc = "create"
    BY DEF CreateSandbox, At
  <1>2. PICK reply \in Replies(0) :
          /\ PostSandbox(r, "run", reply)
          /\ IF reply.ok THEN Created(r, <<"opensandbox", made + reply.made>>) ELSE Fail(r)
    BY DEF CreateSandbox
  <1>3. reply.made \in {0, 1} /\ (reply.ok => reply.made = 1)
    BY CarriedOutOnce
  <1>4. /\ BoxInv' /\ Evolves(r) /\ made' = made + reply.made /\ made' \in Nat
        /\ \A c \in boxes' : c \in boxes \/
             (/\ reply.made = 1 /\ c.id = made + 1 /\ c.name = <<"opensandbox", made + 1>>
              /\ c.maker = r /\ c.use = "run")
    BY <1>1, <1>2, <1>3, Posted
  <1>5. config' = config /\ made \in Nat
    BY <1>4 DEF Inv, TypeInv, Evolves
  <1>6. run[r].name = NoName /\ run[r].container = 0 /\ run[r].used = {} /\ run[r].result = "none"
    BY <1>1 DEF Inv, RunInv, StageInv, ContainerInv, UsedInv, Creating
  <1>7. /\ \A b \in boxes : b.maker = r => b.use # "run"
        /\ \A b \in boxes : b.id \in 1 .. made /\ b.name # NoName /\ b.name # <<"opensandbox", made + 1>>
    BY <1>1, <1>5 DEF Inv, TypeInv, RunInv, OwnInv, BoxInv, Box, NoName, Kinds
  <1>8. \A c \in boxes' : c.name # NoName
    BY <1>4, <1>7 DEF NoName
  <1>9. \A c \in boxes' : c.use = "probe" \/ c.maker # r => c \in boxes
    BY <1>4
  <1>10. ASSUME Moves(r), run'[r].pc \in {"start", "collect"}, run'[r].probe = run[r].probe,
                run'[r].container = run[r].container, run'[r].used = run[r].used,
                run'[r].notes = run[r].notes
         PROVE /\ ContainerInv(r)' /\ FetchInv(r)' /\ UsedInv(r)' /\ AppleInv(r)' /\ LeftInv(r)'
               /\ ProbeInv(r)'
    <2>1. ContainerInv(r)' /\ FetchInv(r)' /\ UsedInv(r)' /\ AppleInv(r)' /\ LeftInv(r)'
      BY <1>1, <1>4, <1>5, <1>6, <1>10 DEF ContainerInv, FetchInv, UsedInv, AppleInv, LeftInv
    <2>2. run[r].probe \in 0 .. made
      BY DEF Inv, RunInv, ProbeInv
    <2>3. ProbeInv(r)'
      BY <1>1, <1>3, <1>4, <1>5, <1>10, <2>2 DEF Inv, RunInv, ProbeInv, Probing
    <2>4. QED BY <2>1, <2>3
  <1>11. CASE reply.ok
    <2>1. Created(r, <<"opensandbox", made + 1>>) /\ <<"opensandbox", made + 1>> \in Kinds \X Nat
      BY <1>2, <1>3, <1>5, <1>11 DEF Kinds
    <2>2. /\ Moves(r) /\ run'[r].pc = "start"
          /\ run'[r].name = <<"opensandbox", made + 1>> /\ run'[r].container = run[r].container
          /\ run'[r].used = run[r].used /\ run'[r].probe = run[r].probe
          /\ run'[r].notes = run[r].notes /\ run'[r].tree = run[r].tree
          /\ run'[r].tar = run[r].tar /\ run'[r].result = run[r].result
      BY <2>1, CreatedMoves
    <2>3. StageInv(r)'
      BY <1>1, <1>3, <1>4, <1>5, <1>6, <1>11, <2>2
         DEF StageInv, NoName, Kinds, KindOfStage, Probing, Creating,
         Starting, Collecting
    <2>4. OwnInv(r)'
      BY <1>4, <1>5, <1>6, <1>7, <2>2 DEF OwnInv, Probing
    <2>5. QED BY <1>4, <1>10, <2>2, <2>3, <2>4 DEF Good, Moves, RunInv
  <1>12. CASE Fail(r)
    <2>1. /\ Moves(r) /\ run'[r].pc = "collect" /\ run'[r].result = "FAILED"
          /\ run'[r].name = run[r].name /\ run'[r].container = run[r].container
          /\ run'[r].used = run[r].used /\ run'[r].probe = run[r].probe
          /\ run'[r].notes = run[r].notes
      BY <1>12, FailMoves
    <2>2. StageInv(r)'
      BY <1>1, <1>5, <1>6, <2>1 DEF StageInv, Kinds, KindOfStage, Probing, Creating,
         Starting, Collecting
    <2>3. OwnInv(r)'
      BY <1>4, <1>5, <1>6, <1>7, <1>8, <2>1 DEF OwnInv, Probing
    <2>4. QED BY <1>4, <1>10, <2>1, <2>2, <2>3 DEF Good, Moves, RunInv
  <1>13. QED BY <1>2, <1>11, <1>12

\* deleteOpenSandboxProbeSandbox: a run that goes on has noted a sandbox that may be left.
LEMMA ProbeDeleteGood ==
  ASSUME Inv, NEW r \in Runs, ProbeDelete(r)
  PROVE Good(r)
  <1>1. /\ config[r].kind = "opensandbox" /\ run[r].pc \in {"probeGood", "probeBad"}
        /\ UNCHANGED <<config, made>>
    BY DEF ProbeDelete
  <1>2. PICK clean \in BOOLEAN :
          /\ ProbeEnds(r, clean) /\ boxes' \in {boxes, boxes \ Probed(r)}
          /\ clean => boxes' = boxes \ Probed(r)
    BY DEF ProbeDelete
  <1>3. boxes' \subseteq boxes /\ (clean => \A b \in boxes' : b.id # run[r].probe)
    BY <1>2 DEF Probed
  <1>4. \A b \in boxes : b.id = run[r].probe => b.maker = r
    BY DEF Inv, RunInv, ProbeInv
  <1>5. Quiet(r)
    BY <1>1, <1>2, <1>4, FewerIsQuiet DEF Probed
  <1>6. run \in [Runs -> Run] /\ run[r] \in Run
    BY DEF Inv, TypeInv
  <1> DEFINE notes == IF clean \/ run[r].pc = "probeBad" THEN run[r].notes
                      ELSE run[r].notes \cup {"probe"}
             result == IF run[r].pc = "probeGood" THEN run[r].result ELSE "FAILED"
             pc == IF run[r].pc = "probeGood" THEN "create" ELSE "done"
  <1>7. run' = [run EXCEPT ![r].notes = notes, ![r].result = result, ![r].pc = pc]
    BY <1>2, <1>6 DEF ProbeEnds, Run
  <1>8. /\ notes \subseteq {"probe", "syncOut", "nothing", "cleanup"}
        /\ result \in {"none", "SUCCEEDED", "PARTIAL", "FAILED"} /\ pc \in {"create", "done"}
        /\ pc = "done" => result = "FAILED"
        /\ pc = "create" => result = run[r].result
        /\ ~clean /\ pc = "create" => "probe" \in notes
    BY <1>6 DEF Run
  <1> HIDE DEF notes, result, pc
  <1>9. run'[r] \in Run
    BY <1>6, <1>7, <1>8 DEF Run, Stages
  <1>10. Moves(r)
    BY <1>6, <1>7, <1>9 DEF Moves
  <1>11. /\ run'[r].pc = pc /\ run'[r].result = result /\ run'[r].notes = notes
         /\ run'[r].name = run[r].name /\ run'[r].container = run[r].container
         /\ run'[r].used = run[r].used /\ run'[r].probe = run[r].probe
    BY <1>6, <1>7 DEF Run
  <1>12. run[r].name = NoName /\ run[r].container = 0 /\ run[r].used = {} /\ run[r].result = "none"
    BY <1>1 DEF Inv, RunInv, StageInv, ContainerInv, UsedInv, Probing
  <1>13. \A b \in boxes : b.maker = r =>
           b.use # "run" /\ (b.use = "probe" => b.id = run[r].probe)
    BY <1>1 DEF Inv, RunInv, OwnInv, ProbeInv, Probing
  <1>14. StageInv(r)'
    BY <1>1, <1>8, <1>11, <1>12 DEF StageInv, Kinds, KindOfStage, Probing, Creating,
       Starting, Collecting
  <1>15. ContainerInv(r)' /\ FetchInv(r)' /\ UsedInv(r)' /\ AppleInv(r)' /\ LeftInv(r)'
    BY <1>1, <1>3, <1>8, <1>11, <1>12, <1>13
       DEF Inv, RunInv, ContainerInv, FetchInv, UsedInv, AppleInv,
       LeftInv
  <1>16. OwnInv(r)'
    BY <1>1, <1>3, <1>11, <1>12, <1>13 DEF Inv, RunInv, OwnInv, OwnName
  <1>17. ProbeInv(r)'
    BY <1>1, <1>3, <1>8, <1>11, <1>13 DEF Inv, RunInv, ProbeInv, Probing
  <1>18. QED
    BY <1>5, <1>10, <1>14, <1>15, <1>16, <1>17, QuietIsGood DEF RunInv

-----------------------------------------------------------------------------
(* The theorems *)

\* Every step of a run keeps the invariant.
LEMMA RunStepGood ==
  ASSUME Inv, NEW r \in Runs, RunStep(r) \/ ProbeWaitFails(r) \/ StartFails(r)
  PROVE Good(r)
  <1>1. CASE ProbeStep(r) \/ ProbeWaitFails(r)
    BY <1>1, ProbeCreateGood, ProbeWaitGood, ProbeDeleteGood DEF ProbeStep
  <1>2. CASE CreateStep(r)
    BY <1>2, ReadConfigurationGood, UpGood, RunUserCommandsGood, CreateContainerGood,
       FindMachineGood, StartFoundMachineGood, CreateSandboxGood DEF CreateStep
  <1>3. CASE UseStep(r) \/ StartFails(r)
    BY <1>3, StartSandboxGood, StartDevContainerGood, StartGood, ArchiveWorkspaceGood,
       UploadArchiveGood, SyncInGood, RunCommandGood DEF UseStep
  <1>4. CASE FetchStep(r)
    BY <1>4, SkipSyncOutGood, CheckRemoteDirGood, ArchiveRemoteDirGood, DownloadArchiveGood,
       ExtractTarGood DEF FetchStep
  <1>5. CASE CleanupStep(r)
    BY <1>5, CleanupGood
  <1>6. QED BY <1>1, <1>2, <1>3, <1>4, <1>5 DEF RunStep

\* So does the server, which starts and removes sandboxes.
LEMMA ServerKeeps ==
  ASSUME Inv, Boot \/ Expire
  PROVE Inv'
  <1>1. /\ UNCHANGED <<config, made, run>>
        /\ \/ \E b \in boxes, state \in {"running", "failed"} :
                b.state = "pending" /\ boxes' = Change(b, "state", state)
           \/ \E b \in boxes : b.name[1] = "opensandbox" /\ boxes' = boxes \ {b}
    BY DEF Boot, Expire
  <1>2. Quiet("user")
    <2>1. ASSUME NEW b \in boxes, NEW state \in {"running", "failed"},
                 boxes' = Change(b, "state", state)
          PROVE Quiet("user")
      <3> DEFINE c == [b EXCEPT !["state"] = state]
      <3>1. c \in Box /\ Same(c, b) /\ Alike(c, b)
        BY DEF Inv, TypeInv, Box, Same, Alike
      <3>2. boxes' = (boxes \ {b}) \cup {c}
        BY <2>1 DEF Change
      <3> HIDE DEF c
      <3>3. QED BY <1>1, <3>1, <3>2, ChangeIsQuiet
    <2>2. ASSUME NEW b \in boxes, b.name[1] = "opensandbox", boxes' = boxes \ {b}
          PROVE Quiet("user")
      BY <1>1, <2>2, FewerIsQuiet
    <2>3. QED BY <1>1, <2>1, <2>2
  <1>3. BoxInv' /\ Evolves("user") /\ made' \in Nat
    BY <1>2, QuietKeeps
  <1>4. TypeInv'
    BY <1>1, <1>3 DEF Inv, TypeInv, Evolves
  <1>5. ASSUME NEW r \in Runs PROVE RunInv(r)'
    BY <1>1, <1>3, OthersKeep, ProviderAssumption
  <1>6. QED
    BY <1>3, <1>4, <1>5 DEF Inv

\* The invariant is inductive.
LEMMA NextInv ==
  ASSUME Inv, [Next]_vars
  PROVE Inv'
  <1>1. ASSUME NEW r \in Runs, RunStep(r) \/ ProbeWaitFails(r) \/ StartFails(r) PROVE Inv'
    BY <1>1, RunStepGood, GoodKeeps
  <1>2. CASE Boot \/ Expire
    BY <1>2, ServerKeeps
  <1>3. CASE UNCHANGED vars
    BY <1>3 DEF vars, Inv, TypeInv, BoxInv, RunInv, StageInv, OwnInv, ContainerInv, AppleInv,
           UsedInv, OwnName,
       ProbeInv, FetchInv, LeftInv
  <1>4. QED BY <1>1, <1>2, <1>3 DEF Next, Over

\* The invariant holds in every state that can be reached.
THEOREM Invariance == Spec => []Inv
  BY InitInv, NextInv, PTL DEF Spec

\* Every variable has its type.
THEOREM TypeCorrect == Spec => []TypeOK
  <1>1. Inv => TypeOK
    BY DEF Inv, TypeInv, TypeOK, Run
  <1>2. QED BY <1>1, Invariance, PTL

\* With Apple containers and OpenSandbox no command of a run (executePhase) runs in the
\* sandbox of another run, in two sandboxes or without the whole workspace: for any number
\* of runs, whatever they are configured to, and whatever calls fail.
THEOREM CommandsRunInOwnSandbox == Spec => []OwnSandbox
  <1>1. Inv => OwnSandbox
    BY DEF Inv, RunInv, UsedInv, OwnSandbox
  <1>2. QED BY <1>1, Invariance, PTL

\* A sandbox that cleanupBackend was to delete is left only by a run that does not claim
\* success, and that has noted it or never knew of a sandbox.
THEOREM NoLeftoverUnnoticed == Spec => []LeftoversAccounted
  <1>1. Inv => LeftoversAccounted
    BY DEF Inv, RunInv, LeftInv, LeftoversAccounted
  <1>2. QED BY <1>1, Invariance, PTL

\* The capability probe leaves at most one sandbox of a run, and a run that goes on past it
\* has warned of that.
THEOREM PassedProbesWarn == Spec => []ProbeLeftoverNoted
  <1>1. Inv => ProbeLeftoverNoted
    BY DEF Inv, RunInv, BoxInv, ProbeInv, Probing, ProbeLeftoverNoted
  <1>2. QED BY <1>1, Invariance, PTL

\* A run whose workspace was not fetched whole (SyncWorkspaceOut) says so.
THEOREM NoPartialFetchUnnoticed == Spec => []FetchNoted
  <1>1. Inv => FetchNoted
    BY DEF Inv, RunInv, FetchInv, FetchNoted, At
  <1>2. QED BY <1>1, Invariance, PTL

-----------------------------------------------------------------------------
(* What is removed *)

\* Every sandbox is still there.
Spared == \A b \in boxes : \E c \in boxes' : c.id = b.id

\* Run r takes a step, and may have the sandboxes removed that go.
Asked(r) ==
  /\ run'[r] # run[r]
  /\ \A b \in boxes : (\A c \in boxes' : c.id # b.id) =>
       \/ b.maker = r
       \/ b.name = OwnName(r) /\ config[r].kind = "machine" /\ config[r].mode = "delete"
       \/ /\ b.name = OwnName(r) /\ config[r].kind = "devcontainer"
          /\ config[r].mode # "keep" \/ "replace" \in config[r].options

\* Most calls remove nothing, also when they fail halfway.
LEMMA CallsSpare ==
  ASSUME Inv, NEW r \in Runs,
         \/ ProbeCreate(r) \/ ProbeWait(r) \/ ProbeWaitFails(r)
         \/ ReadConfiguration(r) \/ RunUserCommands(r) \/ CreateContainer(r)
         \/ FindMachine(r) \/ CreateMachine(r) \/ ConfirmMachine(r) \/ StartFoundMachine(r)
         \/ CreateSandbox(r)
         \/ UseStep(r) \/ StartFails(r) \/ FetchStep(r) \/ Keep(r) \/ PauseSandbox(r)
  PROVE Spared
  <1>1. ASSUME boxes \subseteq boxes' PROVE Spared
    BY <1>1 DEF Spared
  <1>2. ASSUME NEW name, NEW state \in {"running", "stopped", "paused"},
               boxes' \in {boxes, Set(name, state)}, UNCHANGED <<config, made>>
        PROVE Spared
    BY <1>2, SetKeeps DEF Spared, Same
  <1>3. ASSUME NEW b \in boxes, NEW c, c.id = b.id, boxes' = (boxes \ {b}) \cup {c}
        PROVE Spared
    BY <1>3 DEF Spared
  <1>4. ASSUME NEW b \in Working(r), NEW field \in {"tree", "archive"}, NEW amount,
               boxes' = Change(b, field, amount)
        PROVE Spared
    <2>1. b \in boxes /\ b \in Box
      BY DEF Working, Named, Inv, TypeInv
    <2>2. [b EXCEPT ![field] = amount].id = b.id
      BY <2>1 DEF Box
    <2>3. QED BY <1>3, <1>4, <2>1, <2>2 DEF Change
  <1>5. CASE Unmade
    BY <1>1, <1>5 DEF Unmade
  <1>6. CASE ProbeCreate(r) \/ CreateSandbox(r)
    BY <1>1, <1>6 DEF ProbeCreate, CreateSandbox, PostSandbox
  <1>7. CASE CreateContainer(r) \/ CreateMachine(r)
    BY <1>1, <1>7 DEF CreateContainer, CreateMachine
  <1>8. CASE StartFoundMachine(r) \/ StartMachine(r) \/ StartContainer(r)
    BY <1>2, <1>8 DEF StartFoundMachine, StartMachine, StartContainer
  <1>9. CASE PauseSandbox(r)
    BY <1>1, <1>2, <1>9 DEF PauseSandbox, Ask, Dispose
  <1>10. CASE UploadArchive(r)
    BY <1>1, <1>4, <1>10 DEF UploadArchive
  <1>11. CASE SyncIn(r)
    <2>1. ASSUME NEW b \in Working(r), NEW exit \in {0, 1},
                 boxes' = (boxes \ {b}) \cup
                   {[b EXCEPT !.tree = Amount(exit), !.archive = IF exit = 0 THEN "none" ELSE @]}
          PROVE Spared
      <3>1. b \in boxes /\ b \in Box
        BY DEF Working, Named, Inv, TypeInv
      <3>2. [b EXCEPT !.tree = Amount(exit), !.archive = IF exit = 0 THEN "none" ELSE @].id = b.id
        BY <3>1 DEF Box
      <3>3. QED BY <1>3, <2>1, <3>1, <3>2
    <2>2. QED BY <1>1, <1>11, <2>1 DEF SyncIn
  <1>12. CASE ArchiveRemoteDir(r)
    BY <1>1, <1>4, <1>12 DEF ArchiveRemoteDir
  <1>13. CASE ExtractTar(r)
    BY <1>1, <1>4, <1>13 DEF ExtractTar
  <1>14. QED
    BY <1>5, <1>6, <1>7, <1>8, <1>9, <1>10, <1>11, <1>12, <1>13
       DEF ProbeWait, ProbeWaitFails, ProbeVerdict, ReadConfiguration, RunUserCommands,
           FindMachine, ConfirmMachine, UseStep, StartSandbox, StartFails, StartDevContainer,
           ArchiveWorkspace, RunCommand, FetchStep, SkipSyncOut, CheckRemoteDir, DownloadArchive, Keep

\* The end of the cleanup is a step of the run.
LEMMA FinishIsStep ==
  ASSUME Inv, NEW r \in Runs, run[r].pc # "done", NEW clean \in BOOLEAN, Finish(r, clean)
  PROVE run'[r] # run[r]
  BY FinishMoves

\* The others remove only what the run has made or is configured to remove.
LEMMA RemovalsAsked ==
  ASSUME Inv, NEW r \in Runs,
         \/ ProbeDelete(r) \/ Up(r) \/ DeleteContainer(r) \/ DeleteMachine(r)
         \/ DeleteSandbox(r) \/ Down(r) \/ RemoveContainer(r)
  PROVE Spared \/ Asked(r)
  <1>1. CASE boxes \subseteq boxes'
    BY <1>1 DEF Spared
  <1>2. CASE ProbeDelete(r) /\ boxes' = boxes \ Probed(r)
    <2>1. run[r].pc \in {"probeGood", "probeBad"} /\ \E clean \in BOOLEAN : ProbeEnds(r, clean)
      BY <1>2 DEF ProbeDelete
    <2>2. run'[r].pc \in {"create", "done"}
      BY <2>1 DEF ProbeEnds, Inv, TypeInv, Run
    <2>3. \A b \in boxes : b \notin boxes' => b.maker = r
      BY <1>2 DEF Probed, Inv, RunInv, ProbeInv
    <2>4. QED BY <2>1, <2>2, <2>3 DEF Asked
  <1>3. CASE Up(r)
    <2>1. config[r].kind = "devcontainer" /\ run[r].pc = "up"
      BY <1>3 DEF Up, At
    <2>2. run'[r].pc \in {"collect", "userCommands"}
      BY <1>3 DEF Up, Fail, Inv, TypeInv, Run
    <2>3. CASE "replace" \in config[r].options
      <3>1. \A b \in boxes : b \notin boxes' => b.name = OwnName(r)
        BY <1>3 DEF Up, Unnamed, Named
      <3>2. QED BY <2>1, <2>2, <2>3, <3>1 DEF Asked
    <2>4. CASE "replace" \notin config[r].options
      <3>1. CASE Named(OwnName(r)) = {}
        BY <1>1, <1>3, <2>4, <3>1 DEF Up, Reused, Unnamed
      <3>2. CASE Named(OwnName(r)) # {}
        <4>1. Reused(r) = Named(OwnName(r))
          BY <2>4 DEF Reused
        <4>2. CASE boxes' = Unnamed(OwnName(r)) \cup {Upped(r)}
          <5>1. PICK a \in Named(OwnName(r)) : Upped(r) = [a EXCEPT !.state = "running"]
            BY <3>2, <4>1 DEF Upped
          <5>2. a \in boxes /\ a.name = OwnName(r) /\ Upped(r).id = a.id
            BY <5>1 DEF Named, Inv, TypeInv, Box
          <5>3. \A b \in Named(OwnName(r)) : b = a
            BY <5>2 DEF Named, Inv, BoxInv
          <5>4. QED BY <4>2, <5>2, <5>3 DEF Spared, Unnamed
        <4>3. CASE boxes' \in {boxes, Unnamed(OwnName(r)) \cup Reused(r)}
          BY <1>1, <4>1, <4>3 DEF Unnamed
        <4>4. QED BY <1>3, <4>2, <4>3 DEF Up
      <3>3. QED BY <3>1, <3>2
    <2>5. QED BY <2>3, <2>4
  <1>4. ASSUME run[r].pc = "cleanup", Disposal(r) = "delete", boxes' = Unnamed(run[r].name),
               NEW clean \in BOOLEAN, Finish(r, clean)
        PROVE Asked(r)
    <2>1. run'[r] # run[r] /\ run[r].name # NoName
      BY <1>4, FinishIsStep DEF Disposal
    <2>2. ASSUME NEW b \in boxes, b.name = run[r].name
          PROVE \/ b.maker = r
                \/ b.name = OwnName(r) /\ config[r].kind = "machine" /\ config[r].mode = "delete"
                \/ /\ b.name = OwnName(r) /\ config[r].kind = "devcontainer"
                   /\ config[r].mode # "keep"
      <3>1. CASE config[r].kind = "opensandbox"
        BY <2>2, <3>1 DEF Inv, RunInv, OwnInv
      <3>2. config[r].kind # "opensandbox" => run[r].name = OwnName(r)
        BY <2>1 DEF Inv, RunInv, StageInv
      <3>3. CASE config[r].kind = "apple"
        BY <1>4, <2>1, <2>2, <3>2, <3>3, KindOfRun, UnnamedIsOwn DEF Unnamed, Named
      <3>4. CASE config[r].kind = "machine"
        BY <1>4, <2>2, <3>2, <3>4 DEF Disposal
      <3>5. CASE config[r].kind = "devcontainer"
        BY <1>4, <2>2, <3>2, <3>5 DEF Disposal
      <3>6. QED BY <3>1, <3>3, <3>4, <3>5, KindOfRun DEF Kinds
    <2>3. QED BY <1>4, <2>1, <2>2 DEF Asked, Unnamed, Named
  <1>5. CASE \E clean \in BOOLEAN :
               /\ run[r].pc = "cleanup" /\ Disposal(r) = "delete"
               /\ boxes' = Unnamed(run[r].name) /\ Finish(r, clean)
    BY <1>4, <1>5
  <1>6. CASE DeleteMachine(r) /\ Disposal(r) = "stop" /\ boxes' = Set(run[r].name, "stopped")
    BY <1>6, SetKeeps DEF Spared, Same, DeleteMachine
  <1>7. CASE RemoveContainer(r) /\ boxes' = {b \in boxes : b.id # run[r].container}
    <2>1. run'[r] # run[r] /\ config[r].kind = "devcontainer" /\ config[r].mode # "keep"
          /\ run[r].container # 0
      BY <1>7, FinishIsStep DEF RemoveContainer, At, Dispose, Inv, RunInv, ContainerInv
    <2>2. \A b \in boxes : b.id = run[r].container => b.name = OwnName(r)
      BY <2>1 DEF Inv, RunInv, OwnInv
    <2>3. QED BY <1>7, <2>1, <2>2 DEF Asked
  <1>8. QED
    BY <1>1, <1>2, <1>3, <1>5, <1>6, <1>7
       DEF ProbeDelete, DeleteContainer, DeleteMachine, DeleteSandbox, Down, RemoveContainer, Ask,
           Dispose, At

\* A sandbox goes only when it expires or by a step of a run that made it, or shares it and
\* is configured to remove it: what the user had before is not removed otherwise.
THEOREM RemovalsAreAsked == Spec => OnlyAskedRemovals
  <1> DEFINE Only(b) ==
        \/ b.name[1] = "opensandbox" /\ run' = run
        \/ \E r \in Runs :
             /\ run'[r] # run[r]
             /\ \/ b.maker = r
                \/ /\ b.name = OwnName(r) /\ config[r].kind = "machine"
                   /\ config[r].mode = "delete"
                \/ /\ b.name = OwnName(r) /\ config[r].kind = "devcontainer"
                   /\ config[r].mode # "keep" \/ "replace" \in config[r].options
             Removals == \A b \in boxes : (\A c \in boxes' : c.id # b.id) => Only(b)
  <1>1. ASSUME Spared PROVE Removals
    BY <1>1 DEF Spared
  <1>2. ASSUME NEW r \in Runs, Asked(r) PROVE Removals
    BY <1>2 DEF Asked
  <1>3. ASSUME Inv, Next PROVE Removals
    <2>1. ASSUME NEW r \in Runs, RunStep(r) \/ ProbeWaitFails(r) \/ StartFails(r) PROVE Removals
      <3>1. Spared \/ Asked(r)
        BY <1>3, <2>1, CallsSpare, RemovalsAsked DEF RunStep, ProbeStep, CreateStep, CleanupStep
      <3>2. QED BY <1>1, <1>2, <3>1
    <2>2. CASE Boot
      <3>1. PICK b \in boxes, state \in {"running", "failed"} : boxes' = Change(b, "state", state)
        BY <2>2 DEF Boot
      <3>2. [b EXCEPT !["state"] = state].id = b.id
        BY <1>3 DEF Inv, TypeInv, Box
      <3>3. Spared
        BY <3>1, <3>2 DEF Spared, Change
      <3>4. QED BY <1>1, <3>3
    <2>3. CASE Expire
      BY <2>3 DEF Expire
    <2>4. CASE Over
      BY <2>4 DEF Over, vars
    <2>5. QED BY <1>3, <2>1, <2>2, <2>3, <2>4 DEF Next
  <1>4. Inv /\ [Next]_vars => [Removals]_vars
    BY <1>3
  <1>5. QED
    BY <1>4, Invariance, PTL DEF Spec, OnlyAskedRemovals
====
