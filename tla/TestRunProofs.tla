---------------------------- MODULE TestRunProofs ----------------------------
(***************************************************************************)
(* Theorems about a run of a generated project, for any number of files    *)
(* and workers and any declarations: a process starts only what the        *)
(* declarations say, nothing boots before the main process has found them  *)
(* free of contradictions, what the setup provides is what the files       *)
(* select, and files that share workers and containers have nothing else   *)
(* of each other's.                                                        *)
(***************************************************************************)
EXTENDS TestRun, FiniteSetTheorems, TLAPS

Fields == {"pc", "why", "worker", "shared", "resources", "saved"}

Stages == {"config", "rejected", "setup", "boot", "files", "over"}

\* A file whose hooks have begun and have not ended.
Active(f) == file[f].pc \notin {"pending", "done"}

\* The user's configuration never changes.
ConfigInv ==
  /\ config \in Configs
  /\ config.mode \in {"project", "annotation"}
  /\ DOMAIN config.sources = Files

\* What the main process has accepted at each stage, and what it made of it.
StageInv ==
  /\ stage \in Stages
  /\ stage \in {"setup", "boot", "files", "over"} =>
       /\ Parses
       /\ reporters = DashboardReporters(config.project.dashboard, config.project.reporters)
  /\ stage \in {"boot", "files", "over"} /\ config.mode = "annotation" =>
       DiscoversShared(config.sources)
  /\ stage \in {"files", "over"} =>
       /\ \A i \in GlobalInstances : Creates(Registry(Global), i)
       /\ provided = FromNamed(BootedBy(Global, GlobalInstances))
  /\ session => stage \in {"boot", "files"} /\ DashboardIsOn(config.project.dashboard)

\* Whatever was started is an instance the setup or a file had to start, and
\* what the setup started is up until the last file is done.
BootedInv ==
  /\ \A r \in booted :
       \/ \E i \in GlobalInstances : r = Resource(Global, i)
       \/ \E f \in Files : \E i \in Dedicated(f) : r = Resource(f, i)
  /\ booted # {} => /\ Parses
                    /\ config.mode = "annotation" => DiscoversShared(config.sources)
  /\ stage = "files" => BootedBy(Global, GlobalInstances) \subseteq live

\* What a file's beforeAll() has checked so far.
CheckedInv(f) ==
  /\ Active(f) => \A i \in RequiredClasses(Source(f)) :
                    EvaluatesDecorator(Source(f).classes[i])
  /\ file[f].pc \in {"boot", "bind", "application", "tests"} => MarkersAgree(f)
  /\ file[f].pc = "boot" =>
       /\ Selectable(provided, SharedBy(f))
       /\ file[f].shared = Select(provided, SharedBy(f))

\* A file's resources while its tests run.
IsolatedInv(f) ==
  file[f].pc \in {"bind", "application", "tests"} =>
    \A d \in Declarations(f) :
      /\ HasNamed(file[f].resources, d.name, d.kind)
      /\ file[f].resources[d.name] \in live
      /\ file[f].resources[d.name].owner = IF d.isolation = "shared" THEN Global ELSE f

\* Why the beforeAll() of file f may fail.
Excused(f, why) ==
  /\ why = "select" => config.mode = "annotation" /\ ~Source(f).scanned
  /\ why = "create" =>
       /\ config.mode = "annotation"
       /\ Source(f).scanned => Source(f).registry # DefaultRegistry
  /\ why = "module" /\ config.mode = "annotation" /\ Source(f).scanned =>
       "" \in NamesOf(DeclaredBy(Source(f)))
  /\ why # "merge"
  /\ why = "bindings" /\ config.mode = "project" =>
       \E v \in DOMAIN config.project.environment, d \in config.project.containers :
         /\ d.name = config.project.environment[v].container
         /\ config.project.environment[v].property \notin Scalars[d.kind]
  /\ why = "instances" =>
       /\ config.mode = "project"
       /\ \E d \in DeclaredBy(Source(f)) : \A e \in config.project.containers :
            d.name = e.name => d.kind # e.kind

WhyInv(f) == Excused(f, file[f].why)

\* What is in the environment of the worker of an active file, and what the
\* file saved of it.
WorkerInv(f) ==
  /\ Active(f) => file[f].worker \in Workers
  /\ file[f].pc \notin {"application", "tests"} => file[f].saved = <<>>
  /\ Active(f) /\ file[f].pc \notin {"application", "tests"} =>
       env[file[f].worker] = OuterEnv
  /\ file[f].pc \in {"application", "tests"} =>
       Restore(f, env[file[f].worker]) = OuterEnv
  /\ file[f].pc = "application" =>
       /\ DOMAIN config.project.environment \subseteq DOMAIN OuterEnv
       /\ env[file[f].worker] =
            Merge([v \in DOMAIN config.project.environment |->
                     ValueOf(f, config.project.environment[v])], OuterEnv)

FileInv(f) ==
  /\ DOMAIN file[f] = Fields
  /\ Active(f) => stage = "files"
  /\ CheckedInv(f) /\ IsolatedInv(f) /\ WhyInv(f) /\ WorkerInv(f)

\* No two files are active in one worker, and an idle worker is as it was.
PoolInv ==
  /\ DOMAIN file = Files /\ DOMAIN env = Workers
  /\ \A f, g \in Files : Active(f) /\ Active(g) /\ file[f].worker = file[g].worker => f = g
  /\ \A w \in Workers : Idle(w) => env[w] = OuterEnv

RunInv ==
  /\ ConfigInv /\ StageInv /\ BootedInv /\ PoolInv
  /\ \A f \in Files : FileInv(f)

-----------------------------------------------------------------------------
(* What declarations, registries and collections guarantee                 *)

\* A file's declarations have each name once.
LEMMA UniqueNames ==
  ASSUME ConfigInv, Parses, NEW f \in Files, MarkersAgree(f),
         NEW d \in Declarations(f), NEW e \in Declarations(f), d.name = e.name
  PROVE  d = e
<1>1. CASE config.mode = "project"
  BY <1>1 DEF Declarations, Parses, ParsesContainerProject
<1>2. CASE config.mode = "annotation"
  <2> DEFINE required == RequiredClasses(Source(f))
  <2>1. PICK i \in required, j \in required :
          d \in RuntimeDefinitions(Source(f).classes[i]) /\ e \in RuntimeDefinitions(Source(f).classes[j])
    BY <1>2 DEF Declarations, DeclaredBy
  <2>2. /\ IsFiniteSet(DOMAIN Source(f).classes)
        /\ \A c \in DOMAIN Source(f).classes : DOMAIN Source(f).classes[c].entries \subseteq Nat
    BY TestRunAssumption DEF ConfigInv, Source
  <2>3. IsFiniteSet(required)
    BY <2>2, FS_Subset DEF RequiredClasses
  <2>4. i = j
    <3> HIDE DEF required
    <3>1. Cardinality(required) \in Nat /\ Cardinality(required) # 0
      BY <2>1, <2>3, FS_CardinalityType, FS_EmptySet
    <3>2. Cardinality(required) <= 1
      BY DEF MarkersAgree, required
    <3>3. Cardinality(required) = 1
      BY <3>1, <3>2
    <3>4. \E x : required = {x}
      BY <2>3, <3>3, FS_Singleton
    <3> QED BY <3>4
  <2>5. PICK k, l \in DOMAIN Source(f).classes[i].entries :
          /\ d = Source(f).classes[i].entries[k] /\ e = Source(f).classes[i].entries[l]
          /\ k <= l /\ l <= k
    BY <2>1, <2>4 DEF RuntimeDefinitions
  <2>6. k \in Nat /\ l \in Nat
    BY <2>2 DEF RequiredClasses
  <2> QED BY <2>5, <2>6
<1> QED BY <1>1, <1>2 DEF ConfigInv

\* The instances the setup starts have each name once.
LEMMA UniqueShared ==
  ASSUME ConfigInv, Parses, config.mode = "annotation" => DiscoversShared(config.sources),
         NEW i \in GlobalInstances, NEW j \in GlobalInstances, i.name = j.name
  PROVE  i = j
<1>1. CASE config.mode = "project"
  <2>1. PICK d \in config.project.containers, e \in config.project.containers :
          i = [name |-> d.name, kind |-> d.kind] /\ j = [name |-> e.name, kind |-> e.kind]
    BY <1>1 DEF GlobalInstances, Instances, OfIsolation
  <2> QED BY <1>1, <2>1 DEF Parses, ParsesContainerProject
<1>2. CASE config.mode = "annotation"
  BY <1>2 DEF GlobalInstances, SharedInstances, Instances, DiscoversShared, ConfigInv
<1> QED BY <1>1, <1>2 DEF ConfigInv

\* An instance is started from its own kind.
LEMMA OwnKind ==
  ASSUME ConfigInv, Parses, NEW owner \in Files \cup {Global}, NEW i,
         Creates(Registry(owner), i),
         config.mode = "project" => i.name \in NamesOf(config.project.containers)
  PROVE  /\ Resource(owner, i).owner = owner /\ Resource(owner, i).name = i.name
         /\ Resource(owner, i).kind = i.kind
<1>1. CreateInstance(Registry(owner), i).kind = i.kind
  <2>1. CASE config.mode = "project"
    BY <2>1 DEF Registry, ProjectRegistry, Creates, CreateInstance
  <2>2. CASE config.mode = "annotation" /\ owner = Global
    BY <2>2 DEF Registry, DefaultRegistry, Creates, CreateInstance, ConfigInv
  <2>3. CASE config.mode = "annotation" /\ owner # Global
    <3>1. \A k \in DOMAIN config.sources[owner].registry.kinds :
            config.sources[owner].registry.kinds[k].kind = k
      BY <2>3, TestRunAssumption DEF ConfigInv
    <3> QED BY <2>3, <3>1 DEF Registry, Creates, CreateInstance
  <2> QED BY <2>1, <2>2, <2>3 DEF ConfigInv
<1> QED BY <1>1 DEF Resource

\* fromNamed() has a resource of its own under every name.
LEMMA NamedOnes ==
  ASSUME NEW resources, NEW n \in {r.name : r \in resources}
  PROVE  /\ n \in DOMAIN FromNamed(resources)
         /\ FromNamed(resources)[n] \in resources /\ FromNamed(resources)[n].name = n
<1>1. PICK r \in resources : r.name = n
  OBVIOUS
<1>2. LET s == CHOOSE r1 \in resources : r1.name = n IN s \in resources /\ s.name = n
  BY <1>1
<1> QED BY <1>2 DEF FromNamed

-----------------------------------------------------------------------------
(* What is static stays so                                                 *)

LEMMA SameConfig ==
  ASSUME UNCHANGED config
  PROVE  /\ ConfigInv' <=> ConfigInv
         /\ Parses' <=> Parses
         /\ \A owner : Registry(owner)' = Registry(owner)
         /\ GlobalInstances' = GlobalInstances
         /\ \A f \in Files :
              /\ Source(f)' = Source(f)
              /\ Declarations(f)' = Declarations(f)
              /\ SharedBy(f)' = SharedBy(f) /\ Dedicated(f)' = Dedicated(f)
              /\ (MarkersAgree(f))' <=> MarkersAgree(f)
         /\ \A owner, i : Resource(owner, i)' = Resource(owner, i)
         /\ \A owner, set : BootedBy(owner, set)' = BootedBy(owner, set)
BY TestRunAssumption DEF ConfigInv, Parses, Registry, GlobalInstances, Source, Declarations, SharedBy,
   Dedicated, MarkersAgree, Resource, BootedBy

\* A step of one file leaves another one's as they are: its worker, and the
\* containers that are the setup's or its own.
LEMMA OthersKeep ==
  ASSUME RunInv, NEW f \in Files, UNCHANGED <<config, stage, provided>>,
         file'[f] = file[f],
         \A r \in live : r.owner \in {Global, f} => r \in live',
         Active(f) => env'[file[f].worker] = env[file[f].worker]
  PROVE  FileInv(f)'
<1>1. FileInv(f)
  BY DEF RunInv
<1>2. CheckedInv(f)'
  BY <1>1, SameConfig DEF FileInv, CheckedInv, Active
<1>3. IsolatedInv(f)'
  BY <1>1, SameConfig DEF FileInv, IsolatedInv
<1>4. WhyInv(f)'
  BY <1>1, SameConfig DEF FileInv, WhyInv, Excused
<1>5. WorkerInv(f)'
  BY <1>1 DEF FileInv, WorkerInv, Active, Restore, ValueOf
<1> QED BY <1>1, <1>2, <1>3, <1>4, <1>5 DEF FileInv, Active

-----------------------------------------------------------------------------
(* The main process                                                        *)

\* A step of the main process leaves files alone that are not active.
LEMMA InactiveKeep ==
  ASSUME RunInv, \A f \in Files : ~Active(f), UNCHANGED <<config, file, env>>
  PROVE  PoolInv' /\ \A f \in Files : FileInv(f)'
<1>1. PoolInv'
  BY DEF RunInv, PoolInv, Active, Idle
<1>2. ASSUME NEW f \in Files PROVE FileInv(f)'
  <2>1. FileInv(f) /\ ~Active(f) /\ ~Active(f)'
    BY DEF RunInv, Active
  <2>2. CheckedInv(f)' /\ IsolatedInv(f)' /\ WorkerInv(f)'
    BY <2>1 DEF FileInv, CheckedInv, IsolatedInv, WorkerInv, Active
  <2>3. WhyInv(f)'
    BY <2>1, SameConfig DEF FileInv, WhyInv, Excused
  <2> QED BY <2>1, <2>2, <2>3 DEF FileInv
<1> QED BY <1>1, <1>2

LEMMA InitHolds == Init => RunInv
<1> SUFFICES ASSUME Init PROVE RunInv
  OBVIOUS
<1>1. ConfigInv
  BY TestRunAssumption DEF Init, ConfigInv
<1>2. StageInv /\ BootedInv
  BY DEF Init, StageInv, BootedInv, Stages
<1>3. ASSUME NEW f \in Files PROVE FileInv(f) /\ ~Active(f)
  <2>1. file[f] = NoFile
    BY DEF Init
  <2>2. DOMAIN file[f] = Fields /\ file[f].pc = "pending" /\ file[f].why = "none"
      /\ file[f].saved = <<>>
    BY <2>1 DEF NoFile, Fields
  <2> QED BY <2>2 DEF FileInv, CheckedInv, IsolatedInv, WhyInv, Excused, WorkerInv, Active
<1>4. PoolInv
  BY <1>3 DEF Init, PoolInv
<1> QED BY <1>1, <1>2, <1>3, <1>4 DEF RunInv

LEMMA MainKeeps ==
  ASSUME RunInv, Define \/ Setup \/ SetupFails \/ Teardown
  PROVE  RunInv'
<1>1. UNCHANGED <<config, file, env, provided>>
  BY DEF Define, Setup, SetupFails, Teardown
<1>2. \A f \in Files : ~Active(f)
  BY DEF Define, Setup, SetupFails, Teardown, RunInv, FileInv, Active
<1>3. ConfigInv'
  BY <1>1, SameConfig DEF RunInv
<1>4. StageInv'
  <2> USE <1>1, SameConfig DEF RunInv, StageInv, Stages
  <2>1. CASE Define
    BY <2>1 DEF Define
  <2>2. CASE Setup
    BY <2>2 DEF Setup, ConfigInv
  <2>3. CASE SetupFails
    BY <2>3 DEF SetupFails
  <2>4. CASE Teardown
    BY <2>4 DEF Teardown
  <2> QED BY <2>1, <2>2, <2>3, <2>4
<1>5. BootedInv'
  <2>1. stage' # "files" /\ (stage \in {"files", "over"} => stage' = "over")
    BY DEF Define, Setup, SetupFails, Teardown
  <2>2. CASE SetupFails
    <3>1. stage = "boot" /\ \A r \in booted' : r \in booted \/ \E i \in GlobalInstances : r = Resource(Global, i)
      BY <2>2 DEF SetupFails, BootedBy, Creatable
    <3> QED BY <1>1, <2>1, <3>1, SameConfig DEF RunInv, StageInv, BootedInv
  <2>3. CASE Define \/ Setup \/ Teardown
    <3>1. UNCHANGED booted
      BY <2>3 DEF Define, Setup, Teardown
    <3> QED BY <1>1, <2>1, <3>1, SameConfig DEF RunInv, BootedInv
  <2> QED BY <2>2, <2>3
<1>6. PoolInv' /\ \A f \in Files : FileInv(f)'
  BY <1>1, <1>2, InactiveKeep
<1> QED BY <1>3, <1>4, <1>5, <1>6 DEF RunInv

LEMMA SharedReadyKeeps ==
  ASSUME RunInv, SharedReady
  PROVE  RunInv'
<1>1. UNCHANGED <<config, file, env, session, reporters>> /\ stage = "boot" /\ stage' = "files"
  BY DEF SharedReady
<1>2. /\ \A i \in GlobalInstances : Creates(Registry(Global), i)
      /\ provided' = FromNamed(BootedBy(Global, GlobalInstances))
      /\ booted' = booted \cup BootedBy(Global, GlobalInstances)
      /\ live' = live \cup BootedBy(Global, GlobalInstances)
  BY DEF SharedReady, Creatable
<1>3. \A f \in Files : ~Active(f)
  BY <1>1 DEF RunInv, FileInv
<1>4. ConfigInv' /\ StageInv'
  BY <1>1, <1>2, SameConfig DEF RunInv, StageInv, Stages
<1>5. BootedInv'
  <2>1. \A r \in BootedBy(Global, GlobalInstances) : \E i \in GlobalInstances : r = Resource(Global, i)
    BY DEF BootedBy
  <2> QED BY <1>1, <1>2, <2>1, SameConfig DEF RunInv, StageInv, BootedInv
<1>6. PoolInv' /\ \A f \in Files : FileInv(f)'
  BY <1>1, <1>3, InactiveKeep
<1> QED BY <1>4, <1>5, <1>6 DEF RunInv

-----------------------------------------------------------------------------
(* A test file                                                             *)

\* What every step of a file's hooks has in common: it changes what the file
\* holds, its own containers, and the environment of its worker, which it
\* takes when that is idle and leaves as it was at first.
FileStepOf(f) ==
  /\ stage = "files"
  /\ UNCHANGED <<config, stage, session, reporters, provided>>
  /\ DOMAIN file' = Files /\ DOMAIN env' = Workers
  /\ \A g \in Files \ {f} : file'[g] = file[g]
  /\ \A r \in live : r.owner # f => r \in live'
  /\ \A r \in booted' : r \in booted \/ \E i \in Dedicated(f) : r = Resource(f, i)
  /\ \A w \in Workers : w # file'[f].worker => env'[w] = env[w]
  /\ Active(f) => file'[f].worker = file[f].worker
  /\ ~Active(f) => UNCHANGED env /\ (Active(f)' => Idle(file'[f].worker))
  /\ Active(f) /\ ~Active(f)' => env'[file[f].worker] = OuterEnv

LEMMA FileStepKeeps ==
  ASSUME RunInv, NEW f \in Files, FileStepOf(f), FileInv(f)'
  PROVE  RunInv'
<1>1. ConfigInv' /\ StageInv'
  BY SameConfig DEF FileStepOf, RunInv, StageInv
<1>2. BootedInv'
  <2>1. \A r \in BootedBy(Global, GlobalInstances) : r.owner # f
    BY TestRunAssumption DEF BootedBy, Resource
  <2> QED BY <2>1, SameConfig DEF FileStepOf, RunInv, StageInv, BootedInv
<1>3. ASSUME NEW g \in Files \ {f} PROVE FileInv(g)' /\ (Active(g)' <=> Active(g))
  <2>1. Active(g) /\ Active(f) => file[g].worker # file[f].worker
    BY DEF RunInv, PoolInv
  <2>2. Active(g) => \/ file[g].worker \in Workers /\ file[g].worker # file'[f].worker
                   \/ UNCHANGED env
    BY <2>1 DEF FileStepOf, RunInv, FileInv, WorkerInv
  <2>3. \A r \in live : r.owner \in {Global, g} => r \in live'
    BY TestRunAssumption DEF FileStepOf
  <2>4. FileInv(g)'
    BY <2>2, <2>3, OthersKeep DEF FileStepOf
  <2> QED BY <2>4 DEF FileStepOf, Active
<1>4. PoolInv'
  <2>1. \A g, h \in Files :
          Active(g)' /\ Active(h)' /\ file'[g].worker = file'[h].worker => g = h
    BY <1>3 DEF FileStepOf, RunInv, PoolInv, Active, Idle
  <2>2. ASSUME NEW w \in Workers, Idle(w)' PROVE env'[w] = OuterEnv
    <3>1. CASE Idle(w) /\ (UNCHANGED env \/ w # file'[f].worker)
      BY <3>1 DEF FileStepOf, RunInv, PoolInv
    <3>2. CASE Active(f) /\ w = file[f].worker
      BY <2>2, <3>2 DEF FileStepOf, Idle, Active
    <3>3. Idle(w) \/ (Active(f) /\ w = file[f].worker)
      BY <2>2, <1>3 DEF FileStepOf, Idle, Active
    <3> QED BY <3>1, <3>2, <3>3 DEF FileStepOf
  <2> QED BY <2>1, <2>2 DEF FileStepOf, PoolInv, Active
<1> QED BY <1>1, <1>2, <1>3, <1>4 DEF RunInv

-----------------------------------------------------------------------------
(* What the processes agree on                                             *)

\* The setup scanned a file and accepted what it read there.
LEMMA ScannedIsRead ==
  ASSUME RunInv, stage = "files", config.mode = "annotation",
         NEW f \in Files, Source(f).scanned, NEW i \in RequiredClasses(Source(f))
  PROVE  ReadsDecorator(Source(f).classes[i])
BY DEF RunInv, ConfigInv, StageInv, DiscoversShared, DiscoversFile, Source

\* Only a name that is empty passes the discovery and not the decorator.
LEMMA UnloadableFile ==
  ASSUME RunInv, stage = "files", NEW f \in Files,
         NEW i \in RequiredClasses(Source(f)), ~EvaluatesDecorator(Source(f).classes[i])
  PROVE  Excused(f, "module")
<1>1. ASSUME config.mode = "annotation", Source(f).scanned
      PROVE  "" \in NamesOf(DeclaredBy(Source(f)))
  <2> DEFINE class == Source(f).classes[i]
  <2>1. ReadsDecorator(class)
    BY <1>1, ScannedIsRead
  <2>2. PICK k \in DOMAIN class.entries : class.entries[k].name = ""
    BY <2>1 DEF EvaluatesDecorator, ReadsDecorator
  <2>3. DOMAIN class.entries \subseteq Nat
    BY TestRunAssumption DEF RunInv, ConfigInv, Source, RequiredClasses
  <2>4. class.entries[k] \in RuntimeDefinitions(class)
    <3> HIDE DEF class
    <3>1. \A l \in DOMAIN class.entries : class.entries[l].name = class.entries[k].name => l = k
      BY <2>1, <2>2 DEF ReadsDecorator
    <3>2. k <= k
      BY <2>3
    <3> QED BY <2>2, <3>1, <3>2 DEF RuntimeDefinitions
  <2> QED BY <2>2, <2>4 DEF DeclaredBy, NamesOf
<1> QED BY <1>1 DEF Excused

\* What the setup provided is what a file selects.
LEMMA FilesSelect ==
  ASSUME RunInv, stage = "files", NEW f \in Files,
         config.mode = "project" \/ Source(f).scanned
  PROVE  Selectable(provided, SharedBy(f))
<1>1. SharedBy(f) \subseteq GlobalInstances
  <2>1. CASE config.mode = "project"
    BY <2>1 DEF SharedBy, Declarations, GlobalInstances
  <2>2. CASE config.mode = "annotation" /\ Source(f).scanned
    BY <2>2 DEF SharedBy, Declarations, GlobalInstances, SharedInstances, Source, RunInv, ConfigInv
  <2> QED BY <2>1, <2>2 DEF RunInv, ConfigInv
<1>2. /\ ConfigInv /\ Parses
      /\ config.mode = "annotation" => DiscoversShared(config.sources)
      /\ provided = FromNamed(BootedBy(Global, GlobalInstances))
      /\ \A i \in GlobalInstances : Creates(Registry(Global), i)
  BY DEF RunInv, StageInv
<1>3. ASSUME NEW i \in GlobalInstances
      PROVE  /\ Resource(Global, i).name = i.name /\ Resource(Global, i).kind = i.kind
  <2>1. config.mode = "project" => i.name \in NamesOf(config.project.containers)
    BY DEF GlobalInstances, Instances, OfIsolation, NamesOf
  <2> QED BY <1>2, <2>1, OwnKind
<1>4. ASSUME NEW i \in GlobalInstances
      PROVE  HasNamed(provided, i.name, i.kind)
  <2>1. i.name \in {r.name : r \in BootedBy(Global, GlobalInstances)}
    BY <1>3 DEF BootedBy
  <2>2. /\ i.name \in DOMAIN provided /\ provided[i.name].name = i.name
        /\ provided[i.name] \in BootedBy(Global, GlobalInstances)
    BY <1>2, <2>1, NamedOnes
  <2>3. PICK j \in GlobalInstances : provided[i.name] = Resource(Global, j)
    BY <2>2 DEF BootedBy
  <2>4. j = i
    BY <1>2, <1>3, <2>2, <2>3, UniqueShared
  <2> QED BY <1>3, <2>2, <2>3, <2>4 DEF HasNamed
<1> QED BY <1>1, <1>4 DEF Selectable

\* Every registry knows what a file starts.
LEMMA FilesCreate ==
  ASSUME RunInv, stage = "files", NEW f \in Files,
         \/ config.mode = "project"
         \/ Source(f).scanned /\ Source(f).registry = DefaultRegistry,
         NEW i \in Dedicated(f)
  PROVE  Creates(Registry(f), i)
<1>1. Parses /\ config.mode \in {"project", "annotation"}
  BY DEF RunInv, StageInv, ConfigInv
<1>2. PICK d \in Declarations(f) : i = [name |-> d.name, kind |-> d.kind]
  BY DEF Dedicated, Instances, OfIsolation
<1>3. CASE config.mode = "project"
  <2>1. d \in config.project.containers
    BY <1>2, <1>3 DEF Declarations
  <2>2. (CHOOSE e \in config.project.containers : e.name = d.name) = d
    BY <1>1, <1>3, <2>1 DEF Parses, ParsesContainerProject
  <2> QED BY <1>2, <1>3, <2>1, <2>2 DEF Registry, ProjectRegistry, Creates, AdapterOf, NamesOf
<1>4. CASE /\ config.mode = "annotation"
           /\ Source(f).scanned /\ Source(f).registry = DefaultRegistry
  <2>1. PICK c \in RequiredClasses(Source(f)) : d \in RuntimeDefinitions(Source(f).classes[c])
    BY <1>2, <1>4 DEF Declarations, DeclaredBy
  <2>2. d.kind \in BuiltInKinds
    BY <1>4, <2>1, ScannedIsRead DEF ReadsDecorator, RuntimeDefinitions
  <2>3. Registry(f) = DefaultRegistry
    BY <1>4 DEF Registry, Source
  <2> QED BY <1>2, <2>2, <2>3 DEF DefaultRegistry, Creates
<1> QED BY <1>1, <1>3, <1>4

-----------------------------------------------------------------------------
(* The hooks of a file                                                     *)

\* A hook that fails before the application has nothing to put back.
LEMMA FailsKeeps ==
  ASSUME RunInv, NEW f \in Files, NEW why, Fails(f, why), Excused(f, why),
         file[f].pc \in {"evaluated", "boot", "bind"},
         UNCHANGED <<config, stage, session, reporters, provided, env>>,
         \A r \in live : r.owner # f => r \in live',
         \A r \in booted' : r \in booted \/ \E i \in Dedicated(f) : r = Resource(f, i)
  PROVE  RunInv'
<1>1. /\ DOMAIN file' = Files /\ DOMAIN file'[f] = Fields
      /\ file'[f].pc = "failed" /\ file'[f].why = why
      /\ file'[f].worker = file[f].worker /\ file'[f].saved = file[f].saved
      /\ \A g \in Files \ {f} : file'[g] = file[g]
  BY DEF RunInv, PoolInv, FileInv, Fields, Fails
<1>2. Active(f) /\ Active(f)'
  BY <1>1 DEF Active
<1>3. FileStepOf(f)
  BY <1>1, <1>2 DEF FileStepOf, RunInv, PoolInv, FileInv
<1>4. CheckedInv(f)' /\ IsolatedInv(f)'
  BY <1>1, <1>2, SameConfig DEF RunInv, FileInv, CheckedInv, IsolatedInv
<1>5. WhyInv(f)'
  BY <1>1, SameConfig DEF WhyInv, Excused
<1>6. WorkerInv(f)'
  BY <1>1, <1>2 DEF RunInv, FileInv, WorkerInv
<1>7. FileInv(f)'
  BY <1>1, <1>2, <1>4, <1>5, <1>6 DEF FileInv, RunInv
<1> QED BY <1>3, <1>7, FileStepKeeps

LEMMA EvaluateKeeps ==
  ASSUME RunInv, NEW f \in Files, NEW w \in Workers, Evaluate(w, f)
  PROVE  RunInv'
<1> DEFINE Loads == \A i \in RequiredClasses(Source(f)) : EvaluatesDecorator(Source(f).classes[i])
<1>1. /\ DOMAIN file' = Files /\ DOMAIN file'[f] = Fields
      /\ file'[f].pc = IF Loads THEN "evaluated" ELSE "done"
      /\ file'[f].why = IF Loads THEN file[f].why ELSE "module"
      /\ Loads => file'[f].worker = w
      /\ file'[f].saved = file[f].saved
      /\ \A g \in Files \ {f} : file'[g] = file[g]
  BY DEF RunInv, PoolInv, FileInv, Fields, Evaluate
<1>2. /\ stage = "files" /\ file[f].pc = "pending" /\ Idle(w)
      /\ UNCHANGED <<config, stage, session, reporters, provided, booted, live, env>>
  BY DEF Evaluate
<1>3. ~Active(f) /\ (Active(f)' <=> Loads)
  BY <1>1, <1>2 DEF Active
<1>4. FileStepOf(f)
  BY <1>1, <1>2, <1>3 DEF FileStepOf, RunInv, PoolInv
<1>5. CheckedInv(f)' /\ IsolatedInv(f)'
  BY <1>1, <1>2, <1>3, SameConfig DEF CheckedInv, IsolatedInv
<1>6. WhyInv(f)'
  <2>1. Excused(f, file'[f].why)
    BY <1>1, <1>2, UnloadableFile DEF RunInv, FileInv, WhyInv
  <2> QED BY <1>2, <2>1, SameConfig DEF WhyInv, Excused
<1>7. WorkerInv(f)'
  <2>1. file[f].saved = <<>> /\ env[w] = OuterEnv
    BY <1>2 DEF RunInv, PoolInv, FileInv, WorkerInv
  <2> QED BY <1>1, <1>2, <1>3, <2>1 DEF WorkerInv
<1>8. FileInv(f)'
  BY <1>1, <1>2, <1>5, <1>6, <1>7 DEF FileInv
<1> QED BY <1>4, <1>8, FileStepKeeps

LEMMA BeforeAllKeeps ==
  ASSUME RunInv, NEW f \in Files, BeforeAll(f)
  PROVE  RunInv'
<1>1. /\ file[f].pc = "evaluated" /\ stage = "files" /\ FileInv(f) /\ Active(f)
      /\ UNCHANGED <<config, stage, session, reporters, provided, booted, live, env>>
  BY DEF BeforeAll, RunInv, FileInv, Active
<1>2. ASSUME NEW why, Fails(f, why), Excused(f, why)
      PROVE  RunInv'
  BY <1>1, <1>2, FailsKeeps
<1>3. CASE ~MarkersAgree(f)
  <2>1. Fails(f, "markers") /\ Excused(f, "markers")
    BY <1>3 DEF BeforeAll, Excused
  <2> QED BY <1>2, <2>1
<1>4. CASE MarkersAgree(f) /\ ~Selectable(provided, SharedBy(f))
  <2>1. Fails(f, "select") /\ Excused(f, "select")
    BY <1>1, <1>4, FilesSelect DEF BeforeAll, Excused, RunInv, ConfigInv
  <2> QED BY <1>2, <2>1
<1>5. CASE MarkersAgree(f) /\ Selectable(provided, SharedBy(f))
  <2>1. file' = [file EXCEPT ![f].pc = "boot", ![f].shared = Select(provided, SharedBy(f))]
    BY <1>5 DEF BeforeAll
  <2>2. /\ DOMAIN file' = Files /\ DOMAIN file'[f] = Fields
        /\ file'[f].pc = "boot" /\ file'[f].why = file[f].why
        /\ file'[f].shared = Select(provided, SharedBy(f))
        /\ file'[f].worker = file[f].worker /\ file'[f].saved = file[f].saved
        /\ \A g \in Files \ {f} : file'[g] = file[g]
    BY <2>1, <1>1 DEF RunInv, PoolInv, FileInv, Fields
  <2>3. Active(f)'
    BY <2>2 DEF Active
  <2>4. FileStepOf(f)
    BY <1>1, <2>2, <2>3 DEF FileStepOf, RunInv, PoolInv
  <2>5. CheckedInv(f)' /\ IsolatedInv(f)'
    BY <1>1, <1>5, <2>2, SameConfig DEF FileInv, CheckedInv, IsolatedInv
  <2>6. WhyInv(f)'
    BY <1>1, <2>2, SameConfig DEF FileInv, WhyInv, Excused
  <2>7. WorkerInv(f)'
    BY <1>1, <2>2, <2>3 DEF FileInv, WorkerInv
  <2>8. FileInv(f)'
    BY <1>1, <2>2, <2>5, <2>6, <2>7 DEF FileInv
  <2> QED BY <2>4, <2>8, FileStepKeeps
<1> QED BY <1>3, <1>4, <1>5

LEMMA BootFailsKeeps ==
  ASSUME RunInv, NEW f \in Files, BootFails(f)
  PROVE  RunInv'
<1>1. /\ file[f].pc = "boot" /\ stage = "files"
      /\ UNCHANGED <<config, stage, session, reporters, provided, live, env>>
      /\ \A r \in booted' : r \in booted \/ \E i \in Dedicated(f) : r = Resource(f, i)
  BY DEF BootFails, BootedBy, Creatable, RunInv, FileInv, Active
<1>2. PICK why \in {"boot", "create"} :
        Fails(f, why) /\ (why = "create" => Dedicated(f) # Creatable(f, Dedicated(f)))
  BY DEF BootFails
<1>3. Excused(f, why)
  <2>1. CASE why = "boot"
    BY <2>1 DEF Excused
  <2>2. CASE why = "create"
    <3>1. PICK i \in Dedicated(f) : ~Creates(Registry(f), i)
      BY <1>2, <2>2 DEF Creatable
    <3>2. config.mode # "project" /\ (Source(f).scanned => Source(f).registry # DefaultRegistry)
      BY <1>1, <3>1, FilesCreate
    <3> QED BY <2>2, <3>2 DEF Excused, RunInv, ConfigInv
  <2> QED BY <2>1, <2>2
<1> QED BY <1>1, <1>2, <1>3, FailsKeeps

\* What a file gets: the shared resources it selected and its own, under the
\* names and of the kinds it declares, with no name in both.
LEMMA FileResources ==
  ASSUME RunInv, NEW f \in Files, file[f].pc = "boot",
         Dedicated(f) = Creatable(f, Dedicated(f))
  PROVE  LET dedicated == BootedBy(f, Dedicated(f))
             all == Merge(file[f].shared, FromNamed(dedicated)) IN
         /\ Mergeable(file[f].shared, FromNamed(dedicated))
         /\ \A d \in Declarations(f) :
              /\ HasNamed(all, d.name, d.kind)
              /\ d.isolation = "shared" =>
                   all[d.name] \in live /\ all[d.name].owner = Global
              /\ d.isolation # "shared" =>
                   all[d.name] \in dedicated /\ all[d.name].owner = f
<1> DEFINE dedicated == BootedBy(f, Dedicated(f))
           mine == FromNamed(dedicated)
           shared == file[f].shared
           all == Merge(shared, mine)
<1>1. /\ FileInv(f) /\ stage = "files" /\ ConfigInv /\ Parses /\ MarkersAgree(f)
      /\ Selectable(provided, SharedBy(f)) /\ shared = Select(provided, SharedBy(f))
      /\ \A i \in Dedicated(f) : Creates(Registry(f), i)
  BY DEF RunInv, FileInv, CheckedInv, Active, StageInv, Creatable
<1>2. \A d \in Declarations(f) : d.isolation \in Isolations
  <2>1. CASE config.mode = "project"
    BY <1>1, <2>1 DEF Declarations, Parses, ParsesContainerProject
  <2>2. CASE config.mode = "annotation"
    BY <1>1, <2>2 DEF Declarations, DeclaredBy, RuntimeDefinitions, FileInv, CheckedInv,
       EvaluatesDecorator, Active
  <2> QED BY <1>1, <2>1, <2>2 DEF ConfigInv
<1>3. DOMAIN shared = {i.name : i \in SharedBy(f)}
  BY <1>1 DEF Select
<1>4. ASSUME NEW i \in SharedBy(f)
      PROVE  /\ HasNamed(shared, i.name, i.kind)
             /\ shared[i.name] \in live /\ shared[i.name].owner = Global
  <2>1. HasNamed(provided, i.name, i.kind) /\ shared[i.name] = provided[i.name]
    BY <1>1 DEF Selectable, Select
  <2>2. provided = FromNamed(BootedBy(Global, GlobalInstances))
    BY <1>1 DEF RunInv, StageInv
  <2>3. i.name \in {r.name : r \in BootedBy(Global, GlobalInstances)}
    BY <2>1, <2>2 DEF HasNamed, FromNamed
  <2>4. provided[i.name] \in BootedBy(Global, GlobalInstances)
    BY <2>2, <2>3, NamedOnes
  <2>5. provided[i.name] \in live
    BY <1>1, <2>4 DEF RunInv, BootedInv
  <2>6. \A r \in BootedBy(Global, GlobalInstances) : r.owner = Global
    BY DEF BootedBy, Resource
  <2> QED BY <1>3, <2>1, <2>4, <2>5, <2>6 DEF HasNamed
<1>5. ASSUME NEW i \in Dedicated(f)
      PROVE  /\ Resource(f, i).owner = f /\ Resource(f, i).name = i.name
             /\ Resource(f, i).kind = i.kind
  <2>1. config.mode = "project" => i.name \in NamesOf(config.project.containers)
    BY DEF Dedicated, Declarations, Instances, OfIsolation, NamesOf
  <2> QED BY <1>1, <2>1, OwnKind
<1>6. DOMAIN mine = {i.name : i \in Dedicated(f)}
  BY <1>5 DEF FromNamed, BootedBy
<1>7. ASSUME NEW i \in Dedicated(f)
      PROVE  /\ HasNamed(mine, i.name, i.kind)
             /\ mine[i.name] \in dedicated /\ mine[i.name].owner = f
  <2>1. i.name \in {r.name : r \in dedicated}
    BY <1>5 DEF BootedBy
  <2>2. i.name \in DOMAIN mine /\ mine[i.name] \in dedicated /\ mine[i.name].name = i.name
    BY <2>1, NamedOnes
  <2>3. PICK j \in Dedicated(f) : mine[i.name] = Resource(f, j)
    BY <2>2 DEF BootedBy
  <2>4. j.name = i.name
    BY <1>5, <2>2, <2>3
  <2>5. PICK d \in Declarations(f), e \in Declarations(f) :
          i = [name |-> d.name, kind |-> d.kind] /\ j = [name |-> e.name, kind |-> e.kind]
    BY DEF Dedicated, Instances, OfIsolation
  <2>6. j = i
    BY <1>1, <2>4, <2>5, UniqueNames
  <2> QED BY <1>5, <2>2, <2>3, <2>6 DEF HasNamed
<1>8. DOMAIN shared \cap DOMAIN mine = {}
  <2> SUFFICES ASSUME NEW i \in SharedBy(f), NEW j \in Dedicated(f), i.name = j.name
               PROVE  FALSE
    BY <1>3, <1>6
  <2>1. PICK d \in Declarations(f), e \in Declarations(f) :
          /\ d.isolation = "shared" /\ e.isolation = "dedicated"
          /\ d.name = i.name /\ e.name = j.name
    BY DEF SharedBy, Dedicated, Instances, OfIsolation
  <2> QED BY <1>1, <2>1, UniqueNames
<1>9. ASSUME NEW d \in Declarations(f)
      PROVE  /\ HasNamed(all, d.name, d.kind)
             /\ d.isolation = "shared" =>
                  all[d.name] \in live /\ all[d.name].owner = Global
             /\ d.isolation # "shared" =>
                  all[d.name] \in dedicated /\ all[d.name].owner = f
  <2> DEFINE i == [name |-> d.name, kind |-> d.kind]
  <2>0. i.name = d.name /\ i.kind = d.kind
    OBVIOUS
  <2>1. CASE d.isolation = "shared"
    <3>1. i \in SharedBy(f)
      BY <2>1 DEF SharedBy, Instances, OfIsolation
    <3>2. HasNamed(shared, d.name, d.kind) /\ shared[d.name] \in live /\ shared[d.name].owner = Global
      BY <1>4, <2>0, <3>1
    <3>3. all[d.name] = shared[d.name] /\ d.name \in DOMAIN all
      BY <3>2 DEF HasNamed, Merge
    <3> QED BY <2>1, <3>2, <3>3 DEF HasNamed
  <2>2. CASE d.isolation = "dedicated"
    <3>1. i \in Dedicated(f)
      BY <2>2 DEF Dedicated, Instances, OfIsolation
    <3>2. HasNamed(mine, d.name, d.kind) /\ mine[d.name] \in dedicated /\ mine[d.name].owner = f
      BY <1>7, <2>0, <3>1
    <3>3. all[d.name] = mine[d.name] /\ d.name \in DOMAIN all
      BY <1>8, <3>2 DEF HasNamed, Merge
    <3> QED BY <2>2, <3>2, <3>3 DEF HasNamed
  <2> QED BY <1>2, <2>1, <2>2 DEF Isolations
<1> QED BY <1>8, <1>9 DEF Mergeable

LEMMA DedicatedReadyKeeps ==
  ASSUME RunInv, NEW f \in Files, DedicatedReady(f)
  PROVE  RunInv'
<1> DEFINE dedicated == BootedBy(f, Dedicated(f))
           all == Merge(file[f].shared, FromNamed(dedicated))
<1>1. /\ file[f].pc = "boot" /\ stage = "files" /\ FileInv(f) /\ Active(f)
      /\ Dedicated(f) = Creatable(f, Dedicated(f))
      /\ UNCHANGED <<config, stage, session, reporters, provided, env>>
  BY DEF DedicatedReady, RunInv, FileInv, Active
<1>2. /\ booted' = booted \cup dedicated /\ live' = live \cup dedicated
      /\ file' = [file EXCEPT ![f].pc = IF StartsApplication(f) THEN "bind" ELSE "tests",
                              ![f].resources = all]
  BY <1>1, FileResources DEF DedicatedReady
<1>3. /\ DOMAIN file' = Files /\ DOMAIN file'[f] = Fields
      /\ file'[f].pc \in {"bind", "tests"} /\ file'[f].why = file[f].why
      /\ file'[f].resources = all
      /\ file'[f].worker = file[f].worker /\ file'[f].saved = file[f].saved
      /\ \A g \in Files \ {f} : file'[g] = file[g]
  <2> HIDE DEF all, dedicated
  <2> QED BY <1>1, <1>2 DEF RunInv, PoolInv, FileInv, Fields
<1>4. Active(f)'
  BY <1>3 DEF Active
<1>5. FileStepOf(f)
  <2>1. \A r \in dedicated : \E i \in Dedicated(f) : r = Resource(f, i)
    BY DEF BootedBy
  <2> HIDE DEF dedicated, all
  <2> QED BY <1>1, <1>2, <1>3, <1>4, <2>1 DEF FileStepOf, RunInv, PoolInv
<1>6. CheckedInv(f)'
  BY <1>1, <1>3, SameConfig DEF FileInv, CheckedInv
<1>7. IsolatedInv(f)'
  <2>1. \A d \in Declarations(f) :
          /\ HasNamed(all, d.name, d.kind)
          /\ all[d.name] \in live'
          /\ all[d.name].owner = IF d.isolation = "shared" THEN Global ELSE f
    BY <1>1, <1>2, FileResources
  <2> HIDE DEF all
  <2> QED BY <1>1, <1>3, <2>1, SameConfig DEF IsolatedInv
<1>8. WhyInv(f)'
  BY <1>1, <1>3, SameConfig DEF FileInv, WhyInv, Excused
<1>9. WorkerInv(f)'
  <2>1. file[f].saved = <<>> /\ env[file[f].worker] = OuterEnv /\ file[f].worker \in Workers
    BY <1>1 DEF FileInv, WorkerInv
  <2>2. Merge(<<>>, OuterEnv) = OuterEnv
    BY TestRunAssumption DEF Merge
  <2>3. Restore(f, env[file[f].worker])' = OuterEnv
    BY <1>1, <1>3, <2>1, <2>2 DEF Restore
  <2> HIDE DEF all
  <2> QED BY <1>1, <1>3, <2>1, <2>3 DEF WorkerInv
<1>10. FileInv(f)'
  BY <1>1, <1>3, <1>6, <1>7, <1>8, <1>9 DEF FileInv
<1> QED BY <1>5, <1>10, FileStepKeeps

LEMMA BindKeeps ==
  ASSUME RunInv, NEW f \in Files, Bind(f)
  PROVE  RunInv'
<1> DEFINE bindings == config.project.environment
           values == [v \in DOMAIN bindings |-> ValueOf(f, bindings[v])]
           old == [v \in DOMAIN bindings |-> OuterEnv[v]]
           w == file[f].worker
<1>1. /\ file[f].pc = "bind" /\ stage = "files" /\ FileInv(f) /\ Active(f)
      /\ UNCHANGED <<config, stage, session, reporters, provided, booted>>
  BY DEF Bind, RunInv, FileInv, Active
<1>2. w \in Workers /\ env[w] = OuterEnv
  BY <1>1 DEF FileInv, WorkerInv
<1>3. CASE config.project.application /\ Resolves(bindings, Declarations(f))
  <2>1. /\ file' = [file EXCEPT ![f].pc = "application",
                                ![f].saved = [v \in DOMAIN bindings |-> env[w][v]]]
        /\ env' = [env EXCEPT ![w] = Merge(values, env[w])]
        /\ UNCHANGED live
    BY <1>3 DEF Bind
  <2>2. file' = [file EXCEPT ![f].pc = "application", ![f].saved = old]
    BY <1>2, <2>1
  <2>3. DOMAIN env' = Workers /\ env'[w] = Merge(values, OuterEnv)
        /\ \A x \in Workers : x # w => env'[x] = env[x]
    <3> HIDE DEF values
    <3> QED BY <1>2, <2>1 DEF RunInv, PoolInv
  <2>4. /\ DOMAIN file' = Files /\ DOMAIN file'[f] = Fields
        /\ file'[f].pc = "application" /\ file'[f].why = file[f].why
        /\ file'[f].resources = file[f].resources /\ file'[f].saved = old
        /\ file'[f].worker = w
        /\ \A g \in Files \ {f} : file'[g] = file[g]
    <3> HIDE DEF old
    <3> QED BY <1>1, <2>2 DEF RunInv, PoolInv, FileInv, Fields
  <2>5. Active(f)'
    BY <2>4 DEF Active
  <2>6. FileStepOf(f)
    <3> HIDE DEF values, old
    <3> QED BY <1>1, <2>1, <2>3, <2>4, <2>5 DEF FileStepOf
  <2>7. CheckedInv(f)' /\ IsolatedInv(f)'
    BY <1>1, <2>1, <2>4, SameConfig DEF FileInv, CheckedInv, IsolatedInv
  <2>8. WhyInv(f)'
    BY <1>1, <2>4, SameConfig DEF FileInv, WhyInv, Excused
  <2>9. DOMAIN bindings \subseteq DOMAIN OuterEnv
    BY TestRunAssumption DEF RunInv, ConfigInv
  <2>10. WorkerInv(f)'
    <3>1. Merge(old, Merge(values, OuterEnv)) = OuterEnv
      BY <2>9, TestRunAssumption DEF Merge
    <3>2. Restore(f, env[file[f].worker])' = OuterEnv
      <4> HIDE DEF values, old
      <4> QED BY <2>3, <2>4, <3>1 DEF Restore
    <3>3. [v \in DOMAIN config.project.environment |->
             ValueOf(f, config.project.environment[v])]' = values
      BY <1>1, <2>4 DEF ValueOf
    <3> HIDE DEF values
    <3> QED BY <1>1, <1>2, <2>3, <2>4, <2>9, <3>2, <3>3 DEF WorkerInv
  <2>11. FileInv(f)'
    BY <1>1, <2>4, <2>7, <2>8, <2>10 DEF FileInv
  <2> QED BY <2>6, <2>11, FileStepKeeps
<1>4. CASE ~(config.project.application /\ Resolves(bindings, Declarations(f)))
  <2> DEFINE why == IF config.project.application THEN "bindings" ELSE "support"
  <2>1. Fails(f, why) /\ live' = {r \in live : r.owner # f} /\ UNCHANGED env
    BY <1>4 DEF Bind
  <2>2. Excused(f, why)
    <3>1. ASSUME config.project.application, config.mode = "project"
          PROVE  \E v \in DOMAIN bindings, d \in config.project.containers :
                   d.name = bindings[v].container /\ bindings[v].property \notin Scalars[d.kind]
      <4>1. ParsesContainerEnvironment(bindings, config.project.containers)
        BY <1>1, <3>1 DEF RunInv, StageInv, Parses, ParsesContainerProject
      <4>2. PICK v \in DOMAIN bindings : \A d \in config.project.containers :
              ~(d.name = bindings[v].container /\ bindings[v].property \in Scalars[d.kind])
        BY <1>4, <3>1 DEF Resolves, Declarations
      <4>3. PICK d \in config.project.containers : d.name = bindings[v].container
        BY <4>1 DEF ParsesContainerEnvironment, NamesOf
      <4> QED BY <4>2, <4>3
    <3> QED BY <3>1 DEF Excused
  <2> QED BY <1>1, <2>1, <2>2, FailsKeeps
<1> QED BY <1>3, <1>4

LEMMA ApplicationStartsKeeps ==
  ASSUME RunInv, NEW f \in Files, ApplicationStarts(f)
  PROVE  RunInv'
<1>1. /\ file[f].pc = "application" /\ stage = "files" /\ FileInv(f) /\ Active(f)
      /\ UNCHANGED <<config, stage, session, reporters, provided, booted, live, env>>
  BY DEF ApplicationStarts, RunInv, FileInv, Active
<1>2. /\ DOMAIN file' = Files /\ DOMAIN file'[f] = Fields
      /\ file'[f].pc = "tests" /\ file'[f].why = file[f].why
      /\ file'[f].resources = file[f].resources /\ file'[f].saved = file[f].saved
      /\ file'[f].worker = file[f].worker
      /\ \A g \in Files \ {f} : file'[g] = file[g]
  BY <1>1 DEF ApplicationStarts, RunInv, PoolInv, FileInv, Fields
<1>3. Active(f)'
  BY <1>2 DEF Active
<1>4. FileStepOf(f)
  BY <1>1, <1>2, <1>3 DEF FileStepOf, RunInv, PoolInv
<1>5. CheckedInv(f)' /\ IsolatedInv(f)'
  BY <1>1, <1>2, SameConfig DEF FileInv, CheckedInv, IsolatedInv
<1>6. WhyInv(f)'
  BY <1>1, <1>2, SameConfig DEF FileInv, WhyInv, Excused
<1>7. WorkerInv(f)'
  BY <1>1, <1>2 DEF FileInv, WorkerInv, Restore
<1>8. FileInv(f)'
  BY <1>1, <1>2, <1>5, <1>6, <1>7 DEF FileInv
<1> QED BY <1>4, <1>8, FileStepKeeps

\* Whoever stops puts the worker's environment back.
LEMMA StopsKeeps ==
  ASSUME RunInv, NEW f \in Files, Active(f), Stops(f),
         UNCHANGED <<config, stage, session, reporters, provided, booted>>,
         NEW to \in {"failed", "done"}, NEW why, Excused(f, why),
         DOMAIN file' = Files, DOMAIN file'[f] = Fields,
         file'[f].pc = to, file'[f].why = why, file'[f].saved = <<>>,
         file'[f].worker = file[f].worker,
         \A g \in Files \ {f} : file'[g] = file[g]
  PROVE  RunInv'
<1> DEFINE w == file[f].worker
<1>1. FileInv(f) /\ stage = "files" /\ w \in Workers
  BY DEF RunInv, FileInv, WorkerInv
<1>2. Restore(f, env[w]) = OuterEnv
  <2>1. Merge(<<>>, OuterEnv) = OuterEnv
    BY TestRunAssumption DEF Merge
  <2>2. CASE file[f].pc \in {"application", "tests"}
    BY <1>1, <2>2 DEF FileInv, WorkerInv
  <2>3. CASE file[f].pc \notin {"application", "tests"}
    <3>1. file[f].saved = <<>> /\ env[w] = OuterEnv
      BY <1>1, <2>3 DEF FileInv, WorkerInv, Active
    <3> QED BY <2>1, <3>1 DEF Restore
  <2> QED BY <2>2, <2>3
<1>3. /\ DOMAIN env' = Workers /\ env'[w] = OuterEnv
      /\ \A x \in Workers : x # w => env'[x] = env[x]
  BY <1>1, <1>2 DEF Stops, RunInv, PoolInv
<1>4. live' = {r \in live : r.owner # f}
  BY DEF Stops
<1>5. FileStepOf(f)
  BY <1>1, <1>3, <1>4 DEF FileStepOf
<1>6. CheckedInv(f)' /\ IsolatedInv(f)'
  BY <1>1, SameConfig DEF FileInv, CheckedInv, IsolatedInv, Active
<1>7. WhyInv(f)'
  BY SameConfig DEF WhyInv, Excused
<1>8. WorkerInv(f)'
  BY <1>1, <1>3 DEF WorkerInv
<1>9. FileInv(f)'
  BY <1>1, <1>6, <1>7, <1>8 DEF FileInv
<1> QED BY <1>5, <1>9, FileStepKeeps

LEMMA EndsKeep ==
  ASSUME RunInv, NEW f \in Files, ApplicationFails(f) \/ AfterAll(f)
  PROVE  RunInv'
<1>1. FileInv(f) /\ DOMAIN file = Files
  BY DEF RunInv, PoolInv
<1>2. CASE ApplicationFails(f)
  <2> DEFINE why == IF HasInstances(f) THEN "application" ELSE "instances"
  <2>1. /\ Active(f) /\ file[f].pc = "application" /\ Stops(f)
        /\ UNCHANGED <<config, stage, session, reporters, provided, booted>>
    BY <1>2 DEF ApplicationFails, Active
  <2>2. Excused(f, why)
    <3>1. CASE HasInstances(f)
      BY <3>1 DEF Excused
    <3>2. CASE ~HasInstances(f)
      <4>1. \A d \in Declarations(f) : HasNamed(file[f].resources, d.name, d.kind)
        BY <1>1, <2>1 DEF FileInv, IsolatedInv
      <4>2. PICK d \in ApplicationInstances(f) : ~HasNamed(file[f].resources, d.name, d.kind)
        BY <3>2 DEF HasInstances
      <4>3. d \in DeclaredBy(Source(f)) /\ config.mode = "project"
        BY <4>1, <4>2 DEF ApplicationInstances, Declarations, RunInv, ConfigInv
      <4>4. \A e \in config.project.containers : d.name = e.name => d.kind # e.kind
        BY <4>1, <4>2, <4>3 DEF Declarations
      <4> QED BY <3>2, <4>3, <4>4 DEF Excused
    <3> QED BY <3>1, <3>2
  <2>3. /\ DOMAIN file' = Files /\ DOMAIN file'[f] = Fields
        /\ file'[f].pc = "failed" /\ file'[f].why = why
        /\ file'[f].saved = <<>> /\ file'[f].worker = file[f].worker
        /\ \A g \in Files \ {f} : file'[g] = file[g]
    <3> HIDE DEF why
    <3>1. file' = [file EXCEPT ![f].pc = "failed", ![f].saved = <<>>, ![f].why = why]
      BY <1>2 DEF ApplicationFails, why
    <3> QED BY <1>1, <3>1 DEF FileInv, Fields
  <2> HIDE DEF why
  <2> QED BY <2>1, <2>2, <2>3, StopsKeeps
<1>3. CASE AfterAll(f)
  <2>1. /\ Active(f) /\ Excused(f, file[f].why) /\ Stops(f)
        /\ UNCHANGED <<config, stage, session, reporters, provided, booted>>
    BY <1>1, <1>3 DEF AfterAll, Active, FileInv, WhyInv
  <2>2. /\ DOMAIN file' = Files /\ DOMAIN file'[f] = Fields
        /\ file'[f].pc = "done" /\ file'[f].why = file[f].why
        /\ file'[f].saved = <<>> /\ file'[f].worker = file[f].worker
        /\ \A g \in Files \ {f} : file'[g] = file[g]
    BY <1>1, <1>3 DEF AfterAll, FileInv, Fields
  <2> QED BY <2>1, <2>2, StopsKeeps
<1> QED BY <1>2, <1>3

LEMMA StutterKeeps ==
  ASSUME RunInv, UNCHANGED vars
  PROVE  RunInv'
<1>1. UNCHANGED <<config, stage, session, reporters, provided, booted, live, file, env>>
  BY DEF vars
<1>2. ConfigInv' /\ StageInv' /\ BootedInv'
  BY <1>1, SameConfig DEF RunInv, StageInv, BootedInv
<1>3. PoolInv'
  BY <1>1 DEF RunInv, PoolInv, Active, Idle
<1>4. ASSUME NEW f \in Files PROVE FileInv(f)'
  BY <1>1, OthersKeep
<1> QED BY <1>2, <1>3, <1>4 DEF RunInv

LEMMA NextKeeps == RunInv /\ [Next]_vars => RunInv'
<1> SUFFICES ASSUME RunInv, [Next]_vars PROVE RunInv'
  OBVIOUS
<1>1. CASE Define \/ Setup \/ SetupFails \/ Teardown
  BY <1>1, MainKeeps
<1>2. CASE SharedReady
  BY <1>2, SharedReadyKeeps
<1>3. ASSUME NEW f \in Files, FileStep(f) PROVE RunInv'
  <2>1. CASE \E w \in Workers : Evaluate(w, f)
    BY <2>1, EvaluateKeeps
  <2>2. CASE BeforeAll(f) \/ BootFails(f)
    BY <2>2, BeforeAllKeeps, BootFailsKeeps
  <2>3. CASE DedicatedReady(f) \/ Bind(f)
    BY <2>3, DedicatedReadyKeeps, BindKeeps
  <2>4. CASE ApplicationStarts(f)
    BY <2>4, ApplicationStartsKeeps
  <2>5. CASE ApplicationFails(f) \/ AfterAll(f)
    BY <2>5, EndsKeep
  <2> QED BY <1>3, <2>1, <2>2, <2>3, <2>4, <2>5 DEF FileStep
<1>4. CASE RunIsOver \/ UNCHANGED vars
  BY <1>4, StutterKeeps DEF RunIsOver
<1> QED BY <1>1, <1>2, <1>3, <1>4 DEF Next

-----------------------------------------------------------------------------
(* The theorems                                                            *)

\* What has been accepted, what is up and what the files hold fits together at
\* every moment, for any number of files and workers and any declarations.
THEOREM InvariantHolds == Spec => []RunInv
BY InitHolds, NextKeeps, PTL DEF Spec

\* In a project of any declarations a container is started from the definition
\* of its own name, by the main process exactly if it is shared
\* (createContainerProjectRegistry(), container-project.ts).
THEOREM DefinitionIsOwn == Spec => []OwnDefinition
<1>1. RunInv => OwnDefinition
  <2> SUFFICES ASSUME RunInv, config.mode = "project", NEW r \in booted
               PROVE  \E d \in config.project.containers :
                        /\ r.name = d.name /\ r.kind = d.kind /\ r.options = d.options
                        /\ r.owner = Global <=> d.isolation = "shared"
    BY DEF OwnDefinition
  <2>1. Parses
    BY DEF RunInv, BootedInv, StageInv
  <2>2. ASSUME NEW owner, NEW d \in config.project.containers,
               r = Resource(owner, [name |-> d.name, kind |-> d.kind])
        PROVE  r.owner = owner /\ r.name = d.name /\ r.kind = d.kind /\ r.options = d.options
    <3> DEFINE i == [name |-> d.name, kind |-> d.kind]
    <3>1. (CHOOSE e \in config.project.containers : e.name = d.name) = d
      BY <2>1 DEF Parses, ParsesContainerProject
    <3>2. i.name = d.name /\ d.name \in DOMAIN Registry(owner).named
          /\ Registry(owner).named[d.name] = AdapterOf(d)
      BY <3>1 DEF Registry, ProjectRegistry, NamesOf
    <3>3. CreateInstance(Registry(owner), i) = AdapterOf(d)
      BY <3>2 DEF CreateInstance
    <3> HIDE DEF i
    <3> QED BY <2>2, <3>2, <3>3 DEF Resource, AdapterOf, i
  <2>3. CASE \E i \in GlobalInstances : r = Resource(Global, i)
    <3>1. PICK d \in config.project.containers :
            /\ d.isolation = "shared"
            /\ r = Resource(Global, [name |-> d.name, kind |-> d.kind])
      BY <2>3 DEF GlobalInstances, Instances, OfIsolation
    <3> QED BY <2>2, <3>1
  <2>4. CASE \E f \in Files : \E i \in Dedicated(f) : r = Resource(f, i)
    <3>1. PICK f \in Files, d \in config.project.containers :
            /\ d.isolation = "dedicated"
            /\ r = Resource(f, [name |-> d.name, kind |-> d.kind])
      BY <2>4 DEF Dedicated, Declarations, Instances, OfIsolation
    <3> QED BY <2>2, <3>1, TestRunAssumption
  <2> QED BY <2>3, <2>4 DEF RunInv, BootedInv
<1> QED BY <1>1, InvariantHolds, PTL

\* Nothing boots, not even in a setup or a beforeAll() that then fails, unless
\* what the main process reads of the declarations is free of contradictions:
\* the scanned sources (discoverSharedContainerInstances()), or the names and
\* the bindings of a project's options (parseContainerProject()).
THEOREM ContradictionsFailFirst == Spec => []ContradictionStartsNothing
<1>1. RunInv => ContradictionStartsNothing
  <2> SUFFICES ASSUME RunInv, booted # {} PROVE ContradictionStartsNothing
    BY DEF ContradictionStartsNothing
  <2>1. Parses /\ (config.mode = "annotation" => DiscoversShared(config.sources))
    BY DEF RunInv, BootedInv
  <2>2. CASE config.mode = "annotation"
    <3>1. ~SharedConflict
      BY <2>1, <2>2 DEF SharedConflict, DiscoversShared, OfIsolation, Source, RunInv, ConfigInv
    <3>2. \A f \in Files : Source(f).scanned =>
            \A i \in RequiredClasses(Source(f)) : ReadsDecorator(Source(f).classes[i])
      BY <2>1, <2>2 DEF DiscoversShared, DiscoversFile, Source, RunInv, ConfigInv
    <3> QED BY <2>2, <3>1, <3>2 DEF ReadsDecorator, ContradictionStartsNothing
  <2>3. CASE config.mode = "project"
    BY <2>1, <2>3 DEF Parses, ParsesContainerProject, ParsesContainerEnvironment,
       ContradictionStartsNothing
  <2> QED BY <2>2, <2>3 DEF RunInv, ConfigInv
<1> QED BY <1>1, InvariantHolds, PTL

\* The main process and the workers, each of which reads the declarations by
\* itself, agree about the shared containers, their names and kinds, and about
\* the reporter that feeds the session, whatever the files mark in either mode
\* and whatever registries they bring.
THEOREM ProcessesDoAgree == Spec => []ProcessesAgree
<1>1. RunInv => ProcessesAgree
  <2> SUFFICES ASSUME RunInv PROVE ProcessesAgree
    OBVIOUS
  <2>1. ASSUME session PROVE \E i \in DOMAIN reporters : reporters[i] = "dashboard"
    <3> DEFINE configured == config.project.reporters
    <3>1. reporters = DashboardReporters(config.project.dashboard, configured)
          /\ DashboardIsOn(config.project.dashboard)
      BY <2>1 DEF RunInv, StageInv
    <3>2. CASE configured = <<>>
      <4>1. reporters = <<"default">> \o <<"dashboard">>
        BY <3>1, <3>2 DEF DashboardReporters
      <4>2. 2 \in DOMAIN reporters /\ reporters[2] = "dashboard"
        BY <4>1
      <4> QED BY <4>2
    <3>3. CASE configured # <<>>
      <4>1. reporters = configured \o <<"dashboard">>
        BY <3>1, <3>3 DEF DashboardReporters
      <4>2. configured \in Seq(STRING)
        BY TestRunAssumption DEF RunInv, ConfigInv
      <4> HIDE DEF configured
      <4>3. Len(configured) + 1 \in DOMAIN reporters
            /\ reporters[Len(configured) + 1] = "dashboard"
        BY <4>1, <4>2
      <4> QED BY <4>3
    <3> QED BY <3>2, <3>3
  <2>2. \A f \in Files : Excused(f, file[f].why)
    BY DEF RunInv, FileInv, WhyInv
  <2> QED BY <2>1, <2>2 DEF ProcessesAgree, Excused
<1> QED BY <1>1, InvariantHolds, PTL

\* While a file's tests run, all its resources are up, the shared ones those of
\* the setup and the dedicated ones its own, however many files run beside it
\* (ContainerFileContext, container-file-context.ts).
THEOREM FilesStayIsolated == Spec => []FilesAreIsolated
<1>1. RunInv => FilesAreIsolated
  BY DEF RunInv, FileInv, IsolatedInv, FilesAreIsolated
<1> QED BY <1>1, InvariantHolds, PTL

\* An application reads the addresses of its own file's containers, and a
\* worker starts every file with the environment it had at first
\* (installProcessEnvironment(), container-environment.ts).
THEOREM EnvironmentStaysTheFiles == Spec => []EnvironmentIsTheFiles
<1>1. RunInv => EnvironmentIsTheFiles
  <2> SUFFICES ASSUME RunInv, NEW w \in Workers, NEW f \in Files,
                      file[f].worker = w, file[f].pc = "application", NEW v \in DOMAIN OuterEnv
               PROVE  env[w][v] = IF v \in DOMAIN config.project.environment
                                  THEN ValueOf(f, config.project.environment[v]) ELSE OuterEnv[v]
    BY DEF EnvironmentIsTheFiles, RunInv, PoolInv
  <2> DEFINE values == [u \in DOMAIN config.project.environment |->
                          ValueOf(f, config.project.environment[u])]
  <2>1. env[w] = Merge(values, OuterEnv)
    BY DEF RunInv, FileInv, WorkerInv
  <2>2. Merge(values, OuterEnv)[v] = IF v \in DOMAIN values THEN values[v] ELSE OuterEnv[v]
    BY DEF Merge
  <2> QED BY <2>1, <2>2
<1> QED BY <1>1, InvariantHolds, PTL

=============================================================================
