------------------------------- MODULE TestRun -------------------------------
(***************************************************************************)
(* One run of a generated project, from its configuration to the last      *)
(* file: the define*Project() functions serialize the options, the global  *)
(* setup parses them again and starts the shared containers, and a worker  *)
(* parses them once more for every test file, takes the shared resources   *)
(* the file declares, boots its dedicated containers and, if asked to,     *)
(* binds the environment of the worker and starts the application.         *)
(*                                                                         *)
(* The processes share no memory: they agree because each reads the same   *)
(* declarations, in one mode from the options and in the other from the    *)
(* source of the test files.  Nobody keeps a user from marking classes in  *)
(* the first mode, too.  Boots and stops are single steps here; their      *)
(* interleavings are the modules ContainerRuntime and FileLifecycle.       *)
(***************************************************************************)
EXTENDS ContainerDeclarations, ContainerResources

CONSTANTS
  Files, Workers,
  Configs,   \* what a user may write: mode, options, source of each file
  OuterEnv   \* process.env of a new worker: variable |-> value

Global == "globalSetup"
Unset  == "unset"

ASSUME TestRunAssumption ==
  /\ Global \notin Files
  /\ OuterEnv = [v \in DOMAIN OuterEnv |-> OuterEnv[v]]
  /\ \A c \in Configs :
       /\ c.mode \in {"project", "annotation"}
       /\ DOMAIN c.project.environment \subseteq DOMAIN OuterEnv
       /\ c.project.reporters \in Seq(STRING)
       /\ DOMAIN c.sources = Files
       /\ \A f \in Files : LET s == c.sources[f] IN
            /\ IsFiniteSet(DOMAIN s.classes)
            /\ \A i \in DOMAIN s.classes : DOMAIN s.classes[i].entries \subseteq Nat
            \* register() takes factories of the kind it is given
            /\ \A k \in DOMAIN s.registry.kinds : s.registry.kinds[k].kind = k

VARIABLES
  config,   \* [mode, project, sources], one of Configs
  stage,    \* of the run: "config", "rejected", "setup", "boot", "files", "over"
  session,  \* is there a dashboard session?
  reporters,\* the reporters of the runner
  provided, \* the shared resources, as the workers receive them
  booted,   \* every resource ever started
  live,     \* the resources whose container is up
  file,     \* what each file's hooks hold
  env       \* process.env of each worker

vars == <<config, stage, session, reporters, provided, booted, live, file, env>>

NoFile == [pc |-> "pending", why |-> "none", worker |-> Unset,
           shared |-> <<>>, resources |-> <<>>, saved |-> <<>>]

Init ==
  /\ config \in Configs
  /\ stage = "config"
  /\ session = FALSE
  /\ reporters = <<>>
  /\ provided = <<>>
  /\ booted = {} /\ live = {}
  /\ file = [f \in Files |-> NoFile]
  /\ env = [w \in Workers |-> OuterEnv]

-----------------------------------------------------------------------------
(* The configuration and the global setup                                  *)

\* Can the project be parsed?  The same parser runs in all three processes.
Parses ==
  IF config.mode = "project" THEN ParsesContainerProject(config.project)
  ELSE ParsesAnnotationProject(config.project)

\* defineContainerProject(), defineAnnotationProject()
Define ==
  /\ stage = "config"
  /\ IF Parses /\ config.project.isolate
     THEN /\ stage' = "setup"
          /\ reporters' = DashboardReporters(config.project.dashboard,
                                             config.project.reporters)
     ELSE stage' = "rejected" /\ UNCHANGED reporters
  /\ UNCHANGED <<config, session, provided, booted, live, file, env>>

\* The registry each process builds for itself; in annotation mode the setup of
\* a file may replace the default one, which the main process has.
Registry(owner) ==
  IF config.mode = "project" THEN ProjectRegistry(config.project.containers)
  ELSE IF owner = Global THEN DefaultRegistry
  ELSE config.sources[owner].registry

\* The resource of an instance that the process of owner starts.
Resource(owner, instance) ==
  LET adapter == CreateInstance(Registry(owner), instance) IN
  [owner |-> owner, name |-> instance.name,
   kind |-> adapter.kind, options |-> adapter.options]

BootedBy(owner, instances) == {Resource(owner, i) : i \in instances}

\* Those of the instances that have a factory.
Creatable(owner, instances) == {i \in instances : Creates(Registry(owner), i)}

\* The instances the global setup starts.
GlobalInstances ==
  IF config.mode = "project"
  THEN Instances(OfIsolation(config.project.containers, "shared"))
  ELSE SharedInstances(config.sources)

\* createConfigured...Lifecycle() and setup(), up to the first container:
\* the session starts, then the source of an annotation project is scanned.
Setup ==
  /\ stage = "setup"
  /\ IF config.mode = "project" \/ DiscoversShared(config.sources)
     THEN stage' = "boot" /\ session' = DashboardIsOn(config.project.dashboard)
     ELSE stage' = "rejected" /\ UNCHANGED session
  /\ UNCHANGED <<config, reporters, provided, booted, live, file, env>>

\* The shared containers are up and their resources provided.
SharedReady ==
  /\ stage = "boot"
  /\ GlobalInstances = Creatable(Global, GlobalInstances)
  /\ LET resources == BootedBy(Global, GlobalInstances) IN
       /\ booted' = booted \cup resources
       /\ live' = live \cup resources
       /\ provided' = FromNamed(resources)
  /\ stage' = "files"
  /\ UNCHANGED <<config, session, reporters, file, env>>

\* An adapter cannot be created or does not boot: the setup releases those that
\* did and rejects.
SetupFails ==
  /\ stage = "boot"
  /\ \E some \in SUBSET Creatable(Global, GlobalInstances) :
       booted' = booted \cup BootedBy(Global, some)
  /\ stage' = "rejected"
  /\ session' = FALSE
  /\ UNCHANGED <<config, reporters, provided, live, file, env>>

\* teardown(), after the last file.
Teardown ==
  /\ stage = "files"
  /\ \A f \in Files : file[f].pc = "done"
  /\ stage' = "over"
  /\ session' = FALSE
  /\ live' = {}
  /\ UNCHANGED <<config, reporters, provided, booted, file, env>>

-----------------------------------------------------------------------------
(* A test file                                                             *)

Source(f) == config.sources[f]

\* The declarations of the file's beforeAll().
Declarations(f) ==
  IF config.mode = "project" THEN config.project.containers
  ELSE DeclaredBy(Source(f))

Dedicated(f) == Instances(OfIsolation(Declarations(f), "dedicated"))
SharedBy(f)  == Instances(OfIsolation(Declarations(f), "shared"))

\* In project mode every file starts the application there is, in annotation
\* mode a marked one, whether there is an application or not.
StartsApplication(f) ==
  IF config.mode = "project" THEN config.project.application
  ELSE ApplicationClasses(Source(f)) # {}

Idle(w) == \A f \in Files : file[f].pc \notin {"pending", "done"} => file[f].worker # w

Fails(f, why) == file' = [file EXCEPT ![f].pc = "failed", ![f].why = why]

\* A worker evaluates the test file and its decorators.
Evaluate(w, f) ==
  /\ stage = "files" /\ file[f].pc = "pending" /\ Idle(w)
  /\ file' = [file EXCEPT ![f] =
       IF \A i \in RequiredClasses(Source(f)) : EvaluatesDecorator(Source(f).classes[i])
       THEN [@ EXCEPT !.pc = "evaluated", !.worker = w]
       ELSE [@ EXCEPT !.pc = "done", !.why = "module"]]
  /\ UNCHANGED <<config, stage, session, reporters, provided, booted, live, env>>

\* consumeRequiredContainerClass(), consumeApplicationIntegrationTestClass()
\* and the comparison of the two classes.
MarkersAgree(f) ==
  LET required    == RequiredClasses(Source(f))
      application == ApplicationClasses(Source(f)) IN
  /\ Cardinality(required) <= 1
  /\ Cardinality(application) <= 1
  /\ application \subseteq required

\* beforeAll() up to the start of the dedicated containers: in either mode the
\* markers must agree.
BeforeAll(f) ==
  /\ file[f].pc = "evaluated"
  /\ IF ~MarkersAgree(f) THEN Fails(f, "markers")
     ELSE IF ~Selectable(provided, SharedBy(f)) THEN Fails(f, "select")
     ELSE file' = [file EXCEPT ![f].pc = "boot",
                               ![f].shared = Select(provided, SharedBy(f))]
  /\ UNCHANGED <<config, stage, session, reporters, provided, booted, live, env>>

\* An adapter cannot be created, when others may have started already, or does
\* not boot: the catch of start() stops those that did.
BootFails(f) ==
  /\ file[f].pc = "boot"
  /\ \/ Fails(f, "boot")
     \/ Dedicated(f) # Creatable(f, Dedicated(f)) /\ Fails(f, "create")
  /\ \E some \in SUBSET Creatable(f, Dedicated(f)) :
       booted' = booted \cup BootedBy(f, some)
  /\ UNCHANGED <<config, stage, session, reporters, provided, live, env>>

\* The dedicated containers are up, and the file has all its resources.
DedicatedReady(f) ==
  /\ file[f].pc = "boot"
  /\ Dedicated(f) = Creatable(f, Dedicated(f))
  /\ LET dedicated == BootedBy(f, Dedicated(f)) IN
     /\ booted' = booted \cup dedicated
     /\ IF Mergeable(file[f].shared, FromNamed(dedicated))
        THEN /\ live' = live \cup dedicated
             /\ file' = [file EXCEPT ![f].pc = IF StartsApplication(f) THEN "bind" ELSE "tests",
                           ![f].resources = Merge(file[f].shared, FromNamed(dedicated))]
        ELSE Fails(f, "merge") /\ UNCHANGED live
  /\ UNCHANGED <<config, stage, session, reporters, provided, env>>

\* What a binding evaluates to in file f.
ValueOf(f, reference) ==
  LET r == file[f].resources[reference.container] IN
  <<r.owner, r.name, reference.property>>

\* controller.start() after the containers: resolve, save and install.
Bind(f) ==
  LET bindings == config.project.environment
      w == file[f].worker IN
  /\ file[f].pc = "bind"
  /\ IF config.project.application /\ Resolves(bindings, Declarations(f))
     THEN /\ file' = [file EXCEPT ![f].pc = "application",
                        ![f].saved = [v \in DOMAIN bindings |-> env[w][v]]]
          /\ env' = [env EXCEPT ![w] = Merge([v \in DOMAIN bindings |-> ValueOf(f, bindings[v])], @)]
          /\ UNCHANGED live
     ELSE /\ Fails(f, IF config.project.application THEN "bindings" ELSE "support")
          /\ live' = {r \in live : r.owner # f}
          /\ UNCHANGED env
  /\ UNCHANGED <<config, stage, session, reporters, provided, booted>>

\* The instances the application is started with: those of the marked class in
\* either mode, and without one all that the file declares.
ApplicationInstances(f) ==
  IF ApplicationClasses(Source(f)) # {} THEN DeclaredBy(Source(f)) ELSE Declarations(f)

HasInstances(f) ==
  \A d \in ApplicationInstances(f) : HasNamed(file[f].resources, d.name, d.kind)

\* manager.start(), manager.startForInstances()
ApplicationStarts(f) ==
  /\ file[f].pc = "application"
  /\ HasInstances(f)
  /\ file' = [file EXCEPT ![f].pc = "tests"]
  /\ UNCHANGED <<config, stage, session, reporters, provided, booted, live, env>>

\* Mutant: only variables that were set before are put back.
RestoreSet(f, values) ==
  Merge([v \in {u \in DOMAIN file[f].saved : file[f].saved[u] # Unset} |-> file[f].saved[v]],
        values)

\* The callback of installProcessEnvironment(), once.
Restore(f, values) == Merge(file[f].saved, values)

\* Mutant: the file releases the shared containers it has, too.
StopsAll(f) ==
  /\ live' = {r \in live : r.name \notin NamesOf(Declarations(f))}
  /\ env' = [env EXCEPT ![file[f].worker] = Restore(f, @)]

\* controller.stop(): in the catch of start() or in afterAll().
Stops(f) ==
  /\ live' = {r \in live : r.owner # f}
  /\ env' = [env EXCEPT ![file[f].worker] = Restore(f, @)]

\* The manager misses an instance, or the application rejects.
ApplicationFails(f) ==
  /\ file[f].pc = "application"
  /\ Stops(f)
  /\ file' = [file EXCEPT ![f].pc = "failed", ![f].saved = <<>>,
                 ![f].why = IF HasInstances(f) THEN "application" ELSE "instances"]
  /\ UNCHANGED <<config, stage, session, reporters, provided, booted>>

\* The tests are over, or were skipped as beforeAll() rejected.
AfterAll(f) ==
  /\ file[f].pc \in {"tests", "failed"}
  /\ Stops(f)
  /\ file' = [file EXCEPT ![f].pc = "done", ![f].saved = <<>>]
  /\ UNCHANGED <<config, stage, session, reporters, provided, booted>>

RunIsOver == stage \in {"rejected", "over"} /\ UNCHANGED vars

FileStep(f) ==
  \/ \E w \in Workers : Evaluate(w, f)
  \/ BeforeAll(f) \/ BootFails(f) \/ DedicatedReady(f)
  \/ Bind(f) \/ ApplicationStarts(f) \/ ApplicationFails(f) \/ AfterAll(f)

Next ==
  \/ Define \/ Setup \/ SharedReady \/ SetupFails \/ Teardown
  \/ \E f \in Files : FileStep(f)
  \/ RunIsOver

Spec == Init /\ [][Next]_vars

-----------------------------------------------------------------------------
(* Properties                                                              *)

\* The processes agree: what the global setup provided is what a file selects
\* (container-file-context.ts:37), its names never collide with those of its
\* dedicated containers, every registry knows its kinds, and in project mode
\* a binding never names an unknown container.  Only a file that discovery
\* did not scan may miss a shared container; only such a file, or one with a
\* registry of its own, the adapter of a dedicated one; and in annotation mode
\* only a container without a name, which discovery lets pass and the decorator
\* refuses (required-container.ts:66), is started for a file that cannot be
\* loaded.  An application misses an instance only where a class that is marked
\* in project mode asks for one that the project does not declare.
\* And when the setup opens a session, the configuration has given the runner
\* the reporter that feeds it.
ProcessesAgree ==
  /\ session => \E i \in DOMAIN reporters : reporters[i] = "dashboard"
  /\ \A f \in Files :
    /\ file[f].why = "select" => config.mode = "annotation" /\ ~Source(f).scanned
    /\ file[f].why = "create" =>
         /\ config.mode = "annotation"
         /\ Source(f).scanned => Source(f).registry # DefaultRegistry
    /\ file[f].why = "module" /\ config.mode = "annotation" /\ Source(f).scanned =>
         "" \in NamesOf(DeclaredBy(Source(f)))
    /\ file[f].why # "merge"
    /\ file[f].why = "bindings" /\ config.mode = "project" =>
         \E v \in DOMAIN config.project.environment, d \in config.project.containers :
           /\ d.name = config.project.environment[v].container
           /\ config.project.environment[v].property \notin Scalars[d.kind]
    /\ file[f].why = "instances" =>
         /\ config.mode = "project"
         /\ \E d \in DeclaredBy(Source(f)) : \A e \in config.project.containers :
              d.name = e.name => d.kind # e.kind

\* Two scanned files that want one shared name with two kinds.
SharedConflict ==
  \E f, g \in Files : \E d \in DeclaredBy(Source(f)), e \in DeclaredBy(Source(g)) :
    /\ Source(f).scanned /\ Source(g).scanned
    /\ d.isolation = "shared" /\ e.isolation = "shared"
    /\ d.name = e.name /\ d.kind # e.kind

\* What the main process reads of the declarations is free of contradictions
\* before any container starts, one whose start then fails included.  In
\* annotation mode that is the scanned sources: "Dynamic keys, spreads, computed
\* expressions, missing isolation, duplicate names, and conflicting shared
\* name/kind declarations fail before containers start" (ARCHITECTURE.md:82).
\* In project mode it is the options: names are unique and a binding is of a
\* declared container.  A binding of an annotation project is looked up by each
\* file when its containers are up, and is not spoken of here.
ContradictionStartsNothing ==
  booted # {} =>
    /\ config.mode = "annotation" =>
         /\ ~SharedConflict
         /\ \A f \in Files : Source(f).scanned =>
              \A i \in RequiredClasses(Source(f)) :
                LET class == Source(f).classes[i] IN
                /\ class.literal
                /\ \A j, k \in DOMAIN class.entries :
                     /\ class.entries[j].isolation \in Isolations
                     /\ class.entries[j].name = class.entries[k].name => j = k
    /\ config.mode = "project" =>
         /\ \A d, e \in config.project.containers : d.name = e.name => d = e
         /\ \A v \in DOMAIN config.project.environment :
              config.project.environment[v].container \in NamesOf(config.project.containers)

\* A container is started from the definition of its own name: two containers
\* of one kind never take each other's options (container-project.ts:211).
OwnDefinition ==
  config.mode = "project" =>
    \A r \in booted : \E d \in config.project.containers :
      /\ r.name = d.name /\ r.kind = d.kind /\ r.options = d.options
      /\ r.owner = Global <=> d.isolation = "shared"

\* While a file's tests run, all its resources are up; a shared one is the one
\* every other file has, and a dedicated one is in no other file's hands.
FilesAreIsolated ==
  \A f \in Files : file[f].pc \in {"bind", "application", "tests"} =>
    \A d \in Declarations(f) :
      /\ HasNamed(file[f].resources, d.name, d.kind)
      /\ file[f].resources[d.name] \in live
      /\ file[f].resources[d.name].owner = IF d.isolation = "shared" THEN Global ELSE f

\* The application of a file reads the addresses of that file's containers,
\* and a worker starts its next file with the environment it had at first.
EnvironmentIsTheFiles ==
  \A w \in Workers :
    /\ Idle(w) => env[w] = OuterEnv
    /\ \A f \in Files : file[f].worker = w /\ file[f].pc = "application" =>
         \A v \in DOMAIN OuterEnv :
           env[w][v] = IF v \in DOMAIN config.project.environment
                       THEN ValueOf(f, config.project.environment[v]) ELSE OuterEnv[v]

=============================================================================
