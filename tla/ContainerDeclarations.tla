------------------------ MODULE ContainerDeclarations ------------------------
(***************************************************************************)
(* What a project declares and how each process reads it: the definitions  *)
(* of a container project (container-project.ts), the bindings of its      *)
(* environment, the @RequiredContainer classes of annotated test files,    *)
(* their static discovery, and the registry that creates adapters.         *)
(*                                                                         *)
(* A definition is a record with the fields name, kind, isolation and      *)
(* options.  A project's containers are a set of definitions; an object    *)
(* literal in a test file is a sequence of them, where a name may occur    *)
(* twice.  A parser that throws is the negation of a predicate here.       *)
(***************************************************************************)
EXTENDS Naturals, Sequences, FiniteSets

CONSTANTS
  BuiltInKinds,  \* the kinds of the Container catalog
  Scalars,       \* kind |-> the scalar properties of its resource
  Identifiers    \* the variable names the parsers accept

ASSUME DeclarationsAssumption ==
  Scalars \in [BuiltInKinds -> SUBSET STRING]

Isolations == {"shared", "dedicated"}

NamesOf(definitions) == {d.name : d \in definitions}

OfIsolation(definitions, isolation) ==
  {d \in definitions : d.isolation = isolation}

-----------------------------------------------------------------------------
(* Dashboard options                                                       *)

\* "outside": an outputDirectory that leaves the runner's root.
DashboardOptions == {"absent", "false", "true", "options", "unknown", "outside"}

DashboardIsOn(option) == option \notin {"absent", "false"}

\* serializeIntegrationDashboard() normalizes the shorthand, else parses.
ParsesDashboard(option) == option \notin {"unknown", "outside"}

\* Mutant: the dashboard's reporter is added to configured reporters only.
AddToConfigured(option, reporters) ==
  IF DashboardIsOn(option) /\ reporters # <<>>
  THEN reporters \o <<"dashboard">> ELSE reporters

\* dashboardReporters(): the configured reporters, and the dashboard's.
DashboardReporters(option, reporters) ==
  IF ~DashboardIsOn(option) THEN reporters
  ELSE (IF reporters = <<>> THEN <<"default">> ELSE reporters) \o <<"dashboard">>

-----------------------------------------------------------------------------
(* Explicit projects                                                       *)

\* postgreSql(...), rabbitMq(...), mongoDb(...), sqlServer(...): the kind of
\* the builder, the isolation split off the adapter's options.
Declare(name, kind, isolation, options) ==
  [name |-> name, kind |-> kind, isolation |-> isolation, options |-> options]

\* Mutant: the bindings' containers are not looked up among the declared.
ParsesBindings(environment, containers) ==
  \A v \in DOMAIN environment :
    v \in Identifiers /\ environment[v].property # ""

\* parseContainerEnvironment(): every binding is of a declared container.
ParsesContainerEnvironment(environment, containers) ==
  \A v \in DOMAIN environment :
    /\ v \in Identifiers
    /\ environment[v].property # ""
    /\ environment[v].container \in NamesOf(containers)

\* parseContainerProject() accepts the project.
ParsesContainerProject(project) ==
  /\ \A d \in project.containers :
       /\ d.name # "" /\ d.kind \in BuiltInKinds
       /\ d.isolation \in Isolations
  /\ \A d, e \in project.containers : d.name = e.name => d = e
  /\ ParsesContainerEnvironment(project.environment, project.containers)
  /\ ParsesDashboard(project.dashboard)

\* containerProjectInstances(project, isolation), as name and kind.
Instances(definitions) == {[name |-> d.name, kind |-> d.kind] : d \in definitions}

\* parseAnnotationProject(): the containers of the bindings are unknown here.
ParsesAnnotationProject(project) ==
  /\ \A v \in DOMAIN project.environment :
       /\ v \in Identifiers
       /\ project.environment[v].property # ""
       /\ project.environment[v].container # ""
  /\ ParsesDashboard(project.dashboard)

-----------------------------------------------------------------------------
(* Registries: kind |-> adapter, name |-> kind and adapter                 *)

AdapterOf(definition) == [kind |-> definition.kind, options |-> definition.options]

UniqueKinds(containers) ==
  {k \in BuiltInKinds : Cardinality({d \in containers : d.kind = k}) = 1}

\* createContainerProjectRegistry(): a factory of its own for every name,
\* which is also its kind's when no other definition has that kind.
ProjectRegistry(containers) ==
  [named |-> [n \in NamesOf(containers) |->
                AdapterOf(CHOOSE d \in containers : d.name = n)],
   kinds |-> [k \in UniqueKinds(containers) |->
                AdapterOf(CHOOSE d \in containers : d.kind = k)]]

\* createDefaultContainerRegistry(): every built-in kind, no name.
DefaultRegistry ==
  [named |-> <<>>,
   kinds |-> [k \in BuiltInKinds |-> [kind |-> k, options |-> "default"]]]

\* createInstance(name, kind) does not throw.
Creates(registry, instance) ==
  IF instance.name \in DOMAIN registry.named
  THEN registry.named[instance.name].kind = instance.kind
  ELSE instance.kind \in DOMAIN registry.kinds

\* Mutant: the kind's factory comes before the one of the name.
CreateByKind(registry, instance) ==
  IF instance.kind \in DOMAIN registry.kinds
  THEN registry.kinds[instance.kind]
  ELSE CHOOSE a \in {registry.named[n] : n \in DOMAIN registry.named} :
         a.kind = instance.kind

CreateInstance(registry, instance) ==
  IF instance.name \in DOMAIN registry.named
  THEN registry.named[instance.name]
  ELSE registry.kinds[instance.kind]

-----------------------------------------------------------------------------
(* Annotated test files                                                    *)
(*                                                                         *)
(* A file's source has a field scanned (its name ends with the suffix the  *)
(* discovery looks for) and a sequence of classes.  A class tells whether  *)
(* @RequiredContainer and @ApplicationIntegrationTest decorate it, the     *)
(* entries of its object literal, and whether they are all literal.        *)

RequiredClasses(source) ==
  {i \in DOMAIN source.classes : source.classes[i].required}

ApplicationClasses(source) ==
  {i \in DOMAIN source.classes : source.classes[i].application}

\* readRequiredContainerDecorator(), readDefinition(), readKind() and
\* readIsolation() accept what they read of the class.
ReadsDecorator(class) ==
  LET entries == class.entries IN
  /\ class.literal
  /\ entries # <<>>
  /\ \A i, j \in DOMAIN entries : entries[i].name = entries[j].name => i = j
  /\ \A i \in DOMAIN entries :
       entries[i].kind \in BuiltInKinds /\ entries[i].isolation \in Isolations

\* What the decorator keeps at run time: an object has the last entry of a name.
RuntimeDefinitions(class) ==
  LET entries == class.entries IN
  {entries[i] : i \in {j \in DOMAIN entries :
      \A k \in DOMAIN entries : entries[k].name = entries[j].name => k <= j}}

\* parseRuntimeDefinitions() accepts the object: a kind is any string.
EvaluatesDecorator(class) ==
  /\ class.entries # <<>>
  /\ \A i \in DOMAIN class.entries :
       class.entries[i].name # "" /\ class.entries[i].isolation \in Isolations

\* discoverRequiredContainerFiles(): one readable declaration per scanned file.
DiscoversFile(source) ==
  /\ \A i \in RequiredClasses(source) : ReadsDecorator(source.classes[i])
  /\ Cardinality(RequiredClasses(source)) = 1

\* The declarations of a file with one @RequiredContainer class.
DeclaredBy(source) ==
  UNION {RuntimeDefinitions(source.classes[i]) : i \in RequiredClasses(source)}

\* Mutant: only what each file says by itself is looked at.
DiscoversEachFile(sources) ==
  \A f \in DOMAIN sources : sources[f].scanned => DiscoversFile(sources[f])

\* discoverSharedContainerInstances() accepts the files: two of them give a
\* shared name one kind.
DiscoversShared(sources) ==
  LET scanned == {f \in DOMAIN sources : sources[f].scanned} IN
  /\ \A f \in scanned : DiscoversFile(sources[f])
  /\ \A f, g \in scanned :
       \A d \in OfIsolation(DeclaredBy(sources[f]), "shared"),
          e \in OfIsolation(DeclaredBy(sources[g]), "shared") :
         d.name = e.name => d.kind = e.kind

SharedInstances(sources) ==
  UNION {Instances(OfIsolation(DeclaredBy(sources[f]), "shared")) :
           f \in {g \in DOMAIN sources : sources[g].scanned}}

\* resolveContainerEnvironment() does not throw: every binding names a
\* scalar property of a declared container.
Resolves(environment, declarations) ==
  \A v \in DOMAIN environment :
    \E d \in declarations :
      /\ d.name = environment[v].container
      /\ environment[v].property \in Scalars[d.kind]

=============================================================================
