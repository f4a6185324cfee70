------------------------------ MODULE MCTestRun ------------------------------
(***************************************************************************)
(* TestRun for TLC: two kinds in the catalog and one outside it, two files *)
(* and two workers, and the projects, bindings and annotated files below.  *)
(* They are every shape that a parser, a registry or a lookup tells apart. *)
(***************************************************************************)
EXTENDS TestRun

MCKinds == {"postgresql", "rabbitmq"}

MCScalars == [k \in MCKinds |->
  IF k = "postgresql" THEN {"host", "connectionUri"} ELSE {"host", "amqpUrl"}]

MCIdentifiers == {"DATABASE_URL", "BROKER_URL"}

MCOuterEnv == [v \in MCIdentifiers |-> IF v = "BROKER_URL" THEN "outer" ELSE Unset]

From(container, property) == [container |-> container, property |-> property]

\* No binding, a good one, one to a container that may be missing, one to a
\* property of another kind, and two bindings.
MCEnvironments ==
  {<<>>,
   [v \in {"DATABASE_URL"} |-> From("db", "connectionUri")],
   [v \in {"BROKER_URL"} |-> From("mq", "host")],
   [v \in {"BROKER_URL"} |-> From("db", "amqpUrl")],
   [v \in MCIdentifiers |-> From(IF v = "BROKER_URL" THEN "mq" ELSE "db", "host")]}

Options(containers, environments) ==
  {[containers |-> c, environment |-> e, application |-> a, isolate |-> i,
    dashboard |-> d, reporters |-> <<>>] :
      c \in containers, e \in environments, a \in BOOLEAN, i \in {TRUE},
      d \in {"absent"}}

\* Bindings are options of the application.
WellTyped(options) == {o \in options : ~o.application => o.environment = <<>>}

Def(name, kind, isolation) == Declare(name, kind, isolation, name)

\* Two definitions, of two kinds or of the same; one of them alone; none; one of
\* no kind there is; and a name that is defined twice.
MCContainers ==
  {{}, {Def("db", "redis", "shared")}, {Def("db", "postgresql", "shared")},
   {Def("db", "postgresql", i) : i \in Isolations}}
  \cup {{Def("db", "postgresql", i), Def("mq", k, j)} :
          i \in Isolations, j \in Isolations, k \in MCKinds}

MCProjects ==
  WellTyped(Options(MCContainers, MCEnvironments))
  \cup {[containers |-> {}, environment |-> <<>>, application |-> FALSE, isolate |-> i,
          dashboard |-> d, reporters |-> r] :
            i \in BOOLEAN, d \in DashboardOptions, r \in {<<>>, <<"json">>}}

MCAnnotations == WellTyped(Options({{}}, MCEnvironments))

Class(required, application, literal, entries) ==
  [required |-> required, application |-> application, literal |-> literal,
   entries |-> entries]

Postgres(isolation) == Def("db", "postgresql", isolation)
Rabbit(isolation)   == Def("mq", "rabbitmq", isolation)

One(entries) == <<Class(TRUE, FALSE, TRUE, entries)>>
App(entries) == <<Class(TRUE, TRUE, TRUE, entries)>>

MCClasses ==
  {<<>>,                                                   \* no marker
   One(<<>>),                                              \* an empty object
   App(<<Postgres("shared"), Rabbit("dedicated")>>),
   App(<<Postgres("dedicated"), Rabbit("shared")>>),
   One(<<Def("db", "rabbitmq", "shared")>>),               \* db of another kind
   One(<<Def("db", "redis", "dedicated")>>),               \* no such kind
   One(<<Def("", "postgresql", "shared")>>),               \* no name
   One(<<Postgres("shared"), Postgres("dedicated")>>),     \* a name twice
   One(<<Postgres("none")>>),                              \* no isolation
   <<Class(TRUE, FALSE, FALSE, <<Postgres("shared")>>)>>,  \* a computed key
   One(<<Postgres("shared")>>) \o One(<<Postgres("shared")>>),  \* two marked classes
   One(<<Postgres("shared")>>) \o <<Class(FALSE, TRUE, TRUE, <<>>)>>}  \* another class

\* What marks in project mode may do: nothing, keep a file from loading,
\* contradict each other, or ask for instances the project has or has not.
MCProjectClasses ==
  {<<>>, One(<<>>),
   One(<<Postgres("shared")>>) \o <<Class(FALSE, TRUE, TRUE, <<>>)>>,
   One(<<Rabbit("shared")>>),
   App(<<Postgres("shared")>>), App(<<Rabbit("dedicated")>>)}

Written(scanned, classes, registry) ==
  [scanned |-> scanned, classes |-> classes, registry |-> registry]

\* A registry that knows one name and no kind.
MCRegistry ==
  [named |-> [n \in {"db"} |-> [kind |-> "postgresql", options |-> "own"]], kinds |-> <<>>]

MCSources ==
  {Written(s, c, DefaultRegistry) : s \in BOOLEAN, c \in MCClasses}
  \cup {Written(TRUE, c, MCRegistry) :
          c \in {App(<<Postgres("shared"), Rabbit("dedicated")>>),
                 App(<<Postgres("dedicated"), Rabbit("shared")>>)}}

MCConfigs ==
  [mode : {"project"}, project : MCProjects,
   sources : [Files -> {Written(TRUE, c, DefaultRegistry) : c \in MCProjectClasses}]]
  \cup [mode : {"annotation"}, project : MCAnnotations, sources : [Files -> MCSources]]

=============================================================================
