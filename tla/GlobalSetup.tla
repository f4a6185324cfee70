---------------------------- MODULE GlobalSetup ----------------------------
(***************************************************************************)
(* The global setup and teardown that own the shared containers of a test  *)
(* run, for all the projects of the run.  The two runners differ in how    *)
(* the resources get to the workers: Jest's setup writes them to a file    *)
(* that one environment variable names, and keeps a state per root;        *)
(* Vitest's provides them to the project, and keeps them in a closure.     *)
(* The dashboard session of a project is registered under its root, where  *)
(* the workers look it up by the path of their test file.  The shared      *)
(* ContainerRuntime is taken at its contract.                              *)
(*                                                                         *)
(* The runner calls one hook at a time: first the setups, then the         *)
(* teardowns, which it may leave out when a setup failed.                  *)
(***************************************************************************)
EXTENDS SequencesExt

CONSTANTS
  Projects, \* the projects of the run
  Roots,    \* their root directories: paths, as sequences of names
  None,     \* no project
  Faults    \* what may fail, besides Docker

ASSUME GlobalSetupAssumption ==
  /\ None \notin Projects
  /\ \A root \in Roots : root \in Seq(STRING)
  /\ \A root, other \in Roots : other # Append(root, "file")  \* a test file is no root
  /\ Faults \subseteq {"discovery", "prepare", "cleanup", "directory", "file",
                       "provide", "removal", "token"}

VARIABLES
  runner,                \* whose setup this is: jest or vitest
  rootOf,                \* each project's root
  phase,                 \* of each project: new, ready, failed, over
  states,                \* what the finished setups left for their teardown
  path,                  \* the project whose file the environment variable names
  sessions,              \* the registry: root |-> project with a session
  current,               \* the project whose hook runs or ran last
  pc,                    \* of that hook
  caller,                \* who releases: a failing setup() or teardown()
  created,               \* does the hook have a ContainerRuntime?
  rtStart, rtStop, held, \* the runtime
  prepared,              \* is there something for preparationCleanup to undo?
  directory,             \* the temporary directory: none, empty, with the file
  session,               \* the dashboard session: none, up, finalized
  reported               \* the failures that the hook rejected with

Runtime == INSTANCE OwnedRuntime WITH start <- rtStart, stop <- rtStop

runtimeVars == <<rtStart, rtStop, held>>
runVars == <<runner, rootOf, phase, states, path, sessions, current>>
vars == <<runVars, pc, caller, created, runtimeVars, prepared, directory, session, reported>>

Between == {"idle", "ready", "failed", "over"}  \* no hook runs

Init ==
  /\ runner \in {"jest", "vitest"}
  /\ rootOf \in [Projects -> Roots]
  /\ phase = [p \in Projects |-> "new"]
  /\ states = <<>>
  /\ path = None
  /\ sessions = <<>>
  /\ current = None
  /\ pc = "idle"
  /\ caller = "setup"
  /\ created = FALSE
  /\ Runtime!Init
  /\ prepared = FALSE
  /\ directory = "none"
  /\ session = "none"
  /\ reported = {}

\* Where a setup leaves its state: the map of Jest is keyed by root.
Key(p) == IF runner = "jest" THEN rootOf[p] ELSE p

\* A map with an entry set, and with one deleted.
With(map, key, value) == [k \in DOMAIN map \cup {key} |-> IF k = key THEN value ELSE map[k]]
Without(map, key) == [k \in DOMAIN map \ {key} |-> map[k]]

-----------------------------------------------------------------------------
(* setup()                                                                 *)

\* The runner calls the setup of a project.  Under Jest a root that has a state
\* already needs nothing.
Setup(p) ==
  /\ pc \in Between /\ phase[p] = "new"
  /\ \A q \in Projects : phase[q] \in {"new", "ready"}
  /\ current' = p
  /\ IF runner = "jest" /\ Key(p) \in DOMAIN states
     THEN /\ phase' = [phase EXCEPT ![p] = "ready"]
          /\ pc' = "idle"
     ELSE pc' = "opening" /\ UNCHANGED phase
  /\ caller' = "setup"
  /\ created' = FALSE
  /\ rtStart' = "idle" /\ rtStop' = "idle" /\ held' = FALSE
  /\ prepared' = FALSE
  /\ directory' = "none"
  /\ session' = "none"
  /\ reported' = {}
  /\ UNCHANGED <<runner, rootOf, states, path, sessions>>

\* Mutant: the registry is written anew for every session.
RegisterAlone(p) == With(<<>>, rootOf[p], p)

\* registerDashboardSession(): the registry's entries and this one.
Register(p) == With(sessions, rootOf[p], p)

\* startDashboardSession(): no session without the option, or if its server or
\* its registration fails.
StartDashboardSession ==
  /\ pc = "opening"
  /\ \/ session' = "up" /\ sessions' = Register(current)
     \/ session' = "none" /\ UNCHANGED sessions
  /\ pc' = "discovery"
  /\ UNCHANGED <<runner, rootOf, phase, states, path, current, caller, created,
                 runtimeVars, prepared, directory, reported>>

\* The shared names are known: create the runtime and start them; it may refuse
\* them at once.
StartContainers ==
  /\ pc = "discovery"
  /\ created' = TRUE
  /\ Runtime!CallStart \/ Runtime!Refuse
  /\ pc' = "containers"
  /\ UNCHANGED <<runVars, caller, prepared, directory, session, reported>>

\* Where setup() goes on when the resources are prepared.
Publish == IF runner = "jest" THEN "directory" ELSE "provide"

ContainersReady ==
  /\ pc = "containers" /\ rtStart = "resolved"
  /\ pc' \in {"preparing", Publish}
  /\ UNCHANGED <<runVars, caller, created, runtimeVars, prepared, directory, session, reported>>

\* prepareResources() returned, with a cleanup or without.
ResourcesPrepared ==
  /\ pc = "preparing"
  /\ prepared' \in BOOLEAN
  /\ pc' = Publish
  /\ UNCHANGED <<runVars, caller, created, runtimeVars, directory, session, reported>>

DirectoryMade ==
  /\ pc = "directory"
  /\ directory' = "empty"
  /\ pc' = "file"
  /\ UNCHANGED <<runVars, caller, created, runtimeVars, prepared, session, reported>>

\* What the teardown of the current project will need.
Leave(dir) ==
  /\ states' = With(states, Key(current), [held |-> held, prepared |-> prepared,
                                           directory |-> dir, session |-> session])
  /\ phase' = [phase EXCEPT ![current] = "ready"]
  /\ pc' = "ready"
  /\ UNCHANGED <<runner, rootOf, sessions, current, caller, created, runtimeVars,
                 prepared, session, reported>>

\* The file is written; the variable and the state of the root are set.
FileWritten ==
  /\ pc = "file"
  /\ directory' = "file"
  /\ path' = current
  /\ Leave("file")

Provided == pc = "provide" /\ Leave(directory) /\ UNCHANGED <<directory, path>>

\* Something threw: the catch releases what there is.
SetupFails ==
  /\ \/ pc = "discovery" /\ "discovery" \in Faults
     \/ pc = "containers" /\ rtStart = "rejected"
     \/ pc = "preparing" /\ "prepare" \in Faults
     \/ pc = "directory" /\ "directory" \in Faults
     \/ pc = "file" /\ "file" \in Faults
     \/ pc = "provide" /\ "provide" \in Faults
  /\ pc' = "cleanup"
  /\ reported' = {"setup"}
  /\ UNCHANGED <<runVars, caller, created, runtimeVars, prepared, directory, session>>

-----------------------------------------------------------------------------
(* teardown()                                                              *)

\* What the teardown of p finds of its setup.
Take(p) ==
  /\ caller' = "teardown"
  /\ created' = TRUE
  /\ rtStart' = "resolved" /\ rtStop' = "idle" /\ held' = states[Key(p)].held
  /\ prepared' = states[Key(p)].prepared
  /\ directory' = states[Key(p)].directory
  /\ session' = states[Key(p)].session
  /\ reported' = {}

Tears(p) ==
  /\ pc \in Between /\ phase[p] = "ready"
  /\ \/ \A q \in Projects : phase[q] # "new"
     \/ \E q \in Projects : phase[q] \in {"failed", "over"}
  /\ current' = p
  /\ phase' = [phase EXCEPT ![p] = "over"]
  /\ UNCHANGED <<runner, rootOf, sessions>>

\* Mutant: the variable is deleted when everything else is released.
TeardownKeepsPath(p) ==
  /\ Tears(p) /\ Key(p) \in DOMAIN states
  /\ Take(p)
  /\ states' = Without(states, Key(p))
  /\ pc' = "cleanup"
  /\ UNCHANGED path

\* Mutant: the containers are stopped without the cleanup.
TeardownStopsFirst(p) ==
  /\ Tears(p) /\ Key(p) \in DOMAIN states
  /\ Take(p)
  /\ states' = Without(states, Key(p))
  /\ path' = None
  /\ pc' = "stop"

\* The state and the variable go first, whosever file it names, then what they
\* stand for.
Teardown(p) ==
  /\ Tears(p) /\ Key(p) \in DOMAIN states
  /\ Take(p)
  /\ states' = Without(states, Key(p))
  /\ path' = None
  /\ pc' = "cleanup"

\* The teardown of another project with this root took the state.
TeardownOfNothing(p) ==
  /\ Tears(p) /\ Key(p) \notin DOMAIN states
  /\ pc' = "idle"
  /\ UNCHANGED <<states, path, caller, created, runtimeVars, prepared, directory,
                 session, reported>>

\* A failed setup() has left nothing to tear down: no state of the root for
\* Jest, no runtime and no session for Vitest.
TeardownAfterFailure(p) ==
  /\ pc \in Between /\ phase[p] = "failed"
  /\ phase' = [phase EXCEPT ![p] = "over"]
  /\ pc' = "idle"
  /\ UNCHANGED <<runner, rootOf, states, path, sessions, current, caller, created,
                 runtimeVars, prepared, directory, session, reported>>

-----------------------------------------------------------------------------
(* What both release, in this order, each step whatever became of the last *)

\* Mutant: a cleanup that throws ends the release.
CleanupEndsRelease ==
  /\ pc = "cleanup"
  /\ \/ prepared' = FALSE /\ UNCHANGED reported /\ pc' = "stop"
     \/ /\ prepared /\ "cleanup" \in Faults
        /\ reported' = reported \cup {"cleanup"} /\ UNCHANGED prepared
        /\ pc' = "session"
  /\ UNCHANGED <<runVars, caller, created, runtimeVars, directory, session>>

\* preparationCleanup(), if there is one.
CleanupSettles ==
  /\ pc = "cleanup"
  /\ \/ prepared' = FALSE /\ UNCHANGED reported
     \/ /\ prepared /\ "cleanup" \in Faults
        /\ reported' = reported \cup {"cleanup"} /\ UNCHANGED prepared
  /\ pc' = "stop"
  /\ UNCHANGED <<runVars, caller, created, runtimeVars, directory, session>>

\* runtime.stop(), if there is a runtime; after a failed start it has been
\* called, and its promise is awaited again.
StopRuntime ==
  /\ pc = "stop"
  /\ IF created
       THEN /\ pc' = "stopping"
            /\ IF rtStop = "idle" THEN Runtime!CallStop ELSE UNCHANGED runtimeVars
       ELSE pc' = "removal" /\ UNCHANGED runtimeVars
  /\ UNCHANGED <<runVars, caller, created, prepared, directory, session, reported>>

\* Mutant: the runtime's stop is not awaited.
RuntimeNotAwaited ==
  /\ pc = "stopping"
  /\ pc' = "removal"
  /\ UNCHANGED <<runVars, caller, created, runtimeVars, prepared, directory, session, reported>>

\* Mutant: a rejected stop is awaited for ever.
RuntimeResolved ==
  /\ pc = "stopping" /\ rtStop = "resolved"
  /\ pc' = "removal"
  /\ UNCHANGED <<runVars, caller, created, runtimeVars, prepared, directory, session, reported>>

RuntimeStopped ==
  /\ pc = "stopping" /\ rtStop \in {"resolved", "rejected"}
  /\ reported' = IF rtStop = "rejected" THEN reported \cup {"containers"} ELSE reported
  /\ pc' = "removal"
  /\ UNCHANGED <<runVars, caller, created, runtimeVars, prepared, directory, session>>

\* rm(directory), if it was made; Vitest makes none.
DirectoryRemoved ==
  /\ pc = "removal"
  /\ \/ directory' = "none" /\ UNCHANGED reported
     \/ /\ directory # "none" /\ "removal" \in Faults
        /\ reported' = reported \cup {"removal"} /\ UNCHANGED directory
  /\ pc' = "session"
  /\ UNCHANGED <<runVars, caller, created, runtimeVars, prepared, session>>

\* finalizeDashboardSession() never throws: the entry of the root is removed,
\* whosever it is by now, or stays if the registry cannot be written.  Then
\* setup() rejects, or teardown() settles.
SessionFinalized ==
  /\ pc = "session"
  /\ IF session = "up"
       THEN /\ session' = "finalized"
            /\ \/ sessions' = Without(sessions, rootOf[current])
               \/ "token" \in Faults /\ UNCHANGED sessions
       ELSE UNCHANGED <<session, sessions>>
  /\ IF caller = "setup"
       THEN pc' = "failed" /\ phase' = [phase EXCEPT ![current] = "failed"]
       ELSE pc' = "over" /\ UNCHANGED phase
  /\ UNCHANGED <<runner, rootOf, states, path, current, caller, created,
                 runtimeVars, prepared, directory, reported>>

-----------------------------------------------------------------------------

RuntimeStep ==
  /\ Runtime!Boot \/ Runtime!Progress \/ Runtime!Release \/ Runtime!StopSettles
  /\ UNCHANGED <<runVars, pc, caller, created, prepared, directory, session, reported>>

SetupStep ==
  \/ StartContainers \/ ContainersReady \/ ResourcesPrepared
  \/ DirectoryMade \/ FileWritten \/ Provided \/ SetupFails

ReleaseStep ==
  \/ CleanupSettles \/ StopRuntime \/ RuntimeStopped \/ DirectoryRemoved
  \/ SessionFinalized

\* The run is over.
Over ==
  /\ pc \in Between
  /\ \A p \in Projects : phase[p] # "ready"
  /\ \E p \in Projects : phase[p] \in {"failed", "over"}
  /\ UNCHANGED vars

Next ==
  \/ \E p \in Projects :
       Setup(p) \/ Teardown(p) \/ TeardownOfNothing(p) \/ TeardownAfterFailure(p)
  \/ StartDashboardSession \/ SetupStep \/ ReleaseStep
  \/ RuntimeStep
  \/ Over

\* Continuations run, callbacks and files settle, and the runtime keeps its
\* contract; nothing obliges the runner to call setup() or teardown().
Fairness ==
  /\ WF_vars(SetupStep)
  /\ WF_vars(ReleaseStep)
  /\ WF_vars(RuntimeStep /\ Runtime!Progress)
  /\ WF_vars(RuntimeStep /\ Runtime!StopSettles)

Spec == Init /\ [][Next]_vars /\ Fairness

-----------------------------------------------------------------------------
(* Properties                                                              *)

\* Whatever failed, when a failing setup() rejects or teardown() settles all
\* that the project owned is released, or it has reported the release that
\* failed; its session is over in any case, and nobody is sent to its file.
EverythingIsReleased ==
  pc \in {"failed", "over"} =>
    /\ prepared => "cleanup" \in reported
    /\ held => "containers" \in reported
    /\ directory # "none" => "removal" \in reported
    /\ session # "up" /\ path # current

\* A worker that finds the variable finds the file, and containers that nobody
\* has begun to stop, also while other projects are set up and torn down.
ResourcePathIsLive ==
  path # None =>
    /\ Key(path) \in DOMAIN states
    /\ states[Key(path)].directory = "file"
    /\ phase[path] = "ready"

\* The session of a project, from its registration to its end.
Open(p) ==
  \/ p = current /\ session = "up"
  \/ Key(p) \in DOMAIN states /\ states[Key(p)].session = "up"

\* dashboardDescriptorFor(): the session with the longest root that holds the file.
DescriptorFor(file) ==
  LET roots == {root \in DOMAIN sessions : IsPrefix(root, file)}
  IN  IF roots = {} THEN None
      ELSE sessions[CHOOSE root \in roots : \A r \in roots : Len(r) <= Len(root)]

\* The events of a test file reach the session of its own project, whatever
\* sessions other roots open and finalize, also roots around it and within it.
\* Projects that share a root share its one entry: of them nothing is said.
SessionsAreFound ==
  \A p \in Projects :
    Open(p) /\ (\A q \in Projects \ {p} : rootOf[q] # rootOf[p]) =>
      DescriptorFor(Append(rootOf[p], "file")) = p

\* The preparation is undone while the containers are up: once setup() has
\* prepared something, no container goes down before its cleanup was tried.
CleanupPrecedesStop ==
  [][pc \notin Between /\ held /\ ~held' /\ prepared => "cleanup" \in reported]_vars

\* The final report of the dashboard covers the shared containers' cleanup:
\* the session is finalized when none of them goes down any more.
SessionEndsLast == session = "finalized" => rtStop \in {"resolved", "rejected"} \/ ~created

\* A setup() that fails rejects, although it awaits a stop that the failing
\* start may be running, and a teardown() settles.
ReleaseEnds == pc = "cleanup" ~> pc \in {"failed", "over"}

=============================================================================
