-------------------------- MODULE GlobalSetupProofs --------------------------
(***************************************************************************)
(* Theorems about the global setup of either runner, for any number of     *)
(* projects and roots, whatever fails and whatever the shared runtime does *)
(* within the contract OwnedRuntime: what a failed setup() and a           *)
(* teardown() release, in which order, and that no worker is sent to       *)
(* resources that another project's teardown took away.                    *)
(***************************************************************************)
EXTENDS GlobalSetup, SequenceTheorems, TLAPS

Left == [held : BOOLEAN, prepared : BOOLEAN, directory : {"none", "empty", "file"},
         session : {"none", "up"}]

SetupSteps   == {"opening", "discovery", "containers", "preparing", "directory", "file", "provide"}
ReleaseSteps == {"cleanup", "stop", "stopping", "removal", "session"}

TypeOK ==
  /\ runner \in {"jest", "vitest"} /\ path \in Projects \cup {None}
  /\ phase \in [Projects -> {"new", "ready", "failed", "over"}]
  /\ pc \in Between \cup SetupSteps \cup ReleaseSteps
  /\ pc # "idle" => current \in Projects
  /\ caller \in {"setup", "teardown"}
  /\ created \in BOOLEAN /\ held \in BOOLEAN /\ prepared \in BOOLEAN
  /\ rtStart \in Runtime!StartStates /\ rtStop \in Runtime!StopStates
  /\ directory \in {"none", "empty", "file"}
  /\ session \in {"none", "up", "finalized"}

\* What setups leave is what a teardown can take: no session that is over.
StatesInv == \A key \in DOMAIN states : states[key] \in Left

\* The phase of the project whose hook runs, or ran to an end that matters.
PhaseInv ==
  /\ pc \in SetupSteps => caller = "setup"
  /\ pc \in SetupSteps \cup ReleaseSteps =>
       phase[current] = IF caller = "setup" THEN "new" ELSE "over"
  /\ pc \in {"failed", "over"} => phase[current] = pc

\* The runtime: its promises settle while the hook awaits them, and what it
\* has up when both have settled is up because its stop rejected.
RuntimeInv ==
  /\ ~created => rtStart = "idle" /\ rtStop = "idle" /\ ~held
  /\ pc \in {"opening", "discovery"} => ~created
  /\ rtStart \in {"pending", "failing"} => pc = "containers"
  /\ rtStart = "pending" => rtStop = "idle"
  /\ rtStop = "pending" => pc = "stopping" \/ rtStart = "failing"
  /\ rtStop = "resolved" => ~held
  /\ pc = "stopping" => created /\ rtStop # "idle"

\* Each release has been tried when the next one begins, and reported if it failed.
ReleaseInv ==
  /\ pc \in {"opening", "discovery", "containers", "preparing"} => ~prepared
  /\ pc \in {"stop", "stopping", "removal", "session", "failed", "over"} /\ prepared =>
       "cleanup" \in reported
  /\ pc \in {"removal", "session", "failed", "over"} /\ created =>
       /\ rtStop \in {"resolved", "rejected"}
       /\ rtStop = "rejected" => "containers" \in reported
  /\ pc \in {"session", "failed", "over"} /\ directory # "none" => "removal" \in reported
  /\ session = "finalized" => pc \in {"idle", "failed", "over"}
  /\ pc \in {"failed", "over"} => session # "up"

PathInv == path # None => runner = "jest" /\ pc # "provide"

PublishInv == (pc \in {"directory", "file"} => runner = "jest") /\ (pc = "provide" => runner = "vitest")

SetupInv ==
  /\ TypeOK /\ StatesInv /\ PhaseInv /\ RuntimeInv /\ ReleaseInv /\ PublishInv
  /\ PathInv /\ ResourcePathIsLive /\ SessionEndsLast

-----------------------------------------------------------------------------

LEMMA InitHolds == Init => SetupInv
<1> SUFFICES ASSUME Init PROVE SetupInv
  OBVIOUS
<1>1. DOMAIN states = {}
  BY DEF Init
<1> QED
  BY <1>1 DEF Init, Runtime!Init, Runtime!StartStates, Runtime!StopStates, Between,
     SetupInv, TypeOK, StatesInv, PhaseInv, RuntimeInv, ReleaseInv, PublishInv, PathInv,
     ResourcePathIsLive, SessionEndsLast, SetupSteps, ReleaseSteps

-----------------------------------------------------------------------------
(* The hooks the runner calls                                              *)

LEMMA SetupKeeps ==
  ASSUME SetupInv, NEW p \in Projects, Setup(p)
  PROVE  SetupInv'
<1> USE DEF SetupInv, Between, SetupSteps, ReleaseSteps
<1>1. /\ current' = p /\ phase[p] = "new" /\ caller' = "setup"
      /\ created' = FALSE /\ rtStart' = "idle" /\ rtStop' = "idle" /\ held' = FALSE
      /\ prepared' = FALSE /\ directory' = "none" /\ session' = "none"
      /\ UNCHANGED <<runner, rootOf, states, path>>
      /\ \/ phase' = [phase EXCEPT ![p] = "ready"] /\ pc' = "idle"
         \/ pc' = "opening" /\ UNCHANGED phase
  BY DEF Setup
<1>2. TypeOK'
  BY <1>1 DEF TypeOK, Runtime!StartStates, Runtime!StopStates
<1>3. StatesInv'
  BY <1>1 DEF StatesInv
<1>4. PhaseInv'
  BY <1>1 DEF PhaseInv, TypeOK
<1>5. RuntimeInv' /\ ReleaseInv' /\ PublishInv' /\ PathInv' /\ SessionEndsLast'
  BY <1>1 DEF RuntimeInv, ReleaseInv, PublishInv, PathInv, SessionEndsLast
<1>6. ResourcePathIsLive'
  BY <1>1 DEF ResourcePathIsLive, Key, TypeOK
<1> QED BY <1>2, <1>3, <1>4, <1>5, <1>6

LEMMA TeardownKeeps ==
  ASSUME SetupInv, NEW p \in Projects, Teardown(p)
  PROVE  SetupInv'
<1> USE DEF SetupInv, Between, SetupSteps, ReleaseSteps
<1>1. /\ current' = p /\ phase' = [phase EXCEPT ![p] = "over"] /\ caller' = "teardown"
      /\ created' = TRUE /\ rtStart' = "resolved" /\ rtStop' = "idle"
      /\ path' = None /\ pc' = "cleanup" /\ UNCHANGED <<runner, rootOf>>
      /\ states' = Without(states, Key(p))
  BY DEF Teardown, Tears, Take
<1>2. /\ held' \in BOOLEAN /\ prepared' \in BOOLEAN
      /\ directory' \in {"none", "empty", "file"} /\ session' \in {"none", "up"}
  BY DEF Teardown, Take, StatesInv, Left
<1>3. TypeOK'
  BY <1>1, <1>2 DEF TypeOK, Runtime!StartStates, Runtime!StopStates
<1>4. StatesInv'
  BY <1>1 DEF StatesInv, Without
<1>5. PhaseInv'
  BY <1>1 DEF PhaseInv, TypeOK
<1>6. RuntimeInv' /\ ReleaseInv' /\ PublishInv' /\ PathInv' /\ ResourcePathIsLive' /\ SessionEndsLast'
  BY <1>1, <1>2 DEF RuntimeInv, ReleaseInv, PublishInv, PathInv, ResourcePathIsLive, SessionEndsLast
<1> QED BY <1>3, <1>4, <1>5, <1>6

LEMMA TeardownOfNothingKeeps ==
  ASSUME SetupInv, NEW p \in Projects, TeardownOfNothing(p)
  PROVE  SetupInv'
<1> USE DEF SetupInv, Between, SetupSteps, ReleaseSteps
<1>1. /\ current' = p /\ phase' = [phase EXCEPT ![p] = "over"] /\ pc' = "idle"
      /\ pc \in Between /\ Key(p) \notin DOMAIN states
      /\ UNCHANGED <<runner, rootOf, states, path, caller, created, rtStart, rtStop, held,
                    prepared, directory, session, reported>>
  BY DEF TeardownOfNothing, Tears, runtimeVars
<1>2. TypeOK' /\ StatesInv'
  BY <1>1 DEF TypeOK, StatesInv
<1>3. PhaseInv' /\ RuntimeInv' /\ ReleaseInv' /\ PublishInv' /\ PathInv' /\ SessionEndsLast'
  BY <1>1 DEF PhaseInv, RuntimeInv, ReleaseInv, PublishInv, PathInv, SessionEndsLast
<1>4. ResourcePathIsLive'
  BY <1>1 DEF ResourcePathIsLive, Key, TypeOK
<1> QED BY <1>2, <1>3, <1>4

LEMMA TeardownAfterFailureKeeps ==
  ASSUME SetupInv, NEW p \in Projects, TeardownAfterFailure(p)
  PROVE  SetupInv'
<1> USE DEF SetupInv, Between, SetupSteps, ReleaseSteps
<1>1. /\ phase[p] = "failed" /\ phase' = [phase EXCEPT ![p] = "over"] /\ pc' = "idle"
      /\ pc \in Between
      /\ UNCHANGED <<runner, rootOf, states, path, current, caller, created, rtStart, rtStop,
                    held, prepared, directory, session, reported>>
  BY DEF TeardownAfterFailure, runtimeVars
<1>2. TypeOK' /\ StatesInv'
  BY <1>1 DEF TypeOK, StatesInv
<1>3. PhaseInv' /\ RuntimeInv' /\ ReleaseInv' /\ PublishInv' /\ PathInv' /\ SessionEndsLast'
  BY <1>1 DEF PhaseInv, RuntimeInv, ReleaseInv, PublishInv, PathInv, SessionEndsLast
<1>4. ResourcePathIsLive'
  BY <1>1 DEF ResourcePathIsLive, Key, TypeOK
<1> QED BY <1>2, <1>3, <1>4

-----------------------------------------------------------------------------
(* The steps of setup()                                                    *)

LEMMA OpeningKeeps == SetupInv /\ StartDashboardSession => SetupInv'
<1> SUFFICES ASSUME SetupInv, StartDashboardSession PROVE SetupInv'
  OBVIOUS
<1>1. /\ pc = "opening" /\ pc' = "discovery" /\ session' \in {"none", "up"}
      /\ UNCHANGED <<runner, rootOf, phase, states, path, current, caller, created,
                    rtStart, rtStop, held, prepared, directory, reported>>
  BY DEF StartDashboardSession, runtimeVars
<1> QED
  BY <1>1 DEF SetupInv, TypeOK, StatesInv, PhaseInv, RuntimeInv, ReleaseInv, PublishInv, PathInv,
     ResourcePathIsLive, SessionEndsLast, Key, Between, SetupSteps, ReleaseSteps

\* Where the outcome is known: the state of the project is left for its teardown.
LEMMA LeaveKeeps ==
  ASSUME SetupInv, NEW dir \in {"none", "empty", "file"}, Leave(dir),
         pc \in {"file", "provide"}, directory' = dir,
         \/ pc = "file" /\ dir = "file" /\ path' = current
         \/ pc = "provide" /\ UNCHANGED path
  PROVE  SetupInv'
<1> USE DEF SetupInv, Between, SetupSteps, ReleaseSteps
<1> DEFINE left == [held |-> held, prepared |-> prepared, directory |-> dir, session |-> session]
<1>1. /\ phase' = [phase EXCEPT ![current] = "ready"] /\ pc' = "ready"
      /\ UNCHANGED <<runner, rootOf, current, caller, created, rtStart, rtStop, held,
                    prepared, session, reported>>
      /\ states' = With(states, Key(current), left)
  BY DEF Leave, runtimeVars
<1>2. current \in Projects /\ session \in {"none", "up"}
  BY DEF TypeOK, ReleaseInv
<1>3. left \in Left /\ left.directory = dir
  BY <1>2 DEF TypeOK, Left
<1> HIDE DEF left
<1>4. /\ DOMAIN states' = {Key(current)} \cup DOMAIN states
      /\ states'[Key(current)] = left
      /\ \A key \in DOMAIN states : key # Key(current) => states'[key] = states[key]
  BY <1>1 DEF With
<1>5. TypeOK'
  BY <1>1, <1>2 DEF TypeOK
<1>6. StatesInv'
  BY <1>3, <1>4 DEF StatesInv
<1>7. PhaseInv' /\ RuntimeInv' /\ ReleaseInv' /\ PublishInv' /\ SessionEndsLast'
  BY <1>1, <1>2 DEF PhaseInv, RuntimeInv, ReleaseInv, PublishInv, SessionEndsLast
<1>8. PathInv' /\ ResourcePathIsLive'
  <2>1. CASE pc = "file"
    <3>1. Key(path)' = Key(current)
      BY <1>1, <2>1 DEF Key
    <3>2. Key(current) \in DOMAIN states' /\ states'[Key(current)].directory = "file"
      BY <1>3, <1>4, <2>1
    <3> QED BY <1>1, <1>2, <2>1, <3>1, <3>2 DEF PathInv, PublishInv, ResourcePathIsLive, TypeOK
  <2>2. CASE pc = "provide"
    BY <1>1, <2>2 DEF PathInv, PublishInv, ResourcePathIsLive
  <2> QED BY <2>1, <2>2
<1> QED BY <1>5, <1>6, <1>7, <1>8

LEMMA SetupStepKeeps == SetupInv /\ SetupStep => SetupInv'
<1> SUFFICES ASSUME SetupInv, SetupStep PROVE SetupInv'
  OBVIOUS
<1> USE DEF SetupInv, TypeOK, StatesInv, PhaseInv, RuntimeInv, ReleaseInv, PublishInv, PathInv,
            ResourcePathIsLive, SessionEndsLast, Key, Between, SetupSteps, ReleaseSteps,
            runVars, runtimeVars
<1>1. CASE StartContainers
  BY <1>1 DEF StartContainers, Runtime!CallStart, Runtime!Refuse, Runtime!StartStates
<1>2. CASE ContainersReady
  BY <1>2 DEF ContainersReady, Publish
<1>3. CASE ResourcesPrepared
  BY <1>3 DEF ResourcesPrepared, Publish
<1>4. CASE DirectoryMade
  BY <1>4 DEF DirectoryMade
<1>5. CASE FileWritten
  BY <1>5, LeaveKeeps DEF FileWritten
<1>6. CASE Provided
  BY <1>6, LeaveKeeps DEF Provided
<1>7. CASE SetupFails
  BY <1>7 DEF SetupFails
<1> QED BY <1>1, <1>2, <1>3, <1>4, <1>5, <1>6, <1>7 DEF SetupStep

-----------------------------------------------------------------------------
(* The steps of a release                                                  *)

LEMMA ReleaseStepKeeps == SetupInv /\ ReleaseStep => SetupInv'
<1> SUFFICES ASSUME SetupInv, ReleaseStep PROVE SetupInv'
  OBVIOUS
<1> USE DEF SetupInv, TypeOK, StatesInv, PhaseInv, RuntimeInv, ReleaseInv, PublishInv, PathInv,
            ResourcePathIsLive, SessionEndsLast, Key, Between, SetupSteps, ReleaseSteps,
            runVars, runtimeVars
<1>1. CASE CleanupSettles
  BY <1>1 DEF CleanupSettles
<1>2. CASE StopRuntime
  BY <1>2 DEF StopRuntime, Runtime!CallStop, Runtime!StopStates
<1>3. CASE RuntimeStopped
  BY <1>3 DEF RuntimeStopped
<1>4. CASE DirectoryRemoved
  BY <1>4 DEF DirectoryRemoved
<1>5. CASE SessionFinalized
  BY <1>5 DEF SessionFinalized
<1> QED BY <1>1, <1>2, <1>3, <1>4, <1>5 DEF ReleaseStep

LEMMA RuntimeStepKeeps == SetupInv /\ RuntimeStep => SetupInv'
<1> SUFFICES ASSUME SetupInv, RuntimeStep PROVE SetupInv'
  OBVIOUS
<1> USE DEF SetupInv, TypeOK, StatesInv, PhaseInv, RuntimeInv, ReleaseInv, PublishInv, PathInv,
            ResourcePathIsLive, SessionEndsLast, Key, Between, SetupSteps, ReleaseSteps,
            Runtime!StartStates, Runtime!StopStates
<1>0. UNCHANGED <<runner, rootOf, phase, states, path, current, pc, caller, created, prepared,
                  directory, session, reported>>
  BY DEF RuntimeStep, runVars
<1>1. CASE Runtime!Boot
  BY <1>0, <1>1 DEF Runtime!Boot
<1>2. CASE Runtime!Progress
  BY <1>0, <1>2 DEF Runtime!Progress, Runtime!StartResolves, Runtime!StartFails,
     Runtime!StartRejects
<1>3. CASE Runtime!Release
  BY <1>0, <1>3 DEF Runtime!Release
<1>4. CASE Runtime!StopSettles
  BY <1>0, <1>4 DEF Runtime!StopSettles
<1> QED BY <1>1, <1>2, <1>3, <1>4 DEF RuntimeStep

LEMMA NextHolds == SetupInv /\ [Next]_vars => SetupInv'
<1> SUFFICES ASSUME SetupInv, [Next]_vars PROVE SetupInv'
  OBVIOUS
<1>1. CASE UNCHANGED vars
  BY <1>1 DEF vars, runVars, runtimeVars, SetupInv, TypeOK, StatesInv, PhaseInv, RuntimeInv,
     ReleaseInv, PublishInv, PathInv, ResourcePathIsLive, SessionEndsLast, Key
<1>2. CASE Next
  BY <1>1, <1>2, SetupKeeps, TeardownKeeps, TeardownOfNothingKeeps, TeardownAfterFailureKeeps,
     OpeningKeeps, SetupStepKeeps, ReleaseStepKeeps, RuntimeStepKeeps DEF Next, Over
<1> QED BY <1>1, <1>2

-----------------------------------------------------------------------------
(* The registry of the dashboard's sessions                                *)

\* No other project has the root of p, which thus has its entry for itself.
Alone(p) == \A q \in Projects \ {p} : rootOf[q] # rootOf[p]

\* An entry is of a project with that root; a project alone at its root keeps
\* its state until its own teardown, and its entry as long as it has a session.
RegistryInv ==
  /\ rootOf \in [Projects -> Roots]
  /\ DOMAIN sessions \subseteq Roots
  /\ \A root \in DOMAIN sessions : sessions[root] \in Projects /\ rootOf[sessions[root]] = root
  /\ \A p \in Projects : Alone(p) =>
       /\ Open(p) => rootOf[p] \in DOMAIN sessions
       /\ phase[p] = "ready" => Key(p) \in DOMAIN states
  /\ pc \in SetupSteps \cup ReleaseSteps => Key(current) \notin DOMAIN states
  /\ runner = "vitest" => \A key \in DOMAIN states : key \in Projects /\ phase[key] = "ready"

LEMMA RegistryInit == Init => RegistryInv
<1> SUFFICES ASSUME Init PROVE RegistryInv
  OBVIOUS
<1>1. DOMAIN states = {} /\ DOMAIN sessions = {}
  BY DEF Init
<1> QED BY <1>1 DEF Init, RegistryInv, Open, SetupSteps, ReleaseSteps

\* A step that registers nothing, opens no session and leaves or takes no state.
LEMMA RegistryUntouched ==
  ASSUME SetupInv, RegistryInv,
         UNCHANGED <<runner, rootOf, phase, states, sessions, current>>,
         session' = "up" => session = "up",
         pc' \in SetupSteps \cup ReleaseSteps => pc \in SetupSteps \cup ReleaseSteps
  PROVE  RegistryInv'
BY DEF RegistryInv, Open, Alone, Key

LEMMA RegistrySetup ==
  ASSUME SetupInv, RegistryInv, NEW p \in Projects, Setup(p)
  PROVE  RegistryInv'
<1>1. /\ current' = p /\ phase[p] = "new" /\ session' = "none"
      /\ UNCHANGED <<runner, rootOf, states, sessions>>
      /\ \/ /\ runner = "jest" /\ Key(p) \in DOMAIN states /\ pc' = "idle"
            /\ phase' = [phase EXCEPT ![p] = "ready"]
         \/ /\ ~ (runner = "jest" /\ Key(p) \in DOMAIN states) /\ pc' = "opening"
            /\ phase' = phase
  BY DEF Setup
<1>2. \A q \in Projects : Key(q)' = Key(q) /\ (Alone(q)' <=> Alone(q)) /\ (Open(q)' => Open(q))
  BY <1>1 DEF Key, Alone, Open
<1>3. Key(current)' = Key(p)
  BY <1>1 DEF Key
<1>4. pc' = "opening" => Key(p) \notin DOMAIN states
  BY <1>1 DEF RegistryInv, SetupInv, TypeOK, Key
<1>5. phase \in [Projects -> {"new", "ready", "failed", "over"}]
  BY DEF SetupInv, TypeOK
<1> QED
  BY <1>1, <1>2, <1>3, <1>4, <1>5 DEF RegistryInv, SetupSteps, ReleaseSteps

LEMMA RegistryOpening == SetupInv /\ RegistryInv /\ StartDashboardSession => RegistryInv'
<1> SUFFICES ASSUME SetupInv, RegistryInv, StartDashboardSession PROVE RegistryInv'
  OBVIOUS
<1>1. /\ pc = "opening" /\ current \in Projects
      /\ UNCHANGED <<runner, rootOf, phase, states, current>>
      /\ \/ session' = "up" /\ sessions' = Register(current)
         \/ session' = "none" /\ sessions' = sessions
  BY DEF StartDashboardSession, SetupInv, TypeOK
<1>2. CASE sessions' = sessions /\ session' = "none"
  BY <1>1, <1>2, RegistryUntouched DEF SetupSteps
<1>3. CASE sessions' = Register(current)
  <2>1. /\ DOMAIN sessions' = DOMAIN sessions \cup {rootOf[current]}
        /\ sessions'[rootOf[current]] = current
        /\ \A root \in DOMAIN sessions : root # rootOf[current] => sessions'[root] = sessions[root]
    BY <1>3 DEF Register, With
  <2>2. \A q \in Projects : /\ Key(q)' = Key(q) /\ (Alone(q)' <=> Alone(q))
                            /\ Open(q)' => Open(q) \/ q = current
    BY <1>1 DEF Key, Alone, Open
  <2>3. Key(current)' = Key(current) /\ Key(current) \notin DOMAIN states
    BY <1>1 DEF Key, RegistryInv, SetupSteps
  <2> QED BY <1>1, <2>1, <2>2, <2>3 DEF RegistryInv
<1> QED BY <1>1, <1>2, <1>3

LEMMA RegistryLeave ==
  ASSUME SetupInv, RegistryInv, NEW dir, Leave(dir), pc \in {"file", "provide"}
  PROVE  RegistryInv'
<1>1. /\ current \in Projects /\ pc' = "ready"
      /\ phase' = [phase EXCEPT ![current] = "ready"]
      /\ UNCHANGED <<runner, rootOf, sessions, current, session>>
      /\ states' = With(states, Key(current), [held |-> held, prepared |-> prepared,
                                               directory |-> dir, session |-> session])
  BY DEF Leave, SetupInv, TypeOK, Between
<1>2. /\ DOMAIN states' = {Key(current)} \cup DOMAIN states
      /\ states'[Key(current)].session = session
      /\ \A key \in DOMAIN states : key # Key(current) => states'[key] = states[key]
  BY <1>1 DEF With
<1>3. \A q \in Projects : Key(q)' = Key(q) /\ (Alone(q)' <=> Alone(q))
  BY <1>1 DEF Key, Alone
<1>4. \A q \in Projects : Alone(q) /\ q # current => Key(q) # Key(current)
  BY <1>1 DEF Key, Alone
<1>5. \A q \in Projects : Alone(q) /\ Open(q)' => Open(q)
  BY <1>1, <1>2, <1>3, <1>4 DEF Open
<1>6. phase \in [Projects -> {"new", "ready", "failed", "over"}] /\ pc' \notin SetupSteps \cup ReleaseSteps
  BY <1>1 DEF SetupInv, TypeOK, SetupSteps, ReleaseSteps
<1>7. runner = "vitest" => Key(current) = current
  BY DEF Key
<1> QED BY <1>1, <1>2, <1>3, <1>4, <1>5, <1>6, <1>7 DEF RegistryInv

LEMMA RegistryTeardown ==
  ASSUME SetupInv, RegistryInv, NEW p \in Projects, Teardown(p)
  PROVE  RegistryInv'
<1>1. /\ current' = p /\ phase' = [phase EXCEPT ![p] = "over"] /\ pc' = "cleanup"
      /\ Key(p) \in DOMAIN states /\ session' = states[Key(p)].session
      /\ states' = Without(states, Key(p))
      /\ UNCHANGED <<runner, rootOf, sessions>>
  BY DEF Teardown, Tears, Take
<1>2. /\ DOMAIN states' = DOMAIN states \ {Key(p)}
      /\ \A key \in DOMAIN states' : states'[key] = states[key]
  BY <1>1 DEF Without
<1>3. \A q \in Projects : Key(q)' = Key(q) /\ (Alone(q)' <=> Alone(q))
  BY <1>1 DEF Key, Alone
<1>4. \A q \in Projects : Alone(q) /\ q # p => Key(q) # Key(p)
  BY <1>1 DEF Key, Alone
<1>5. \A q \in Projects : Open(q)' => Open(q)
  BY <1>1, <1>2, <1>3 DEF Open
<1>6. phase \in [Projects -> {"new", "ready", "failed", "over"}] /\ Key(current)' = Key(p)
  BY <1>1 DEF SetupInv, TypeOK, Key
<1>7. runner = "vitest" => Key(p) = p
  BY DEF Key
<1> QED BY <1>1, <1>2, <1>3, <1>4, <1>5, <1>6, <1>7 DEF RegistryInv

\* Only projects that share a root find that their state was taken.
LEMMA RegistryTeardownOfNothing ==
  ASSUME SetupInv, RegistryInv, NEW p \in Projects, TeardownOfNothing(p)
  PROVE  RegistryInv'
<1>1. /\ current' = p /\ phase[p] = "ready" /\ phase' = [phase EXCEPT ![p] = "over"]
      /\ pc' = "idle" /\ Key(p) \notin DOMAIN states
      /\ UNCHANGED <<runner, rootOf, states, sessions, session>>
  BY DEF TeardownOfNothing, Tears
<1>2. ~ Alone(p)
  BY <1>1 DEF RegistryInv
<1>3. \A q \in Projects : /\ Key(q)' = Key(q) /\ (Alone(q)' <=> Alone(q))
                          /\ Alone(q) /\ Open(q)' => Open(q)
  BY <1>1, <1>2 DEF Key, Alone, Open
<1>4. /\ phase \in [Projects -> {"new", "ready", "failed", "over"}]
      /\ pc' \notin SetupSteps \cup ReleaseSteps /\ (runner = "vitest" => Key(p) = p)
  BY <1>1 DEF SetupInv, TypeOK, SetupSteps, ReleaseSteps, Key
<1> QED BY <1>1, <1>2, <1>3, <1>4 DEF RegistryInv

LEMMA RegistryTeardownAfterFailure ==
  ASSUME SetupInv, RegistryInv, NEW p \in Projects, TeardownAfterFailure(p)
  PROVE  RegistryInv'
<1>1. /\ phase[p] = "failed" /\ phase' = [phase EXCEPT ![p] = "over"] /\ pc' = "idle"
      /\ UNCHANGED <<runner, rootOf, states, sessions, session, current>>
  BY DEF TeardownAfterFailure
<1>2. \A q \in Projects : /\ Key(q)' = Key(q) /\ (Alone(q)' <=> Alone(q))
                          /\ Open(q)' => Open(q)
  BY <1>1 DEF Key, Alone, Open
<1>3. /\ phase \in [Projects -> {"new", "ready", "failed", "over"}]
      /\ pc' \notin SetupSteps \cup ReleaseSteps
  BY <1>1 DEF SetupInv, TypeOK, SetupSteps, ReleaseSteps
<1> QED BY <1>1, <1>2, <1>3 DEF RegistryInv

\* The entry of the root goes with the session of its project.
LEMMA RegistryFinalized == SetupInv /\ RegistryInv /\ SessionFinalized => RegistryInv'
<1> SUFFICES ASSUME SetupInv, RegistryInv, SessionFinalized PROVE RegistryInv'
  OBVIOUS
<1>1. /\ pc = "session" /\ current \in Projects /\ pc' \in {"failed", "over"}
      /\ UNCHANGED <<runner, rootOf, states, current>>
      /\ \/ phase' = phase
         \/ phase' = [phase EXCEPT ![current] = "failed"]
      /\ session' # "up"
      /\ \/ sessions' = sessions
         \/ sessions' = Without(sessions, rootOf[current])
  BY DEF SessionFinalized, SetupInv, TypeOK
<1>2. Key(current) \notin DOMAIN states /\ phase[current] # "ready"
  BY <1>1 DEF RegistryInv, SetupInv, PhaseInv, ReleaseSteps
<1>3. \A q \in Projects : /\ Key(q)' = Key(q) /\ (Alone(q)' <=> Alone(q))
                          /\ Open(q)' => Open(q) /\ q # current
  BY <1>1, <1>2 DEF Key, Alone, Open
<1>4. \A q \in Projects : Alone(q) /\ q # current => rootOf[q] # rootOf[current]
  BY <1>1 DEF Alone
<1>5. /\ DOMAIN sessions' \subseteq DOMAIN sessions
      /\ DOMAIN sessions \ DOMAIN sessions' \subseteq {rootOf[current]}
      /\ \A root \in DOMAIN sessions' : sessions'[root] = sessions[root]
  BY <1>1 DEF Without
<1>6. /\ phase \in [Projects -> {"new", "ready", "failed", "over"}]
      /\ pc' \notin SetupSteps \cup ReleaseSteps /\ (runner = "vitest" => Key(current) = current)
  BY <1>1 DEF SetupInv, TypeOK, SetupSteps, ReleaseSteps, Key
<1> QED BY <1>1, <1>2, <1>3, <1>4, <1>5, <1>6 DEF RegistryInv

LEMMA RegistryNext == SetupInv /\ RegistryInv /\ [Next]_vars => RegistryInv'
<1> SUFFICES ASSUME SetupInv, RegistryInv, [Next]_vars PROVE RegistryInv'
  OBVIOUS
<1>1. CASE UNCHANGED vars
  BY <1>1, RegistryUntouched DEF vars, runVars
<1>2. CASE StartContainers \/ ContainersReady \/ ResourcesPrepared \/ DirectoryMade \/ SetupFails
  BY <1>2, RegistryUntouched DEF StartContainers, ContainersReady, Publish, ResourcesPrepared,
     DirectoryMade, SetupFails, runVars, SetupSteps
<1>3. CASE FileWritten \/ Provided
  BY <1>3, RegistryLeave DEF FileWritten, Provided
<1>4. CASE CleanupSettles \/ StopRuntime \/ RuntimeStopped \/ DirectoryRemoved
  BY <1>4, RegistryUntouched DEF CleanupSettles, StopRuntime, RuntimeStopped, DirectoryRemoved,
     runVars, ReleaseSteps
<1>5. CASE RuntimeStep
  BY <1>5, RegistryUntouched DEF RuntimeStep, runVars
<1> QED
  BY <1>1, <1>2, <1>3, <1>4, <1>5, RegistrySetup, RegistryOpening, RegistryTeardown,
     RegistryTeardownOfNothing, RegistryTeardownAfterFailure, RegistryFinalized
     DEF Next, SetupStep, ReleaseStep, Over

\* Paths as sequences whose names include the test file's.
LEMMA PathType ==
  ASSUME NEW root \in Roots
  PROVE  root \in Seq(STRING \cup {"file"})
<1>1. root \in Seq(STRING)
  BY GlobalSetupAssumption
<1>2. /\ Len(root) \in Nat /\ root \in [1..Len(root) -> STRING]
  BY <1>1, LenProperties
<1>3. root \in [1..Len(root) -> STRING \cup {"file"}]
  BY <1>2
<1> QED BY <1>2, <1>3

\* A root that holds a test file of a project is the project's or a shorter path.
LEMMA PrefixOfFile ==
  ASSUME NEW root \in Roots, NEW other \in Roots, IsPrefix(other, Append(root, "file"))
  PROVE  /\ Len(root) \in Nat /\ Len(other) \in Nat
         /\ Len(other) <= Len(root)
         /\ Len(other) = Len(root) => other = root
<1> DEFINE S == STRING \cup {"file"}
           file == Append(root, "file")
<1>1. root \in Seq(S) /\ other \in Seq(S) /\ Len(root) \in Nat /\ Len(other) \in Nat
  BY PathType, LenProperties
<1>2. /\ file \in Seq(S) /\ Len(file) = Len(root) + 1
      /\ \A i \in 1 .. Len(root) : file[i] = root[i]
  BY <1>1, AppendProperties
<1>3. Len(other) <= Len(file) /\ SubSeq(other, 1, Len(other)) = SubSeq(file, 1, Len(other))
  BY DEF IsPrefix
<1> HIDE DEF file
<1>4. \A i \in 1 .. Len(other) : other[i] \in S /\ file[i] \in S
  BY <1>1, <1>2, <1>3, LenProperties
<1>5. \A i \in 1 .. Len(other) : other[i] = file[i]
  <2> HIDE DEF S
  <2>1. /\ \A i \in 1 .. Len(other) : SubSeq(other, 1, Len(other))[i] = other[i]
        /\ \A i \in 1 .. Len(other) : SubSeq(file, 1, Len(other))[i] = file[i]
    BY <1>1, <1>4, SubSeqProperties
  <2> QED BY <1>3, <2>1
<1>6. Len(other) # Len(file)
  <2>1. ASSUME Len(other) = Len(file) PROVE other = file
    BY <1>1, <1>2, <1>5, <2>1, SeqEqual
  <2> QED BY <2>1, GlobalSetupAssumption DEF file
<1>7. Len(other) = Len(root) => other = root
  BY <1>1, <1>2, <1>5, SeqEqual
<1> QED BY <1>1, <1>2, <1>3, <1>6, <1>7

LEMMA RootOfFile ==
  ASSUME NEW root \in Roots
  PROVE  IsPrefix(root, Append(root, "file"))
<1> DEFINE S == STRING \cup {"file"}
           file == Append(root, "file")
<1>1. root \in Seq(S) /\ Len(root) \in Nat
  BY PathType, LenProperties
<1>2. /\ file \in Seq(S) /\ Len(file) = Len(root) + 1
      /\ \A i \in 1 .. Len(root) : file[i] = root[i] /\ file[i] \in S /\ root[i] \in S
  BY <1>1, AppendProperties, LenProperties
<1> HIDE DEF file, S
<1>3. /\ SubSeq(root, 1, Len(root)) \in Seq(S) /\ SubSeq(file, 1, Len(root)) \in Seq(S)
      /\ Len(SubSeq(root, 1, Len(root))) = Len(SubSeq(file, 1, Len(root)))
      /\ \A i \in 1 .. Len(root) : SubSeq(root, 1, Len(root))[i] = SubSeq(file, 1, Len(root))[i]
      /\ Len(SubSeq(root, 1, Len(root))) = Len(root)
  BY <1>1, <1>2, SubSeqProperties
<1>4. SubSeq(root, 1, Len(root)) = SubSeq(file, 1, Len(root))
  BY <1>1, <1>3, SeqEqual
<1> QED BY <1>1, <1>2, <1>4 DEF IsPrefix, file
\* A project with its own root and an entry is found from a test file in it.
LEMMA EntryIsFound ==
  ASSUME RegistryInv, NEW p \in Projects, Alone(p), rootOf[p] \in DOMAIN sessions
  PROVE  DescriptorFor(Append(rootOf[p], "file")) = p
<1> DEFINE file == Append(rootOf[p], "file")
           roots == {root \in DOMAIN sessions : IsPrefix(root, file)}
           longest == CHOOSE root \in roots : \A r \in roots : Len(r) <= Len(root)
<1>1. rootOf[p] \in roots /\ rootOf[p] \in Roots /\ roots \subseteq Roots
  BY RootOfFile DEF RegistryInv
<1>2. \A r \in roots : /\ Len(r) \in Nat /\ Len(rootOf[p]) \in Nat /\ Len(r) <= Len(rootOf[p])
                       /\ Len(r) = Len(rootOf[p]) => r = rootOf[p]
  BY <1>1, PrefixOfFile
<1> HIDE DEF roots
<1>3. longest \in roots /\ \A r \in roots : Len(r) <= Len(longest)
  BY <1>1, <1>2
<1>4. longest = rootOf[p]
  BY <1>1, <1>2, <1>3
<1>5. sessions[rootOf[p]] = p
  BY DEF RegistryInv, Alone
<1>6. DescriptorFor(file) = sessions[longest]
  BY <1>1 DEF DescriptorFor, roots
<1> QED BY <1>4, <1>5, <1>6

-----------------------------------------------------------------------------

\* The invariant holds throughout, whatever fails and however many projects.
THEOREM InvariantHolds == Spec => []SetupInv
<1> QED BY InitHolds, NextHolds, PTL DEF Spec

\* A failed setup() and a teardown() have released everything their project
\* owned or reported what they could not release: for any projects and roots,
\* either runner, and any runtime that keeps the contract.
THEOREM HooksRelease == Spec => []EverythingIsReleased
<1>1. SetupInv => EverythingIsReleased
  BY GlobalSetupAssumption DEF SetupInv, TypeOK, PhaseInv, RuntimeInv, ReleaseInv, PathInv, ResourcePathIsLive,
     EverythingIsReleased
<1> QED BY <1>1, InvariantHolds, PTL

\* Whoever finds the environment variable finds a file whose containers nobody
\* has begun to stop, in whatever order any number of projects come and go.
THEOREM PathIsLive == Spec => []ResourcePathIsLive
<1>1. SetupInv => ResourcePathIsLive
  BY DEF SetupInv
<1> QED BY <1>1, InvariantHolds, PTL

\* The dashboard's session is finalized when the shared containers have gone.
THEOREM SessionLast == Spec => []SessionEndsLast
<1>1. SetupInv => SessionEndsLast
  BY DEF SetupInv
<1> QED BY <1>1, InvariantHolds, PTL

\* No shared container goes down before the cleanup of what was prepared on it.
THEOREM CleanupFirst == Spec => CleanupPrecedesStop
<1>1. SetupInv /\ [Next]_vars /\ pc \notin Between /\ held /\ ~held' /\ prepared
        => "cleanup" \in reported
  <2> SUFFICES ASSUME SetupInv, [Next]_vars, pc \notin Between, held, ~held', prepared
               PROVE  "cleanup" \in reported
    OBVIOUS
  <2>1. rtStop = "pending"
    <3>1. ASSUME NEW p \in Projects,
                 Setup(p) \/ Teardown(p) \/ TeardownOfNothing(p) \/ TeardownAfterFailure(p)
          PROVE  FALSE
      BY <3>1 DEF Setup, Teardown, TeardownOfNothing, TeardownAfterFailure, Tears
    <3>2. CASE StartDashboardSession \/ Over \/ UNCHANGED vars
      BY <3>2 DEF StartDashboardSession, Over, vars, runtimeVars
    <3>3. CASE SetupStep
      BY <3>3 DEF SetupStep, StartContainers, ContainersReady, ResourcesPrepared, DirectoryMade,
         FileWritten, Provided, Leave, SetupFails, Runtime!CallStart, Runtime!Refuse, runtimeVars
    <3>4. CASE ReleaseStep
      BY <3>4 DEF ReleaseStep, CleanupSettles, StopRuntime, RuntimeStopped, DirectoryRemoved,
         SessionFinalized, Runtime!CallStop, runtimeVars
    <3>5. CASE RuntimeStep
      BY <3>5 DEF RuntimeStep, Runtime!Boot, Runtime!Progress, Runtime!StartResolves,
         Runtime!StartFails, Runtime!StartRejects, Runtime!Release, Runtime!StopSettles
    <3> QED BY <3>1, <3>2, <3>3, <3>4, <3>5 DEF Next
  <2> QED BY <2>1 DEF SetupInv, RuntimeInv, ReleaseInv
<1> QED BY <1>1, InvariantHolds, PTL DEF Spec, CleanupPrecedesStop

LEMMA RegistryHolds == Spec => []RegistryInv
<1> QED BY InvariantHolds, RegistryInit, RegistryNext, PTL DEF Spec

\* The workers find the session of a project by the path of a test file while it
\* is open, for any projects and any roots, within one another or not.
THEOREM SessionsFound == Spec => []SessionsAreFound
<1>1. RegistryInv => SessionsAreFound
  BY EntryIsFound DEF SessionsAreFound, RegistryInv, Alone
<1> QED BY <1>1, RegistryHolds, PTL

=============================================================================
