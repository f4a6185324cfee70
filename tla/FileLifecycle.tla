--------------------------- MODULE FileLifecycle ---------------------------
(***************************************************************************)
(* One test file: the beforeAll and afterAll hooks of a runner, the        *)
(* IntegrationTestFileController they drive, the ContainerFileContext and  *)
(* the application manager it owns, and the file's ContainerRuntime, which *)
(* is taken at its contract, OwnedRuntime.                                 *)
(*                                                                         *)
(* controller.stop() has two callers: the catch of a failed start() and    *)
(* afterAll.  It is not memoized; ContainerFileContext.stop() is.  The     *)
(* consumer's callbacks are external and may fail as Faults allows.        *)
(***************************************************************************)
EXTENDS FiniteSets

CONSTANTS
  HookTimeout,  \* may afterAll run because beforeAll timed out?
  Faults        \* the consumer's callbacks that may fail

Stoppers == {"start", "afterAll"}
Callbacks == {"prepare", "cleanup", "application", "applicationStop"}

ASSUME FileAssumption ==
  /\ HookTimeout \in BOOLEAN
  /\ Faults \subseteq Callbacks

VARIABLES
  startPc,                                          \* controller.start()
  stopPc,                                           \* each controller.stop()
  \* fields of the controller that are set
  fileContext, applicationManager, restoreEnvironment,
  \* the context: its fields that are set, its memoized stopAll()
  runtime, resources, preparationCleanup, contextStop,
  applicationInstance,                              \* the manager's field
  rtStart, rtStop, held,                            \* the runtime
  \* the world: what the consumer's callbacks and the environment hold
  prepared, environmentInstalled, applicationUp,
  failures                                          \* releases that failed

Runtime == INSTANCE OwnedRuntime WITH start <- rtStart, stop <- rtStop

controllerVars  == <<fileContext, applicationManager, restoreEnvironment>>
contextVars     == <<runtime, resources, preparationCleanup, contextStop>>
runtimeVars     == <<rtStart, rtStop, held>>
worldVars       == <<prepared, environmentInstalled, applicationUp>>
vars == <<startPc, stopPc, controllerVars, contextVars, applicationInstance,
          runtimeVars, worldVars, failures>>

Init ==
  /\ startPc = "idle"
  /\ stopPc = [s \in Stoppers |-> "idle"]
  /\ fileContext = FALSE /\ applicationManager = FALSE
  /\ restoreEnvironment = FALSE
  /\ runtime = FALSE /\ resources = FALSE /\ preparationCleanup = FALSE
  /\ contextStop = "idle"
  /\ applicationInstance = FALSE
  /\ Runtime!Init
  /\ prepared = FALSE /\ environmentInstalled = FALSE /\ applicationUp = FALSE
  /\ failures = {}

-----------------------------------------------------------------------------
(* ContainerFileContext.stop()                                             *)

\* runtime.stop() is memoized, and a failing start has already called it.
CallRuntimeStop ==
  \/ Runtime!CallStop
  \/ rtStop # "idle" /\ UNCHANGED runtimeVars

\* Mutant: the runtime is stopped only once its start has resolved.
StopStartedRuntime ==
  /\ runtime' = FALSE
  /\ IF runtime /\ rtStart = "resolved"
     THEN /\ contextStop' = "runtime"
          /\ UNCHANGED resources
          /\ CallRuntimeStop
     ELSE /\ contextStop' = "done"
          /\ resources' = FALSE
          /\ UNCHANGED runtimeVars

\* stopAll() from the preparation cleanup on: stop the runtime there is.
StopRuntime ==
  /\ runtime' = FALSE
  /\ IF runtime
     THEN /\ contextStop' = "runtime"
          /\ UNCHANGED resources
          /\ CallRuntimeStop
     ELSE /\ contextStop' = "done"
          /\ resources' = FALSE
          /\ UNCHANGED runtimeVars

\* stop(): only the first call runs stopAll(), which takes the cleanup.
BeginContextStop ==
  IF contextStop # "idle"
  THEN UNCHANGED <<contextVars, runtimeVars>>
  ELSE /\ preparationCleanup' = FALSE
       /\ IF preparationCleanup
          THEN contextStop' = "cleanup" /\ UNCHANGED <<runtime, resources, runtimeVars>>
          ELSE StopRuntime

\* Mutant: a failed cleanup ends stopAll().
CleanupFailureEndsStop ==
  /\ contextStop = "cleanup"
  /\ \/ prepared' = FALSE /\ UNCHANGED failures /\ StopRuntime
     \/ /\ "cleanup" \in Faults
        /\ failures' = failures \cup {"cleanup"} /\ UNCHANGED prepared
        /\ contextStop' = "done"
        /\ UNCHANGED <<runtime, resources, runtimeVars>>
  /\ UNCHANGED <<startPc, stopPc, controllerVars, preparationCleanup,
                 applicationInstance, environmentInstalled, applicationUp>>

\* The consumer's cleanup settles; its failure does not stop stopAll().
CleanupSettles ==
  /\ contextStop = "cleanup"
  /\ \/ prepared' = FALSE /\ UNCHANGED failures
     \/ /\ "cleanup" \in Faults
        /\ failures' = failures \cup {"cleanup"} /\ UNCHANGED prepared
  /\ StopRuntime
  /\ UNCHANGED <<startPc, stopPc, controllerVars, preparationCleanup,
                 applicationInstance, environmentInstalled, applicationUp>>

\* Mutant: a rejected runtime.stop() is not caught and nothing resumes.
RuntimeStopRejectionMissed ==
  /\ contextStop = "runtime" /\ rtStop = "resolved"
  /\ contextStop' = "done"
  /\ resources' = FALSE
  /\ UNCHANGED <<startPc, stopPc, controllerVars, runtime, preparationCleanup,
                 applicationInstance, runtimeVars, worldVars, failures>>

\* runtime.stop() has settled: stopAll() ends.
RuntimeStopped ==
  /\ contextStop = "runtime" /\ rtStop \in {"resolved", "rejected"}
  /\ contextStop' = "done"
  /\ resources' = FALSE
  /\ failures' = IF rtStop = "rejected" THEN failures \cup {"runtime"} ELSE failures
  /\ UNCHANGED <<startPc, stopPc, controllerVars, runtime, preparationCleanup,
                 applicationInstance, runtimeVars, worldVars>>

-----------------------------------------------------------------------------
(* controller.stop()                                                       *)

\* From the application on: restore the environment, stop the context.
RestoreAndStopContext(s) ==
  /\ environmentInstalled' = (environmentInstalled /\ ~ restoreEnvironment)
  /\ restoreEnvironment' = FALSE
  /\ fileContext' = FALSE
  /\ IF fileContext
     THEN stopPc' = [stopPc EXCEPT ![s] = "context"] /\ BeginContextStop
     ELSE /\ stopPc' = [stopPc EXCEPT ![s] = "done"]
          /\ UNCHANGED <<contextVars, runtimeVars>>

\* Mutant: the manager calls the consumer's stop with or without an instance.
StopManagerAlways(s) ==
  /\ applicationManager' = FALSE
  /\ IF applicationManager
     THEN /\ stopPc' = [stopPc EXCEPT ![s] = "application"]
          /\ applicationInstance' = FALSE
          /\ UNCHANGED <<fileContext, restoreEnvironment, contextVars,
                         runtimeVars, environmentInstalled>>
     ELSE UNCHANGED applicationInstance /\ RestoreAndStopContext(s)

\* Mutant: the application's stop is not awaited.
StopContextAtOnce(s) ==
  /\ applicationManager' = FALSE
  /\ applicationInstance' = FALSE
  /\ RestoreAndStopContext(s)

\* Up to the first await: take the manager, which takes its instance.
BeginStop(s) ==
  /\ applicationManager' = FALSE
  /\ IF applicationManager
     THEN /\ stopPc' = [stopPc EXCEPT ![s] = IF applicationInstance
                                             THEN "application" ELSE "noApplication"]
          /\ applicationInstance' = FALSE
          /\ UNCHANGED <<fileContext, restoreEnvironment, contextVars,
                         runtimeVars, environmentInstalled>>
     ELSE UNCHANGED applicationInstance /\ RestoreAndStopContext(s)

\* manager.stop() had no instance to stop.
NoApplicationToStop(s) ==
  /\ stopPc[s] = "noApplication"
  /\ RestoreAndStopContext(s)
  /\ UNCHANGED <<startPc, applicationManager, applicationInstance, prepared,
                 applicationUp, failures>>

\* The consumer's application.stop() settles.
ApplicationStops(s) ==
  /\ stopPc[s] = "application"
  /\ \/ applicationUp' = FALSE /\ UNCHANGED failures
     \/ /\ "applicationStop" \in Faults
        /\ failures' = failures \cup {"applicationStop"} /\ UNCHANGED applicationUp
  /\ RestoreAndStopContext(s)
  /\ UNCHANGED <<startPc, applicationManager, applicationInstance, prepared>>

\* fileContext.stop() has settled.
ContextStops(s) ==
  /\ stopPc[s] = "context" /\ contextStop = "done"
  /\ stopPc' = [stopPc EXCEPT ![s] = "done"]
  /\ UNCHANGED <<startPc, controllerVars, contextVars, applicationInstance,
                 runtimeVars, worldVars, failures>>

-----------------------------------------------------------------------------
(* beforeAll and controller.start()                                        *)

\* The hook throws before it reaches the controller.
HookThrows ==
  /\ startPc = "idle" /\ stopPc["afterAll"] = "idle"
  /\ startPc' = "failed"
  /\ UNCHANGED <<stopPc, controllerVars, contextVars, applicationInstance,
                 runtimeVars, worldVars, failures>>

\* start() creates the context, and the context its runtime, which it starts;
\* a shared resource that is not there makes it throw before that.
Start ==
  /\ startPc = "idle" /\ stopPc["afterAll"] = "idle"
  /\ fileContext' = TRUE
  /\ \/ startPc' = "runtime" /\ runtime' = TRUE /\ Runtime!CallStart
     \/ startPc' = "failing" /\ UNCHANGED <<runtime, runtimeVars>>
  /\ UNCHANGED <<stopPc, applicationManager, restoreEnvironment, resources,
                 preparationCleanup, contextStop, applicationInstance,
                 worldVars, failures>>

\* installProcessEnvironment(): set the bindings and keep what restores them.
InstallEnvironment ==
  /\ environmentInstalled' = TRUE
  /\ restoreEnvironment' = TRUE

\* controller.start() once the context is ready.  No application: the file is
\* ready.  It may throw (no lifecycle installed, a binding that cannot be
\* resolved), also after the bindings were installed (a resource is missing).
\* Otherwise the consumer's application.start() is called.
BeginApplication ==
  \/ /\ startPc' \in {"ready", "failing"}
     /\ UNCHANGED <<restoreEnvironment, environmentInstalled, applicationManager>>
  \/ /\ startPc' \in {"application", "failing"}
     /\ InstallEnvironment
     /\ applicationManager' = TRUE

\* The context is started: prepare its resources, if the consumer asks for it.
RuntimeReady ==
  /\ startPc = "runtime" /\ rtStart = "resolved"
  /\ resources' = TRUE
  /\ \/ /\ startPc' = "preparing"
        /\ UNCHANGED <<restoreEnvironment, environmentInstalled, applicationManager>>
     \/ BeginApplication
  /\ UNCHANGED <<stopPc, fileContext, runtime, preparationCleanup, contextStop,
                 applicationInstance, runtimeVars, prepared, applicationUp,
                 failures>>

\* The consumer's prepareResources() succeeded, with or without a cleanup.
Prepared ==
  /\ startPc = "preparing"
  /\ \E cleanup \in BOOLEAN :
       /\ preparationCleanup' = cleanup
       /\ prepared' = cleanup
  /\ BeginApplication
  /\ UNCHANGED <<stopPc, fileContext, runtime, resources, contextStop,
                 applicationInstance, runtimeVars, applicationUp, failures>>

\* The runtime's start or the preparation failed: the context stops itself.
ContextFails ==
  /\ \/ startPc = "runtime" /\ rtStart = "rejected"
     \/ startPc = "preparing" /\ "prepare" \in Faults
  /\ startPc' = "contextStop"
  /\ BeginContextStop
  /\ UNCHANGED <<stopPc, controllerVars, applicationInstance, worldVars, failures>>

ContextStopped ==
  /\ startPc = "contextStop" /\ contextStop = "done"
  /\ startPc' = "failing"
  /\ UNCHANGED <<stopPc, controllerVars, contextVars, applicationInstance,
                 runtimeVars, worldVars, failures>>

\* application.start() returned an instance, or rejected.
ApplicationStarts ==
  /\ startPc = "application"
  /\ \/ startPc' = "ready" /\ applicationInstance' = TRUE /\ applicationUp' = TRUE
     \/ /\ "application" \in Faults
        /\ startPc' = "failing" /\ UNCHANGED <<applicationInstance, applicationUp>>
  /\ UNCHANGED <<stopPc, controllerVars, contextVars, runtimeVars, prepared,
                 environmentInstalled, failures>>

\* Mutant: a failed start leaves the cleanup to afterAll.
RejectAtOnce ==
  /\ startPc = "failing"
  /\ startPc' = "failed"
  /\ UNCHANGED <<stopPc, controllerVars, contextVars, applicationInstance,
                 runtimeVars, worldVars, failures>>

\* The catch of controller.start() calls stop() and awaits it.
CatchStops ==
  /\ startPc = "failing"
  /\ startPc' = "controllerStop"
  /\ BeginStop("start")
  /\ UNCHANGED <<prepared, applicationUp, failures>>

StartRejects ==
  /\ startPc = "controllerStop" /\ stopPc["start"] = "done"
  /\ startPc' = "failed"
  /\ UNCHANGED <<stopPc, controllerVars, contextVars, applicationInstance,
                 runtimeVars, worldVars, failures>>

\* The runner calls afterAll when beforeAll has settled or timed out.
AfterAll ==
  /\ startPc \in {"ready", "failed"} \/ (HookTimeout /\ startPc # "idle")
  /\ stopPc["afterAll"] = "idle"
  /\ BeginStop("afterAll")
  /\ UNCHANGED <<startPc, prepared, applicationUp, failures>>

-----------------------------------------------------------------------------

RuntimeStep ==
  /\ Runtime!Boot \/ Runtime!Progress \/ Runtime!Release \/ Runtime!StopSettles
  /\ UNCHANGED <<startPc, stopPc, controllerVars, contextVars,
                 applicationInstance, worldVars, failures>>

StartStep == RuntimeReady \/ ContextFails \/ ContextStopped \/ CatchStops \/ StartRejects

ContextStep == CleanupSettles \/ RuntimeStopped

StopStep(s) == NoApplicationToStop(s) \/ ApplicationStops(s) \/ ContextStops(s)

Next ==
  \/ HookThrows \/ Start \/ AfterAll
  \/ Prepared \/ ApplicationStarts
  \/ StartStep \/ ContextStep
  \/ \E s \in Stoppers : StopStep(s)
  \/ RuntimeStep

\* Continuations run, the runtime keeps its contract, and the consumer's
\* cleanup and stop callbacks settle.  Its start and prepare callbacks may
\* hang, and the runner may call no hook at all.
Fairness ==
  /\ WF_vars(CatchStops \/ StartRejects \/ ContextStopped)
  /\ WF_vars(ContextStep)
  /\ \A s \in Stoppers : WF_vars(StopStep(s))
  /\ WF_vars(RuntimeStep /\ Runtime!Progress)
  /\ WF_vars(RuntimeStep /\ Runtime!StopSettles)

Spec == Init /\ [][Next]_vars /\ Fairness

-----------------------------------------------------------------------------
(* Properties                                                              *)

\* Nothing of the file is left, save what a failed release left.
Released ==
  /\ ~ environmentInstalled
  /\ applicationUp => "applicationStop" \in failures
  /\ prepared => "cleanup" \in failures
  /\ held => rtStop = "rejected"

StartSettled == startPc \in {"ready", "failed"}

\* When both hooks are over the file has released its application, its
\* environment bindings, its preparation and its containers, or the release
\* itself failed (ARCHITECTURE.md, Ownership and Failure behavior).
FileReleasesEverything ==
  stopPc["afterAll"] = "done" /\ StartSettled => Released

\* A step that releases goes in the reverse order: the environment after the
\* application, then the preparation, and the containers last.
InReverseOrder ==
  LET applicationDone == applicationUp' => "applicationStop" \in failures'
      cleanupDone == prepared' => "cleanup" \in failures'
  IN  /\ environmentInstalled /\ ~ environmentInstalled' => applicationDone
      /\ prepared /\ ~ prepared' => ~ environmentInstalled /\ applicationDone
      /\ held /\ ~ held' =>
           ~ environmentInstalled /\ applicationDone /\ cleanupDone

\* Even when beforeAll timed out and start() still runs under afterAll or after
\* it, no container is left up once every stop() that was called has settled,
\* and none comes up later: unless the runtime's stop() rejected for whatever
\* reason, the start of the network that it interrupted being one of them
\* (container-runtime.ts:95).
ContainersReleased ==
  /\ stopPc["afterAll"] = "done" /\ stopPc["start"] \in {"idle", "done"}
  /\ held
  => "runtime" \in failures

\* The consumer's application.stop() is called only after its start returned
\* an instance, and for one caller of controller.stop() at a time.
StopsOnlyWhatStarted ==
  \A s \in Stoppers : stopPc[s] = "application" =>
    /\ startPc = "ready" /\ applicationUp
    /\ \A t \in Stoppers \ {s} : stopPc[t] # "application"

\* afterAll ends, even when a callback of the start it interrupts hangs, and a
\* start that begins to fail rejects, whoever else is stopping the same things.
HooksSettle ==
  /\ stopPc["afterAll"] # "idle" ~> stopPc["afterAll"] = "done"
  /\ startPc \in {"contextStop", "failing"} ~> startPc = "failed"

=============================================================================
