------------------------ MODULE FileLifecycleProofs ------------------------
(***************************************************************************)
(* Theorems about the hooks of one test file, for any callbacks of the     *)
(* consumer that may fail, with or without a beforeAll that times out, and *)
(* for whatever a runtime does within the contract OwnedRuntime.           *)
(***************************************************************************)
EXTENDS MCFileLifecycle, TLAPS

StartSteps == {"idle", "runtime", "preparing", "application", "contextStop",
               "failing", "controllerStop", "ready", "failed"}
StopSteps == {"idle", "noApplication", "application", "context", "done"}
Releases == {"cleanup", "applicationStop", "runtime"}

FileTypeOK ==
  /\ startPc \in StartSteps
  /\ stopPc \in [Stoppers -> StopSteps]
  /\ {fileContext, applicationManager, restoreEnvironment, runtime, resources,
      preparationCleanup, applicationInstance, prepared, environmentInstalled,
      applicationUp, held, interrupted} \subseteq BOOLEAN
  /\ contextStop \in {"idle", "cleanup", "runtime", "done"}
  /\ rtStart \in Runtime!StartStates /\ rtStop \in Runtime!StopStates
  /\ failures \subseteq Releases

\* Where the runtime is: made by start(), in the context's field until stopAll()
\* takes it, and settled, with its failure reported, when stopAll() is over.
RuntimeInv ==
  /\ startPc = "idle" => rtStart = "idle" /\ ~ fileContext /\ contextStop = "idle"
  /\ rtStart = "idle" => ~ held /\ ~ runtime /\ rtStop = "idle"
  /\ rtStart # "idle" => runtime \/ contextStop \in {"runtime", "done"}
  /\ rtStop = "resolved" => ~ held
  /\ contextStop = "runtime" => rtStop # "idle"
  /\ contextStop = "done" /\ rtStart # "idle" =>
       /\ rtStop \in {"resolved", "rejected"}
       /\ rtStop = "rejected" => "runtime" \in failures

\* The context: the controller drops it only to stop it, and whoever took it
\* waits until it has stopped.
ContextInv ==
  /\ ~ fileContext /\ rtStart # "idle" =>
       /\ contextStop # "idle"
       /\ contextStop = "done" \/ \E s \in Stoppers : stopPc[s] = "context"
  /\ \A s \in Stoppers : stopPc[s] \in {"context", "done"} => ~ fileContext

\* The application: there is an instance only once start() returned, the catch
\* of start() finds none, and afterAll takes the one there is.
ApplicationInv ==
  /\ startPc = "idle" => stopPc["afterAll"] = "idle"
  /\ startPc \notin {"controllerStop", "failed"} => stopPc["start"] = "idle"
  /\ startPc = "failed" => stopPc["start"] \in {"idle", "done"}
  /\ applicationUp => startPc = "ready"
  /\ applicationInstance => applicationUp
  /\ stopPc["start"] # "application"
  /\ stopPc["afterAll"] = "application" => applicationUp /\ ~ applicationInstance

\* A start afterAll did not interrupt: each thing the hooks set up has its
\* handle until its release begins, and no release begins before the former one.
EnvironmentInv ==
  /\ restoreEnvironment <=> environmentInstalled
  /\ environmentInstalled =>
       /\ startPc \notin {"idle", "runtime", "preparing", "contextStop"}
       /\ \A s \in Stoppers : stopPc[s] \notin {"context", "done"}
       /\ contextStop = "idle"

OrderInv ==
  /\ stopPc["afterAll"] # "idle" => startPc \in {"ready", "failed"}
  /\ startPc \in {"runtime", "preparing", "application"} => contextStop = "idle"
  /\ applicationUp =>
       IF stopPc["afterAll"] = "idle"
       THEN applicationManager /\ applicationInstance
       ELSE stopPc["afterAll"] = "application" \/ "applicationStop" \in failures
  /\ startPc = "application" => applicationManager
  /\ contextStop # "idle" /\ applicationUp => "applicationStop" \in failures

PreparationInv ==
  /\ startPc \in {"idle", "runtime", "preparing"} => ~ prepared
  /\ prepared => \/ preparationCleanup
                 \/ contextStop = "cleanup"
                 \/ "cleanup" \in failures
  /\ rtStart # "resolved" => ~ prepared /\ ~ environmentInstalled /\ ~ applicationUp
  /\ startPc \in {"preparing", "application"} => rtStart = "resolved"
  /\ rtStop # "idle" => contextStop \in {"runtime", "done"} \/ rtStart \in {"failing", "rejected"}
  /\ startPc = "contextStop" => ~ prepared
  /\ preparationCleanup => contextStop = "idle"

\* A start that has rejected found nothing to release or has released it.
FailedInv ==
  startPc = "failed" => ~ environmentInstalled /\ (rtStart = "idle" \/ contextStop = "done")

Uninterrupted == EnvironmentInv /\ OrderInv /\ PreparationInv /\ FailedInv

FileInv ==
  /\ FileTypeOK /\ RuntimeInv /\ ContextInv /\ ApplicationInv
  /\ ~ interrupted => Uninterrupted

-----------------------------------------------------------------------------
(* What the helpers of the actions do                                      *)

\* The context's call of runtime.stop(), in terms of the runtime's promise.
LEMMA RuntimeStopCalled ==
  ASSUME FileTypeOK, RuntimeInv, CallRuntimeStop
  PROVE  /\ rtStart' = rtStart /\ held' = held
         /\ rtStop' \in Runtime!StopStates \ {"idle"}
         /\ rtStop # "idle" => rtStop' = rtStop
         /\ rtStop' = "resolved" => ~ held
BY DEF FileTypeOK, RuntimeInv, CallRuntimeStop, Runtime!CallStop, Runtime!StopStates,
   runtimeVars

LEMMA RuntimeTaken ==
  ASSUME FileTypeOK, RuntimeInv, StopRuntime
  PROVE  /\ runtime' = FALSE /\ resources' \in BOOLEAN
         /\ rtStart' = rtStart /\ held' = held
         /\ rtStop' \in Runtime!StopStates
         /\ rtStop # "idle" => rtStop' = rtStop
         /\ rtStop' = "resolved" => ~ held
         /\ runtime => contextStop' = "runtime" /\ rtStop' # "idle"
         /\ ~ runtime => contextStop' = "done" /\ rtStop' = rtStop
<1>1. CASE runtime
  BY <1>1, RuntimeStopCalled DEF StopRuntime, FileTypeOK
<1>2. CASE ~ runtime
  BY <1>2 DEF StopRuntime, FileTypeOK, RuntimeInv, runtimeVars
<1> QED BY <1>1, <1>2

\* fileContext.stop(): the first call begins stopAll(), any other joins it.
LEMMA ContextStopBegun ==
  ASSUME FileTypeOK, RuntimeInv, BeginContextStop
  PROVE  /\ rtStart' = rtStart /\ held' = held
         /\ {runtime', resources', preparationCleanup'} \subseteq BOOLEAN
         /\ rtStop' \in Runtime!StopStates
         /\ rtStop # "idle" => rtStop' = rtStop
         /\ rtStop' = "resolved" => ~ held
         /\ contextStop # "idle" =>
              /\ UNCHANGED <<contextStop, preparationCleanup, runtime>>
              /\ rtStop' = rtStop
         /\ contextStop = "idle" =>
              /\ preparationCleanup' = FALSE
              /\ preparationCleanup =>
                   contextStop' = "cleanup" /\ runtime' = runtime /\ rtStop' = rtStop
              /\ ~ preparationCleanup /\ runtime =>
                   contextStop' = "runtime" /\ rtStop' # "idle" /\ runtime' = FALSE
              /\ ~ preparationCleanup /\ ~ runtime =>
                   contextStop' = "done" /\ rtStop' = rtStop /\ runtime' = FALSE
<1>1. CASE contextStop # "idle"
  BY <1>1 DEF BeginContextStop, FileTypeOK, RuntimeInv, contextVars, runtimeVars
<1>2. CASE contextStop = "idle" /\ preparationCleanup
  BY <1>2 DEF BeginContextStop, FileTypeOK, RuntimeInv, runtimeVars
<1>3. CASE contextStop = "idle" /\ ~ preparationCleanup
  BY <1>3, RuntimeTaken DEF BeginContextStop
<1> QED BY <1>1, <1>2, <1>3 DEF FileTypeOK

-----------------------------------------------------------------------------
(* The invariant is inductive                                              *)

LEMMA InitHolds == HooksInit => FileInv
BY DEF HooksInit, Init, Runtime!Init, Runtime!StartStates, Runtime!StopStates, Stoppers,
   StartSteps, StopSteps, Releases, FileInv, FileTypeOK, RuntimeInv, ContextInv,
   ApplicationInv, Uninterrupted, EnvironmentInv, OrderInv, PreparationInv, FailedInv

\* One caller of controller.stop() goes past the application: what its step
\* does besides is said by the hypotheses.
LEMMA ReleaseKeeps ==
  ASSUME FileInv, NEW s \in Stoppers, RestoreAndStopContext(s),
         stopPc[s] \in {"idle", "noApplication", "application"},
         \/ startPc' = startPc
         \/ s = "start" /\ startPc = "failing" /\ startPc' = "controllerStop",
         s = "start" => startPc' = "controllerStop",
         s = "afterAll" => startPc # "idle",
         prepared' = prepared, applicationManager' \in BOOLEAN,
         failures \subseteq failures', failures' \subseteq Releases,
         applicationInstance' = applicationInstance,
         applicationUp' \in BOOLEAN, applicationUp' => applicationUp,
         applicationInstance => applicationUp',
         interrupted' \in BOOLEAN,
         ~ interrupted' =>
           /\ ~ interrupted
           /\ s = "afterAll" => startPc \in {"ready", "failed"}
           /\ applicationUp' => "applicationStop" \in failures'
  PROVE  FileInv'
<1>1. FileTypeOK /\ RuntimeInv /\ ContextInv /\ ApplicationInv
  BY DEF FileInv
<1>2. /\ environmentInstalled' = (environmentInstalled /\ ~ restoreEnvironment)
      /\ restoreEnvironment' = FALSE /\ fileContext' = FALSE
      /\ fileContext => BeginContextStop /\ stopPc' = [stopPc EXCEPT ![s] = "context"]
      /\ ~ fileContext => /\ stopPc' = [stopPc EXCEPT ![s] = "done"]
                          /\ UNCHANGED <<contextVars, runtimeVars>>
  BY DEF RestoreAndStopContext
<1>3. /\ stopPc' \in [Stoppers -> StopSteps]
      /\ stopPc'[s] = IF fileContext THEN "context" ELSE "done"
      /\ \A t \in Stoppers \ {s} : stopPc'[t] = stopPc[t]
  BY <1>1, <1>2 DEF FileTypeOK, StopSteps
<1>4. CASE fileContext
  <2>1. BeginContextStop
    BY <1>2, <1>4
  <2>2. /\ rtStart' = rtStart /\ held' = held /\ rtStop' \in Runtime!StopStates
        /\ {runtime', resources', preparationCleanup'} \subseteq BOOLEAN
        /\ contextStop' \in {"idle", "cleanup", "runtime", "done"}
        /\ contextStop' # "idle"
    BY <2>1, <1>1, ContextStopBegun DEF FileTypeOK
  <2>3. FileTypeOK'
    BY <1>1, <1>2, <1>3, <2>2 DEF FileTypeOK, StartSteps
  <2>4. /\ rtStop # "idle" => rtStop' = rtStop
        /\ rtStop' = "resolved" => ~ held
        /\ contextStop # "idle" =>
             /\ contextStop' = contextStop /\ preparationCleanup' = preparationCleanup
             /\ runtime' = runtime /\ rtStop' = rtStop
        /\ contextStop = "idle" =>
             /\ preparationCleanup' = FALSE
             /\ \/ contextStop' = "cleanup" /\ runtime' = runtime /\ rtStop' = rtStop
                \/ /\ ~ preparationCleanup /\ runtime
                   /\ contextStop' = "runtime" /\ rtStop' # "idle" /\ runtime' = FALSE
                \/ /\ ~ preparationCleanup /\ ~ runtime
                   /\ contextStop' = "done" /\ rtStop' = rtStop /\ runtime' = FALSE
    BY <2>1, <1>1, ContextStopBegun DEF FileTypeOK
  <2>5. RuntimeInv'
    BY <1>1, <1>2, <1>4, <2>2, <2>4 DEF RuntimeInv
  <2>6. ContextInv'
    BY <1>1, <1>2, <1>3, <1>4, <2>2 DEF ContextInv
  <2>7. ApplicationInv'
    BY <1>1, <1>2, <1>3, <1>4 DEF ApplicationInv, Stoppers
  <2>8. ASSUME ~ interrupted' PROVE Uninterrupted'
    <3>1. Uninterrupted
      BY <2>8 DEF FileInv
    <3>2. EnvironmentInv'
      BY <1>2, <3>1 DEF EnvironmentInv, Uninterrupted
    <3>3. OrderInv'
      BY <1>1, <1>2, <1>3, <1>4, <2>2, <2>8, <3>1 DEF OrderInv, ApplicationInv, Uninterrupted, Stoppers
    <3>4. PreparationInv'
      BY <1>1, <1>2, <2>2, <2>4, <2>8, <3>1
         DEF PreparationInv, Uninterrupted, RuntimeInv
    <3>5. FailedInv'
      BY <1>1, <1>2, <2>2, <2>4, <2>8, <3>1 DEF FailedInv, Uninterrupted, RuntimeInv
    <3> QED BY <3>2, <3>3, <3>4, <3>5 DEF Uninterrupted
  <2> QED BY <2>3, <2>5, <2>6, <2>7, <2>8 DEF FileInv
<1>5. CASE ~ fileContext
  <2>1. UNCHANGED <<runtime, resources, preparationCleanup, contextStop, rtStart, rtStop, held>>
    BY <1>2, <1>5 DEF contextVars, runtimeVars
  <2>2. FileTypeOK'
    BY <1>1, <1>2, <1>3, <2>1 DEF FileTypeOK, StartSteps
  <2>3. RuntimeInv' /\ ApplicationInv'
    BY <1>1, <1>2, <1>3, <1>5, <2>1 DEF RuntimeInv, ApplicationInv, FileTypeOK, Stoppers
  <2>4. ContextInv'
    BY <1>1, <1>2, <1>3, <1>5, <2>1 DEF ContextInv, Stoppers
  <2>5. ASSUME ~ interrupted' PROVE Uninterrupted'
    <3>1. Uninterrupted
      BY <2>5 DEF FileInv
    <3>2. EnvironmentInv' /\ OrderInv' /\ PreparationInv' /\ FailedInv'
      BY <1>1, <1>2, <1>3, <1>5, <2>1, <2>5, <3>1 DEF EnvironmentInv, OrderInv, PreparationInv, FailedInv,
         ApplicationInv, Uninterrupted, Stoppers
    <3> QED BY <3>2 DEF Uninterrupted
  <2> QED BY <2>2, <2>3, <2>4, <2>5 DEF FileInv
<1> QED BY <1>4, <1>5

LEMMA HookThrowsKeeps == FileInv /\ HookThrows /\ UNCHANGED interrupted => FileInv'
<1> SUFFICES ASSUME FileInv, HookThrows, UNCHANGED interrupted PROVE FileInv'
  OBVIOUS
<1>1. FileTypeOK'
  BY DEF FileInv, FileTypeOK, HookThrows, StartSteps, controllerVars, contextVars, runtimeVars, worldVars, Stoppers
<1>2. RuntimeInv' /\ ContextInv'
  BY DEF FileInv, FileTypeOK, RuntimeInv, ContextInv, HookThrows, StartSteps, controllerVars, contextVars, runtimeVars, worldVars, Stoppers
<1>3. ApplicationInv'
  BY DEF FileInv, FileTypeOK, ApplicationInv, HookThrows, StartSteps, controllerVars, contextVars, runtimeVars, worldVars, Stoppers
<1>4. ~ interrupted' => Uninterrupted'
  BY DEF FileInv, FileTypeOK, RuntimeInv, ContextInv, ApplicationInv, Uninterrupted,
     EnvironmentInv, OrderInv, PreparationInv, FailedInv, HookThrows, StartSteps, controllerVars, contextVars, runtimeVars, worldVars, Stoppers
<1> QED BY <1>1, <1>2, <1>3, <1>4 DEF FileInv

LEMMA StartKeeps == FileInv /\ Start /\ UNCHANGED interrupted => FileInv'
<1> SUFFICES ASSUME FileInv, Start, UNCHANGED interrupted PROVE FileInv'
  OBVIOUS
<1>1. FileTypeOK'
  BY DEF FileInv, FileTypeOK, Start, StartSteps, Runtime!CallStart, Runtime!StartStates, controllerVars, contextVars, runtimeVars, worldVars, Stoppers
<1>2. RuntimeInv' /\ ContextInv'
  BY DEF FileInv, FileTypeOK, RuntimeInv, ContextInv, ApplicationInv, Start, StartSteps, Runtime!CallStart, Runtime!StartStates, controllerVars, contextVars, runtimeVars, worldVars, Stoppers
<1>3. ApplicationInv'
  BY DEF FileInv, FileTypeOK, ApplicationInv, Start, StartSteps, Runtime!CallStart, Runtime!StartStates, controllerVars, contextVars, runtimeVars, worldVars, Stoppers
<1>4. ~ interrupted' => Uninterrupted'
  BY DEF FileInv, FileTypeOK, RuntimeInv, ContextInv, ApplicationInv, Uninterrupted,
     EnvironmentInv, OrderInv, PreparationInv, FailedInv, Start, StartSteps, Runtime!CallStart, Runtime!StartStates, controllerVars, contextVars, runtimeVars, worldVars, Stoppers
<1> QED BY <1>1, <1>2, <1>3, <1>4 DEF FileInv

LEMMA RuntimeReadyKeeps == FileInv /\ RuntimeReady /\ UNCHANGED interrupted => FileInv'
<1> SUFFICES ASSUME FileInv, RuntimeReady, UNCHANGED interrupted PROVE FileInv'
  OBVIOUS
<1>1. FileTypeOK'
  BY DEF FileInv, FileTypeOK, RuntimeReady, BeginApplication, InstallEnvironment, StartSteps, controllerVars, contextVars, runtimeVars, worldVars, Stoppers
<1>2. RuntimeInv' /\ ContextInv'
  BY DEF FileInv, FileTypeOK, RuntimeInv, ContextInv, RuntimeReady, BeginApplication, InstallEnvironment, StartSteps, controllerVars, contextVars, runtimeVars, worldVars, Stoppers
<1>3. ApplicationInv'
  BY DEF FileInv, FileTypeOK, ApplicationInv, RuntimeReady, BeginApplication, InstallEnvironment, StartSteps, controllerVars, contextVars, runtimeVars, worldVars, Stoppers
<1>4. ~ interrupted' => Uninterrupted'
  BY DEF FileInv, FileTypeOK, RuntimeInv, ContextInv, ApplicationInv, Uninterrupted,
     EnvironmentInv, OrderInv, PreparationInv, FailedInv, RuntimeReady, BeginApplication, InstallEnvironment, StartSteps, controllerVars, contextVars, runtimeVars, worldVars, Stoppers
<1> QED BY <1>1, <1>2, <1>3, <1>4 DEF FileInv

LEMMA PreparedKeeps == FileInv /\ Prepared /\ UNCHANGED interrupted => FileInv'
<1> SUFFICES ASSUME FileInv, Prepared, UNCHANGED interrupted PROVE FileInv'
  OBVIOUS
<1>1. FileTypeOK'
  BY DEF FileInv, FileTypeOK, Prepared, BeginApplication, InstallEnvironment, StartSteps, controllerVars, contextVars, runtimeVars, worldVars, Stoppers
<1>2. RuntimeInv' /\ ContextInv'
  BY DEF FileInv, FileTypeOK, RuntimeInv, ContextInv, Prepared, BeginApplication, InstallEnvironment, StartSteps, controllerVars, contextVars, runtimeVars, worldVars, Stoppers
<1>3. ApplicationInv'
  BY DEF FileInv, FileTypeOK, ApplicationInv, Prepared, BeginApplication, InstallEnvironment, StartSteps, controllerVars, contextVars, runtimeVars, worldVars, Stoppers
<1>4. ~ interrupted' => Uninterrupted'
  BY DEF FileInv, FileTypeOK, RuntimeInv, ContextInv, ApplicationInv, Uninterrupted,
     EnvironmentInv, OrderInv, PreparationInv, FailedInv, Prepared, BeginApplication, InstallEnvironment, StartSteps, controllerVars, contextVars, runtimeVars, worldVars, Stoppers
<1> QED BY <1>1, <1>2, <1>3, <1>4 DEF FileInv

LEMMA ApplicationStartsKeeps == FileInv /\ ApplicationStarts /\ UNCHANGED interrupted => FileInv'
<1> SUFFICES ASSUME FileInv, ApplicationStarts, UNCHANGED interrupted PROVE FileInv'
  OBVIOUS
<1>1. FileTypeOK'
  BY DEF FileInv, FileTypeOK, ApplicationStarts, StartSteps, controllerVars, contextVars, runtimeVars, worldVars, Stoppers
<1>2. RuntimeInv' /\ ContextInv'
  BY DEF FileInv, FileTypeOK, RuntimeInv, ContextInv, ApplicationStarts, StartSteps, controllerVars, contextVars, runtimeVars, worldVars, Stoppers
<1>3. ApplicationInv'
  BY DEF FileInv, FileTypeOK, ApplicationInv, ApplicationStarts, StartSteps, controllerVars, contextVars, runtimeVars, worldVars, Stoppers
<1>4. ~ interrupted' => Uninterrupted'
  BY DEF FileInv, FileTypeOK, RuntimeInv, ContextInv, ApplicationInv, Uninterrupted,
     EnvironmentInv, OrderInv, PreparationInv, FailedInv, ApplicationStarts, StartSteps, controllerVars, contextVars, runtimeVars, worldVars, Stoppers
<1> QED BY <1>1, <1>2, <1>3, <1>4 DEF FileInv

LEMMA ContextStoppedKeeps == FileInv /\ ContextStopped /\ UNCHANGED interrupted => FileInv'
<1> SUFFICES ASSUME FileInv, ContextStopped, UNCHANGED interrupted PROVE FileInv'
  OBVIOUS
<1>1. FileTypeOK'
  BY DEF FileInv, FileTypeOK, ContextStopped, StartSteps, controllerVars, contextVars, runtimeVars, worldVars, Stoppers
<1>2. RuntimeInv' /\ ContextInv'
  BY DEF FileInv, FileTypeOK, RuntimeInv, ContextInv, ContextStopped, StartSteps, controllerVars, contextVars, runtimeVars, worldVars, Stoppers
<1>3. ApplicationInv'
  BY DEF FileInv, FileTypeOK, ApplicationInv, ContextStopped, StartSteps, controllerVars, contextVars, runtimeVars, worldVars, Stoppers
<1>4. ~ interrupted' => Uninterrupted'
  BY DEF FileInv, FileTypeOK, RuntimeInv, ContextInv, ApplicationInv, Uninterrupted,
     EnvironmentInv, OrderInv, PreparationInv, FailedInv, ContextStopped, StartSteps, controllerVars, contextVars, runtimeVars, worldVars, Stoppers
<1> QED BY <1>1, <1>2, <1>3, <1>4 DEF FileInv

LEMMA StartRejectsKeeps == FileInv /\ StartRejects /\ UNCHANGED interrupted => FileInv'
<1> SUFFICES ASSUME FileInv, StartRejects, UNCHANGED interrupted PROVE FileInv'
  OBVIOUS
<1>1. FileTypeOK'
  BY DEF FileInv, FileTypeOK, StartRejects, StartSteps, controllerVars, contextVars, runtimeVars, worldVars, Stoppers
<1>2. RuntimeInv' /\ ContextInv'
  BY DEF FileInv, FileTypeOK, RuntimeInv, ContextInv, StartRejects, StartSteps, controllerVars, contextVars, runtimeVars, worldVars, Stoppers
<1>3. ApplicationInv'
  BY DEF FileInv, FileTypeOK, ApplicationInv, StartRejects, StartSteps, controllerVars, contextVars, runtimeVars, worldVars, Stoppers
<1>4. ~ interrupted' => Uninterrupted'
  BY DEF FileInv, FileTypeOK, RuntimeInv, ContextInv, ApplicationInv, Uninterrupted,
     EnvironmentInv, OrderInv, PreparationInv, FailedInv, StartRejects, StartSteps, controllerVars, contextVars, runtimeVars, worldVars, Stoppers
<1> QED BY <1>1, <1>2, <1>3, <1>4 DEF FileInv

LEMMA RuntimeStoppedKeeps == FileInv /\ RuntimeStopped /\ UNCHANGED interrupted => FileInv'
<1> SUFFICES ASSUME FileInv, RuntimeStopped, UNCHANGED interrupted PROVE FileInv'
  OBVIOUS
<1>1. FileTypeOK'
  BY DEF FileInv, FileTypeOK, RuntimeStopped, Releases, controllerVars, contextVars, runtimeVars, worldVars, Stoppers
<1>2. RuntimeInv' /\ ContextInv'
  BY DEF FileInv, FileTypeOK, RuntimeInv, ContextInv, RuntimeStopped, Releases, controllerVars, contextVars, runtimeVars, worldVars, Stoppers
<1>3. ApplicationInv'
  BY DEF FileInv, FileTypeOK, ApplicationInv, RuntimeStopped, Releases, controllerVars, contextVars, runtimeVars, worldVars, Stoppers
<1>4. ~ interrupted' => Uninterrupted'
  BY DEF FileInv, FileTypeOK, RuntimeInv, ContextInv, ApplicationInv, Uninterrupted,
     EnvironmentInv, OrderInv, PreparationInv, FailedInv, RuntimeStopped, Releases, controllerVars, contextVars, runtimeVars, worldVars, Stoppers
<1> QED BY <1>1, <1>2, <1>3, <1>4 DEF FileInv

\* stopAll() from the consumer's cleanup on.
LEMMA CleanupSettlesKeeps == FileInv /\ CleanupSettles /\ UNCHANGED interrupted => FileInv'
<1> SUFFICES ASSUME FileInv, CleanupSettles, UNCHANGED interrupted PROVE FileInv'
  OBVIOUS
<1>1. FileTypeOK /\ RuntimeInv
  BY DEF FileInv
<1>2. /\ runtime' = FALSE /\ resources' \in BOOLEAN
      /\ rtStart' = rtStart /\ held' = held /\ rtStop' \in Runtime!StopStates
      /\ rtStop # "idle" => rtStop' = rtStop
      /\ rtStop' = "resolved" => ~ held
      /\ \/ runtime /\ contextStop' = "runtime" /\ rtStop' # "idle"
         \/ ~ runtime /\ contextStop' = "done" /\ rtStop' = rtStop
  BY <1>1, RuntimeTaken DEF CleanupSettles, FileTypeOK
<1>3. /\ contextStop = "cleanup"
      /\ \/ prepared' = FALSE /\ failures' = failures
         \/ prepared' = prepared /\ failures' = failures \cup {"cleanup"}
      /\ UNCHANGED <<startPc, stopPc, controllerVars, preparationCleanup,
                     applicationInstance, environmentInstalled, applicationUp, interrupted>>
  BY DEF CleanupSettles
<1>4. FileTypeOK'
  BY <1>1, <1>2, <1>3 DEF FileTypeOK, Releases, controllerVars
<1>5. RuntimeInv' /\ ContextInv' /\ ApplicationInv'
  BY <1>1, <1>2, <1>3 DEF FileInv, RuntimeInv, ContextInv, ApplicationInv, Stoppers, controllerVars
<1>6. ~ interrupted' => Uninterrupted'
  BY <1>1, <1>2, <1>3 DEF FileInv, FileTypeOK, RuntimeInv, ApplicationInv, Uninterrupted, EnvironmentInv,
     OrderInv, PreparationInv, FailedInv, Stoppers, controllerVars
<1> QED BY <1>4, <1>5, <1>6 DEF FileInv

\* The context stops itself when its start fails.
LEMMA ContextFailsKeeps == FileInv /\ ContextFails /\ UNCHANGED interrupted => FileInv'
<1> SUFFICES ASSUME FileInv, ContextFails, UNCHANGED interrupted PROVE FileInv'
  OBVIOUS
<1>1. FileTypeOK /\ RuntimeInv
  BY DEF FileInv
<1>2. BeginContextStop
  BY DEF ContextFails
<1>3. /\ rtStart' = rtStart /\ held' = held /\ rtStop' \in Runtime!StopStates
      /\ {runtime', resources', preparationCleanup'} \subseteq BOOLEAN
      /\ contextStop' \in {"cleanup", "runtime", "done"}
  BY <1>1, <1>2, ContextStopBegun DEF FileTypeOK
<1>4. /\ rtStop # "idle" => rtStop' = rtStop
      /\ rtStop' = "resolved" => ~ held
      /\ contextStop # "idle" =>
           /\ contextStop' = contextStop /\ preparationCleanup' = preparationCleanup
           /\ runtime' = runtime /\ rtStop' = rtStop
      /\ contextStop = "idle" =>
           /\ preparationCleanup' = FALSE
           /\ \/ contextStop' = "cleanup" /\ runtime' = runtime /\ rtStop' = rtStop
              \/ /\ ~ preparationCleanup /\ runtime
                 /\ contextStop' = "runtime" /\ rtStop' # "idle" /\ runtime' = FALSE
              \/ /\ ~ preparationCleanup /\ ~ runtime
                 /\ contextStop' = "done" /\ rtStop' = rtStop /\ runtime' = FALSE
  BY <1>1, <1>2, ContextStopBegun DEF FileTypeOK
<1>5. /\ (startPc = "runtime" /\ rtStart = "rejected") \/ startPc = "preparing"
      /\ startPc' = "contextStop"
      /\ UNCHANGED <<stopPc, controllerVars, applicationInstance, worldVars, failures, interrupted>>
  BY DEF ContextFails
<1>6. FileTypeOK'
  BY <1>1, <1>3, <1>5 DEF FileTypeOK, StartSteps, controllerVars, worldVars
<1>7. RuntimeInv'
  BY <1>1, <1>3, <1>4, <1>5 DEF RuntimeInv, controllerVars
<1>8. ContextInv' /\ ApplicationInv'
  BY <1>1, <1>3, <1>4, <1>5 DEF FileInv, ContextInv, ApplicationInv, Stoppers, controllerVars, worldVars
<1>9. ~ interrupted' => Uninterrupted'
  BY <1>1, <1>3, <1>4, <1>5 DEF FileInv, RuntimeInv, ApplicationInv, Uninterrupted, EnvironmentInv,
     OrderInv, PreparationInv, FailedInv, Stoppers, controllerVars, worldVars
<1> QED BY <1>6, <1>7, <1>8, <1>9 DEF FileInv

LEMMA ContextStopsKeeps ==
  ASSUME FileInv, NEW s \in Stoppers, ContextStops(s), UNCHANGED interrupted
  PROVE  FileInv'
<1>1. FileTypeOK' /\ RuntimeInv'
  BY DEF FileInv, FileTypeOK, RuntimeInv, ContextStops, StopSteps, controllerVars, contextVars,
     runtimeVars, worldVars
<1>2. ContextInv' /\ ApplicationInv'
  BY DEF FileInv, FileTypeOK, ContextInv, ApplicationInv, ContextStops, Stoppers, controllerVars,
     contextVars, runtimeVars, worldVars
<1>3. ~ interrupted' => Uninterrupted'
  BY DEF FileInv, FileTypeOK, Uninterrupted, EnvironmentInv, OrderInv, PreparationInv, FailedInv,
     ContextStops, Stoppers, controllerVars, contextVars, runtimeVars, worldVars
<1> QED BY <1>1, <1>2, <1>3 DEF FileInv

\* The runtime moves within its contract.
LEMMA RuntimeStepKeeps == FileInv /\ RuntimeStep /\ UNCHANGED interrupted => FileInv'
<1> SUFFICES ASSUME FileInv, RuntimeStep, UNCHANGED interrupted PROVE FileInv'
  OBVIOUS
<1>1. UNCHANGED <<startPc, stopPc, controllerVars, contextVars, applicationInstance, worldVars,
                  failures, interrupted>>
  BY DEF RuntimeStep
<1>2. /\ rtStart' \in Runtime!StartStates /\ rtStop' \in Runtime!StopStates /\ held' \in BOOLEAN
      /\ rtStart' = "idle" <=> rtStart = "idle"
      /\ rtStart = "idle" => held' = held /\ rtStop' = rtStop
      /\ rtStop' = "resolved" => ~ held'
      /\ rtStop \in {"resolved", "rejected"} => rtStop' = rtStop
      /\ rtStop' = "idle" => rtStop = "idle"
      /\ rtStop = "idle" /\ rtStop' # "idle" => rtStart' = "failing"
      /\ rtStart = "resolved" => rtStart' = "resolved"
      /\ rtStart \in {"failing", "rejected"} => rtStart' \in {"failing", "rejected"}
  <2>1. FileTypeOK /\ RuntimeInv
    BY DEF FileInv
  <2>2. CASE Runtime!Boot
    BY <2>1, <2>2 DEF FileTypeOK, RuntimeInv, Runtime!Boot
  <2>3. CASE Runtime!Progress
    BY <2>1, <2>3 DEF FileTypeOK, RuntimeInv, Runtime!Progress, Runtime!StartResolves,
       Runtime!StartFails, Runtime!StartRejects, Runtime!StartStates, Runtime!StopStates
  <2>4. CASE Runtime!Release
    BY <2>1, <2>4 DEF FileTypeOK, RuntimeInv, Runtime!Release
  <2>5. CASE Runtime!StopSettles
    <3>1. /\ rtStop = "pending" /\ rtStop' \in {"resolved", "rejected"}
          /\ held => rtStop' = "rejected"
          /\ UNCHANGED <<rtStart, held>>
      BY <2>5 DEF Runtime!StopSettles
    <3> QED BY <2>1, <3>1 DEF FileTypeOK, RuntimeInv, Runtime!StopStates
  <2> QED BY <2>2, <2>3, <2>4, <2>5 DEF RuntimeStep
<1> QED
  BY <1>1, <1>2 DEF FileInv, FileTypeOK, RuntimeInv, ContextInv, ApplicationInv, Uninterrupted,
     EnvironmentInv, OrderInv, PreparationInv, FailedInv, Stoppers, controllerVars, contextVars,
     worldVars

LEMMA NoApplicationToStopKeeps ==
  ASSUME FileInv, NEW s \in Stoppers, NoApplicationToStop(s), UNCHANGED interrupted
  PROVE  FileInv'
<1>1. /\ stopPc[s] = "noApplication" /\ RestoreAndStopContext(s)
      /\ UNCHANGED <<startPc, applicationManager, applicationInstance, prepared, applicationUp,
                     failures, interrupted>>
  BY DEF NoApplicationToStop
<1>2. /\ s = "start" => startPc = "controllerStop"
      /\ s = "afterAll" => startPc # "idle"
      /\ applicationInstance => applicationUp
  BY <1>1 DEF FileInv, FileTypeOK, ApplicationInv
<1>3. ~ interrupted' =>
        /\ s = "afterAll" => startPc \in {"ready", "failed"}
        /\ applicationUp => "applicationStop" \in failures
  BY <1>1, <1>2 DEF FileInv, ApplicationInv, Uninterrupted, OrderInv, Stoppers
<1>4. {interrupted, applicationUp, applicationManager} \subseteq BOOLEAN /\ failures \subseteq Releases
  BY DEF FileInv, FileTypeOK
<1> QED BY <1>1, <1>2, <1>3, <1>4, ReleaseKeeps

LEMMA ApplicationStopsKeeps ==
  ASSUME FileInv, NEW s \in Stoppers, ApplicationStops(s), UNCHANGED interrupted
  PROVE  FileInv'
<1>1. /\ stopPc[s] = "application" /\ RestoreAndStopContext(s)
      /\ UNCHANGED <<startPc, applicationManager, applicationInstance, prepared, interrupted>>
      /\ \/ applicationUp' = FALSE /\ failures' = failures
         \/ applicationUp' = applicationUp /\ failures' = failures \cup {"applicationStop"}
  BY DEF ApplicationStops
<1>2. s = "afterAll" /\ startPc = "ready" /\ ~ applicationInstance
  BY <1>1 DEF FileInv, FileTypeOK, ApplicationInv, Stoppers
<1>3. {interrupted, applicationUp, applicationManager} \subseteq BOOLEAN /\ failures \subseteq Releases
  BY DEF FileInv, FileTypeOK
<1>4. failures \subseteq failures' /\ failures' \subseteq Releases /\ applicationUp' \in BOOLEAN
  BY <1>1, <1>3 DEF Releases
<1> QED BY <1>1, <1>2, <1>3, <1>4, ReleaseKeeps

\* controller.stop() is called: by the catch of start() or by afterAll.
LEMMA BeginStopKeeps ==
  ASSUME FileInv, NEW s \in Stoppers, BeginStop(s), stopPc[s] = "idle",
         \/ s = "afterAll" /\ startPc # "idle" /\ startPc' = startPc
         \/ s = "start" /\ startPc = "failing" /\ startPc' = "controllerStop",
         UNCHANGED <<prepared, applicationUp, failures>>,
         interrupted' \in BOOLEAN,
         ~ interrupted' => /\ ~ interrupted
                           /\ s = "afterAll" => startPc \in {"ready", "failed"}
  PROVE  FileInv'
<1>1. {interrupted, applicationUp, applicationManager, applicationInstance} \subseteq BOOLEAN
      /\ failures \subseteq Releases
  BY DEF FileInv, FileTypeOK
<1>2. s = "start" => ~ applicationInstance /\ ~ applicationUp
  BY DEF FileInv, ApplicationInv, Stoppers
<1>3. applicationInstance => applicationUp
  BY DEF FileInv, ApplicationInv
<1>4. ASSUME ~ interrupted', applicationUp, ~ applicationManager PROVE s # "afterAll"
  BY <1>4 DEF FileInv, Uninterrupted, OrderInv
<1>5. CASE ~ applicationManager
  <2>1. /\ applicationManager' = FALSE /\ applicationInstance' = applicationInstance
        /\ RestoreAndStopContext(s)
    BY <1>5 DEF BeginStop
  <2> QED BY <1>1, <1>2, <1>3, <1>4, <1>5, <2>1, ReleaseKeeps DEF Stoppers
<1>6. CASE applicationManager
  <2>1. /\ applicationManager' = FALSE /\ applicationInstance' = FALSE
        /\ stopPc' = [stopPc EXCEPT ![s] = IF applicationInstance THEN "application"
                                                                  ELSE "noApplication"]
        /\ UNCHANGED <<fileContext, restoreEnvironment, contextVars, runtimeVars,
                       environmentInstalled>>
    BY <1>6 DEF BeginStop
  <2>2. FileTypeOK' /\ RuntimeInv'
    BY <2>1 DEF FileInv, FileTypeOK, RuntimeInv, StopSteps, StartSteps, contextVars, runtimeVars
  <2>3. ContextInv' /\ ApplicationInv'
    BY <1>2, <1>3, <2>1 DEF FileInv, FileTypeOK, ContextInv, ApplicationInv, Stoppers, contextVars,
       runtimeVars
  <2>4. ~ interrupted' => Uninterrupted'
    BY <1>2, <1>3, <2>1 DEF FileInv, FileTypeOK, ApplicationInv, Uninterrupted, EnvironmentInv,
       OrderInv, PreparationInv, FailedInv, Stoppers, contextVars, runtimeVars
  <2> QED BY <2>2, <2>3, <2>4 DEF FileInv
<1> QED BY <1>5, <1>6

LEMMA NextHolds == FileInv /\ [HooksNext]_<<vars, interrupted>> => FileInv'
<1> SUFFICES ASSUME FileInv, [HooksNext]_<<vars, interrupted>> PROVE FileInv'
  OBVIOUS
<1>1. ASSUME Next, stopPc'["afterAll"] # "idle" => stopPc["afterAll"] # "idle", HooksNext
      PROVE  UNCHANGED interrupted
  BY <1>1 DEF HooksNext, Interrupts, FileInv, FileTypeOK
<1>2. CASE HooksNext /\ AfterAll
  <2>1. /\ BeginStop("afterAll") /\ stopPc["afterAll"] = "idle" /\ startPc # "idle"
        /\ UNCHANGED <<startPc, prepared, applicationUp, failures>>
    BY <1>2 DEF AfterAll
  <2>2. stopPc'["afterAll"] # "idle"
    BY <2>1 DEF BeginStop, RestoreAndStopContext, FileInv, FileTypeOK, Stoppers
  <2>3. /\ interrupted' \in BOOLEAN
        /\ ~ interrupted' => ~ interrupted /\ startPc \in {"ready", "failed"}
    BY <1>2, <2>1, <2>2 DEF HooksNext, Interrupts, StartSettled, FileInv, FileTypeOK
  <2> QED BY <2>1, <2>3, BeginStopKeeps DEF Stoppers
<1>3. CASE HooksNext /\ CatchStops
  <2>1. /\ BeginStop("start") /\ startPc = "failing" /\ startPc' = "controllerStop"
        /\ UNCHANGED <<prepared, applicationUp, failures>>
    BY <1>3 DEF CatchStops
  <2>2. stopPc["start"] = "idle" /\ stopPc'["afterAll"] = stopPc["afterAll"]
    BY <2>1 DEF BeginStop, RestoreAndStopContext, FileInv, FileTypeOK, ApplicationInv, Stoppers
  <2>3. UNCHANGED interrupted
    BY <1>1, <1>3, <2>2 DEF HooksNext
  <2>4. interrupted \in BOOLEAN
    BY DEF FileInv, FileTypeOK
  <2> QED BY <2>1, <2>2, <2>3, <2>4, BeginStopKeeps DEF Stoppers
<1>4. CASE HooksNext /\ \E s \in Stoppers : StopStep(s)
  <2>1. PICK s \in Stoppers : StopStep(s)
    BY <1>4
  <2>2. stopPc[s] # "idle" /\ \A t \in Stoppers \ {s} : stopPc'[t] = stopPc[t]
    BY <2>1 DEF StopStep, NoApplicationToStop, ApplicationStops, ContextStops,
       RestoreAndStopContext, FileInv, FileTypeOK
  <2>3. UNCHANGED interrupted
    BY <1>1, <1>4, <2>2 DEF HooksNext, Stoppers
  <2> QED
    BY <2>1, <2>3, NoApplicationToStopKeeps, ApplicationStopsKeeps, ContextStopsKeeps DEF StopStep
<1>5. CASE /\ HooksNext
           /\ \/ HookThrows \/ Start \/ Prepared \/ ApplicationStarts \/ RuntimeReady
              \/ ContextFails \/ ContextStopped \/ StartRejects \/ ContextStep \/ RuntimeStep
  <2>1. stopPc' = stopPc
    BY <1>5 DEF HookThrows, Start, Prepared, ApplicationStarts, RuntimeReady, ContextFails,
       ContextStopped, StartRejects, ContextStep, CleanupSettles, RuntimeStopped, RuntimeStep
  <2>2. UNCHANGED interrupted
    BY <1>1, <1>5, <2>1 DEF HooksNext
  <2> QED
    BY <1>5, <2>2, HookThrowsKeeps, StartKeeps, PreparedKeeps, ApplicationStartsKeeps,
       RuntimeReadyKeeps, ContextFailsKeeps, ContextStoppedKeeps, StartRejectsKeeps,
       CleanupSettlesKeeps, RuntimeStoppedKeeps, RuntimeStepKeeps DEF ContextStep
<1>6. CASE UNCHANGED <<vars, interrupted>>
  BY <1>6 DEF vars, controllerVars, contextVars, runtimeVars, worldVars, FileInv, FileTypeOK,
     RuntimeInv, ContextInv, ApplicationInv, Uninterrupted, EnvironmentInv, OrderInv,
     PreparationInv, FailedInv
<1> QED
  BY <1>2, <1>3, <1>4, <1>5, <1>6 DEF HooksNext, Next, StartStep

-----------------------------------------------------------------------------
(* Theorems                                                                *)

\* The invariant that relates the hooks, the controller, the context and the
\* runtime of a file, whichever hook runs first and whatever fails.
THEOREM InvariantHolds == HooksSpec => []FileInv
<1> QED BY InitHolds, NextHolds, PTL DEF HooksSpec

\* When both hooks are over no container of the file is up or comes up, also
\* under a beforeAll that timed out, unless the runtime's stop() rejected, which
\* it also does when it interrupts the start of the network.
THEOREM NoContainerIsLeft == HooksSpec => []ContainersReleased
<1>1. FileInv => ContainersReleased
  BY DEF FileInv, FileTypeOK, RuntimeInv, ContextInv, ContainersReleased, Stoppers,
     Runtime!StopStates
<1> QED BY <1>1, InvariantHolds, PTL

\* application.stop() is called for what application.start() returned, once.
THEOREM OnlyStartedIsStopped == HooksSpec => []StopsOnlyWhatStarted
<1>1. FileInv => StopsOnlyWhatStarted
  BY DEF FileInv, ApplicationInv, StopsOnlyWhatStarted, Stoppers
<1> QED BY <1>1, InvariantHolds, PTL

\* A start that afterAll did not interrupt has released everything when it
\* rejects, and afterAll after one that succeeded.
THEOREM EverythingIsReleased == HooksSpec => []HooksReleaseEverything
<1>1. ASSUME FileInv, ~ interrupted, startPc = "failed" PROVE Released
  BY <1>1 DEF FileInv, FileTypeOK, RuntimeInv, ApplicationInv, Uninterrupted, EnvironmentInv,
     PreparationInv, OrderInv, FailedInv, Released
<1>2. ASSUME FileInv, ~ interrupted, startPc = "ready", stopPc["afterAll"] = "done" PROVE Released
  BY <1>2 DEF FileInv, FileTypeOK, RuntimeInv, ContextInv, ApplicationInv, Uninterrupted,
     EnvironmentInv, PreparationInv, OrderInv, Released, Stoppers
<1>3. FileInv => HooksReleaseEverything
  BY <1>1, <1>2 DEF HooksReleaseEverything, FileReleasesEverything, StartSettled
<1> QED BY <1>3, InvariantHolds, PTL

-----------------------------------------------------------------------------
(* The order of the releases: which step undoes what                       *)

\* Only a caller of controller.stop() restores the environment, and goes on to
\* the context.
LEMMA EnvironmentRestored ==
  ASSUME FileTypeOK, HooksNext, environmentInstalled, ~ environmentInstalled'
  PROVE  \E s \in Stoppers : stopPc'[s] \in {"context", "done"}
<1>1. ASSUME NEW s \in Stoppers, RestoreAndStopContext(s)
      PROVE  stopPc'[s] \in {"context", "done"}
  BY <1>1 DEF RestoreAndStopContext, FileTypeOK
<1>2. ASSUME NEW s \in Stoppers, BeginStop(s) PROVE RestoreAndStopContext(s)
  BY <1>2 DEF BeginStop
<1>3. ASSUME NEW s \in Stoppers, StopStep(s) PROVE RestoreAndStopContext(s)
  BY <1>3 DEF StopStep, NoApplicationToStop, ApplicationStops, ContextStops, worldVars
<1>4. AfterAll \/ CatchStops \/ \E s \in Stoppers : StopStep(s)
  BY DEF HooksNext, Next, StartStep, ContextStep, HookThrows, Start, Prepared,
     ApplicationStarts, RuntimeReady, BeginApplication, InstallEnvironment, ContextFails,
     ContextStopped, StartRejects, CleanupSettles, RuntimeStopped, RuntimeStep, worldVars
<1> QED BY <1>1, <1>2, <1>3, <1>4 DEF AfterAll, CatchStops, Stoppers

\* Only the consumer's cleanup undoes the preparation.
LEMMA PreparationUndone ==
  ASSUME FileTypeOK, HooksNext, prepared, ~ prepared', startPc # "preparing"
  PROVE  CleanupSettles
BY DEF HooksNext, Next, AfterAll, StopStep, NoApplicationToStop, ApplicationStops, ContextStops,
   StartStep, ContextStep, HookThrows, Start, Prepared, ApplicationStarts, RuntimeReady,
   ContextFails, ContextStopped, CatchStops, StartRejects, RuntimeStopped, RuntimeStep, worldVars

\* Only a runtime that is being stopped releases its containers.
LEMMA ContainersGo ==
  ASSUME FileTypeOK, RuntimeInv, HooksNext, held, ~ held'
  PROVE  /\ rtStop = "pending"
         /\ UNCHANGED <<stopPc, applicationUp, prepared, environmentInstalled, failures>>
<1>1. ASSUME BeginContextStop PROVE held' = held
  BY <1>1, ContextStopBegun
<1>2. ASSUME NEW s \in Stoppers, RestoreAndStopContext(s) PROVE held' = held
  BY <1>1, <1>2 DEF RestoreAndStopContext, runtimeVars
<1>3. ASSUME NEW s \in Stoppers, BeginStop(s) PROVE held' = held
  BY <1>2, <1>3 DEF BeginStop, runtimeVars
<1>4. ASSUME NEW s \in Stoppers, StopStep(s) PROVE held' = held
  BY <1>2, <1>4 DEF StopStep, NoApplicationToStop, ApplicationStops, ContextStops, runtimeVars
<1>5. ~ AfterAll /\ ~ CatchStops
  BY <1>3 DEF AfterAll, CatchStops, Stoppers
<1>6. ~ ContextFails /\ ~ CleanupSettles
  BY <1>1, RuntimeTaken DEF ContextFails, CleanupSettles
<1>7. ~ Start
  BY DEF Start, Runtime!CallStart, runtimeVars
<1>8. ~ HookThrows /\ ~ Prepared /\ ~ ApplicationStarts /\ ~ RuntimeReady /\ ~ ContextStopped
      /\ ~ StartRejects /\ ~ RuntimeStopped
  BY DEF HookThrows, Prepared, ApplicationStarts, RuntimeReady, ContextStopped, StartRejects,
     RuntimeStopped, runtimeVars
<1>9. RuntimeStep
  BY <1>4, <1>5, <1>6, <1>7, <1>8 DEF HooksNext, Next, StartStep, ContextStep
<1> QED
  BY <1>9 DEF RuntimeStep, Runtime!Boot, Runtime!Progress, Runtime!StartResolves,
     Runtime!StartFails, Runtime!StartRejects, Runtime!Release, Runtime!StopSettles, worldVars

\* The environment is restored after the application was stopped, then the
\* preparation is undone, and the containers go last.
LEMMA StepReleasesInOrder ==
  ASSUME FileInv, FileInv', [HooksNext]_<<vars, interrupted>>, ~ interrupted'
  PROVE  InReverseOrder
<1> DEFINE applicationDone == applicationUp => "applicationStop" \in failures
           cleanupDone == prepared => "cleanup" \in failures
<1>1. CASE UNCHANGED <<vars, interrupted>>
  BY <1>1 DEF InReverseOrder, vars, worldVars, runtimeVars
<1>2. CASE HooksNext
  <2>1. /\ FileTypeOK /\ RuntimeInv /\ ApplicationInv /\ Uninterrupted
        /\ FileTypeOK' /\ ApplicationInv' /\ Uninterrupted'
    BY <1>2 DEF HooksNext, FileInv
  <2>2. ASSUME environmentInstalled, ~ environmentInstalled' PROVE applicationDone'
    <3>1. PICK s \in Stoppers : stopPc'[s] \in {"context", "done"}
      BY <1>2, <2>1, <2>2, EnvironmentRestored
    <3> QED BY <2>1, <3>1 DEF ApplicationInv, Uninterrupted, OrderInv, Stoppers
  <2>3. ASSUME prepared, ~ prepared' PROVE ~ environmentInstalled /\ applicationDone'
    <3>1. CleanupSettles
      BY <1>2, <2>1, <2>3, PreparationUndone DEF Uninterrupted, PreparationInv
    <3>2. ~ environmentInstalled /\ applicationDone
      BY <2>1, <3>1 DEF CleanupSettles, Uninterrupted, EnvironmentInv, OrderInv
    <3> QED BY <3>1, <3>2 DEF CleanupSettles
  <2>4. ASSUME held, ~ held'
        PROVE  ~ environmentInstalled /\ applicationDone' /\ cleanupDone'
    <3>1. /\ rtStop = "pending"
          /\ UNCHANGED <<stopPc, applicationUp, prepared, environmentInstalled, failures>>
      BY <1>2, <2>1, <2>4, ContainersGo
    <3>2. ~ environmentInstalled /\ applicationDone /\ cleanupDone
      BY <2>1, <3>1 DEF Uninterrupted, EnvironmentInv, OrderInv, PreparationInv
    <3> QED BY <3>1, <3>2
  <2> QED BY <2>2, <2>3, <2>4 DEF InReverseOrder
<1> QED BY <1>1, <1>2

\* What the hooks of a file release in one step they release in the reverse
\* order, unless afterAll interrupts the start.
THEOREM HooksReleaseInOrder == HooksSpec => HooksReverseOrder
<1>1. ASSUME FileInv, FileInv', [HooksNext]_<<vars, interrupted>>
      PROVE  [~ interrupted' => InReverseOrder]_vars
  BY <1>1, StepReleasesInOrder
<1> QED BY <1>1, InvariantHolds, PTL DEF HooksSpec, HooksReverseOrder

=============================================================================
