---------------------------- MODULE Environment ----------------------------
(***************************************************************************)
(* IntegrationEnvironment: containers and application for a test harness   *)
(* without hooks.  start() and stop() are memoized and may be called at    *)
(* any time, by anyone.  The containers come from an OwnedContainerSource, *)
(* whose ContainerRuntime is taken at its contract, or from a              *)
(* ProvidedContainerSource, which owns nothing.                            *)
(***************************************************************************)
EXTENDS FiniteSets

CONSTANT Faults  \* the consumer's callbacks that may fail

ASSUME EnvironmentAssumption ==
  Faults \subseteq {"prepare", "application", "applicationStop"}

VARIABLES
  owned,                 \* is the source an OwnedContainerSource?
  startPc,               \* startOnce()
  stopPc,                \* stopOnce()
  context,               \* is this.context set?
  rtStart, rtStop, held, \* the runtime of an owned source
  applicationUp,         \* the consumer's application
  reported               \* the failures that start() or stop() rejected with

Runtime == INSTANCE OwnedRuntime WITH start <- rtStart, stop <- rtStop

runtimeVars == <<rtStart, rtStop, held>>
vars == <<owned, startPc, stopPc, context, runtimeVars, applicationUp, reported>>

TypeOK ==
  /\ startPc \in {"idle", "refused", "containers", "preparing", "application",
                  "failing", "cleanup", "ready", "failed"}
  /\ stopPc \in {"idle", "awaitStart", "application", "containers", "done"}
  /\ rtStart \in Runtime!StartStates
  /\ rtStop \in Runtime!StopStates
  /\ {owned, context, held, applicationUp} \subseteq BOOLEAN
  /\ reported \subseteq {"start", "applicationStop", "containers"}

Init ==
  /\ owned \in BOOLEAN
  /\ startPc = "idle" /\ stopPc = "idle"
  /\ context = FALSE
  /\ Runtime!Init
  /\ applicationUp = FALSE
  /\ reported = {}

-----------------------------------------------------------------------------
(* The source of containers                                                *)

\* containers.stop(): a provided source does nothing.
CallSourceStop ==
  IF owned /\ rtStop = "idle" THEN Runtime!CallStop ELSE UNCHANGED runtimeVars

\* Has the promise of containers.stop() settled?
SourceStopped == owned => rtStop \in {"resolved", "rejected"}

\* What the caller of containers.stop() adds to the failures it reports.
SourceFailures == IF owned /\ rtStop = "rejected" THEN {"containers"} ELSE {}

\* containers.start(): a provided source answers without a runtime.
CallSourceStart == IF owned THEN Runtime!CallStart ELSE UNCHANGED runtimeVars

SourceReady  == owned => rtStart = "resolved"
SourceFailed == owned => rtStart = "rejected"

-----------------------------------------------------------------------------
(* start()                                                                 *)

\* Only the first call runs startOnce(), and none does after stop().
Start ==
  /\ startPc = "idle"
  /\ IF stopPc = "idle"
     THEN startPc' = "containers" /\ CallSourceStart
     ELSE startPc' = "refused" /\ UNCHANGED runtimeVars
  /\ UNCHANGED <<stopPc, context, applicationUp, reported>>

\* The containers are ready: prepare them, if asked to, else go on.
ContainersReady ==
  /\ startPc = "containers" /\ SourceReady
  /\ startPc' \in {"preparing", "application"}
  /\ UNCHANGED <<stopPc, context, runtimeVars, applicationUp, reported>>

Prepared ==
  /\ startPc = "preparing"
  /\ startPc' = "application"
  /\ UNCHANGED <<stopPc, context, runtimeVars, applicationUp, reported>>

\* application.start() returned: the environment is ready.
ApplicationStarts ==
  /\ startPc = "application"
  /\ startPc' = "ready"
  /\ context' = TRUE
  /\ applicationUp' = TRUE
  /\ UNCHANGED <<stopPc, runtimeVars, reported>>

\* The source (a provided one lacks a kind), the preparation or the
\* application failed: the catch stops the source.
StartFails ==
  /\ \/ startPc = "containers" /\ SourceFailed
     \/ startPc = "preparing" /\ "prepare" \in Faults
     \/ startPc = "application" /\ "application" \in Faults
  /\ startPc' = "cleanup"
  /\ CallSourceStop
  /\ UNCHANGED <<stopPc, context, applicationUp, reported>>

StartRejects ==
  /\ startPc = "cleanup" /\ SourceStopped
  /\ startPc' = "failed"
  /\ reported' = reported \cup {"start"} \cup SourceFailures
  /\ UNCHANGED <<stopPc, context, runtimeVars, applicationUp>>

-----------------------------------------------------------------------------
(* stop()                                                                  *)

\* Only the first call runs stopOnce(), which awaits the start promise.
Stop ==
  /\ stopPc = "idle"
  /\ stopPc' = "awaitStart"
  /\ UNCHANGED <<startPc, context, runtimeVars, applicationUp, reported>>

\* Mutant: a start that is still pending is not awaited.
StopAtOnce ==
  /\ stopPc = "awaitStart"
  /\ context' = FALSE
  /\ IF startPc = "failed"
     THEN stopPc' = "done" /\ UNCHANGED runtimeVars
     ELSE IF context
     THEN stopPc' = "application" /\ UNCHANGED runtimeVars
     ELSE stopPc' = "containers" /\ CallSourceStop
  /\ UNCHANGED <<startPc, applicationUp, reported>>

\* Mutant: a rejected start is awaited for ever.
StopMissesRejection ==
  /\ stopPc = "awaitStart" /\ startPc \in {"idle", "refused", "ready"}
  /\ context' = FALSE
  /\ IF context
     THEN stopPc' = "application" /\ UNCHANGED runtimeVars
     ELSE stopPc' = "containers" /\ CallSourceStop
  /\ UNCHANGED <<startPc, applicationUp, reported>>

\* Mutant: the source is stopped together with the application.
StopTogether ==
  /\ stopPc = "awaitStart"
  /\ startPc \in {"idle", "refused", "ready", "failed"}
  /\ context' = FALSE
  /\ IF startPc = "failed"
     THEN stopPc' = "done" /\ UNCHANGED runtimeVars
     ELSE /\ stopPc' = IF context THEN "application" ELSE "containers"
          /\ CallSourceStop
  /\ UNCHANGED <<startPc, applicationUp, reported>>

\* The start promise has settled, or there is none (start() was not called,
\* or was refused): a rejected start has already cleaned up after itself.
StopResumes ==
  /\ stopPc = "awaitStart"
  /\ startPc \in {"idle", "refused", "ready", "failed"}
  /\ context' = FALSE
  /\ IF startPc = "failed"
     THEN stopPc' = "done" /\ UNCHANGED runtimeVars
     ELSE IF context
     THEN stopPc' = "application" /\ UNCHANGED runtimeVars
     ELSE stopPc' = "containers" /\ CallSourceStop
  /\ UNCHANGED <<startPc, applicationUp, reported>>

\* Mutant: a failed application.stop() ends stopOnce().
ApplicationFailureEndsStop ==
  /\ stopPc = "application"
  /\ \/ /\ applicationUp' = FALSE /\ UNCHANGED reported
        /\ stopPc' = "containers" /\ CallSourceStop
     \/ /\ "applicationStop" \in Faults
        /\ reported' = reported \cup {"applicationStop"} /\ UNCHANGED applicationUp
        /\ stopPc' = "done" /\ UNCHANGED runtimeVars
  /\ UNCHANGED <<startPc, context>>

\* application.stop() settles; the containers are stopped either way.
ApplicationStops ==
  /\ stopPc = "application"
  /\ \/ applicationUp' = FALSE /\ UNCHANGED reported
     \/ /\ "applicationStop" \in Faults
        /\ reported' = reported \cup {"applicationStop"} /\ UNCHANGED applicationUp
  /\ stopPc' = "containers"
  /\ CallSourceStop
  /\ UNCHANGED <<startPc, context>>

ContainersStop ==
  /\ stopPc = "containers" /\ SourceStopped
  /\ stopPc' = "done"
  /\ reported' = reported \cup SourceFailures
  /\ UNCHANGED <<startPc, context, runtimeVars, applicationUp>>

-----------------------------------------------------------------------------

RuntimeStep ==
  /\ owned
  /\ Runtime!Boot \/ Runtime!Progress \/ Runtime!Release \/ Runtime!StopSettles
  /\ UNCHANGED <<owned, startPc, stopPc, context, applicationUp, reported>>

StartStep ==
  /\ ContainersReady \/ Prepared \/ ApplicationStarts \/ StartFails \/ StartRejects
  /\ UNCHANGED owned

StopStep ==
  /\ StopResumes \/ ApplicationStops \/ ContainersStop
  /\ UNCHANGED owned

Next ==
  \/ (Start \/ Stop) /\ UNCHANGED owned
  \/ StartStep
  \/ StopStep
  \/ RuntimeStep

\* Continuations run, the consumer's callbacks settle and the runtime keeps
\* its contract; nothing obliges anyone to call start() or stop().
Fairness ==
  /\ WF_vars(StartStep)
  /\ WF_vars(StopStep)
  /\ WF_vars(RuntimeStep /\ Runtime!Progress)
  /\ WF_vars(RuntimeStep /\ Runtime!StopSettles)

Spec == Init /\ [][Next]_vars /\ Fairness

-----------------------------------------------------------------------------
(* Properties                                                              *)

\* Whenever stop() is called, during a start included, once it has settled
\* the application and the containers are down and stay down, or start() or
\* stop() has reported the release that failed; so they are when a failed
\* start() rejects, without a stop().
EverythingIsReleased ==
  stopPc = "done" \/ startPc = "failed" =>
    /\ applicationUp => "applicationStop" \in reported
    /\ held => "containers" \in reported

\* Shutdown order is application, then containers: no container goes down
\* under an application that is up, unless its stop was tried and failed.
ApplicationStopsFirst ==
  [][held /\ ~ held' /\ applicationUp => "applicationStop" \in reported]_vars

\* current() never hands out an environment that is being torn down.  (A start()
\* that stop() overlaps may still resolve with the context of one that is:
\* integration-environment.ts:64-65 against 84-90.)
ContextIsAlive == context => startPc = "ready" /\ applicationUp /\ (owned => rtStop = "idle")

\* stop() settles although it awaits the start, which may be cleaning up.
StopSettles == stopPc # "idle" ~> stopPc = "done"

=============================================================================
