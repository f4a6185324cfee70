-------------------------- MODULE EnvironmentProofs --------------------------
(***************************************************************************)
(* Theorems about IntegrationEnvironment with either source, whatever its  *)
(* consumer's callbacks do and whatever its runtime does within the        *)
(* contract OwnedRuntime: what stop() and a failed start() release, in     *)
(* which order, and that start() hands out no context of a torn down one.  *)
(***************************************************************************)
EXTENDS Environment, TLAPS

Started == {"preparing", "application", "ready"}

\* The runtime: a provided source has none, a stop that resolved left nothing
\* up, and nobody stops a runtime under a start that has got its resources.
RuntimeInv ==
  /\ ~owned => ~held /\ rtStop = "idle"
  /\ rtStop = "resolved" => ~held
  /\ owned /\ startPc \in Started => rtStart = "resolved"
  /\ rtStop # "idle" =>
       \/ stopPc \in {"containers", "done"}
       \/ startPc \in {"cleanup", "failed"}
       \/ rtStart \in {"failing", "rejected"}

\* stop() goes on only from a start that has settled or was never made.
StopInv ==
  /\ stopPc \in {"application", "containers", "done"} =>
       startPc \in {"idle", "refused", "ready", "failed"}
  /\ context <=> startPc = "ready" /\ stopPc \in {"idle", "awaitStart"}
  /\ stopPc = "application" => startPc = "ready"

ApplicationInv ==
  /\ applicationUp => startPc = "ready"
  /\ context => applicationUp
  /\ applicationUp /\ stopPc \in {"containers", "done"} => "applicationStop" \in reported

\* Who is done with the source has its answer, and has reported a failure.
SourceInv ==
  (stopPc = "done" \/ startPc = "failed") /\ owned =>
    /\ rtStop \in {"resolved", "rejected"}
    /\ rtStop = "rejected" => "containers" \in reported

EnvironmentInv == TypeOK /\ RuntimeInv /\ StopInv /\ ApplicationInv /\ SourceInv

-----------------------------------------------------------------------------

LEMMA InitHolds == Init => EnvironmentInv
BY DEF Init, Runtime!Init, Runtime!StartStates, Runtime!StopStates, EnvironmentInv,
   TypeOK, RuntimeInv, StopInv, ApplicationInv, SourceInv, Started

\* Both sources' stop(), in terms of the runtime's promise.
LEMMA SourceStopCalled ==
  ASSUME TypeOK, RuntimeInv, CallSourceStop
  PROVE  /\ UNCHANGED <<rtStart, held>>
         /\ rtStop' \in Runtime!StopStates
         /\ ~owned => rtStop' = "idle"
         /\ rtStop' = "resolved" => ~held
         /\ rtStop # "idle" => rtStop' = rtStop
BY DEF TypeOK, RuntimeInv, CallSourceStop, Runtime!CallStop, Runtime!StopStates, runtimeVars

LEMMA StartCallKeeps == EnvironmentInv /\ Start /\ UNCHANGED owned => EnvironmentInv'
<1> SUFFICES ASSUME EnvironmentInv, Start, UNCHANGED owned PROVE EnvironmentInv'
  OBVIOUS
<1>1. /\ rtStart' \in Runtime!StartStates /\ UNCHANGED <<rtStop, held>>
      /\ startPc = "idle" /\ startPc' \in {"containers", "refused"}
      /\ stopPc # "idle" => startPc' = "refused" /\ rtStart' = rtStart
      /\ rtStop # "idle" /\ rtStart' # rtStart => rtStart' = "rejected"
  BY DEF Start, CallSourceStart, Runtime!CallStart, Runtime!StartStates, runtimeVars,
     EnvironmentInv, TypeOK
<1>2. UNCHANGED <<owned, stopPc, context, applicationUp, reported>>
  BY DEF Start
<1> QED
  BY <1>1, <1>2 DEF EnvironmentInv, TypeOK, RuntimeInv, StopInv, ApplicationInv,
     SourceInv, Started

LEMMA StopCallKeeps == EnvironmentInv /\ Stop /\ UNCHANGED owned => EnvironmentInv'
BY DEF Stop, runtimeVars, EnvironmentInv, TypeOK, RuntimeInv, StopInv, ApplicationInv,
   SourceInv, Started

LEMMA StartStepKeeps == EnvironmentInv /\ StartStep => EnvironmentInv'
<1> SUFFICES ASSUME EnvironmentInv, StartStep PROVE EnvironmentInv'
  OBVIOUS
<1> USE DEF EnvironmentInv, TypeOK, RuntimeInv, StopInv, ApplicationInv, SourceInv,
            Started, runtimeVars
<1>0. UNCHANGED owned
  BY DEF StartStep
<1>1. CASE ContainersReady
  BY <1>0, <1>1 DEF ContainersReady, SourceReady
<1>2. CASE Prepared
  BY <1>0, <1>2 DEF Prepared
<1>3. CASE ApplicationStarts
  BY <1>0, <1>3 DEF ApplicationStarts
<1>4. CASE StartFails
  <2>1. CallSourceStop /\ UNCHANGED <<stopPc, context, applicationUp, reported>>
    BY <1>4 DEF StartFails
  <2>2. startPc' = "cleanup" /\ startPc \in {"containers", "preparing", "application"}
    BY <1>4 DEF StartFails
  <2> QED BY <1>0, <2>1, <2>2, SourceStopCalled
<1>5. CASE StartRejects
  BY <1>0, <1>5 DEF StartRejects, SourceStopped, SourceFailures
<1> QED BY <1>1, <1>2, <1>3, <1>4, <1>5 DEF StartStep

LEMMA StopStepKeeps == EnvironmentInv /\ StopStep => EnvironmentInv'
<1> SUFFICES ASSUME EnvironmentInv, StopStep PROVE EnvironmentInv'
  OBVIOUS
<1> USE DEF EnvironmentInv, TypeOK, RuntimeInv, StopInv, ApplicationInv, SourceInv,
            Started, runtimeVars
<1>0. UNCHANGED owned
  BY DEF StopStep
<1>1. CASE StopResumes
  <2>1. CASE startPc = "failed" \/ context
    BY <1>0, <1>1, <2>1 DEF StopResumes
  <2>2. CASE startPc # "failed" /\ ~context
    <3>1. /\ CallSourceStop /\ UNCHANGED <<startPc, applicationUp, reported>>
          /\ context' = FALSE /\ stopPc' = "containers"
      BY <1>1, <2>2 DEF StopResumes
    <3>2. startPc \in {"idle", "refused"}
      BY <1>1, <2>2 DEF StopResumes
    <3>3. /\ UNCHANGED <<rtStart, held>> /\ rtStop' \in Runtime!StopStates
          /\ ~owned => rtStop' = "idle"
          /\ rtStop' = "resolved" => ~held
      BY <3>1, SourceStopCalled
    <3> QED BY <1>0, <3>1, <3>2, <3>3
  <2> QED BY <2>1, <2>2
<1>2. CASE ApplicationStops
  <2>1. /\ CallSourceStop /\ UNCHANGED <<startPc, context>>
        /\ stopPc = "application" /\ stopPc' = "containers"
    BY <1>2 DEF ApplicationStops
  <2>2. \/ applicationUp' = FALSE /\ reported' = reported
        \/ applicationUp' = applicationUp /\ reported' = reported \cup {"applicationStop"}
    BY <1>2 DEF ApplicationStops
  <2>3. /\ UNCHANGED <<rtStart, held>> /\ rtStop' \in Runtime!StopStates
        /\ ~owned => rtStop' = "idle"
        /\ rtStop' = "resolved" => ~held
    BY <2>1, SourceStopCalled
  <2>4. TypeOK'
    BY <1>0, <2>1, <2>2, <2>3
  <2>5. ApplicationInv'
    BY <2>1, <2>2
  <2> QED BY <1>0, <2>1, <2>3, <2>4, <2>5
<1>3. CASE ContainersStop
  BY <1>0, <1>3 DEF ContainersStop, SourceStopped, SourceFailures
<1> QED BY <1>1, <1>2, <1>3 DEF StopStep

LEMMA RuntimeStepKeeps == EnvironmentInv /\ RuntimeStep => EnvironmentInv'
<1> SUFFICES ASSUME EnvironmentInv, RuntimeStep PROVE EnvironmentInv'
  OBVIOUS
<1> USE DEF EnvironmentInv, TypeOK, RuntimeInv, StopInv, ApplicationInv, SourceInv,
            Started, Runtime!StartStates, Runtime!StopStates
<1>0. owned /\ UNCHANGED <<owned, startPc, stopPc, context, applicationUp, reported>>
  BY DEF RuntimeStep
<1>1. CASE Runtime!Boot
  BY <1>0, <1>1 DEF Runtime!Boot
<1>2. CASE Runtime!Progress
  BY <1>0, <1>2 DEF Runtime!Progress, Runtime!StartResolves, Runtime!StartFails,
     Runtime!StartRejects
<1>3. CASE Runtime!Release
  BY <1>0, <1>3 DEF Runtime!Release
<1>4. CASE Runtime!StopSettles
  BY <1>0, <1>4 DEF Runtime!StopSettles
<1> QED BY <1>1, <1>2, <1>3, <1>4 DEF RuntimeStep

LEMMA NextHolds == EnvironmentInv /\ [Next]_vars => EnvironmentInv'
<1>1. EnvironmentInv /\ UNCHANGED vars => EnvironmentInv'
  BY DEF vars, runtimeVars, EnvironmentInv, TypeOK, RuntimeInv, StopInv,
     ApplicationInv, SourceInv
<1> QED
  BY <1>1, StartCallKeeps, StopCallKeeps, StartStepKeeps, StopStepKeeps,
     RuntimeStepKeeps DEF Next

-----------------------------------------------------------------------------

\* The invariant holds throughout, whatever fails and whoever calls.
THEOREM InvariantHolds == Spec => []EnvironmentInv
<1> QED BY InitHolds, NextHolds, PTL DEF Spec

\* When stop() has settled, or a failed start() has rejected, application and
\* containers are down, or the release that failed was reported: with either
\* source, and any runtime that keeps the contract.
THEOREM EverythingReleased == Spec => []EverythingIsReleased
<1>1. EnvironmentInv => EverythingIsReleased
  BY DEF EnvironmentInv, RuntimeInv, StopInv, ApplicationInv, SourceInv, EverythingIsReleased
<1> QED BY <1>1, InvariantHolds, PTL

\* A context that is set, which is what current() returns, is of an environment
\* nobody tears down.
THEOREM ContextAlive == Spec => []ContextIsAlive
<1>1. EnvironmentInv => ContextIsAlive
  BY DEF EnvironmentInv, RuntimeInv, StopInv, ApplicationInv, ContextIsAlive, Started
<1> QED BY <1>1, InvariantHolds, PTL

\* No container goes down under an application that is up, unless its stop
\* was tried and failed.
THEOREM ApplicationFirst == Spec => ApplicationStopsFirst
<1>1. EnvironmentInv /\ [Next]_vars /\ held /\ ~held' /\ applicationUp
        => "applicationStop" \in reported
  <2> SUFFICES ASSUME EnvironmentInv, [Next]_vars, held, ~held', applicationUp
               PROVE  "applicationStop" \in reported
    OBVIOUS
  <2>1. owned /\ rtStop = "pending"
    <3>1. ASSUME CallSourceStop PROVE FALSE
      BY <3>1, SourceStopCalled DEF EnvironmentInv
    <3>2. ~(UNCHANGED runtimeVars)
      BY DEF runtimeVars
    <3>3. CASE Start
      BY <3>2, <3>3 DEF Start, CallSourceStart, Runtime!CallStart
    <3>4. CASE StartStep
      BY <3>1, <3>2, <3>4 DEF StartStep, ContainersReady, Prepared, ApplicationStarts,
         StartFails, StartRejects
    <3>5. CASE StopStep
      BY <3>1, <3>2, <3>5 DEF StopStep, StopResumes, ApplicationStops, ContainersStop
    <3>6. CASE RuntimeStep
      BY <3>6 DEF RuntimeStep, Runtime!Boot, Runtime!Progress, Runtime!StartResolves,
         Runtime!StartFails, Runtime!StartRejects, Runtime!Release, Runtime!StopSettles
    <3>7. CASE Stop \/ UNCHANGED vars
      BY <3>2, <3>7 DEF Stop, vars
    <3> QED BY <3>3, <3>4, <3>5, <3>6, <3>7 DEF Next
  <2> QED BY <2>1 DEF EnvironmentInv, RuntimeInv, ApplicationInv, Started
<1> QED BY <1>1, InvariantHolds, PTL DEF Spec, ApplicationStopsFirst

=============================================================================
