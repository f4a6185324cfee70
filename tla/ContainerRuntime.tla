-------------------------- MODULE ContainerRuntime --------------------------
(***************************************************************************)
(* One ContainerRuntime (container-runtime.ts) with the container adapters *)
(* it creates and the Docker network and containers they own.              *)
(*                                                                         *)
(* The runtime is single-threaded JavaScript: an action is the code that   *)
(* runs from one await to the next, and actions interleave at the awaits.  *)
(* A call of startInstances() is a process with a program counter; so is   *)
(* the one stopAll() that the memoized stop() ever runs.  Docker, reached  *)
(* through the testcontainers library, is external: its answers are        *)
(* actions of their own and may be failures named in the constant Faults.  *)
(* Events, log lines and durations are left out.                           *)
(***************************************************************************)
EXTENDS Naturals, Sequences, FiniteSets, SequencesExt

CONSTANTS
  Containers,       \* instance names a caller may ask for
  Registered,       \* the names whose kind has a factory in the registry
  Calls,            \* the startInstances() calls made on this runtime
  Faults,           \* which external operations may fail
  StopDuringStart   \* may the owner call stop() while a start is pending?

AllFaults == {"networkStart", "boot", "resource", "stop", "networkStop"}

ASSUME RuntimeAssumption ==
  /\ Registered \subseteq Containers
  /\ IsFiniteSet(Containers)
  /\ "network" \notin Containers
  /\ Faults \subseteq AllFaults
  /\ StopDuringStart \in BOOLEAN

VARIABLES
  \* startInstances(): where each call is, and the names it waits for
  pc, awaits,
  \* the network: its memoized promise, this.network, and Docker's view of it
  networkPromise, network, networkUp,
  \* entries (a Map, in insertion order), startedOrder, and per entry the
  \* resource promise the runtime keeps
  entries, startedOrder, resource,
  \* the adapters: startPromise, those holding a started handle, those whose
  \* stop() was called; and the containers Docker is running
  startPromise, started, stopped, running,
  \* stopAll(): where it is, the adapter it is stopping, the names in its
  \* local order, those of them that were ready, and its failures
  stopPc, stopping, order, readyAtStop, failures

callVars    == <<pc, awaits>>
networkVars == <<networkPromise, network, networkUp>>
entryVars   == <<entries, startedOrder, resource>>
adapterVars == <<startPromise, started, stopped, running>>
stopVars    == <<stopPc, stopping, order, readyAtStop, failures>>
vars == <<callVars, networkVars, entryVars, adapterVars, stopVars>>

Pending  == {"network", "starting", "resources", "stopping"}
Settled  == {"fulfilled", "refused", "startupFailed", "resourceFailed"}
Promises == {"undefined", "pending", "resolved", "rejected"}
StopSteps == {"idle", "awaitStart", "awaitNothing", "docker",
              "awaitNetwork", "network", "done"}

TypeOK ==
  /\ pc \in [Calls -> {"idle"} \cup Pending \cup Settled]
  /\ awaits \in [Calls -> SUBSET Containers]
  /\ networkPromise \in Promises
  /\ network \in BOOLEAN
  /\ networkUp \in BOOLEAN
  /\ entries \in Seq(Containers)
  /\ startedOrder \in Seq(Containers)
  /\ resource \in [Containers -> Promises]
  /\ startPromise \in [Containers -> Promises]
  /\ started \subseteq Containers
  /\ stopped \subseteq Containers
  /\ running \subseteq Containers
  /\ stopPc \in StopSteps
  /\ stopping \in Containers \cup {"network"}
  /\ order \subseteq Containers
  /\ readyAtStop \subseteq Containers
  /\ failures \subseteq Containers \cup {"network"}

Init ==
  /\ pc = [k \in Calls |-> "idle"]
  /\ awaits = [k \in Calls |-> {}]
  /\ networkPromise = "undefined"
  /\ network = FALSE
  /\ networkUp = FALSE
  /\ entries = <<>>
  /\ startedOrder = <<>>
  /\ resource = [c \in Containers |-> "undefined"]
  /\ startPromise = [c \in Containers |-> "undefined"]
  /\ started = {}
  /\ stopped = {}
  /\ running = {}
  /\ stopPc = "idle"
  /\ stopping = "network"
  /\ order = {}
  /\ readyAtStop = {}
  /\ failures = {}

-----------------------------------------------------------------------------
(* stopAll()                                                               *)

\* Does c come before d in the sequence s?
Before(s, c, d) == \E i, j \in DOMAIN s : i < j /\ s[i] = c /\ s[j] = d

\* Mutant: the ready containers are stopped in the order they became ready.
StopsNextForwards(c, left) ==
  LET unready == left \ readyAtStop'
  IN  IF unready # {}
      THEN c \in unready /\ \A d \in unready : ~ Before(entries', c, d)
      ELSE \A d \in left : ~ Before(startedOrder', d, c)

\* c is the next name of stopAll's order among the names left: first the
\* entries that were not ready, then the ready ones, each in reverse.
StopsNext(c, left) ==
  LET unready == left \ readyAtStop'
  IN  IF unready # {}
      THEN c \in unready /\ \A d \in unready : ~ Before(entries', c, d)
      ELSE \A d \in left : ~ Before(startedOrder', c, d)

\* Mutant: a network that is still being created is forgotten.
StopNetworkNow ==
  /\ UNCHANGED <<stopping, stopped>>
  /\ network' = FALSE
  /\ stopPc' = IF network THEN "network" ELSE "done"

\* The end of stopAll(), once the containers are done: release the network
\* this.network holds, else the one still being created.
StopNetwork ==
  /\ UNCHANGED <<stopping, stopped>>
  /\ network' = FALSE
  /\ stopPc' = IF network THEN "network"
               ELSE IF networkPromise # "undefined" THEN "awaitNetwork"
               ELSE "done"

\* The loop of stopAll() up to its next await: call stop() on the next
\* adapter, which marks it stopped and awaits its start promise, if any.
StopNextOf(left) ==
  \/ \E c \in left :
       /\ StopsNext(c, left)
       /\ stopping' = c
       /\ stopped' = stopped \cup {c}
       /\ stopPc' = IF startPromise'[c] = "undefined"
                    THEN "awaitNothing" ELSE "awaitStart"
       /\ UNCHANGED network
  \/ left = {} /\ StopNetwork

StopNext == StopNextOf(order \ stopped)

\* stop(): memoized, so only the first call runs stopAll(), which takes its
\* order once, synchronously, from the entries there are at this moment.
BeginStop ==
  IF stopPc = "idle"
  THEN /\ order' = Range(entries')
       /\ readyAtStop' = Range(startedOrder')
       /\ UNCHANGED failures
       /\ StopNextOf(order')
  ELSE UNCHANGED <<stopVars, stopped, network>>

\* The owner calls stop().
Stop ==
  /\ StopDuringStart \/ \A k \in Calls : pc[k] \notin Pending
  /\ stopPc = "idle"
  /\ UNCHANGED <<callVars, networkPromise, networkUp, entryVars,
                 startPromise, started, running>>
  /\ BeginStop

\* Mutant: adapter.stop() does not await the start promise.
AdapterStopsAtOnce ==
  /\ stopPc \in {"awaitNothing", "awaitStart"}
  /\ UNCHANGED <<callVars, networkPromise, networkUp, entryVars, startPromise,
                 running, order, readyAtStop, failures>>
  /\ started' = started \ {stopping}
  /\ IF stopping \in started
     THEN stopPc' = "docker" /\ UNCHANGED <<stopping, stopped, network>>
     ELSE StopNext

\* Mutant: adapter.stop() does not catch the rejection of the start promise,
\* and nothing ever resumes it.
AdapterStopMissesRejection ==
  /\ \/ stopPc = "awaitNothing"
     \/ stopPc = "awaitStart" /\ resource[stopping] = "resolved"
  /\ UNCHANGED <<callVars, networkPromise, networkUp, entryVars, startPromise,
                 running, order, readyAtStop, failures>>
  /\ started' = started \ {stopping}
  /\ IF stopping \in started
     THEN stopPc' = "docker" /\ UNCHANGED <<stopping, stopped, network>>
     ELSE StopNext

\* adapter.stop() resumes after awaiting the start promise: a rejected one
\* ends it, otherwise it stops the handle the adapter holds.
AdapterStopResumes ==
  /\ \/ stopPc = "awaitNothing"
     \/ stopPc = "awaitStart" /\ resource[stopping] \in {"resolved", "rejected"}
  /\ UNCHANGED <<callVars, networkPromise, networkUp, entryVars, startPromise,
                 running, order, readyAtStop, failures>>
  /\ IF stopPc = "awaitStart" /\ resource[stopping] = "rejected"
     THEN UNCHANGED started /\ StopNext
     ELSE /\ started' = started \ {stopping}
          /\ IF stopping \in started
             THEN stopPc' = "docker" /\ UNCHANGED <<stopping, stopped, network>>
             ELSE StopNext

\* Mutant: a container that cannot be stopped ends the loop.
FirstFailureEndsLoop ==
  /\ stopPc = "docker"
  /\ UNCHANGED <<callVars, networkPromise, networkUp, entryVars, startPromise,
                 started, order, readyAtStop>>
  /\ \/ running' = running \ {stopping} /\ UNCHANGED failures /\ StopNext
     \/ /\ "stop" \in Faults
        /\ failures' = failures \cup {stopping} /\ UNCHANGED running
        /\ StopNetwork

\* Docker has stopped the container, or could not: stopAll() goes on.
ContainerStops ==
  /\ stopPc = "docker"
  /\ UNCHANGED <<callVars, networkPromise, networkUp, entryVars, startPromise,
                 started, order, readyAtStop>>
  /\ \/ running' = running \ {stopping} /\ UNCHANGED failures
     \/ /\ "stop" \in Faults
        /\ failures' = failures \cup {stopping} /\ UNCHANGED running
  /\ StopNext

\* Mutant: a rejected network promise is taken for the end of stopAll().
StopResumesWithRejection ==
  /\ stopPc = "awaitNetwork"
  /\ networkPromise \in {"resolved", "rejected"}
  /\ network' = FALSE
  /\ stopPc' = IF networkPromise = "resolved" THEN "network" ELSE networkPromise
  /\ UNCHANGED <<callVars, networkPromise, networkUp, entryVars, adapterVars,
                 stopping, order, readyAtStop, failures>>

\* stopAll() was waiting for the network promise.  Every call that waits for
\* it began waiting earlier, so its continuation has run before this one.
StopResumesWithNetwork ==
  /\ stopPc = "awaitNetwork"
  /\ networkPromise \in {"resolved", "rejected"}
  /\ \A k \in Calls : pc[k] # "network"
  /\ network' = FALSE
  /\ stopPc' = IF networkPromise = "resolved" THEN "network" ELSE "done"
  /\ UNCHANGED <<callVars, networkPromise, networkUp, entryVars, adapterVars,
                 stopping, order, readyAtStop, failures>>

\* Docker removes the network, which it refuses while a container uses it.
NetworkStops ==
  /\ stopPc = "network"
  /\ stopPc' = "done"
  /\ \/ running = {} /\ networkUp' = FALSE /\ UNCHANGED failures
     \/ /\ running # {} \/ "networkStop" \in Faults
        /\ failures' = failures \cup {"network"} /\ UNCHANGED networkUp
  /\ UNCHANGED <<callVars, networkPromise, network, entryVars, adapterVars,
                 stopping, order, readyAtStop>>

-----------------------------------------------------------------------------
(* startInstances()                                                        *)

\* Up to the first await.  An empty list goes straight to collecting the
\* resources of every entry there is; the network is created only once.
StartInstances(k) ==
  /\ pc[k] = "idle"
  /\ stopPc = "idle"
  /\ \E names \in SUBSET Containers :
       IF names = {}
       THEN /\ pc' = [pc EXCEPT ![k] = "resources"]
            /\ awaits' = [awaits EXCEPT ![k] = Range(entries)]
            /\ UNCHANGED networkPromise
       ELSE /\ pc' = [pc EXCEPT ![k] = "network"]
            /\ awaits' = [awaits EXCEPT ![k] = names]
            /\ networkPromise' = IF networkPromise = "undefined"
                                 THEN "pending" ELSE networkPromise
  /\ UNCHANGED <<network, networkUp, entryVars, adapterVars, stopVars>>

\* The call is refused: the runtime was stopped, or the list repeats a name.
RefuseStart(k) ==
  /\ pc[k] = "idle"
  /\ \E repeatsName \in BOOLEAN : stopPc # "idle" \/ repeatsName
  /\ pc' = [pc EXCEPT ![k] = "refused"]
  /\ UNCHANGED <<awaits, networkVars, entryVars, adapterVars, stopVars>>

\* Create and start an adapter for each name of made, in some order: the
\* order of the list, which is the caller's choice.
CreateAdapters(made) ==
  /\ \E new \in SetToSeqs(made) : entries' = entries \o new
  /\ resource' = [c \in Containers |-> IF c \in made THEN "pending" ELSE resource[c]]
  /\ startPromise' =
       [c \in Containers |-> IF c \in made THEN "pending" ELSE startPromise[c]]

\* Mutant: an existing entry is not reused.
StartContainersAgain(k) ==
  /\ pc[k] = "network" /\ networkPromise = "resolved"
  /\ awaits[k] \subseteq Registered
  /\ CreateAdapters(awaits[k])
  /\ pc' = [pc EXCEPT ![k] = "starting"]
  /\ UNCHANGED <<awaits, networkVars, startedOrder, started, stopped, running,
                 stopVars>>

\* The network is there: start what is not yet an entry and wait for all.
\* stopPromise is not looked at again.
StartContainers(k) ==
  /\ pc[k] = "network" /\ networkPromise = "resolved"
  /\ awaits[k] \ Range(entries) \subseteq Registered
  /\ CreateAdapters(awaits[k] \ Range(entries))
  /\ pc' = [pc EXCEPT ![k] = "starting"]
  /\ UNCHANGED <<awaits, networkVars, startedOrder, started, stopped, running,
                 stopVars>>

\* A name without a factory: createInstance() throws after the adapters of
\* the names listed before it were created, and the catch calls stop().
CreateInstanceThrows(k) ==
  LET missing == awaits[k] \ Range(entries)
  IN  /\ pc[k] = "network" /\ networkPromise = "resolved"
      /\ ~ (missing \subseteq Registered)
      /\ \E made \in SUBSET (missing \cap Registered) : CreateAdapters(made)
      /\ pc' = [pc EXCEPT ![k] = "stopping"]
      /\ UNCHANGED <<awaits, networkPromise, networkUp, startedOrder, started,
                     running>>
      /\ BeginStop

\* The network, or a container the call waits for, failed: call stop().
StartupFails(k) ==
  /\ \/ pc[k] = "network" /\ networkPromise = "rejected"
     \/ pc[k] = "starting" /\ \E c \in awaits[k] : resource[c] = "rejected"
  /\ pc' = [pc EXCEPT ![k] = "stopping"]
  /\ UNCHANGED <<awaits, networkPromise, networkUp, entryVars, startPromise,
                 started, running>>
  /\ BeginStop

\* Mutant: the cleanup is started but not awaited.
RethrowAtOnce(k) ==
  /\ pc[k] = "stopping"
  /\ pc' = [pc EXCEPT ![k] = "startupFailed"]
  /\ UNCHANGED <<awaits, networkVars, entryVars, adapterVars, stopVars>>

\* The startup error is rethrown once stop() has settled.
RethrowAfterStop(k) ==
  /\ pc[k] = "stopping" /\ stopPc = "done"
  /\ pc' = [pc EXCEPT ![k] = "startupFailed"]
  /\ UNCHANGED <<awaits, networkVars, entryVars, adapterVars, stopVars>>

\* All of the call's containers are ready: collect every entry's resource,
\* those that other calls created included.
ContainersReady(k) ==
  /\ pc[k] = "starting"
  /\ \A c \in awaits[k] : resource[c] = "resolved"
  /\ pc' = [pc EXCEPT ![k] = "resources"]
  /\ awaits' = [awaits EXCEPT ![k] = Range(entries)]
  /\ UNCHANGED <<networkVars, entryVars, adapterVars, stopVars>>

\* The collected promises settle; a rejection here is outside the try block.
ResourcesSettle(k) ==
  /\ pc[k] = "resources"
  /\ \/ /\ \A c \in awaits[k] : resource[c] = "resolved"
        /\ pc' = [pc EXCEPT ![k] = "fulfilled"]
     \/ /\ \E c \in awaits[k] : resource[c] = "rejected"
        /\ pc' = [pc EXCEPT ![k] = "resourceFailed"]
  /\ UNCHANGED <<awaits, networkVars, entryVars, adapterVars, stopVars>>

-----------------------------------------------------------------------------
(* Answers of Docker                                                       *)

\* networkFactory() settles.
NetworkStarts ==
  /\ networkPromise = "pending"
  /\ \/ networkPromise' = "resolved" /\ network' = TRUE /\ networkUp' = TRUE
     \/ /\ "networkStart" \in Faults
        /\ networkPromise' = "rejected" /\ UNCHANGED <<network, networkUp>>
  /\ UNCHANGED <<callVars, entryVars, adapterVars, stopVars>>

\* The container is up on its network and its resource is built.
ContainerStarts(c) ==
  /\ startPromise[c] = "pending" /\ networkUp
  /\ startPromise' = [startPromise EXCEPT ![c] = "resolved"]
  /\ resource' = [resource EXCEPT ![c] = "resolved"]
  /\ startedOrder' = Append(startedOrder, c)
  /\ started' = started \cup {c}
  /\ running' = running \cup {c}
  /\ UNCHANGED <<callVars, networkVars, entries, stopped, stopVars>>

\* Docker could not start it, or its configuration threw before the attempt
\* (then the adapter keeps the rejected promise).
ContainerStartFails(c) ==
  /\ startPromise[c] = "pending"
  /\ "boot" \in Faults \/ ~ networkUp
  /\ \E p \in {"undefined", "rejected"} :
       startPromise' = [startPromise EXCEPT ![c] = p]
  /\ resource' = [resource EXCEPT ![c] = "rejected"]
  /\ UNCHANGED <<callVars, networkVars, entries, startedOrder, started, stopped,
                 running, stopVars>>

\* The container is up but building its resource throws: the adapter keeps
\* the handle and clears the promise, which rejects for those who hold it.
ResourceThrows(c) ==
  /\ startPromise[c] = "pending" /\ networkUp
  /\ "resource" \in Faults
  /\ startPromise' = [startPromise EXCEPT ![c] = "undefined"]
  /\ resource' = [resource EXCEPT ![c] = "rejected"]
  /\ started' = started \cup {c}
  /\ running' = running \cup {c}
  /\ UNCHANGED <<callVars, networkVars, entries, startedOrder, stopped, stopVars>>

-----------------------------------------------------------------------------

CallStep(k) ==
  \/ StartContainers(k)
  \/ CreateInstanceThrows(k)
  \/ StartupFails(k)
  \/ RethrowAfterStop(k)
  \/ ContainersReady(k)
  \/ ResourcesSettle(k)

StopStep ==
  \/ AdapterStopResumes
  \/ ContainerStops
  \/ StopResumesWithNetwork
  \/ NetworkStops

DockerStep(c) ==
  \/ ContainerStarts(c)
  \/ ContainerStartFails(c)
  \/ ResourceThrows(c)

Next ==
  \/ \E k \in Calls : StartInstances(k) \/ RefuseStart(k) \/ CallStep(k)
  \/ Stop
  \/ StopStep
  \/ NetworkStarts
  \/ \E c \in Containers : DockerStep(c)

\* Continuations run, and every Docker request is answered: testcontainers
\* bounds a start with startupTimeoutMs and Docker bounds the removals.
\* Nothing obliges a caller to call.
Fairness ==
  /\ \A k \in Calls : WF_vars(CallStep(k))
  /\ WF_vars(StopStep)
  /\ WF_vars(NetworkStarts)
  /\ \A c \in Containers : WF_vars(DockerStep(c))

Spec == Init /\ [][Next]_vars /\ Fairness

-----------------------------------------------------------------------------
(* Properties                                                              *)

\* The stop that any caller awaits has settled.
StopSettled == stopPc = "done"

\* What stopAll() put in its order is released when it settles, whatever
\* failed in between and however late a pending start answered: such a
\* container runs on only if Docker refused to stop it, or if its start
\* rejected after the container was up.
SnapshotReleased ==
  stopPc \in {"awaitNetwork", "network", "done"} =>
    \A c \in order \cap running : c \in failures \/ resource[c] = "rejected"

\* The network is released too, even when stop() was called while it was
\* being created: it survives a settled stop only if its removal failed.
NetworkReleased == StopSettled /\ networkUp => "network" \in failures

\* stop() leaves nothing behind (the promise of ContainerRuntime's doc
\* comment): a container that runs once it has settled is one that Docker
\* refused to stop.
StopReleasesEverything == StopSettled => running \subseteq failures

\* Reverse order: a container is asked to stop only after each one that
\* became ready later than it, or was not ready yet, has been dealt with.
ReverseReadiness ==
  \A c \in readyAtStop \cap stopped, d \in order :
    d \notin readyAtStop \/ Before(startedOrder, c, d) =>
      /\ d \in stopped
      /\ resource[d] # "pending"
      /\ d \in running => d \in failures \/ resource[d] = "rejected"

\* Concurrent and repeated start() calls share one start per name and one
\* network: a promise that has settled never changes, and a container never
\* comes up a second time.
StartPromisesReused ==
  [][/\ \A c \in Containers :
          /\ resource[c] \in {"resolved", "rejected"} => resource'[c] = resource[c]
          /\ c \in running' \ running => resource[c] = "pending"
     /\ networkPromise \in {"resolved", "rejected"} =>
          networkPromise' = networkPromise]_vars

\* Nobody waits for ever: every call settles although a failed one awaits a
\* stop that awaits the starts still pending, and stop() itself settles.
EveryoneSettles ==
  /\ \A k \in Calls : pc[k] \in Pending ~> pc[k] \in Settled
  /\ stopPc # "idle" ~> StopSettled

=============================================================================
