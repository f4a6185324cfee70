----------------------- MODULE ContainerRuntimeProofs -----------------------
(***************************************************************************)
(* Theorems about ContainerRuntime, for any set of names, any number of    *)
(* calls and any faults; and, for a runtime with one startInstances() call *)
(* (MCOwnedRuntime), that it implements the contract OwnedRuntime on which *)
(* the models of its owners are built, and that an owner that lets the     *)
(* start settle before it stops gets everything released.                  *)
(***************************************************************************)
EXTENDS MCOwnedRuntime, FiniteSetTheorems, SequenceTheorems, TLAPS

Resuming == {"awaitStart", "awaitNothing", "docker"}
Leaving  == {"awaitNetwork", "network", "done"}
Done     == {"resolved", "rejected"}

-----------------------------------------------------------------------------
(* Facts about the helpers                                                 *)

\* An ordering of a finite set lists it, and nothing else.
LEMMA OrderingListsSet ==
  ASSUME NEW S, IsFiniteSet(S), NEW new \in SetToSeqs(S)
  PROVE  new \in Seq(S) /\ Range(new) = S
<1> DEFINE D == 1..Cardinality(S)
<1>1. Cardinality(S) \in Nat
  BY FS_CardinalityType
<1>2. IsFiniteSet(D) /\ Cardinality(D) = Cardinality(S)
  BY <1>1, FS_Interval
<1>3. new \in [D -> S] /\ \A i, j \in D : i # j => new[i] # new[j]
  BY DEF SetToSeqs
<1>4. new \in Injection(D, S)
  BY <1>3 DEF Injection, IsInjective
<1>5. new \in Surjection(D, S)
  BY <1>2, <1>4, FS_Injection
<1>6. new \in Seq(S)
  BY <1>1, <1>3, IsASeq
<1>7. Range(new) = S
  BY <1>3, <1>5 DEF Range, Surjection
<1>. QED  BY <1>6, <1>7

\* What creating adapters does to the entries and to their promises.
LEMMA CreateAdaptersEffect ==
  ASSUME TypeOK, NEW made \in SUBSET Containers, CreateAdapters(made)
  PROVE  /\ entries' \in Seq(Containers)
         /\ Range(entries') = Range(entries) \cup made
         /\ resource' \in [Containers -> Promises]
         /\ startPromise' \in [Containers -> Promises]
<1>1. IsFiniteSet(made)
  BY RuntimeAssumption, FS_Subset
<1>2. PICK new \in SetToSeqs(made) : entries' = entries \o new
  BY DEF CreateAdapters
<1>3. new \in Seq(made) /\ Range(new) = made
  BY <1>1, OrderingListsSet
<1>4. new \in Seq(Containers) /\ entries \in Seq(Containers)
  BY <1>3, SeqMonotonic DEF TypeOK
<1>5. entries' \in Seq(Containers)
  BY <1>2, <1>4, ConcatProperties
<1>6. Range(entries') = Range(entries) \cup made
  BY <1>2, <1>3, <1>4, RangeConcatenation
<1>7. /\ resource' \in [Containers -> Promises]
      /\ startPromise' \in [Containers -> Promises]
  BY DEF CreateAdapters, TypeOK, Promises
<1>. QED  BY <1>5, <1>6, <1>7

\* The two ways the loop of stopAll() goes on.
LEMMA StopNextOfEffect ==
  ASSUME TypeOK, NEW left \in SUBSET Containers, StopNextOf(left)
  PROVE  \/ \E c \in left : /\ stopping' = c
                            /\ stopped' = stopped \cup {c}
                            /\ stopPc' = IF startPromise'[c] = "undefined"
                                         THEN "awaitNothing" ELSE "awaitStart"
                            /\ network' = network
         \/ /\ left = {} /\ stopping' = stopping /\ stopped' = stopped
            /\ network' = FALSE
            /\ stopPc' = IF network THEN "network"
                         ELSE IF networkPromise # "undefined" THEN "awaitNetwork"
                         ELSE "done"
BY DEF StopNextOf, StopNetwork

LEMMA StopNextOfType ==
  ASSUME TypeOK, NEW left \in SUBSET Containers, StopNextOf(left)
  PROVE  /\ network' \in BOOLEAN
         /\ stopPc' \in StopSteps
         /\ stopping' \in Containers \cup {"network"}
         /\ stopped' \subseteq Containers
BY StopNextOfEffect DEF TypeOK, StopSteps

LEMMA BeginStopType ==
  ASSUME TypeOK, entries' \in Seq(Containers), startedOrder' \in Seq(Containers),
         BeginStop
  PROVE  /\ network' \in BOOLEAN
         /\ stopPc' \in StopSteps
         /\ stopping' \in Containers \cup {"network"}
         /\ stopped' \subseteq Containers
         /\ order' \subseteq Containers
         /\ readyAtStop' \subseteq Containers
         /\ failures' \subseteq Containers \cup {"network"}
<1>1. Range(entries') \subseteq Containers /\ Range(startedOrder') \subseteq Containers
  BY RangeOfSeq
<1>2. CASE stopPc = "idle"
  BY <1>1, <1>2, StopNextOfType DEF BeginStop, TypeOK
<1>3. CASE stopPc # "idle"
  BY <1>3 DEF BeginStop, TypeOK, stopVars
<1>. QED  BY <1>2, <1>3

-----------------------------------------------------------------------------
(* Type correctness                                                        *)

LEMMA CallStepType ==
  ASSUME TypeOK, NEW k \in Calls,
         StartInstances(k) \/ RefuseStart(k) \/ CallStep(k)
  PROVE  TypeOK'
<1> USE DEF callVars, networkVars, entryVars, adapterVars, stopVars,
            Pending, Settled
<1>1. CASE StartInstances(k)
  <2>1. Range(entries) \subseteq Containers
    BY RangeOfSeq DEF TypeOK
  <2>. QED  BY <1>1, <2>1 DEF StartInstances, TypeOK, Promises
<1>2. CASE RefuseStart(k)
  BY <1>2 DEF RefuseStart, TypeOK
<1>3. CASE StartContainers(k)
  <2>1. awaits[k] \ Range(entries) \in SUBSET Containers
    BY DEF TypeOK
  <2>2. /\ entries' \in Seq(Containers)
        /\ resource' \in [Containers -> Promises]
        /\ startPromise' \in [Containers -> Promises]
    BY <1>3, <2>1, CreateAdaptersEffect DEF StartContainers
  <2>. QED  BY <1>3, <2>2 DEF StartContainers, TypeOK
<1>4. CASE CreateInstanceThrows(k)
  <2>1. PICK made \in SUBSET Containers : CreateAdapters(made)
    BY <1>4, RuntimeAssumption DEF CreateInstanceThrows
  <2>2. /\ entries' \in Seq(Containers)
        /\ resource' \in [Containers -> Promises]
        /\ startPromise' \in [Containers -> Promises]
    BY <2>1, CreateAdaptersEffect
  <2>3. startedOrder' \in Seq(Containers) /\ BeginStop
    BY <1>4 DEF CreateInstanceThrows, TypeOK
  <2>. QED  BY <1>4, <2>2, <2>3, BeginStopType DEF CreateInstanceThrows, TypeOK
<1>5. CASE StartupFails(k)
  <2>1. /\ entries' \in Seq(Containers) /\ startedOrder' \in Seq(Containers)
        /\ BeginStop
    BY <1>5 DEF StartupFails, TypeOK
  <2>. QED  BY <1>5, <2>1, BeginStopType DEF StartupFails, TypeOK
<1>6. CASE RethrowAfterStop(k)
  BY <1>6 DEF RethrowAfterStop, TypeOK
<1>7. CASE ContainersReady(k)
  <2>1. Range(entries) \subseteq Containers
    BY RangeOfSeq DEF TypeOK
  <2>. QED  BY <1>7, <2>1 DEF ContainersReady, TypeOK
<1>8. CASE ResourcesSettle(k)
  BY <1>8 DEF ResourcesSettle, TypeOK
<1>. QED
  BY <1>1, <1>2, <1>3, <1>4, <1>5, <1>6, <1>7, <1>8 DEF CallStep

LEMMA StopStepType ==
  ASSUME TypeOK, Stop \/ StopStep
  PROVE  TypeOK'
<1> USE DEF callVars, networkVars, entryVars, adapterVars, stopVars
<1>1. order \ stopped \in SUBSET Containers
  BY DEF TypeOK
<1>2. CASE Stop
  <2>1. /\ entries' \in Seq(Containers) /\ startedOrder' \in Seq(Containers)
        /\ BeginStop
    BY <1>2 DEF Stop, TypeOK
  <2>. QED  BY <1>2, <2>1, BeginStopType DEF Stop, TypeOK
<1>3. CASE AdapterStopResumes
  <2>1. CASE StopNext
    BY <1>1, <1>3, <2>1, StopNextOfType DEF AdapterStopResumes, StopNext, TypeOK
  <2>2. CASE ~ StopNext
    BY <1>3, <2>2 DEF AdapterStopResumes, TypeOK, StopSteps
  <2>. QED  BY <2>1, <2>2
<1>4. CASE ContainerStops
  BY <1>1, <1>4, StopNextOfType DEF ContainerStops, StopNext, TypeOK
<1>5. CASE StopResumesWithNetwork
  BY <1>5 DEF StopResumesWithNetwork, TypeOK, StopSteps
<1>6. CASE NetworkStops
  BY <1>6 DEF NetworkStops, TypeOK, StopSteps
<1>. QED  BY <1>2, <1>3, <1>4, <1>5, <1>6 DEF StopStep

LEMMA DockerStepType ==
  ASSUME TypeOK, NetworkStarts \/ \E c \in Containers : DockerStep(c)
  PROVE  TypeOK'
<1> USE DEF callVars, networkVars, entryVars, adapterVars, stopVars, Promises
<1>1. CASE NetworkStarts
  BY <1>1 DEF NetworkStarts, TypeOK
<1>2. ASSUME NEW c \in Containers, ContainerStarts(c)  PROVE TypeOK'
  BY <1>2, AppendProperties DEF ContainerStarts, TypeOK
<1>3. ASSUME NEW c \in Containers, ContainerStartFails(c)  PROVE TypeOK'
  BY <1>3 DEF ContainerStartFails, TypeOK
<1>4. ASSUME NEW c \in Containers, ResourceThrows(c)  PROVE TypeOK'
  BY <1>4 DEF ResourceThrows, TypeOK
<1>. QED  BY <1>1, <1>2, <1>3, <1>4 DEF DockerStep

\* Type correctness of the runtime.
THEOREM TypeCorrect == Spec => []TypeOK
<1>1. Init => TypeOK
  BY EmptySeq DEF Init, TypeOK, Promises, StopSteps
<1>2. TypeOK /\ [Next]_vars => TypeOK'
  <2> SUFFICES ASSUME TypeOK, [Next]_vars  PROVE TypeOK'
    OBVIOUS
  <2>1. CASE UNCHANGED vars
    BY <2>1 DEF vars, TypeOK, callVars, networkVars, entryVars, adapterVars, stopVars
  <2>2. CASE Next
    BY <2>2, CallStepType, StopStepType, DockerStepType DEF Next
  <2>. QED  BY <2>1, <2>2
<1>. QED  BY <1>1, <1>2, PTL DEF Spec

-----------------------------------------------------------------------------
(* The inductive invariant                                                 *)

\* The adapter stopAll() is dealing with.
InHand(c) == stopPc \in Resuming /\ stopping = c

\* stopAll() has dealt with c.
Released(c) ==
  /\ resource[c] \in Done
  /\ c \in running => c \in failures \/ resource[c] = "rejected"

\* An entry has a promise, pending exactly as long as its adapter's; nothing
\* runs whose start has not settled.
PromiseInv ==
  \A c \in Containers :
    /\ c \in Range(entries) <=> resource[c] # "undefined"
    /\ startPromise[c] = "pending" <=> resource[c] = "pending"
    /\ c \in running => resource[c] \in Done

\* A container whose start resolved is held by its adapter until stopAll()
\* stops it.
HandleInv ==
  \A c \in running :
    resource[c] = "resolved" /\ c \notin failures =>
      c \in started \/ (stopPc = "docker" /\ stopping = c)

\* How far stopAll() is.
StopInv ==
  /\ stopPc = "idle" => order = {} /\ stopped = {}
  /\ stopped \subseteq order
  /\ order \subseteq Range(entries)
  /\ stopPc \in Resuming => stopping \in stopped
  /\ stopPc \in {"awaitNothing", "docker"} => resource[stopping] \in Done
  /\ stopPc \in Leaving => order \subseteq stopped
  /\ \A c \in stopped : InHand(c) \/ Released(c)

\* The network is known to this.network or being removed while it is up.
NetworkInv ==
  /\ networkUp \/ network \/ stopPc = "network" => networkPromise = "resolved"
  /\ networkUp /\ "network" \notin failures => network \/ stopPc = "network"
  /\ stopPc \in {"network", "done"} => ~ network /\ networkPromise # "pending"

Inv == PromiseInv /\ HandleInv /\ StopInv /\ NetworkInv

\* Whenever the loop of stopAll() goes on with the adapters it has dealt with
\* released, it leaves the invariant true.
LEMMA StopLoopInv ==
  ASSUME TypeOK, TypeOK', PromiseInv', NetworkInv,
         StopNextOf(order' \ stopped),
         stopPc \in Resuming \cup {"idle"},
         stopped \subseteq order', order' \subseteq Range(entries'),
         \A c \in stopped : Released(c)',
         \A c \in running' :
           resource'[c] = "resolved" /\ c \notin failures' => c \in started',
         networkPromise' = networkPromise, networkUp' = networkUp,
         "network" \in failures' <=> "network" \in failures
  PROVE  HandleInv' /\ StopInv' /\ NetworkInv'
<1> DEFINE left == order' \ stopped
<1>1. left \in SUBSET Containers
  BY DEF TypeOK
<1>2. CASE \E c \in left : /\ stopping' = c
                           /\ stopped' = stopped \cup {c}
                           /\ stopPc' = IF startPromise'[c] = "undefined"
                                        THEN "awaitNothing" ELSE "awaitStart"
                           /\ network' = network
  <2>1. PICK c \in left : /\ stopping' = c
                          /\ stopped' = stopped \cup {c}
                          /\ stopPc' = IF startPromise'[c] = "undefined"
                                       THEN "awaitNothing" ELSE "awaitStart"
                          /\ network' = network
    BY <1>2
  <2>2. c \in Containers /\ resource'[c] \in Promises /\ resource'[c] # "undefined"
    BY <1>1 DEF PromiseInv, TypeOK
  <2>3. stopPc' = "awaitNothing" => resource'[c] \in Done
    BY <2>1, <2>2 DEF PromiseInv, Promises, Done
  <2>4. HandleInv'
    BY DEF HandleInv
  <2>5. StopInv'
    BY <2>1, <2>3 DEF StopInv, InHand, Resuming, Leaving
  <2>6. NetworkInv'
    BY <2>1 DEF NetworkInv, Resuming
  <2>. QED  BY <2>4, <2>5, <2>6
<1>3. CASE /\ left = {} /\ stopping' = stopping /\ stopped' = stopped
           /\ network' = FALSE
           /\ stopPc' = IF network THEN "network"
                        ELSE IF networkPromise # "undefined" THEN "awaitNetwork"
                        ELSE "done"
  <2>1. HandleInv'
    BY DEF HandleInv
  <2>2. StopInv'
    BY <1>3 DEF StopInv, InHand, Resuming, Leaving
  <2>3. NetworkInv'
    BY <1>3 DEF NetworkInv, Resuming
  <2>. QED  BY <2>1, <2>2, <2>3
<1>. QED  BY <1>1, <1>2, <1>3, StopNextOfEffect

\* stop() leaves the invariant true, whoever calls it, also together with the
\* creation of adapters.
LEMMA BeginStopInv ==
  ASSUME TypeOK, TypeOK', Inv, PromiseInv', BeginStop,
         running' = running, started' = started,
         networkPromise' = networkPromise, networkUp' = networkUp,
         Range(entries) \subseteq Range(entries'),
         \A c \in Range(entries) : resource'[c] = resource[c]
  PROVE  HandleInv' /\ StopInv' /\ NetworkInv'
<1>1. \A c \in running : resource'[c] = resource[c]
  BY DEF Inv, PromiseInv, Done, TypeOK
<1>2. CASE stopPc = "idle"
  <2>1. /\ order' = Range(entries') /\ failures' = failures
        /\ StopNextOf(order') /\ stopped = {} /\ order' = order' \ stopped
    BY <1>2 DEF BeginStop, Inv, StopInv
  <2>2. \A c \in running' :
          resource'[c] = "resolved" /\ c \notin failures' => c \in started'
    BY <1>1, <1>2, <2>1 DEF Inv, HandleInv
  <2>. QED  BY <1>2, <2>1, <2>2, StopLoopInv DEF Inv
<1>3. CASE stopPc # "idle"
  <2>1. /\ UNCHANGED stopVars /\ UNCHANGED <<stopped, network>>
    BY <1>3 DEF BeginStop
  <2>2. \A c \in order : resource'[c] = resource[c]
    BY DEF Inv, StopInv
  <2>3. HandleInv'
    BY <1>1, <2>1 DEF Inv, HandleInv, stopVars
  <2>4. StopInv'
    BY <2>1, <2>2 DEF Inv, StopInv, InHand, Released, Resuming, Leaving, stopVars
  <2>5. NetworkInv'
    BY <2>1 DEF Inv, NetworkInv, stopVars
  <2>. QED  BY <2>3, <2>4, <2>5
<1>. QED  BY <1>2, <1>3

\* Creating adapters for names without an entry keeps PromiseInv and touches
\* no entry there was.
LEMMA CreateAdaptersInv ==
  ASSUME TypeOK, Inv, NEW made \in SUBSET Containers, CreateAdapters(made),
         made \cap Range(entries) = {}, running' = running
  PROVE  /\ PromiseInv'
         /\ Range(entries) \subseteq Range(entries')
         /\ \A c \in Range(entries) : resource'[c] = resource[c]
         /\ \A c \in running : resource'[c] = resource[c]
<1>1. Range(entries') = Range(entries) \cup made
  BY CreateAdaptersEffect
<1>2. Range(entries) \subseteq Containers
  BY RangeOfSeq DEF TypeOK
<1>3. \A c \in Containers :
        /\ resource'[c] = IF c \in made THEN "pending" ELSE resource[c]
        /\ startPromise'[c] = IF c \in made THEN "pending" ELSE startPromise[c]
  BY DEF CreateAdapters
<1>4. \A c \in running : c \in Containers /\ c \notin made
  BY DEF Inv, PromiseInv, Done, TypeOK
<1>5. PromiseInv'
  BY <1>1, <1>3, <1>4 DEF Inv, PromiseInv
<1>. QED  BY <1>1, <1>2, <1>3, <1>4, <1>5

LEMMA CallStepInv ==
  ASSUME TypeOK, TypeOK', Inv, NEW k \in Calls,
         StartInstances(k) \/ RefuseStart(k) \/ CallStep(k)
  PROVE  Inv'
<1> USE DEF networkVars, entryVars, adapterVars, stopVars
<1>1. CASE StartInstances(k)
  <2>1. PromiseInv' /\ HandleInv'
    BY <1>1 DEF StartInstances, Inv, PromiseInv, HandleInv
  <2>2. StopInv'
    BY <1>1 DEF StartInstances, Inv, StopInv, InHand, Released
  <2>3. NetworkInv'
    BY <1>1 DEF StartInstances, Inv, NetworkInv
  <2>. QED  BY <2>1, <2>2, <2>3 DEF Inv
<1>2. CASE RefuseStart(k) \/ RethrowAfterStop(k) \/ ContainersReady(k)
           \/ ResourcesSettle(k)
  <2>1. UNCHANGED <<networkVars, entryVars, adapterVars, stopVars>>
    BY <1>2 DEF RefuseStart, RethrowAfterStop, ContainersReady, ResourcesSettle
  <2>. QED
    BY <2>1 DEF Inv, PromiseInv, HandleInv, StopInv, NetworkInv, InHand, Released
<1>3. CASE StartContainers(k)
  <2> DEFINE made == awaits[k] \ Range(entries)
  <2>1. made \in SUBSET Containers /\ made \cap Range(entries) = {}
    BY DEF TypeOK
  <2>2. /\ CreateAdapters(made)
        /\ UNCHANGED <<networkVars, started, stopped, running, stopVars>>
    BY <1>3 DEF StartContainers
  <2>3. /\ PromiseInv'
        /\ Range(entries) \subseteq Range(entries')
        /\ \A c \in Range(entries) : resource'[c] = resource[c]
        /\ \A c \in running : resource'[c] = resource[c]
    BY <2>1, <2>2, CreateAdaptersInv
  <2>4. \A c \in order : resource'[c] = resource[c]
    BY <2>3 DEF Inv, StopInv
  <2>5. HandleInv'
    BY <2>2, <2>3 DEF Inv, HandleInv
  <2>6. StopInv'
    BY <2>2, <2>3, <2>4 DEF Inv, StopInv, InHand, Released, Resuming
  <2>7. NetworkInv'
    BY <2>2 DEF Inv, NetworkInv
  <2>. QED  BY <2>3, <2>5, <2>6, <2>7 DEF Inv
<1>4. CASE CreateInstanceThrows(k)
  <2>1. PICK made \in SUBSET Containers :
          CreateAdapters(made) /\ made \cap Range(entries) = {}
    BY <1>4, RuntimeAssumption DEF CreateInstanceThrows
  <2>2. /\ BeginStop
        /\ UNCHANGED <<networkPromise, networkUp, started, running>>
    BY <1>4 DEF CreateInstanceThrows
  <2>3. /\ PromiseInv'
        /\ Range(entries) \subseteq Range(entries')
        /\ \A c \in Range(entries) : resource'[c] = resource[c]
    BY <2>1, <2>2, CreateAdaptersInv
  <2>. QED  BY <2>2, <2>3, BeginStopInv DEF Inv
<1>5. CASE StartupFails(k)
  <2>1. /\ BeginStop
        /\ UNCHANGED <<networkPromise, networkUp, entries, resource, startPromise,
                       started, running>>
    BY <1>5 DEF StartupFails
  <2>2. PromiseInv'
    BY <2>1 DEF Inv, PromiseInv
  <2>. QED  BY <2>1, <2>2, BeginStopInv DEF Inv
<1>. QED  BY <1>1, <1>2, <1>3, <1>4, <1>5 DEF CallStep

LEMMA StopStepInv ==
  ASSUME TypeOK, TypeOK', Inv, Stop \/ StopStep
  PROVE  Inv'
<1> USE DEF networkVars, entryVars, adapterVars, stopVars
<1>1. CASE Stop
  <2>1. /\ BeginStop
        /\ UNCHANGED <<networkPromise, networkUp, entries, resource, startPromise,
                       started, running>>
    BY <1>1 DEF Stop
  <2>2. PromiseInv'
    BY <2>1 DEF Inv, PromiseInv
  <2>. QED  BY <2>1, <2>2, BeginStopInv DEF Inv
<1>2. CASE AdapterStopResumes
  <2>1. /\ stopPc \in {"awaitNothing", "awaitStart"} /\ stopping \in stopped
        /\ stopping \in Containers
        /\ resource[stopping] \in Done
        /\ UNCHANGED <<networkPromise, networkUp, entries, resource, startPromise,
                       running, order, readyAtStop, failures>>
    BY <1>2 DEF AdapterStopResumes, Inv, StopInv, Resuming, Done, TypeOK
  <2>2. PromiseInv'
    BY <2>1 DEF Inv, PromiseInv
  <2>3. stopped \subseteq order' /\ order' \subseteq Range(entries')
    BY <2>1 DEF Inv, StopInv
  <2>4. CASE StopNext /\ (stopping \in started => started' = started /\ resource[stopping] = "rejected")
             /\ (started' = started \/ started' = started \ {stopping})
    <3>1. \A c \in running' :
            resource'[c] = "resolved" /\ c \notin failures' => c \in started'
      BY <2>1, <2>4 DEF Inv, HandleInv
    <3>2. \A c \in stopped : Released(c)'
      BY <2>1, <3>1, <2>4 DEF Inv, StopInv, HandleInv, InHand, Released, Done
    <3>. QED
      BY <2>1, <2>2, <2>3, <2>4, <3>1, <3>2, StopLoopInv DEF StopNext, Inv, Resuming
  <2>5. CASE /\ stopping \in started /\ started' = started \ {stopping}
             /\ stopPc' = "docker" /\ UNCHANGED <<stopping, stopped, network>>
    <3>1. HandleInv'
      BY <2>1, <2>5 DEF Inv, HandleInv
    <3>2. StopInv'
      BY <2>1, <2>5 DEF Inv, StopInv, InHand, Released, Resuming, Leaving
    <3>3. NetworkInv'
      BY <2>1, <2>5 DEF Inv, NetworkInv
    <3>. QED  BY <2>2, <3>1, <3>2, <3>3 DEF Inv
  <2>. QED  BY <1>2, <2>4, <2>5 DEF AdapterStopResumes
<1>3. CASE ContainerStops
  <2>1. /\ stopPc = "docker" /\ stopping \in stopped /\ stopping \in Containers
        /\ resource[stopping] \in Done
        /\ UNCHANGED <<networkPromise, networkUp, entries, resource, startPromise,
                       started, order, readyAtStop>>
        /\ StopNext
    BY <1>3 DEF ContainerStops, Inv, StopInv, Resuming, TypeOK
  <2>2. /\ running' \subseteq running /\ failures \subseteq failures'
        /\ failures' \subseteq failures \cup {stopping}
        /\ stopping \in running' => stopping \in failures'
    BY <1>3 DEF ContainerStops
  <2>3. PromiseInv'
    BY <2>1, <2>2 DEF Inv, PromiseInv
  <2>4. \A c \in running' :
          resource'[c] = "resolved" /\ c \notin failures' => c \in started'
    BY <2>1, <2>2 DEF Inv, HandleInv
  <2>5. \A c \in stopped : Released(c)'
    BY <2>1, <2>2 DEF Inv, StopInv, InHand, Released
  <2>6. "network" \in failures' <=> "network" \in failures
    BY <2>1, <2>2, RuntimeAssumption
  <2>7. stopped \subseteq order' /\ order' \subseteq Range(entries')
    BY <2>1 DEF Inv, StopInv
  <2>. QED
    BY <2>1, <2>3, <2>4, <2>5, <2>6, <2>7, StopLoopInv DEF StopNext, Inv, Resuming
<1>4. CASE StopResumesWithNetwork \/ NetworkStops
  <2>1. /\ stopPc \in Leaving /\ stopPc' \in Leaving
        /\ UNCHANGED <<networkPromise, entries, resource, startPromise, started,
                       stopped, running, stopping, order>>
        /\ failures \subseteq failures'
    BY <1>4 DEF StopResumesWithNetwork, NetworkStops, Leaving
  <2>2. PromiseInv' /\ HandleInv'
    BY <2>1 DEF Inv, PromiseInv, HandleInv, Leaving
  <2>3. StopInv'
    BY <2>1 DEF Inv, StopInv, InHand, Released, Resuming, Leaving
  <2>4. NetworkInv'
    BY <1>4 DEF Inv, NetworkInv, StopResumesWithNetwork, NetworkStops
  <2>. QED  BY <2>2, <2>3, <2>4 DEF Inv
<1>. QED  BY <1>1, <1>2, <1>3, <1>4 DEF StopStep

LEMMA DockerStepInv ==
  ASSUME TypeOK, TypeOK', Inv, NetworkStarts \/ \E c \in Containers : DockerStep(c)
  PROVE  Inv'
<1> USE DEF networkVars, entryVars, adapterVars, stopVars
<1>1. CASE NetworkStarts
  <2>1. PromiseInv' /\ HandleInv'
    BY <1>1 DEF NetworkStarts, Inv, PromiseInv, HandleInv
  <2>2. StopInv'
    BY <1>1 DEF NetworkStarts, Inv, StopInv, InHand, Released
  <2>3. NetworkInv'
    BY <1>1 DEF NetworkStarts, Inv, NetworkInv
  <2>. QED  BY <2>1, <2>2, <2>3 DEF Inv
<1>2. ASSUME NEW c \in Containers, DockerStep(c)
      PROVE  Inv'
  <2>1. /\ resource[c] = "pending"
        /\ UNCHANGED <<networkVars, entries, stopped, stopVars>>
        /\ \A d \in Containers : d # c =>
             /\ resource'[d] = resource[d] /\ startPromise'[d] = startPromise[d]
             /\ d \in running' <=> d \in running
             /\ d \in started' <=> d \in started
        /\ resource'[c] \in Done /\ startPromise'[c] # "pending"
        /\ resource'[c] = "resolved" => c \in started'
    BY <1>2 DEF DockerStep, ContainerStarts, ContainerStartFails, ResourceThrows,
                Inv, PromiseInv, TypeOK, Done
  <2>2. running \subseteq Containers /\ running' \subseteq Containers
    BY DEF TypeOK
  <2>3. PromiseInv'
    BY <2>1, <2>2 DEF Inv, PromiseInv, Done
  <2>4. HandleInv'
    BY <2>1, <2>2 DEF Inv, HandleInv
  <2>5. \A d \in stopped : d \in Containers /\ (d = c => InHand(d))
    BY <2>1 DEF Inv, StopInv, Released, Done, TypeOK
  <2>6. StopInv'
    BY <2>1, <2>5 DEF Inv, StopInv, InHand, Released, Resuming
  <2>7. NetworkInv'
    BY <2>1, <1>2 DEF Inv, NetworkInv
  <2>. QED  BY <2>3, <2>4, <2>6, <2>7 DEF Inv
<1>. QED  BY <1>1, <1>2

\* The invariant is preserved by every step.
LEMMA InvInductive == Spec => []Inv
<1>1. Init => Inv
  BY DEF Init, Inv, PromiseInv, HandleInv, StopInv, NetworkInv, Range, Done,
         Resuming, Leaving
<1>2. TypeOK /\ TypeOK' /\ Inv /\ [Next]_vars => Inv'
  <2> SUFFICES ASSUME TypeOK, TypeOK', Inv, [Next]_vars  PROVE Inv'
    OBVIOUS
  <2>1. CASE UNCHANGED vars
    BY <2>1 DEF vars, networkVars, entryVars, adapterVars, stopVars, Inv,
       PromiseInv, HandleInv, StopInv, NetworkInv, InHand, Released
  <2>2. CASE Next
    BY <2>2, CallStepInv, StopStepInv, DockerStepInv DEF Next
  <2>. QED  BY <2>1, <2>2
<1>. QED  BY <1>1, <1>2, TypeCorrect, PTL DEF Spec

-----------------------------------------------------------------------------
(* The results                                                             *)

\* What stopAll() put in its order is released by the time it turns to the
\* network, for any number of calls, names and faults.
THEOREM OrderIsReleased == Spec => []SnapshotReleased
<1>1. Inv => SnapshotReleased
  BY DEF Inv, StopInv, SnapshotReleased, InHand, Released, Resuming, Leaving
<1>. QED  BY <1>1, InvInductive, PTL

\* The network survives a settled stop only if its removal failed, even when
\* stop() was called while it was being created.
THEOREM NetworkIsReleased == Spec => []NetworkReleased
<1>1. Inv => NetworkReleased
  BY DEF Inv, NetworkInv, NetworkReleased, StopSettled
<1>. QED  BY <1>1, InvInductive, PTL

\* A settled promise never changes and a container never comes up twice, for
\* any number of overlapping calls.
THEOREM PromisesAreReused == Spec => StartPromisesReused
<1> DEFINE Reused ==
      /\ \A c \in Containers :
           /\ resource[c] \in {"resolved", "rejected"} => resource'[c] = resource[c]
           /\ c \in running' \ running => resource[c] = "pending"
      /\ networkPromise \in {"resolved", "rejected"} =>
           networkPromise' = networkPromise
<1>1. TypeOK /\ Inv /\ [Next]_vars => [Reused]_vars
  <2> SUFFICES ASSUME TypeOK, Inv, Next  PROVE Reused
    BY DEF vars
  <2> USE DEF networkVars, entryVars, adapterVars
  <2>1. ASSUME NEW k \in Calls, StartContainers(k)  PROVE Reused
    <3>1. \A c \in Containers : c \in awaits[k] \ Range(entries) => resource[c] = "undefined"
      BY DEF Inv, PromiseInv
    <3>. QED  BY <2>1, <3>1 DEF StartContainers, CreateAdapters
  <2>2. ASSUME NEW k \in Calls, CreateInstanceThrows(k)  PROVE Reused
    <3>1. \A c \in Containers : c \in awaits[k] \ Range(entries) => resource[c] = "undefined"
      BY DEF Inv, PromiseInv
    <3>. QED  BY <2>2, <3>1 DEF CreateInstanceThrows, CreateAdapters
  <2>3. ASSUME NEW k \in Calls,
               \/ StartInstances(k) \/ RefuseStart(k) \/ StartupFails(k)
               \/ RethrowAfterStop(k) \/ ContainersReady(k) \/ ResourcesSettle(k)
        PROVE  Reused
    BY <2>3 DEF StartInstances, RefuseStart, StartupFails, RethrowAfterStop,
                ContainersReady, ResourcesSettle
  <2>4. CASE Stop \/ StopStep
    BY <2>4 DEF Stop, StopStep, AdapterStopResumes, ContainerStops,
                StopResumesWithNetwork, NetworkStops
  <2>5. CASE NetworkStarts
    BY <2>5 DEF NetworkStarts
  <2>6. ASSUME NEW c \in Containers, DockerStep(c)  PROVE Reused
    BY <2>6 DEF DockerStep, ContainerStarts, ContainerStartFails, ResourceThrows,
                Inv, PromiseInv, TypeOK
  <2>. QED  BY <2>1, <2>2, <2>3, <2>4, <2>5, <2>6 DEF Next, CallStep
<1>. QED
  BY <1>1, TypeCorrect, InvInductive, PTL DEF Spec, StartPromisesReused

-----------------------------------------------------------------------------
(* The order of stops                                                      *)

\* d is to be dealt with before c: it was not ready, or became ready later.
Earlier(d, c) == d \notin readyAtStop \/ Before(startedOrder, c, d)

\* Whoever was ready stays ready, and stopAll() has finished with everything
\* that goes before a ready adapter it has turned to.
OrderInv ==
  /\ \A c \in Range(startedOrder) \cup readyAtStop : resource[c] = "resolved"
  /\ \A c \in readyAtStop \cap stopped, d \in order :
       Earlier(d, c) => d \in stopped /\ ~InHand(d)

LEMMA BeforeAppend ==
  ASSUME NEW s \in Seq(Containers), NEW e \in Containers, NEW c, NEW d,
         Before(Append(s, e), c, d)
  PROVE  Before(s, c, d) \/ d = e
<1>1. PICK i, j \in DOMAIN Append(s, e) :
        i < j /\ Append(s, e)[i] = c /\ Append(s, e)[j] = d
  BY DEF Before
<1>2. /\ DOMAIN Append(s, e) = 1..(Len(s) + 1) /\ DOMAIN s = 1..Len(s) /\ Len(s) \in Nat
      /\ Append(s, e)[Len(s) + 1] = e
      /\ \A n \in 1..Len(s) : Append(s, e)[n] = s[n]
  BY AppendProperties, LenProperties
<1>3. CASE j = Len(s) + 1
  BY <1>1, <1>2, <1>3
<1>4. CASE j # Len(s) + 1
  <2>1. i \in DOMAIN s /\ j \in DOMAIN s
    BY <1>1, <1>2, <1>4
  <2> QED BY <1>1, <1>2, <2>1 DEF Before
<1> QED BY <1>3, <1>4

\* The loop of stopAll() turns to an adapter only when everything that goes
\* before it has been dealt with.
LEMMA StopLoopOrder ==
  ASSUME StopNextOf(order' \ stopped), stopped \subseteq order',
         \A c \in readyAtStop' \cap stopped, d \in order' :
           Earlier(d, c)' => d \in stopped
  PROVE  \A c \in readyAtStop' \cap stopped', d \in order' :
           Earlier(d, c)' => d \in stopped' /\ ~InHand(d)'
<1> DEFINE left == order' \ stopped
<1>1. CASE left = {} /\ StopNetwork
  BY <1>1 DEF StopNetwork, InHand, Resuming
<1>2. ASSUME NEW e \in left, StopsNext(e, left), stopping' = e, stopped' = stopped \cup {e}
      PROVE  \A c \in readyAtStop' \cap stopped', d \in order' :
               Earlier(d, c)' => d \in stopped' /\ ~InHand(d)'
  <2>1. TAKE c \in readyAtStop' \cap stopped', d \in order'
  <2>2. HAVE Earlier(d, c)'
  <2>3. d \in stopped
    <3>1. CASE c \in stopped
      BY <2>1, <2>2, <3>1
    <3>2. CASE c = e
      <4>1. left \ readyAtStop' = {}
        BY <1>2, <2>1, <3>2 DEF StopsNext
      <4>2. \A f \in left : ~Before(startedOrder', e, f)
        BY <1>2, <4>1 DEF StopsNext
      <4> QED BY <2>1, <2>2, <3>2, <4>1, <4>2 DEF Earlier
    <3> QED BY <1>2, <2>1, <3>1, <3>2
  <2> QED BY <1>2, <2>3 DEF InHand
<1> QED BY <1>1, <1>2 DEF StopNextOf

LEMMA BeginStopOrder ==
  ASSUME TypeOK, Inv, OrderInv, BeginStop, startedOrder' = startedOrder,
         \A c \in Range(entries) : resource'[c] = resource[c]
  PROVE  OrderInv'
<1>0. \A c \in Range(startedOrder) \cup readyAtStop : resource'[c] = "resolved"
  <2>1. Range(startedOrder) \subseteq Containers
    BY RangeOfSeq DEF TypeOK
  <2> QED BY <2>1 DEF OrderInv, Inv, PromiseInv, TypeOK
<1>1. CASE stopPc = "idle"
  <2>1. /\ readyAtStop' = Range(startedOrder) /\ stopped = {}
        /\ StopNextOf(order') /\ order' = order' \ stopped
    BY <1>1 DEF BeginStop, Inv, StopInv
  <2>2. \A c \in readyAtStop' \cap stopped', d \in order' :
          Earlier(d, c)' => d \in stopped' /\ ~InHand(d)'
    BY <2>1, StopLoopOrder
  <2> QED BY <1>0, <2>1, <2>2 DEF OrderInv
<1>2. CASE stopPc # "idle"
  BY <1>0, <1>2 DEF BeginStop, OrderInv, Earlier, InHand, stopVars
<1> QED BY <1>1, <1>2

LEMMA OrderInductive ==
  ASSUME TypeOK, Inv, OrderInv, [Next]_vars
  PROVE  OrderInv'
<1> USE DEF networkVars, entryVars, adapterVars, stopVars
<1>a. Range(startedOrder) \subseteq Containers /\ Range(entries) \subseteq Containers
  BY RangeOfSeq DEF TypeOK
<1>1. CASE UNCHANGED <<entryVars, adapterVars, stopVars>>
  BY <1>1 DEF OrderInv, Earlier, InHand
<1>2. ASSUME NEW k \in Calls, StartContainers(k)  PROVE OrderInv'
  <2>1. UNCHANGED <<startedOrder, stopped, stopVars>>
    BY <1>2 DEF StartContainers
  <2>2. \A c \in Range(entries) : resource'[c] = resource[c]
    BY <1>2, <1>a DEF StartContainers, CreateAdapters
  <2>3. \A c \in Range(startedOrder) \cup readyAtStop : resource'[c] = "resolved"
    BY <1>a, <2>2 DEF OrderInv, Inv, PromiseInv, TypeOK
  <2> QED BY <2>1, <2>3 DEF OrderInv, Earlier, InHand
<1>3. ASSUME NEW k \in Calls, CreateInstanceThrows(k)  PROVE OrderInv'
  <2>1. BeginStop /\ UNCHANGED startedOrder
    BY <1>3 DEF CreateInstanceThrows
  <2>2. \A c \in Range(entries) : resource'[c] = resource[c]
    BY <1>3, <1>a DEF CreateInstanceThrows, CreateAdapters
  <2> QED BY <2>1, <2>2, BeginStopOrder
<1>4. ASSUME NEW k \in Calls, StartupFails(k)  PROVE OrderInv'
  BY <1>4, BeginStopOrder DEF StartupFails
<1>5. CASE Stop
  BY <1>5, BeginStopOrder DEF Stop
<1>6. CASE AdapterStopResumes
  <2>1. UNCHANGED <<entries, startedOrder, resource, order, readyAtStop>>
    BY <1>6 DEF AdapterStopResumes
  <2>2. CASE StopNext
    <3>1. \A c \in readyAtStop' \cap stopped', d \in order' :
            Earlier(d, c)' => d \in stopped' /\ ~InHand(d)'
      <4>1. StopNextOf(order' \ stopped) /\ stopped \subseteq order'
        BY <2>1, <2>2 DEF StopNext, Inv, StopInv
      <4>2. \A c \in readyAtStop' \cap stopped, d \in order' : Earlier(d, c)' => d \in stopped
        BY <2>1 DEF OrderInv, Earlier
      <4> QED BY <4>1, <4>2, StopLoopOrder
    <3> QED BY <2>1, <3>1 DEF OrderInv
  <2>3. CASE ~StopNext
    BY <1>6, <2>1, <2>3 DEF AdapterStopResumes, OrderInv, Earlier, InHand, Resuming
  <2> QED BY <2>2, <2>3
<1>7. CASE ContainerStops
  <2>1. UNCHANGED <<entries, startedOrder, resource, order, readyAtStop>> /\ StopNext
    BY <1>7 DEF ContainerStops
  <2>2. StopNextOf(order' \ stopped) /\ stopped \subseteq order'
    BY <2>1 DEF StopNext, Inv, StopInv
  <2>3. \A c \in readyAtStop' \cap stopped, d \in order' : Earlier(d, c)' => d \in stopped
    BY <2>1 DEF OrderInv, Earlier
  <2>4. \A c \in readyAtStop' \cap stopped', d \in order' :
          Earlier(d, c)' => d \in stopped' /\ ~InHand(d)'
    BY <2>2, <2>3, StopLoopOrder
  <2> QED BY <2>1, <2>4 DEF OrderInv
<1>8. CASE StopResumesWithNetwork \/ NetworkStops
  BY <1>8 DEF StopResumesWithNetwork, NetworkStops, OrderInv, Earlier, InHand, Resuming
<1>9. ASSUME NEW e \in Containers, DockerStep(e)  PROVE OrderInv'
  <2>1. /\ resource[e] = "pending" /\ UNCHANGED <<stopped, stopVars>>
        /\ \A d \in Containers : d # e => resource'[d] = resource[d]
    BY <1>9 DEF DockerStep, ContainerStarts, ContainerStartFails, ResourceThrows,
                Inv, PromiseInv, TypeOK
  <2>2. e \notin Range(startedOrder) \cup readyAtStop
    BY <2>1 DEF OrderInv
  <2>3. CASE UNCHANGED startedOrder
    BY <1>a, <2>1, <2>2, <2>3 DEF OrderInv, Earlier, InHand, TypeOK
  <2>4. CASE startedOrder' = Append(startedOrder, e) /\ resource'[e] = "resolved"
    <3>1. startedOrder \in Seq(Containers)
      BY DEF TypeOK
    <3>2. Range(startedOrder') = Range(startedOrder) \cup {e}
      BY <2>4, <3>1, AppendProperties, LenProperties DEF Range
    <3>3. \A c, d : Before(startedOrder', c, d) => Before(startedOrder, c, d) \/ d = e
      BY <2>4, <3>1, BeforeAppend
    <3>4. \A c, d : Earlier(d, c)' => Earlier(d, c)
      BY <2>1, <2>2, <3>3 DEF Earlier
    <3>5. \A c \in Range(startedOrder') \cup readyAtStop' : resource'[c] = "resolved"
      BY <1>a, <2>1, <2>4, <3>2 DEF OrderInv, TypeOK
    <3> QED BY <2>1, <3>4, <3>5 DEF OrderInv, InHand
  <2> QED
    BY <1>9, <2>3, <2>4 DEF DockerStep, ContainerStarts, ContainerStartFails,
       ResourceThrows, TypeOK
<1>10. ASSUME NEW k \in Calls,
              \/ StartInstances(k) \/ RefuseStart(k) \/ RethrowAfterStop(k)
              \/ ContainersReady(k) \/ ResourcesSettle(k)
       PROVE  OrderInv'
  BY <1>1, <1>10 DEF StartInstances, RefuseStart, RethrowAfterStop, ContainersReady,
     ResourcesSettle
<1>11. CASE NetworkStarts
  BY <1>1, <1>11 DEF NetworkStarts
<1>12. CASE UNCHANGED vars
  BY <1>1, <1>12 DEF vars
<1> QED
  BY <1>2, <1>3, <1>4, <1>5, <1>6, <1>7, <1>8, <1>9, <1>10, <1>11, <1>12
     DEF Next, CallStep, StopStep

\* Reverse order, for any number of names and calls: an adapter is stopped only
\* when those that were not ready or became ready later have been dealt with.
THEOREM StopsInReverse == Spec => []ReverseReadiness
<1>1. Init => OrderInv
  BY DEF Init, OrderInv, Range
<1>2. Inv /\ OrderInv => ReverseReadiness
  <2>1. ASSUME Inv, OrderInv, NEW c \in readyAtStop \cap stopped, NEW d \in order,
               Earlier(d, c)
        PROVE  /\ d \in stopped
               /\ resource[d] # "pending"
               /\ d \in running => d \in failures \/ resource[d] = "rejected"
    BY <2>1 DEF OrderInv, Inv, StopInv, Released, Done
  <2> QED BY <2>1 DEF ReverseReadiness, Earlier
<1> QED BY <1>1, <1>2, TypeCorrect, InvInductive, OrderInductive, PTL DEF Spec

-----------------------------------------------------------------------------
(* A runtime with one call                                                 *)

OneCall == Calls = {Call}

\* The safety part of the contract.
KeepsContract == Contract!Init /\ [][Contract!Next]_(Contract!contract)

\* Whose entries there are: those of the one call, once it has the network.
CallInv ==
  /\ networkPromise # "resolved" => Range(entries) = {}
  /\ pc[Call] \in {"idle", "refused", "network"} => Range(entries) = {}
  /\ pc[Call] \in {"network", "starting"} => networkPromise # "undefined"
  /\ pc[Call] = "starting" => Range(entries) \subseteq awaits[Call]
  /\ pc[Call] = "resources" => awaits[Call] \subseteq Range(entries)
  /\ pc[Call] \in {"resources", "fulfilled"} =>
       \A c \in Range(entries) : resource[c] = "resolved"
  /\ pc[Call] # "resourceFailed"
  /\ pc[Call] = "stopping" => stopPc # "idle"
  /\ pc[Call] = "startupFailed" => stopPc = "done"

\* A stop that resolves leaves nothing up, and nothing fails before a stop.
ResolvedInv ==
  /\ stopPc = "idle" => failures = {}
  /\ stopPc = "done" /\ failures = {} => running = {}

\* An owner that did not race: once a stop is under way the call creates no
\* more entries, and the order of the stop has all there are.
RaceInv ==
  /\ raced \in BOOLEAN
  /\ ~raced /\ stopPc # "idle" =>
       /\ pc[Call] \notin {"network", "starting", "resources"}
       /\ Range(entries) \subseteq order

OwnerInv == CallInv /\ ResolvedInv

-----------------------------------------------------------------------------
(* How stopAll() moves                                                     *)

LEMMA LoopMoves ==
  ASSUME NEW left, StopNextOf(left)
  PROVE  /\ stopPc' \notin {"idle", "docker"}
         /\ stopPc' = "done" => networkPromise = "undefined" /\ left = {}
BY DEF StopNextOf, StopNetwork

LEMMA BeginStopMoves ==
  ASSUME BeginStop
  PROVE  /\ stopPc' # "idle" /\ failures' = failures
         /\ stopPc = "idle" => order' = Range(entries')
         /\ stopPc # "idle" => UNCHANGED <<stopPc, order>>
         /\ stopPc = "idle" /\ stopPc' = "done" =>
              networkPromise = "undefined" /\ Range(entries') = {}
<1>1. CASE stopPc = "idle"
  <2>1. order' = Range(entries') /\ failures' = failures /\ StopNextOf(order')
    BY <1>1 DEF BeginStop
  <2> QED BY <1>1, <2>1, LoopMoves
<1>2. CASE stopPc # "idle"
  BY <1>2 DEF BeginStop, stopVars
<1> QED BY <1>1, <1>2

\* While stopAll() deals with adapters there is a network, so that it does not
\* end in the same step.
LEMMA StopNextMoves ==
  ASSUME TypeOK, Inv, OwnerInv, StopNext, stopPc \in Resuming
  PROVE  stopPc' \notin {"idle", "done"}
<1>1. Range(entries) # {}
  BY DEF Inv, StopInv
<1> QED BY <1>1, LoopMoves DEF StopNext, OwnerInv, CallInv

\* Nothing runs before there are entries.
LEMMA RunningHaveEntries == TypeOK /\ Inv => running \subseteq Range(entries)
BY DEF TypeOK, Inv, PromiseInv, Done

\* What a container needs to come up.
LEMMA BootNeeds ==
  ASSUME TypeOK, Inv, OwnerInv, NEW c \in Containers, DockerStep(c)
  PROVE  /\ c \in Range(entries) /\ resource[c] = "pending"
         /\ UNCHANGED <<callVars, networkVars, entries, stopVars>>
         /\ \A d \in Containers : d # c => resource'[d] = resource[d]
         /\ running \subseteq running'
         /\ running' # running => networkUp
         /\ networkUp /\ stopPc = "done" => failures # {}
BY DEF DockerStep, ContainerStarts, ContainerStartFails, ResourceThrows, Inv, PromiseInv,
   NetworkInv, TypeOK

-----------------------------------------------------------------------------
(* The invariant                                                           *)

LEMMA OwnerCallStep ==
  ASSUME OneCall, TypeOK, TypeOK', Inv, OwnerInv, NEW k \in Calls,
         StartInstances(k) \/ RefuseStart(k) \/ CallStep(k)
  PROVE  OwnerInv'
<1>0. k = Call /\ Call \in Calls
  BY DEF OneCall
<1>a. Range(entries) \subseteq Containers
  BY RangeOfSeq DEF TypeOK
<1> USE <1>0 DEF OwnerInv, CallInv, ResolvedInv, callVars, networkVars, entryVars, adapterVars, stopVars
<1>1. CASE StartInstances(k)
  BY <1>1 DEF StartInstances, TypeOK
<1>2. CASE RefuseStart(k)
  BY <1>2 DEF RefuseStart, TypeOK
<1>3. CASE StartContainers(k)
  <2>1. /\ Range(entries) = {} /\ awaits[k] \in SUBSET Containers
        /\ CreateAdapters(awaits[k] \ Range(entries))
    BY <1>3 DEF StartContainers, TypeOK
  <2>2. Range(entries') \subseteq awaits[k]
    BY <2>1, CreateAdaptersEffect
  <2>3. /\ pc[k] = "network" /\ pc' = [pc EXCEPT ![k] = "starting"] /\ networkPromise = "resolved"
        /\ UNCHANGED <<awaits, networkPromise, running, stopPc, failures>>
    BY <1>3 DEF StartContainers
  <2> QED BY <2>2, <2>3 DEF TypeOK
<1>4. CASE CreateInstanceThrows(k)
  <2>1. /\ pc[k] = "network" /\ pc' = [pc EXCEPT ![k] = "stopping"] /\ networkPromise = "resolved"
        /\ UNCHANGED <<awaits, networkPromise, running>> /\ BeginStop
    BY <1>4 DEF CreateInstanceThrows
  <2> QED BY <2>1, BeginStopMoves DEF TypeOK
<1>5. CASE StartupFails(k)
  <2>1. /\ pc[k] \in {"network", "starting"} /\ pc' = [pc EXCEPT ![k] = "stopping"]
        /\ UNCHANGED <<awaits, networkPromise, running, entries, resource>> /\ BeginStop
    BY <1>5 DEF StartupFails
  <2> QED BY <2>1, BeginStopMoves DEF TypeOK
<1>6. CASE RethrowAfterStop(k)
  BY <1>6 DEF RethrowAfterStop, TypeOK
<1>7. CASE ContainersReady(k)
  BY <1>7 DEF ContainersReady, TypeOK
<1>8. CASE ResourcesSettle(k)
  BY <1>8 DEF ResourcesSettle, TypeOK
<1> QED BY <1>1, <1>2, <1>3, <1>4, <1>5, <1>6, <1>7, <1>8 DEF CallStep

LEMMA OwnerStopStep ==
  ASSUME OneCall, TypeOK, Inv, OwnerInv, Stop \/ StopStep
  PROVE  OwnerInv'
<1>a. UNCHANGED <<callVars, networkPromise, entries, resource>>
  BY DEF Stop, StopStep, AdapterStopResumes, ContainerStops, StopResumesWithNetwork, NetworkStops,
     networkVars, entryVars
<1>b. running \subseteq Range(entries)
  BY RunningHaveEntries
<1>1. CallInv' /\ ResolvedInv'
  <2>1. CASE Stop
    BY <1>a, <1>b, <2>1, BeginStopMoves DEF Stop, OwnerInv, CallInv, ResolvedInv, callVars
  <2>2. CASE AdapterStopResumes
    <3>1. stopPc \in Resuming /\ stopPc' \notin {"idle", "done"}
      BY <2>2, StopNextMoves DEF AdapterStopResumes, Resuming
    <3> QED BY <1>a, <3>1 DEF Resuming, OwnerInv, CallInv, ResolvedInv, callVars
  <2>3. CASE ContainerStops
    <3>1. stopPc \in Resuming /\ stopPc' \notin {"idle", "done"}
      BY <2>3, StopNextMoves DEF ContainerStops, Resuming
    <3> QED BY <1>a, <3>1 DEF Resuming, OwnerInv, CallInv, ResolvedInv, callVars
  <2>4. CASE StopResumesWithNetwork
    BY <1>a, <1>b, <2>4 DEF StopResumesWithNetwork, OwnerInv, CallInv, ResolvedInv, callVars,
       adapterVars
  <2>5. CASE NetworkStops
    BY <1>a, <2>5 DEF NetworkStops, OwnerInv, CallInv, ResolvedInv, callVars, adapterVars
  <2> QED BY <2>1, <2>2, <2>3, <2>4, <2>5 DEF StopStep
<1> QED BY <1>1 DEF OwnerInv

LEMMA OwnerDockerStep ==
  ASSUME OneCall, TypeOK, Inv, OwnerInv, NetworkStarts \/ \E c \in Containers : DockerStep(c)
  PROVE  OwnerInv'
<1>1. CASE NetworkStarts
  BY <1>1 DEF NetworkStarts, OwnerInv, CallInv, ResolvedInv, callVars, entryVars, adapterVars, stopVars
<1>2. ASSUME NEW c \in Containers, DockerStep(c)  PROVE OwnerInv'
  <2>1. \A d \in Range(entries) : resource[d] = "resolved" => resource'[d] = resource[d]
    BY <1>2, BootNeeds, RangeOfSeq DEF TypeOK
  <2> QED
    BY <1>2, <2>1, BootNeeds DEF OwnerInv, CallInv, ResolvedInv, callVars, networkVars, stopVars
<1> QED BY <1>1, <1>2

LEMMA OwnerInductive ==
  ASSUME OneCall, TypeOK, TypeOK', Inv, OwnerInv, [Next]_vars
  PROVE  OwnerInv'
<1>1. CASE UNCHANGED vars
  BY <1>1 DEF vars, OwnerInv, CallInv, ResolvedInv, callVars, networkVars, entryVars, adapterVars, stopVars
<1> QED BY <1>1, OwnerCallStep, OwnerStopStep, OwnerDockerStep DEF Next

-----------------------------------------------------------------------------
(* Every step is one of the contract                                       *)

LEMMA CallStepRefines ==
  ASSUME OneCall, TypeOK, TypeOK', Inv, OwnerInv, OwnerInv', NEW k \in Calls,
         StartInstances(k) \/ RefuseStart(k) \/ CallStep(k)
  PROVE  [Contract!Next]_(Contract!contract)
<1>0. k = Call /\ Call \in Calls
  BY DEF OneCall
<1> USE <1>0 DEF startBar, stopBar, Contract!Next, Contract!Progress, Contract!contract,
            callVars, networkVars, entryVars, adapterVars, stopVars
<1>1. CASE StartInstances(k)
  <2>1. Contract!CallStart
    BY <1>1 DEF StartInstances, Contract!CallStart, TypeOK
  <2> QED BY <2>1
<1>2. CASE RefuseStart(k)
  <2>1. Contract!Refuse
    BY <1>2 DEF RefuseStart, Contract!Refuse, TypeOK
  <2> QED BY <2>1
<1>3. CASE StartContainers(k) \/ ContainersReady(k)
  BY <1>3 DEF StartContainers, ContainersReady, TypeOK
<1>4. CASE CreateInstanceThrows(k) \/ StartupFails(k)
  <2>1. /\ pc[k] \in {"network", "starting"} /\ pc' = [pc EXCEPT ![k] = "stopping"]
        /\ UNCHANGED running /\ BeginStop
    BY <1>4 DEF CreateInstanceThrows, StartupFails
  <2>2. networkPromise # "undefined"
    BY <2>1 DEF OwnerInv, CallInv
  <2>3. startBar = "pending" /\ startBar' = "failing"
    BY <2>1 DEF TypeOK
  <2>4. stopBar' = IF stopBar = "idle" THEN "pending" ELSE stopBar
    BY <2>1, <2>2, BeginStopMoves DEF TypeOK, StopSteps
  <2>5. Contract!StartFails
    BY <2>1, <2>3, <2>4 DEF Contract!StartFails
  <2> QED BY <2>5
<1>5. CASE RethrowAfterStop(k)
  <2>1. Contract!StartRejects
    BY <1>5 DEF RethrowAfterStop, Contract!StartRejects, TypeOK
  <2> QED BY <2>1
<1>6. CASE ResourcesSettle(k)
  <2>1. pc'[k] = "fulfilled"
    BY <1>6 DEF ResourcesSettle, OwnerInv, CallInv, TypeOK
  <2>2. Contract!StartResolves
    BY <1>6, <2>1 DEF ResourcesSettle, Contract!StartResolves
  <2> QED BY <2>2
<1> QED BY <1>1, <1>2, <1>3, <1>4, <1>5, <1>6 DEF CallStep

LEMMA StopStepRefines ==
  ASSUME OneCall, TypeOK, TypeOK', Inv, OwnerInv, OwnerInv', Stop \/ StopStep
  PROVE  [Contract!Next]_(Contract!contract)
<1> USE DEF startBar, stopBar, Contract!Next, Contract!contract, callVars, adapterVars
<1>a. UNCHANGED startBar
  BY DEF Stop, StopStep, AdapterStopResumes, ContainerStops, StopResumesWithNetwork, NetworkStops
<1>1. CASE Stop
  <2>1. /\ stopPc = "idle" /\ UNCHANGED running
        /\ stopPc' \in StopSteps \ {"idle"} /\ failures' = {}
    BY <1>1, BeginStopMoves DEF Stop, OwnerInv, ResolvedInv, TypeOK
  <2>2. stopBar = "idle" /\ stopBar' \in IF running # {} THEN {"pending"} ELSE {"pending", "resolved"}
    BY <2>1 DEF OwnerInv, ResolvedInv, StopSteps
  <2>3. Contract!CallStop
    BY <1>a, <2>1, <2>2 DEF Contract!CallStop
  <2> QED BY <2>3
<1>2. CASE AdapterStopResumes \/ ContainerStops
  <2>1. stopPc \in Resuming /\ stopPc' \in StopSteps \ {"idle", "done"} /\ running' \subseteq running
    BY <1>2, StopNextMoves DEF AdapterStopResumes, ContainerStops, Resuming, TypeOK
  <2>2. stopBar = "pending" /\ stopBar' = "pending"
    BY <2>1 DEF Resuming, StopSteps
  <2>3. CASE running' = {}
    BY <1>a, <2>2, <2>3 DEF Contract!Release
  <2>4. CASE running' # {}
    BY <1>a, <2>1, <2>2, <2>4
  <2> QED BY <2>3, <2>4
<1>3. CASE StopResumesWithNetwork \/ NetworkStops
  <2>1. /\ stopPc \in {"awaitNetwork", "network"} /\ stopPc' \in {"network", "done"}
        /\ UNCHANGED running
    BY <1>3 DEF StopResumesWithNetwork, NetworkStops
  <2>2. stopBar = "pending"
    BY <2>1 DEF StopSteps
  <2>3. CASE stopPc' = "network"
    BY <1>a, <2>1, <2>2, <2>3 DEF StopSteps
  <2>4. CASE stopPc' = "done"
    <3>1. stopBar' \in IF running # {} THEN {"rejected"} ELSE {"resolved", "rejected"}
      BY <2>1, <2>4 DEF OwnerInv, ResolvedInv, StopSteps
    <3>2. Contract!StopSettles
      BY <1>a, <2>1, <2>2, <3>1 DEF Contract!StopSettles
    <3> QED BY <3>2
  <2> QED BY <2>1, <2>3, <2>4
<1> QED BY <1>1, <1>2, <1>3 DEF StopStep

LEMMA DockerStepRefines ==
  ASSUME OneCall, TypeOK, Inv, OwnerInv, NetworkStarts \/ \E c \in Containers : DockerStep(c)
  PROVE  [Contract!Next]_(Contract!contract)
<1> USE DEF startBar, stopBar, Contract!Next, Contract!contract, callVars, stopVars
<1>1. CASE NetworkStarts
  BY <1>1 DEF NetworkStarts, adapterVars
<1>2. ASSUME NEW c \in Containers, DockerStep(c)
      PROVE  [Contract!Next]_(Contract!contract)
  <2>0. /\ c \in Range(entries) /\ resource[c] = "pending"
        /\ UNCHANGED <<callVars, stopVars>> /\ running \subseteq running'
        /\ running' # running => networkUp
        /\ networkUp /\ stopPc = "done" => failures # {}
    BY <1>2, BootNeeds
  <2>1. UNCHANGED <<startBar, stopBar>>
    BY <2>0
  <2>2. CASE UNCHANGED running
    BY <2>1, <2>2
  <2>3. CASE running' # running
    <3>1. running' # {} /\ networkUp
      BY <2>0, <2>3
    <3>2. Call \in Calls
      BY DEF OneCall
    <3>3. stopBar # "resolved"
      BY <2>0, <3>1 DEF TypeOK, StopSteps
    <3>4. pc[Call] \in {"starting", "stopping", "startupFailed"}
      BY <2>0, <3>2 DEF OwnerInv, CallInv, TypeOK, Pending, Settled
    <3>5. /\ pc[Call] = "starting" => startBar = "pending"
          /\ pc[Call] = "stopping" => startBar = "failing"
          /\ pc[Call] = "startupFailed" => startBar = "rejected"
      OBVIOUS
    <3>6. pc[Call] = "startupFailed" => stopBar = "rejected"
      BY <2>0, <3>1 DEF OwnerInv, CallInv
    <3> HIDE DEF startBar, stopBar
    <3>7. Contract!Boot
      BY <2>1, <3>1, <3>3, <3>4, <3>5, <3>6 DEF Contract!Boot
    <3> QED BY <3>7
  <2> QED BY <2>2, <2>3
<1> QED BY <1>1, <1>2

-----------------------------------------------------------------------------
(* The results                                                             *)

LEMMA RacedSpecIsSpec == RacedSpec => Spec
<1>1. RacedInit => Init
  BY DEF RacedInit
<1>2. [RacedNext]_<<vars, raced>> => [Next]_vars
  BY DEF RacedNext
<1> QED BY <1>1, <1>2, PTL DEF RacedSpec, Spec

\* What is known of the one call and of its stop holds throughout.
LEMMA OwnerInvHolds == ASSUME OneCall PROVE RacedSpec => []OwnerInv
<1>1. Init => OwnerInv
  BY DEF Init, OneCall, OwnerInv, CallInv, ResolvedInv, Range
<1> QED
  BY <1>1, RacedSpecIsSpec, TypeCorrect, InvInductive, OwnerInductive, PTL DEF Spec

\* A runtime with one call keeps the contract its owners are modelled on, for
\* any names and faults, whenever stop() is called: initial states map to its
\* initial state, and every step to one of its steps or to none.
THEOREM RuntimeKeepsContract == ASSUME OneCall PROVE RacedSpec => KeepsContract
<1>1. Init => Contract!Init
  BY DEF Init, OneCall, Contract!Init, startBar, stopBar
<1>2. TypeOK /\ TypeOK' /\ Inv /\ OwnerInv /\ OwnerInv' /\ [Next]_vars
        => [Contract!Next]_(Contract!contract)
  <2> SUFFICES ASSUME TypeOK, TypeOK', Inv, OwnerInv, OwnerInv', [Next]_vars
               PROVE  [Contract!Next]_(Contract!contract)
    OBVIOUS
  <2>1. CASE UNCHANGED vars
    BY <2>1 DEF vars, callVars, networkVars, entryVars, adapterVars, stopVars, startBar, stopBar,
       Contract!contract
  <2> QED BY <2>1, CallStepRefines, StopStepRefines, DockerStepRefines DEF Next
<1> QED
  BY <1>1, <1>2, RacedSpecIsSpec, TypeCorrect, InvInductive, OwnerInvHolds, PTL
     DEF Spec, KeepsContract

\* An owner whose stop() waits for its start, as the runners' hooks do, gets
\* everything released but what Docker refused to stop and what rejected after
\* it came up, for any number of containers.
THEOREM PatientOwnerReleases == ASSUME OneCall PROVE RacedSpec => []OwnerReleasesEverything
<1>1. RacedInit => RaceInv
  BY DEF RacedInit, Init, RaceInv
<1>2. TypeOK /\ TypeOK' /\ OwnerInv /\ RaceInv /\ [RacedNext]_<<vars, raced>> => RaceInv'
  <2> SUFFICES ASSUME TypeOK, TypeOK', OwnerInv, RaceInv, [RacedNext]_<<vars, raced>> PROVE RaceInv'
    OBVIOUS
  <2> USE DEF RaceInv, callVars, networkVars, entryVars, adapterVars, stopVars
  <2>0. OneCall /\ Call \in Calls
    BY DEF OneCall
  <2>1. CASE UNCHANGED <<vars, raced>>
    BY <2>1 DEF vars
  <2>2. ASSUME Next, raced' = (raced \/ OwnerRaces) PROVE RaceInv'
    <3>1. raced' \in BOOLEAN /\ (~raced' => ~raced /\ ~OwnerRaces)
      BY <2>2
    <3>2. ASSUME NEW k \in Calls, StartInstances(k) \/ RefuseStart(k) \/ CallStep(k)
          PROVE  RaceInv'
      <4>0. k = Call
        BY <2>0 DEF OneCall
      <4>1. CASE StartInstances(k)
        BY <3>1, <4>0, <4>1 DEF StartInstances
      <4>2. CASE CreateInstanceThrows(k) \/ StartupFails(k)
        <5>1. /\ pc[k] \in {"network", "starting"} /\ pc' = [pc EXCEPT ![k] = "stopping"]
              /\ BeginStop
          BY <4>2 DEF CreateInstanceThrows, StartupFails
        <5>2. ~raced' => stopPc = "idle"
          BY <3>1, <4>0, <5>1
        <5> QED BY <2>0, <3>1, <4>0, <5>1, <5>2, BeginStopMoves DEF TypeOK
      <4>3. CASE RefuseStart(k) \/ StartContainers(k) \/ RethrowAfterStop(k)
                 \/ ContainersReady(k) \/ ResourcesSettle(k)
        BY <2>0, <3>1, <4>0, <4>3 DEF RefuseStart, StartContainers, RethrowAfterStop,
           ContainersReady, ResourcesSettle, TypeOK
      <4> QED BY <3>2, <4>1, <4>2, <4>3 DEF CallStep
    <3>3. CASE Stop
      <4>1. /\ stopPc = "idle" /\ stopPc' # "idle" /\ order' = Range(entries')
            /\ UNCHANGED pc
        BY <3>3, BeginStopMoves DEF Stop
      <4>2. ~raced' => pc[Call] \notin Pending
        BY <3>1, <4>1 DEF OwnerRaces
      <4> QED BY <3>1, <4>1, <4>2 DEF Pending
    <3>4. CASE StopStep
      BY <3>1, <3>4 DEF StopStep, AdapterStopResumes, ContainerStops, StopResumesWithNetwork,
         NetworkStops
    <3>5. CASE NetworkStarts \/ \E c \in Containers : DockerStep(c)
      BY <3>1, <3>5 DEF NetworkStarts, DockerStep, ContainerStarts, ContainerStartFails, ResourceThrows
    <3> QED BY <2>2, <3>2, <3>3, <3>4, <3>5 DEF Next
  <2> QED BY <2>1, <2>2 DEF RacedNext
<1>3. TypeOK /\ Inv /\ RaceInv => OwnerReleasesEverything
  BY RunningHaveEntries DEF RaceInv, Inv, StopInv, InHand, Released, Resuming, Leaving,
     OwnerReleasesEverything, StopSettled
<1> QED
  BY <1>1, <1>2, <1>3, RacedSpecIsSpec, TypeCorrect, InvInductive, OwnerInvHolds, PTL
     DEF RacedSpec

=============================================================================
