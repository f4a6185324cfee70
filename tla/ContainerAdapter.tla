--------------------------- MODULE ContainerAdapter ---------------------------
(***************************************************************************)
(* A container adapter on its own: start() and stop() as GenericTest-      *)
(* Container and the four built-in adapters have them, called by anyone in *)
(* any order, and the consumer of the container's log.                     *)
(*                                                                         *)
(* start() keeps one promise while it is pending or resolved and forgets   *)
(* it when it rejects, so that a caller may try again.  Each boot is an    *)
(* attempt with a number; the container it brings up has the same number.  *)
(***************************************************************************)
EXTENDS ContainerLog, FiniteSets

CONSTANT MaxAttempts  \* bound: boots of one adapter

ASSUME AdapterAssumption == MaxAttempts \in Nat \ {0}

VARIABLES
  attempts, \* how often startOnce() has run
  promise,  \* this.startPromise: "none", "pending", "resolved", "rejected"
  handle,   \* this.started: an attempt, or 0 for undefined
  up,       \* the containers that run
  orphans,  \* those whose resource could not be built
  refused,  \* those Docker did not stop
  stopped,  \* this.stopped
  stopPc,   \* of the first stop(): it awaits the promise, takes the handle, ...
  target,   \* the container it stops
  resources \* the containers whose resource a start() resolved with

adapterVars == <<attempts, promise, handle, up, orphans, refused, stopped, stopPc, target, resources>>
vars == <<adapterVars, logVars>>

AdapterInit ==
  /\ attempts = 0
  /\ promise = "none"
  /\ handle = 0
  /\ up = {} /\ orphans = {} /\ refused = {}
  /\ stopped = FALSE
  /\ stopPc = "idle" /\ target = 0
  /\ resources = {}

\* Mutant: every call of start() boots a container.
StartAgain ==
  /\ ~stopped
  /\ attempts < MaxAttempts
  /\ attempts' = attempts + 1
  /\ promise' = "pending"
  /\ UNCHANGED <<handle, up, orphans, refused, stopped, stopPc, target, resources>>

\* start() without a promise to hand out.  After stop() it only rejects, and
\* with a promise it only returns that.
Start ==
  /\ ~stopped /\ promise = "none"
  /\ attempts < MaxAttempts
  /\ attempts' = attempts + 1
  /\ promise' = "pending"
  /\ UNCHANGED <<handle, up, orphans, refused, stopped, stopPc, target, resources>>

\* options.configure() throws before the try: the promise rejects and is kept.
StartMisconfigured ==
  /\ ~stopped /\ promise = "none"
  /\ promise' = "rejected"
  /\ UNCHANGED <<attempts, handle, up, orphans, refused, stopped, stopPc, target, resources>>

\* container.start() rejects: nothing is up, and the promise is forgotten.
BootFails ==
  /\ promise = "pending"
  /\ promise' = "none"
  /\ UNCHANGED <<attempts, handle, up, orphans, refused, stopped, stopPc, target, resources>>

\* container.start() returned, and the resource is built.
BootSucceeds ==
  /\ promise = "pending"
  /\ promise' = "resolved"
  /\ handle' = attempts
  /\ up' = up \cup {attempts}
  /\ resources' = resources \cup {attempts}
  /\ UNCHANGED <<attempts, orphans, refused, stopped, stopPc, target>>

\* container.start() returned, but options.resource() or a lookup of a mapped
\* port throws: the container stays up behind the handle.
ResourceFails ==
  /\ promise = "pending"
  /\ promise' = "none"
  /\ handle' = attempts
  /\ up' = up \cup {attempts}
  /\ orphans' = orphans \cup {attempts}
  /\ UNCHANGED <<attempts, refused, stopped, stopPc, target, resources>>

\* stop(), the first time, which awaits the promise there is; a later call
\* returns at once, even while this one goes on.
Stop ==
  /\ ~stopped
  /\ stopped' = TRUE
  /\ stopPc' = IF promise = "none" THEN "taking" ELSE "awaiting"
  /\ UNCHANGED <<attempts, promise, handle, up, orphans, refused, target, resources>>

\* Mutant: the rejection of the awaited promise is not caught.
StopMissesRejection ==
  /\ stopPc = "awaiting" /\ promise = "rejected"
  /\ stopPc' = "done"
  /\ UNCHANGED <<attempts, promise, handle, up, orphans, refused, stopped, target, resources>>

\* The awaited promise rejected: stop() returns, whatever the handle.
StopReturns ==
  /\ stopPc = "awaiting" /\ promise \in {"none", "rejected"}
  /\ stopPc' = "done"
  /\ UNCHANGED <<attempts, promise, handle, up, orphans, refused, stopped, target, resources>>

\* Mutant: a start that is still pending is not awaited.
TakeHandleNow ==
  /\ stopPc \in {"taking", "awaiting"}
  /\ stopPc' = IF handle = 0 THEN "done" ELSE "stopping"
  /\ target' = handle
  /\ handle' = 0
  /\ UNCHANGED <<attempts, promise, up, orphans, refused, stopped, resources>>

\* The promise resolved, or there was none: stop() takes the handle, which an
\* attempt that failed after its boot may have left.
TakeHandle ==
  /\ \/ stopPc = "taking"
     \/ stopPc = "awaiting" /\ promise = "resolved"
  /\ stopPc' = IF handle = 0 THEN "done" ELSE "stopping"
  /\ target' = handle
  /\ handle' = 0
  /\ UNCHANGED <<attempts, promise, up, orphans, refused, stopped, resources>>

\* started.stop() resolves or rejects, and stop() with it.
ContainerStops ==
  /\ stopPc = "stopping"
  /\ stopPc' = "done"
  /\ \/ up' = up \ {target} /\ UNCHANGED refused
     \/ refused' = refused \cup {target} /\ UNCHANGED up
  /\ UNCHANGED <<attempts, promise, handle, orphans, stopped, target, resources>>

-----------------------------------------------------------------------------
BootSettles == BootFails \/ BootSucceeds \/ ResourceFails
StopGoesOn  == StopReturns \/ TakeHandle \/ ContainerStops

AdapterNext == Start \/ StartMisconfigured \/ BootSettles \/ Stop \/ StopGoesOn

\* The consumer follows the stream of a container that is up.
Init == AdapterInit /\ LogInit
Next ==
  \/ AdapterNext /\ UNCHANGED logVars
  \/ (stream = "none" => up # {}) /\ LogNext /\ UNCHANGED adapterVars

\* Docker answers every request, the event loop resumes every continuation.
Fairness ==
  /\ WF_vars(BootSettles /\ UNCHANGED logVars)
  /\ WF_vars(StopGoesOn /\ UNCHANGED logVars)

Spec == Init /\ [][Next]_vars /\ Fairness

-----------------------------------------------------------------------------
(* Properties                                                              *)

Attempt == 1..MaxAttempts

\* Every variable of the adapter has its type.
TypeOK ==
  /\ attempts \in 0..MaxAttempts
  /\ promise \in {"none", "pending", "resolved", "rejected"}
  /\ handle \in 0..MaxAttempts /\ target \in 0..MaxAttempts
  /\ up \subseteq Attempt /\ orphans \subseteq Attempt
  /\ refused \subseteq Attempt /\ resources \subseteq Attempt
  /\ stopped \in BOOLEAN
  /\ stopPc \in {"idle", "awaiting", "taking", "stopping", "done"}

\* When stop() has settled, no container is up but one that Docker refused to
\* stop, or one whose resource could not be built (generic-test-container.ts:64
\* and :97): whatever else was booted, by however many attempts, is gone.
StopReleases == stopPc = "done" => up \subseteq orphans \cup refused

\* Whoever calls start(), however often and after however many failures, is
\* answered with the resource of one and the same container, and until stop()
\* that container is up and in the adapter's hands.
OneContainer ==
  /\ \A r, s \in resources : r = s
  /\ promise = "resolved" /\ ~stopped =>
       resources = {attempts} /\ handle = attempts /\ attempts \in up

\* stop() settles, whatever start() it awaits (generic-test-container.ts:68).
StopSettles == (stopped ~> stopPc = "done")

=============================================================================
