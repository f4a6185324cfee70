--------------------------- MODULE MCOwnedRuntime ---------------------------
(***************************************************************************)
(* ContainerRuntime with one startInstances() call implements OwnedRuntime *)
(* under this mapping, and keeps more to an owner that lets the call       *)
(* settle before it calls stop().                                          *)
(***************************************************************************)
EXTENDS ContainerRuntime

VARIABLE raced \* history: did the owner call stop() before its call had settled?

Call == CHOOSE k \in Calls : TRUE

OwnerRaces == stopPc = "idle" /\ stopPc' # "idle" /\ pc[Call] \in Pending /\ UNCHANGED pc

RacedInit == Init /\ raced = FALSE

RacedNext == Next /\ raced' = (raced \/ OwnerRaces)

RacedSpec == RacedInit /\ [][RacedNext]_<<vars, raced>> /\ Fairness

startBar ==
  CASE pc[Call] = "idle" -> "idle"
    [] pc[Call] \in {"network", "starting", "resources"} -> "pending"
    [] pc[Call] = "stopping" -> "failing"
    [] pc[Call] = "fulfilled" -> "resolved"
    [] pc[Call] \in {"refused", "startupFailed", "resourceFailed"} -> "rejected"

stopBar ==
  CASE stopPc = "idle" -> "idle"
    [] stopPc \in StopSteps \ {"idle", "done"} -> "pending"
    [] stopPc = "done" -> IF failures = {} THEN "resolved" ELSE "rejected"

Contract == INSTANCE OwnedRuntime
              WITH start <- startBar, stop <- stopBar, held <- running # {}

\* The runtime keeps the contract its owners rely on: in particular a stop()
\* that resolves leaves nothing up, and both promises settle.
ImplementsContract == Contract!Spec

\* The promise of the class to an owner as the runners' hooks are, whose stop()
\* waits for its start: when stop() has settled nothing runs but what Docker
\* refused to stop, and a container whose start rejected after it came up
\* while stop() was already waiting for it.
OwnerReleasesEverything ==
  ~raced /\ StopSettled =>
    \A c \in running : c \in failures \/ resource[c] = "rejected"

=============================================================================
