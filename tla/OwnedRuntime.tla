---------------------------- MODULE OwnedRuntime ----------------------------
(***************************************************************************)
(* What a ContainerRuntime promises the one owner that starts it once and  *)
(* stops it: the two promises the owner holds, and whether any container   *)
(* of the runtime is up.  MCOwnedRuntime shows that ContainerRuntime keeps *)
(* this contract, and FileLifecycle is built on it.                        *)
(***************************************************************************)

VARIABLES
  start,  \* the owner's startInstances() call
  stop,   \* the memoized stop()
  held    \* is any container up?

contract == <<start, stop, held>>

StartStates == {"idle", "pending", "failing", "resolved", "rejected"}
StopStates  == {"idle", "pending", "resolved", "rejected"}

Init == start = "idle" /\ stop = "idle" /\ held = FALSE

\* The owner starts the runtime; one that was stopped refuses.
CallStart ==
  /\ start = "idle"
  /\ start' = IF stop = "idle" THEN "pending" ELSE "rejected"
  /\ UNCHANGED <<stop, held>>

\* The list of names was refused before anything happened.
Refuse ==
  /\ start = "idle"
  /\ start' = "rejected"
  /\ UNCHANGED <<stop, held>>

\* A container comes up: while the start is under way or failing, even while
\* the runtime is being stopped, but never once a stop has resolved, and
\* after a start that rejected only when the stop did too.
Boot ==
  /\ \/ start \in {"pending", "failing"} /\ stop # "resolved"
     \/ start = "rejected" /\ stop = "rejected"
  /\ held' = TRUE
  /\ UNCHANGED <<start, stop>>

StartResolves ==
  /\ start = "pending"
  /\ start' = "resolved"
  /\ UNCHANGED <<stop, held>>

\* A failing start stops the runtime before it rejects.
StartFails ==
  /\ start = "pending"
  /\ start' = "failing"
  /\ stop' = IF stop = "idle" THEN "pending" ELSE stop
  /\ UNCHANGED held

StartRejects ==
  /\ start = "failing" /\ stop \in {"resolved", "rejected"}
  /\ start' = "rejected"
  /\ UNCHANGED <<stop, held>>

\* The owner stops the runtime; one that owns nothing may have stopped at once.
CallStop ==
  /\ stop = "idle"
  /\ stop' \in IF held THEN {"pending"} ELSE {"pending", "resolved"}
  /\ UNCHANGED <<start, held>>

\* The last container goes down.
Release ==
  /\ stop = "pending"
  /\ held' = FALSE
  /\ UNCHANGED <<start, stop>>

\* stop() resolves only when nothing is up, and rejects otherwise.
StopSettles ==
  /\ stop = "pending"
  /\ stop' \in IF held THEN {"rejected"} ELSE {"resolved", "rejected"}
  /\ UNCHANGED <<start, held>>

Progress == StartResolves \/ StartFails \/ StartRejects

Next == CallStart \/ Refuse \/ Boot \/ Progress \/ CallStop \/ Release \/ StopSettles

Spec ==
  /\ Init /\ [][Next]_contract
  /\ WF_contract(Progress) /\ WF_contract(StopSettles)

=============================================================================
