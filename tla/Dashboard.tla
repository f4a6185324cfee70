----------------------------- MODULE Dashboard -----------------------------
(***************************************************************************)
(* A dashboard session during the runs of a runner: the reporter in the    *)
(* main process and the file hooks in a worker emit events through a       *)
(* client each, the session logs what arrives, and the global teardown     *)
(* finalizes the session when the last run is over.  The runner is the     *)
(* environment; a second run is a rerun in watch mode.                     *)
(***************************************************************************)
EXTENDS DashboardClient, SequencesExt

CONSTANTS
  Reporter,       \* the main process; the other clients are its workers
  MaxEvents,      \* bound of the check: events of the reporter
  MaxHookEvents,  \* bound of the check: events of the hooks of a worker
  MaxRuns,        \* bound of the check: runs of the runner
  Faults          \* what may fail: "send", "report", "containerStop"

ASSUME DashboardAssumption ==
  /\ Reporter \in Clients
  /\ Clients \cap {0, 1} = {} \* which are the ids of the session's own events
  /\ MaxRuns \in Nat \ {0} /\ MaxEvents \in Nat /\ MaxHookEvents \in Nat
  /\ Faults \subseteq {"send", "report", "containerStop"}

VARIABLES
  log, settled, poisoned, reports, phase, awaited, page, shown, inputs,
  runner,  \* what the runner is doing
  run,     \* the number of its run
  hook,    \* the afterAll of each worker's file
  lost     \* history: has a request failed before the server took it?

Session == INSTANCE DashboardSession WITH
             Faults <- Faults \cap {"report"}, MaxInputs <- 0

sessionVars == <<log, settled, poisoned, reports, phase, awaited, page, shown, inputs>>
runnerVars == <<runner, run, hook>>
vars == <<clientVars, sessionVars, runnerVars, lost>>

Workers == Clients \ {Reporter}

\* The session is there, and has announced a run; the reporter announces it
\* before or after that.
Init ==
  /\ ClientInit
  /\ Session!Init
  /\ runner = "starting"
  /\ run = 1
  /\ hook = [w \in Workers |-> "running"]
  /\ lost = FALSE

\* An event names its client, its number there, and the run it is about.
Emitted(c, type) == Session!Event(type, <<c, emitted[c] + 1, run>>)

\* Is the bound on the events of c not reached yet?
Speaks(c) == emitted[c] < IF c = Reporter THEN MaxEvents ELSE MaxHookEvents

-----------------------------------------------------------------------------
(* The runner                                                              *)

\* onRunStart() before the session is registered: no client, no event.
StartsUnseen ==
  /\ runner = "starting" /\ run = 1
  /\ runner' = "files"
  /\ UNCHANGED <<clientVars, sessionVars, run, hook, lost>>

\* onRunStart(): the reporter announces the run.
OnRunStart ==
  /\ runner = "starting"
  /\ Speaks(Reporter) /\ Emit(Reporter, Emitted(Reporter, "run.started"))
  /\ runner' = "files"
  /\ UNCHANGED <<sessionVars, run, hook, lost>>

\* onTestCaseResult() and its like.
OnTestCaseResult ==
  /\ runner = "files"
  /\ Speaks(Reporter) /\ Emit(Reporter, Emitted(Reporter, "test"))
  /\ UNCHANGED <<sessionVars, runnerVars, lost>>

\* The hooks of a file emit what happens to its containers, and what these log;
\* one that could not be stopped logs on during the last flush().
HookEmits(w) ==
  /\ runner = "files"
  /\ hook[w] = "running" \/ (hook[w] = "flushing" /\ "containerStop" \in Faults)
  /\ Speaks(w) /\ Emit(w, Emitted(w, "test"))
  /\ UNCHANGED <<sessionVars, runnerVars, lost>>

\* The end of afterAll: the last event, then flushDashboardEvents().
AfterAll(w) ==
  /\ runner = "files" /\ hook[w] = "running"
  /\ Speaks(w) /\ EmitAndFlush(w, Emitted(w, "test"))
  /\ hook' = [hook EXCEPT ![w] = "flushing"]
  /\ UNCHANGED <<sessionVars, runner, run, lost>>

AfterAllReturns(w) ==
  /\ hook[w] = "flushing" /\ awaiting[w] = "none"
  /\ hook' = [hook EXCEPT ![w] = "done"]
  /\ UNCHANGED <<clientVars, sessionVars, runner, run, lost>>

\* onRunComplete(): the end of the run, then flushDashboardEvents().
OnRunComplete ==
  /\ runner = "files" /\ \A w \in Workers : hook[w] = "done"
  /\ Speaks(Reporter) /\ EmitAndFlush(Reporter, Emitted(Reporter, "run.finished"))
  /\ runner' = "flushing"
  /\ UNCHANGED <<sessionVars, run, hook, lost>>

RunCompletes ==
  /\ runner = "flushing" /\ awaiting[Reporter] = "none"
  /\ runner' = "idle"
  /\ UNCHANGED <<clientVars, sessionVars, run, hook, lost>>

\* A file is saved in watch mode.
Rerun ==
  /\ runner = "idle" /\ run < MaxRuns
  /\ run' = run + 1
  /\ runner' = "starting"
  /\ hook' = [w \in Workers |-> "running"]
  /\ UNCHANGED <<clientVars, sessionVars, lost>>

\* The global teardown has released the shared containers.
Teardown ==
  /\ runner = "idle"
  /\ Session!Finalize
  /\ runner' = "teardown"
  /\ UNCHANGED <<clientVars, inputs, run, hook, lost>>

-----------------------------------------------------------------------------
(* Clients and session                                                     *)

DelayEnds(c) ==
  TimerFires(c) /\ UNCHANGED <<sessionVars, runnerVars, lost>>

\* A batch arrives at the server.
BatchArrives(c) ==
  /\ \E r \in requests[c] : Handled(c, r) /\ Session!Post(r.events)
  /\ UNCHANGED <<inputs, runnerVars, lost>>

\* The server has answered, or the request fails: for once, or because the
\* server is closed.
RequestSettles(c) ==
  /\ \E r \in requests[c] :
       /\ r.handled \/ phase = "closed" \/ "send" \in Faults
       /\ Answered(c, r)
       /\ lost' = (lost \/ ~r.handled)
  /\ UNCHANGED <<sessionVars, runnerVars>>

SessionStep ==
  /\ Session!ReportStep \/ Session!FinalizeStep
  /\ UNCHANGED <<clientVars, inputs, runnerVars, lost>>

\* Everything is over, or the bound on events keeps the runner from going on.
Over ==
  /\ (runner = "teardown" /\ phase = "closed") \/ \E c \in Clients : ~Speaks(c)
  /\ UNCHANGED vars

Next ==
  \/ StartsUnseen \/ OnRunStart \/ OnTestCaseResult
  \/ \E w \in Workers : HookEmits(w) \/ AfterAll(w) \/ AfterAllReturns(w)
  \/ OnRunComplete \/ RunCompletes \/ Rerun \/ Teardown
  \/ \E c \in Clients : DelayEnds(c) \/ BatchArrives(c) \/ RequestSettles(c)
  \/ SessionStep
  \/ Over

\* The runner goes on when its hooks return; requests and files settle.
Fairness ==
  /\ \A c \in Clients : WF_vars(BatchArrives(c)) /\ WF_vars(RequestSettles(c))
  /\ \A w \in Workers : WF_vars(AfterAllReturns(w))
  /\ WF_vars(RunCompletes)
  /\ WF_vars(SessionStep)

Spec == Init /\ [][Next]_vars /\ Fairness

-----------------------------------------------------------------------------
(* Properties                                                              *)

\* The session takes the events of a client in the order in which they were
\* emitted and none of them twice, whatever was flushed by whom and given up.
InOrder ==
  \A i, j \in DOMAIN log.events : \A c \in Clients :
    i < j /\ log.events[i].id[1] = c /\ log.events[j].id[1] = c
      => log.events[i].id[2] < log.events[j].id[2]

\* What c has said of tests, wherever it is now.
Told(c) ==
  {e \in ToSet(queue[c]) \cup ToSet(log.events) \cup UNION {ToSet(r.events) : r \in requests[c]} :
     e.type = "test" /\ e.id[1] = c}

\* The events that a report shows.
Shown(report) == {log.events[i] : i \in report.events}

\* The dashboard never has more runs than there were executions, although
\* session and reporter both announce each, late or early, and whatever batch
\* gets lost.  As long as none is lost, the report of a run has all that the
\* reporter said of the tests of that run and nothing that it said of others,
\* however late the batches arrive; a batch with the end of a run that gets lost
\* may put two executions into one run (dashboard-session.ts:101).
RunsAreExecutions ==
  /\ log.runCount <= run
  /\ ~lost => \A r \in reports : r.run # 0 =>
                \A e \in Told(Reporter) : e.id[3] = r.run <=> e \in Shown(r)

\* Nothing that fails in transport or on disk holds up the runner.
RunnerIsNotHeldUp ==
  /\ \A w \in Workers : hook[w] = "flushing" ~> hook[w] = "done"
  /\ runner = "flushing" ~> runner # "flushing"
  /\ runner = "teardown" ~> phase = "closed"

\* When nothing fails, the final report has all that the reporter and the file
\* hooks said.
EventsAreRecorded ==
  phase = "closed" =>
    \A r \in reports : r.run = 0 =>
      \A c \in Clients : Told(c) \subseteq Shown(r)

=============================================================================
