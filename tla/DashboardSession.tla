-------------------------- MODULE DashboardSession --------------------------
(***************************************************************************)
(* DashboardSession: the log of events of one test session, the runs in    *)
(* it, the report of every run that finishes, the final report and the     *)
(* live page of a browser.                                                 *)
(*                                                                         *)
(* An event is [type, id].  Its type is a marker of a run ("run.started",  *)
(* "run.finished"), "shared" for whatever says that its isolation is       *)
(* shared, "dashboard" for the session's own, or "test" for anything else; *)
(* its id, a tuple, tells it from the other events of its type.            *)
(***************************************************************************)
EXTENDS Naturals, Sequences, SequencesExt

CONSTANTS
  MaxInputs,  \* bound of the check: how many entries others post
  Faults      \* {"report"} if a report may not be written, else {}

ASSUME SessionAssumption ==
  /\ MaxInputs \in Nat
  /\ Faults \subseteq {"report"}

VARIABLES
  log,       \* the events and the runs, see Accept
  settled,   \* how many of the reports in log.jobs have been dealt with
  poisoned,  \* has this.reportChain been rejected?
  reports,   \* the reports on disk, by number of run, 0 being index.html
  phase,     \* finalize()
  awaited,   \* how many reports finalize() awaits
  page,      \* a browser: none, page loaded, event stream connected or ended
  shown,     \* the events on that page
  inputs     \* bound of the check: how many entries others have posted

sessionVars == <<log, settled, poisoned, reports, phase, awaited, page, shown>>
vars == <<sessionVars, inputs>>

Event(type, id) == [type |-> type, id |-> id]

-----------------------------------------------------------------------------
(* The log: emit()                                                         *)

\* Mutant: the report of a run shows the whole log.
RunEventsOfAll(events, start) == DOMAIN events

\* What the report of the run that begins after the first start events of the
\* log shows, by its places in the log: the shared events of earlier runs, and
\* everything since.
RunEvents(events, start) ==
  {i \in DOMAIN events : i > start \/ events[i].type = "shared"}

\* Mutant: a run may start twice.
DropsEnds(l, e) == e.type = "run.finished" /\ ~l.runActive

\* A run does not start twice, and no run ends that has not started.
Drops(l, e) ==
  \/ e.type = "run.started" /\ l.runActive
  \/ e.type = "run.finished" /\ ~l.runActive

\* emit(): the end of a run chains the writing of its report, with the events
\* as they are now.
Accept(l, e) ==
  LET events == Append(l.events, e)
  IN  CASE Drops(l, e) -> l
        [] ~Drops(l, e) /\ e.type = "run.started" ->
             [l EXCEPT !.events = events, !.runStart = Len(l.events),
                       !.runCount = @ + 1, !.runActive = TRUE]
        [] ~Drops(l, e) /\ e.type = "run.finished" ->
             [l EXCEPT !.events = events, !.runActive = FALSE,
                       !.jobs = Append(@, [run |-> l.runCount,
                                           events |-> RunEvents(events, l.runStart)])]
        [] OTHER -> [l EXCEPT !.events = events]

\* The browser gets what is accepted while its event stream is connected.
Log(l) ==
  /\ log' = l
  /\ shown' = IF page = "live"
                THEN shown \o SubSeq(l.events, Len(log.events) + 1, Len(l.events))
                ELSE shown

\* parseEvent(): is this entry of a batch an event?
Parses(entry) == entry.type # "malformed"

\* The log after a batch: its entries are taken one after the other, and one
\* that is no event is passed over.
AcceptBatch(l, batch) ==
  LET after[n \in 0 .. Len(batch)] ==
        IF n = 0 THEN l
        ELSE IF Parses(batch[n]) THEN Accept(after[n - 1], batch[n])
        ELSE after[n - 1]
  IN  after[Len(batch)]

\* POST /api/events, as long as there is a server: the events of a batch, in one
\* go.  A batch of one is also what emit() does within the process.
Post(batch) ==
  /\ phase # "closed"
  /\ Log(AcceptBatch(log, batch))
  /\ UNCHANGED <<settled, poisoned, reports, phase, awaited, page>>

\* start() itself announces the session and the first run.
StartedLog ==
  LET empty == [events |-> <<>>, runStart |-> 0, runCount |-> 0, runActive |-> FALSE,
                jobs |-> <<>>]
  IN  Accept(Accept(empty, Event("dashboard", <<0>>)), Event("run.started", <<0>>))

-----------------------------------------------------------------------------
(* The reports                                                             *)

\* The chained reports are written one after the other.
WriteRunReport ==
  /\ ~poisoned /\ settled < Len(log.jobs)
  /\ reports' = reports \cup {log.jobs[settled + 1]}
  /\ settled' = settled + 1
  /\ UNCHANGED <<log, poisoned, phase, awaited, page, shown>>

\* A report cannot be written: the chain is rejected, and stays so.
RunReportFails ==
  /\ "report" \in Faults
  /\ ~poisoned /\ settled < Len(log.jobs)
  /\ poisoned' = TRUE
  /\ settled' = settled + 1
  /\ UNCHANGED <<log, reports, phase, awaited, page, shown>>

Finalize ==
  /\ phase = "live"
  /\ phase' = "chain"
  /\ Log(Accept(log, Event("dashboard", <<1>>)))
  /\ awaited' = Len(log.jobs)
  /\ UNCHANGED <<settled, poisoned, reports, page>>

\* Has the chain as finalize() found it settled, one way or the other?
ChainSettled == poisoned \/ settled >= awaited

AwaitChain ==
  /\ phase = "chain" /\ ChainSettled
  /\ phase' = "index"
  /\ UNCHANGED <<log, settled, poisoned, reports, awaited, page, shown>>

\* Mutant: the final report shows the last run only.
WriteIndexOfRun ==
  /\ phase = "index"
  /\ \/ reports' = reports \cup {[run |-> 0, events |-> RunEvents(log.events, log.runStart)]}
     \/ "report" \in Faults /\ UNCHANGED reports
  /\ phase' = "ending"
  /\ UNCHANGED <<log, settled, poisoned, awaited, page, shown>>

\* writeReport('index.html'): all the events there are when it is rendered.
WriteIndex ==
  /\ phase = "index"
  /\ \/ reports' = reports \cup {[run |-> 0, events |-> DOMAIN log.events]}
     \/ "report" \in Faults /\ UNCHANGED reports
  /\ phase' = "ending"
  /\ UNCHANGED <<log, settled, poisoned, awaited, page, shown>>

\* The event streams are ended, then the server closes.
EndReaders ==
  /\ phase = "ending"
  /\ phase' = "closing"
  /\ page' = IF page = "live" THEN "ended" ELSE page
  /\ UNCHANGED <<log, settled, poisoned, reports, awaited, shown>>

ServerCloses ==
  /\ phase = "closing"
  /\ phase' = "closed"
  /\ UNCHANGED <<log, settled, poisoned, reports, awaited, page, shown>>

-----------------------------------------------------------------------------
(* The browser                                                             *)

\* GET /session/<token>: the page shows the events there are.
LoadPage ==
  /\ page = "none" /\ phase \notin {"closing", "closed"}
  /\ page' = "loaded"
  /\ shown' = log.events
  /\ UNCHANGED <<log, settled, poisoned, reports, phase, awaited>>

\* Mutant: the stream begins with the whole log, as if the page were empty.
ConnectPageFromStart ==
  /\ page = "loaded" /\ phase \notin {"closing", "closed"}
  /\ page' = "live"
  /\ shown' = shown \o log.events
  /\ UNCHANGED <<log, settled, poisoned, reports, phase, awaited>>

\* GET /events/<token>: the script of the page connects to the event stream.
ConnectPage ==
  /\ page = "loaded" /\ phase \notin {"closing", "closed"}
  /\ page' = "live"
  /\ UNCHANGED <<log, settled, poisoned, reports, phase, awaited, shown>>

-----------------------------------------------------------------------------
(* The session on its own                                                  *)

Init ==
  /\ log = StartedLog
  /\ settled = 0 /\ awaited = 0
  /\ poisoned = FALSE
  /\ reports = {}
  /\ phase = "live"
  /\ page = "none" /\ shown = <<>>
  /\ inputs = 0

Types == {"run.started", "run.finished", "shared", "test"}

\* The entries of a batch after n entries of earlier batches, by type: what a
\* worker may put into it, and what no parser takes for an event.
Entries(n) ==
  {[i \in DOMAIN types |-> Event(types[i], <<n + i>>)] :
     types \in BoundedSeq(Types \cup {"malformed"}, 2) \ {<<>>}}

\* A request of another process arrives and its batch is posted, or it is
\* refused as a whole: not found, not authorized, too large, not JSON, no array.
Input ==
  /\ phase # "closed"
  /\ \E batch \in Entries(inputs) :
       /\ inputs + Len(batch) <= MaxInputs
       /\ inputs' = inputs + Len(batch)
       /\ Post(batch) \/ UNCHANGED sessionVars

ReportStep == WriteRunReport \/ RunReportFails
FinalizeStep == AwaitChain \/ WriteIndex \/ EndReaders \/ ServerCloses

\* The session is over: nothing is left to be done.
Over ==
  /\ phase = "closed" /\ (poisoned \/ settled = Len(log.jobs))
  /\ UNCHANGED sessionVars

Step ==
  \/ ReportStep \/ Finalize \/ FinalizeStep \/ LoadPage \/ ConnectPage
  \/ Over

Next == Input \/ (Step /\ UNCHANGED inputs)

Spec == Init /\ [][Next]_vars

-----------------------------------------------------------------------------
(* Properties                                                              *)

RunReports == {r \in reports : r.run # 0}

\* Does this place in the log hold an event of this type?
Holds(i, type) == i \in DOMAIN log.events /\ log.events[i].type = type

\* Reports of runs are independent: what two of them have in common is shared,
\* and each has the start and the end of one run, although a report may be
\* written when the next run has begun.
ReportsAreIndependent ==
  /\ \A r \in RunReports : \E first, last \in r.events :
       /\ first < last /\ Holds(first, "run.started") /\ Holds(last, "run.finished")
       /\ \A i \in r.events \ {first, last} : ~ Holds(i, "run.started") /\ ~ Holds(i, "run.finished")
  /\ \A r, s \in RunReports :
       r.run < s.run => \A i \in r.events \cap s.events : Holds(i, "shared")

\* The final report, once written, has every event that was accepted before
\* finalize() was called, those of all the reports of runs included.
FinalReportIsComplete ==
  \A r \in reports : r.run = 0 =>
    /\ \A s \in RunReports : s.run <= awaited => s.events \subseteq r.events
    /\ \E i \in DOMAIN log.events :
         log.events[i] = Event("dashboard", <<1>>) /\ 1 .. i \subseteq r.events

\* A live page never shows an event twice, nor one before an older one.
PageInOrder ==
  \A i, j \in DOMAIN shown :
    i < j => \E k, l \in DOMAIN log.events :
               k < l /\ log.events[k] = shown[i] /\ log.events[l] = shown[j]

=============================================================================
