-------------------------- MODULE DashboardProofs --------------------------
(***************************************************************************)
(* Theorems about the event clients of a Dashboard and the log they fill,  *)
(* for any number of workers, any length of queue and any number of events *)
(* and runs: what is queued is always watched, a client has one request on *)
(* its way at most, a flush() that sends returns only when nothing is      *)
(* left; the log has the events of each client in their order; and the     *)
(* runs of the log are those of the runner, whatever gets lost.            *)
(***************************************************************************)
EXTENDS Dashboard, SequenceTheorems, TLAPS

\* The lemmas on sessions, for the session of this dashboard.
SP == INSTANCE DashboardSessionProofs WITH
        Faults <- Faults \cap {"report"}, MaxInputs <- 0

\* Where the clients' variables are defined.
DomainInv ==
  /\ DOMAIN queue = Clients /\ DOMAIN requests = Clients
  /\ timer \in [Clients -> BOOLEAN]
  /\ flushing \in [Clients -> BOOLEAN]
  /\ awaiting \in [Clients -> {"none", "waits", "sends"}]

\* this.flushing is set while a request is on its way, and there is never more
\* than one.
OneRequest ==
  \A c \in Clients :
    /\ ~flushing[c] => requests[c] = {}
    /\ \A r, s \in requests[c] : r = s

ClientInv == DomainInv /\ OneRequest /\ QueueIsWatched

-----------------------------------------------------------------------------
(* Each operation of a client preserves the invariant.                     *)

\* flush() sends only when no request is on its way.
LEMMA StartFlushKeeps ==
  ASSUME NEW c \in Clients, NEW q, ClientInv, StartFlush(c, q)
  PROVE  /\ DOMAIN queue' = Clients /\ DOMAIN requests' = Clients
         /\ timer' \in [Clients -> BOOLEAN] /\ flushing' \in [Clients -> BOOLEAN]
         /\ OneRequest' /\ QueueIsWatched'
<1> USE DEF ClientInv, DomainInv
<1>1. CASE ~flushing[c] /\ q # <<>>
  <2>1. /\ timer' = [timer EXCEPT ![c] = FALSE]
        /\ queue' = [queue EXCEPT ![c] = <<>>]
        /\ flushing' = [flushing EXCEPT ![c] = TRUE]
        /\ requests' = [requests EXCEPT ![c] = requests[c] \cup {Request(q)}]
    BY <1>1 DEF StartFlush, Send
  <2>2. requests'[c] = {Request(q)}
    BY <1>1, <2>1 DEF OneRequest
  <2>3. OneRequest'
    BY <2>1, <2>2 DEF OneRequest
  <2>4. QueueIsWatched'
    BY <2>1 DEF QueueIsWatched
  <2> QED BY <2>1, <2>3, <2>4
<1>2. CASE ~(~flushing[c] /\ q # <<>>)
  <2>1. /\ timer' = [timer EXCEPT ![c] = FALSE]
        /\ queue' = [queue EXCEPT ![c] = q]
        /\ UNCHANGED <<flushing, requests>>
    BY <1>2 DEF StartFlush
  <2>2. OneRequest'
    BY <2>1 DEF OneRequest
  <2>3. QueueIsWatched'
    BY <1>2, <2>1 DEF QueueIsWatched
  <2> QED BY <2>1, <2>2, <2>3
<1> QED BY <1>1, <1>2

LEMMA EmitKeeps ==
  ASSUME NEW c \in Clients, NEW e, ClientInv, Emit(c, e)
  PROVE  ClientInv'
<1> DEFINE q == Append(queue[c], e)
<1>1. awaiting' = awaiting
  BY DEF Emit
<1>2. CASE Len(q) >= BatchSize
  <2>1. StartFlush(c, q)
    BY <1>2 DEF Emit
  <2> QED BY <1>1, <2>1, StartFlushKeeps DEF ClientInv, DomainInv
<1>3. CASE ~(Len(q) >= BatchSize)
  <2>1. /\ queue' = [queue EXCEPT ![c] = q]
        /\ timer' = [timer EXCEPT ![c] = TRUE]
        /\ UNCHANGED <<flushing, requests>>
    BY <1>3 DEF Emit
  <2>2. QueueIsWatched'
    BY <2>1 DEF QueueIsWatched, ClientInv, DomainInv
  <2> QED BY <1>1, <2>1, <2>2 DEF ClientInv, DomainInv, OneRequest
<1> QED BY <1>2, <1>3

LEMMA TimerKeeps ==
  ASSUME NEW c \in Clients, ClientInv, TimerFires(c)
  PROVE  ClientInv'
<1>1. StartFlush(c, queue[c]) /\ awaiting' = awaiting
  BY DEF TimerFires
<1> QED BY <1>1, StartFlushKeeps DEF ClientInv, DomainInv

LEMMA EmitAndFlushKeeps ==
  ASSUME NEW c \in Clients, NEW e, ClientInv, EmitAndFlush(c, e)
  PROVE  ClientInv'
<1>1. StartFlush(c, Append(queue[c], e))
  BY DEF EmitAndFlush
<1>2. awaiting' \in [Clients -> {"none", "waits", "sends"}]
  <2>1. \E a \in {"waits", "sends"} : awaiting' = [awaiting EXCEPT ![c] = a]
    BY DEF EmitAndFlush
  <2> QED BY <2>1 DEF ClientInv, DomainInv
<1> QED BY <1>1, <1>2, StartFlushKeeps DEF ClientInv, DomainInv

LEMMA AnsweredKeeps ==
  ASSUME NEW c \in Clients, NEW r, ClientInv, Answered(c, r)
  PROVE  ClientInv'
<1> USE DEF ClientInv, DomainInv
<1>1. requests[c] \ {r} = {}
  BY DEF Answered, OneRequest
<1>2. awaiting' \in [Clients -> {"none", "waits", "sends"}]
  BY DEF Answered, AwaitingAfterSend
<1>3. CASE queue[c] # <<>>
  <2>1. /\ timer' = [timer EXCEPT ![c] = FALSE]
        /\ queue' = [queue EXCEPT ![c] = <<>>]
        /\ flushing' = [flushing EXCEPT ![c] = TRUE]
        /\ requests' = [requests EXCEPT ![c] = {Request(queue[c])}]
    BY <1>1, <1>3 DEF Answered, Send
  <2>2. OneRequest'
    BY <2>1 DEF OneRequest
  <2>3. QueueIsWatched'
    BY <2>1 DEF QueueIsWatched
  <2> QED BY <1>2, <2>1, <2>2, <2>3
<1>4. CASE queue[c] = <<>>
  <2>1. /\ flushing' = [flushing EXCEPT ![c] = FALSE]
        /\ requests' = [requests EXCEPT ![c] = {}]
        /\ UNCHANGED <<queue, timer>>
    BY <1>1, <1>4 DEF Answered
  <2>2. OneRequest'
    BY <2>1 DEF OneRequest
  <2>3. QueueIsWatched'
    BY <1>4, <2>1 DEF QueueIsWatched
  <2> QED BY <1>2, <2>1, <2>2, <2>3
<1> QED BY <1>3, <1>4

LEMMA HandledKeeps ==
  ASSUME NEW c \in Clients, NEW r, ClientInv, Handled(c, r)
  PROVE  ClientInv'
<1> DEFINE h == [r EXCEPT !.handled = TRUE]
<1>1. /\ r \in requests[c]
      /\ requests' = [requests EXCEPT ![c] = (requests[c] \ {r}) \cup {h}]
      /\ UNCHANGED <<queue, timer, flushing, awaiting>>
  BY DEF Handled
<1>2. requests'[c] = {h}
  <2>1. requests[c] \ {r} = {}
    BY <1>1 DEF ClientInv, OneRequest
  <2> QED BY <1>1, <2>1 DEF ClientInv, DomainInv
<1>3. flushing[c]
  BY <1>1 DEF ClientInv, OneRequest
<1>4. OneRequest'
  <2> HIDE DEF h
  <2> QED BY <1>1, <1>2, <1>3 DEF ClientInv, DomainInv, OneRequest
<1> QED BY <1>1, <1>4 DEF ClientInv, DomainInv, QueueIsWatched

\* Steps of the rest of the system leave the clients alone.
LEMMA OthersKeep ==
  ASSUME ClientInv, UNCHANGED clientVars
  PROVE  ClientInv'
BY DEF ClientInv, DomainInv, OneRequest, QueueIsWatched, clientVars

-----------------------------------------------------------------------------
(* The theorems                                                            *)

LEMMA ClientInvInit == Init => ClientInv
BY DEF Init, ClientInit, ClientInv, DomainInv, OneRequest, QueueIsWatched

LEMMA ClientInvNext == ClientInv /\ [Next]_vars => ClientInv'
<1> SUFFICES ASSUME ClientInv, [Next]_vars
             PROVE  ClientInv'
  OBVIOUS
<1> USE DashboardAssumption
<1>1. CASE \/ StartsUnseen \/ RunCompletes \/ Rerun \/ Teardown \/ SessionStep \/ Over
           \/ \E w \in Workers : AfterAllReturns(w)
           \/ UNCHANGED vars
  <2>1. UNCHANGED clientVars
    BY <1>1 DEF StartsUnseen, RunCompletes, Rerun, Teardown, SessionStep, Over,
                AfterAllReturns, vars
  <2> QED BY <2>1, OthersKeep
<1>2. CASE OnRunStart \/ OnTestCaseResult
  BY <1>2, EmitKeeps DEF OnRunStart, OnTestCaseResult
<1>3. CASE OnRunComplete
  BY <1>3, EmitAndFlushKeeps DEF OnRunComplete
<1>4. ASSUME NEW w \in Workers, HookEmits(w)
      PROVE  ClientInv'
  BY <1>4, EmitKeeps DEF HookEmits, Workers
<1>5. ASSUME NEW w \in Workers, AfterAll(w)
      PROVE  ClientInv'
  BY <1>5, EmitAndFlushKeeps DEF AfterAll, Workers
<1>6. ASSUME NEW c \in Clients, DelayEnds(c)
      PROVE  ClientInv'
  BY <1>6, TimerKeeps DEF DelayEnds
<1>7. ASSUME NEW c \in Clients, BatchArrives(c)
      PROVE  ClientInv'
  BY <1>7, HandledKeeps DEF BatchArrives
<1>8. ASSUME NEW c \in Clients, RequestSettles(c)
      PROVE  ClientInv'
  BY <1>8, AnsweredKeeps DEF RequestSettles
<1> QED BY <1>1, <1>2, <1>3, <1>4, <1>5, <1>6, <1>7, <1>8 DEF Next

LEMMA ClientInvHolds == Spec => []ClientInv
BY ClientInvInit, ClientInvNext, PTL DEF Spec

\* What a client has queued is never forgotten, whoever flushes it: a timer or
\* the end of a send will take it.
THEOREM QueuesAreWatched == Spec => []QueueIsWatched
<1>1. ClientInv => QueueIsWatched
  BY DEF ClientInv
<1> QED BY <1>1, ClientInvHolds, PTL

\* A client never has two requests on its way, so its batches cannot overtake
\* each other.
THEOREM RequestsAreSerial == Spec => []OneRequest
<1>1. ClientInv => OneRequest
  BY DEF ClientInv
<1> QED BY <1>1, ClientInvHolds, PTL

\* A flush() that sends returns only when nothing is queued and nothing is on
\* its way.
THEOREM FlushesDrain == Spec => DrainingFlushDelivers
<1>1. ASSUME ClientInv, [Next]_vars, NEW c \in Clients,
             awaiting[c] = "sends", awaiting'[c] = "none"
      PROVE  queue'[c] = <<>> /\ requests'[c] = {}
  <2> USE DashboardAssumption DEF ClientInv, DomainInv
  <2>1. \A d \in Clients : \A e : ~(Emit(d, e) \/ EmitAndFlush(d, e))
    <3>1. ASSUME NEW d \in Clients, NEW e, Emit(d, e) PROVE FALSE
      BY <1>1, <3>1 DEF Emit
    <3>2. ASSUME NEW d \in Clients, NEW e, EmitAndFlush(d, e) PROVE FALSE
      <4>1. PICK a \in {"waits", "sends"} : awaiting' = [awaiting EXCEPT ![d] = a]
        BY <3>2 DEF EmitAndFlush
      <4> QED BY <1>1, <4>1
    <3> QED BY <3>1, <3>2
  <2>2. \A d \in Clients : ~TimerFires(d)
    BY <1>1 DEF TimerFires
  <2>3. \A d \in Clients : \A r : ~Handled(d, r)
    BY <1>1 DEF Handled
  <2>4. ~UNCHANGED clientVars
    BY <1>1 DEF clientVars
  <2>5. ~UNCHANGED vars
    BY <2>4 DEF vars
  <2>6. \E d \in Clients : RequestSettles(d)
    <3>1. ~(StartsUnseen \/ RunCompletes \/ Rerun \/ Teardown \/ SessionStep \/ Over
            \/ \E w \in Workers : AfterAllReturns(w))
      BY <2>4, <2>5 DEF StartsUnseen, RunCompletes, Rerun, Teardown, SessionStep,
                        Over, AfterAllReturns
    <3>2. ~(OnRunStart \/ OnTestCaseResult \/ OnRunComplete)
      BY <2>1 DEF OnRunStart, OnTestCaseResult, OnRunComplete
    <3>3. \A w \in Workers : ~(HookEmits(w) \/ AfterAll(w))
      BY <2>1 DEF HookEmits, AfterAll, Workers
    <3>4. \A d \in Clients : ~(DelayEnds(d) \/ BatchArrives(d))
      BY <2>2, <2>3 DEF DelayEnds, BatchArrives
    <3> QED BY <1>1, <2>5, <3>1, <3>2, <3>3, <3>4 DEF Next
  <2>7. PICK r : Answered(c, r)
    <3>1. PICK d \in Clients : \E r : Answered(d, r)
      BY <2>6 DEF RequestSettles
    <3>2. d = c
      BY <1>1, <3>1 DEF Answered
    <3> QED BY <3>1, <3>2
  <2>8. queue[c] = <<>>
    BY <1>1, <2>7 DEF Answered, AwaitingAfterSend
  <2>9. requests[c] \ {r} = {}
    BY <1>1, <2>7 DEF Answered, OneRequest
  <2> QED BY <1>1, <2>7, <2>8, <2>9 DEF Answered
<1>2. ClientInv /\ [Next]_vars
        => [\A c \in Clients :
              awaiting[c] = "sends" /\ awaiting'[c] = "none"
                => queue'[c] = <<>> /\ requests'[c] = {}]_clientVars
  BY <1>1
<1> QED BY <1>2, ClientInvHolds, PTL DEF Spec, DrainingFlushDelivers

-----------------------------------------------------------------------------
(* What the log has to do with the clients and with the runner             *)

\* What a client emits: its name, a number and the run; only the reporter says
\* of a run that it starts or ends.
EventsOf(c) ==
  [type : IF c = Reporter THEN {"run.started", "run.finished", "test"} ELSE {"test"},
   id : {c} \X Nat \X Nat]

Increasing(s) == \A i, j \in DOMAIN s : i < j => s[i].id[2] < s[j].id[2]

RequestsOf(c) == [events : Seq(EventsOf(c)), handled : BOOLEAN]

\* The events of a client that has a queue q, requests R and has emitted n: those
\* on their way are older than those in the queue.
ClientOrder(c, q, R, n) ==
  /\ n \in Nat /\ q \in Seq(EventsOf(c)) /\ Increasing(q)
  /\ \A e \in ToSet(q) : e.id[2] <= n
  /\ \A r \in R :
       /\ r \in RequestsOf(c) /\ Increasing(r.events)
       /\ \A e \in ToSet(r.events) : e.id[2] <= n /\ \A f \in ToSet(q) : e.id[2] < f.id[2]

\* What the session has not taken yet.
Unheard(q, R) == ToSet(q) \cup UNION {ToSet(r.events) : r \in {s \in R : ~ s.handled}}

Pending(c) == Unheard(queue[c], requests[c])

OrderInv ==
  /\ DOMAIN emitted = Clients
  /\ \A c \in Clients : ClientOrder(c, queue[c], requests[c], emitted[c])

\* What it has taken of a client is older.
LogOrderInv ==
  /\ InOrder
  /\ \A c \in Clients : \A i \in DOMAIN log.events :
       log.events[i].id[1] = c =>
         /\ log.events[i].id[2] <= emitted[c]
         /\ \A e \in Pending(c) : log.events[i].id[2] < e.id[2]

\* What a handled request said of tests is in the log.
HeardInv ==
  \A c \in Clients : \A r \in requests[c] :
    r.handled => \A e \in ToSet(r.events) : e.type = "test" => e \in ToSet(log.events)

\* The number of the last run whose end, or start, the reporter may have announced.
Ended == IF runner \in {"starting", "files"} THEN run - 1 ELSE run
Begun == IF runner = "starting" THEN run - 1 ELSE run

RunnerInv ==
  /\ runner \in {"starting", "files", "flushing", "idle", "teardown"}
  /\ run \in Nat \ {0} /\ lost \in BOOLEAN

\* The events of some runs: the start comes first and the end last.
Sorted(P) ==
  \A e, f \in P : e.id[2] < f.id[2] =>
    /\ e.id[3] <= f.id[3]
    /\ e.type = "run.finished" \/ f.type = "run.started" => e.id[3] < f.id[3]

\* A log of no more runs than there were, if P is still to come.
RunsCounted(l, P, ended, begun) ==
  /\ P \subseteq EventsOf(Reporter) /\ Sorted(P)
  /\ Len(l.jobs) <= ended
  /\ l.runCount = 1 \/ l.runCount <= begun
  /\ \A e \in P :
       /\ Len(l.jobs) < e.id[3] /\ e.id[3] <= begun
       /\ e.type = "run.finished" => e.id[3] <= ended

IsTest(l, i) == l.events[i].type = "test" /\ l.events[i].id[1] = Reporter

\* A log that has, with P, all that the reporter said: every end and start is
\* there or still to come, and every test is in the report of its run.
RunsTold(l, P, ended, begun) ==
  /\ l.runCount >= 1
  /\ \A k \in 1 .. ended : k > Len(l.jobs) =>
       \E e \in P : e.type = "run.finished" /\ e.id[3] = k
  /\ \A k \in 2 .. begun : k > l.runCount =>
       \E e \in P : e.type = "run.started" /\ e.id[3] = k
  /\ \A i \in DOMAIN l.events : IsTest(l, i) =>
       /\ l.events[i].id[3] <= begun
       /\ \A e \in P : l.events[i].id[3] <= e.id[3]
       /\ l.events[i].id[3] > Len(l.jobs) <=> (l.runActive /\ i > l.runStart)
       /\ \A k \in 1 .. Len(l.jobs) : i \in l.jobs[k].events <=> l.events[i].id[3] = k

RunsInv ==
  /\ RunsCounted(log, Pending(Reporter), Ended, Begun)
  /\ ~ lost => RunsTold(log, Pending(Reporter), Ended, Begun)

\* All there may be in the log.
Logged == (UNION {EventsOf(c) : c \in Clients}) \cup SP!OwnEvents

-----------------------------------------------------------------------------
(* Events                                                                  *)

LEMMA EventFields ==
  ASSUME NEW c, NEW e \in EventsOf(c)
  PROVE  /\ e.id[1] = c /\ e.id[2] \in Nat /\ e.id[3] \in Nat
         /\ e.type \in {"run.started", "run.finished", "test"}
         /\ c # Reporter => e.type = "test"
BY DEF EventsOf

\* An event of the log that names a client is one of its events.
LEMMA LoggedOf ==
  ASSUME NEW c \in Clients, NEW e \in Logged, e.id[1] = c
  PROVE  e \in EventsOf(c)
<1>1. CASE e \in SP!OwnEvents
  <2>1. e.id[1] = 0 \/ e.id[1] = 1
    BY <1>1 DEF SP!OwnEvents, SP!Event
  <2> QED BY <2>1, DashboardAssumption
<1>2. CASE e \notin SP!OwnEvents
  <2>1. PICK d \in Clients : e \in EventsOf(d)
    BY <1>2 DEF Logged
  <2>2. d = c
    BY <2>1, EventFields
  <2> QED BY <2>1, <2>2
<1> QED BY <1>1, <1>2

-----------------------------------------------------------------------------
(* What an event does to the runs of the log                               *)

\* Of the events P that are to come e is the first, and Q are the others.
First(e, P, Q) ==
  e \in P /\ Q \subseteq P /\ P \subseteq {e} \cup Q /\ \A f \in Q : e.id[2] < f.id[2]

LEMMA AcceptCounts ==
  ASSUME NEW l, SP!LogInv(l, Logged), NEW P, NEW Q, NEW e, NEW ended \in Nat, NEW begun \in Nat,
         RunsCounted(l, P, ended, begun), First(e, P, Q)
  PROVE  RunsCounted(SP!Accept(l, e), Q, ended, begun)
<1> DEFINE m == SP!Accept(l, e)
<1>1. /\ P \subseteq EventsOf(Reporter) /\ Sorted(P) /\ Len(l.jobs) <= ended
      /\ l.runCount = 1 \/ l.runCount <= begun
      /\ \A f \in P : /\ Len(l.jobs) < f.id[3] /\ f.id[3] <= begun
                      /\ f.type = "run.finished" => f.id[3] <= ended
  BY DEF RunsCounted
<1>2. e \in Logged
  BY <1>1, DashboardAssumption DEF Logged, First
<1>3. /\ l \in SP!LogType(Logged) /\ SP!JobsInv(l)
      /\ Len(l.jobs) \in Nat /\ l.jobs \in Seq([run : Nat, events : SUBSET Nat])
  BY DEF SP!LogInv, SP!LogType
<1>4. l.runCount = IF l.runActive THEN Len(l.jobs) + 1 ELSE Len(l.jobs)
  BY <1>3 DEF SP!JobsInv
<1>5. Sorted(Q) /\ Q \subseteq EventsOf(Reporter)
  BY <1>1 DEF Sorted, First
<1>6. \A f \in P : f.id[2] \in Nat /\ f.id[3] \in Nat
  BY <1>1, EventFields
<1>7. CASE m.jobs = l.jobs /\ m.runCount = l.runCount
  BY <1>1, <1>5, <1>7 DEF RunsCounted, First
<1>8. CASE e.type = "run.started" /\ ~ l.runActive /\ m.jobs = l.jobs
           /\ m.runCount = l.runCount + 1
  <2>1. m.runCount <= begun
    BY <1>1, <1>3, <1>4, <1>6, <1>8 DEF First
  <2> QED BY <1>1, <1>5, <1>8, <2>1 DEF RunsCounted, First
<1>9. CASE /\ e.type = "run.finished" /\ m.runCount = l.runCount
           /\ m.jobs = Append(l.jobs, [run |-> l.runCount,
                                       events |-> SP!RunEvents(m.events, l.runStart)])
           /\ m \in SP!LogType(Logged)
  <2>1. Len(m.jobs) = Len(l.jobs) + 1
    BY <1>3, <1>9 DEF SP!LogType
  <2>2. \A f \in Q : e.id[3] < f.id[3]
    BY <1>1, <1>9 DEF Sorted, First
  <2>3. Len(m.jobs) <= ended /\ \A f \in Q : Len(m.jobs) < f.id[3]
    BY <1>1, <1>3, <1>6, <1>9, <2>1, <2>2 DEF First
  <2> QED BY <1>1, <1>5, <1>9, <2>3 DEF RunsCounted, First
<1>10. CASE SP!Drops(l, e)
  <2>1. m = l
    BY <1>10 DEF SP!Accept
  <2> QED BY <1>7, <2>1
<1>11. CASE ~ SP!Drops(l, e)
  <2>1. /\ m \in SP!LogType(Logged) /\ m.events = Append(l.events, e)
        /\ \/ /\ e.type = "run.started" /\ ~ l.runActive
              /\ m.runStart = Len(l.events) /\ m.runCount = l.runCount + 1
              /\ m.runActive = TRUE /\ m.jobs = l.jobs
           \/ /\ e.type = "run.finished" /\ l.runActive
              /\ m.runStart = l.runStart /\ m.runCount = l.runCount
              /\ m.runActive = FALSE
              /\ m.jobs = Append(l.jobs, [run |-> l.runCount,
                                         events |-> SP!RunEvents(m.events, l.runStart)])
           \/ /\ e.type \notin {"run.started", "run.finished"}
              /\ m.runStart = l.runStart /\ m.runCount = l.runCount
              /\ m.runActive = l.runActive /\ m.jobs = l.jobs
    BY <1>2, <1>3, <1>11, SP!AcceptEffect
  <2> QED BY <1>7, <1>8, <1>9, <2>1
<1> QED BY <1>10, <1>11

\* The runs of the log that P continues are those of the runner: what comes first
\* is about the run that comes next.
LEMMA FirstIsNext ==
  ASSUME NEW l, SP!LogInv(l, Logged), NEW P, NEW Q, NEW e, NEW ended \in Nat, NEW begun \in Nat,
         RunsCounted(l, P, ended, begun), RunsTold(l, P, ended, begun), begun <= ended + 1,
         First(e, P, Q)
  PROVE  /\ e.type = "run.finished" => l.runActive /\ e.id[3] = Len(l.jobs) + 1
         /\ e.type = "run.started" => e.id[3] = Len(l.jobs) + 1
         /\ e.type = "test" => l.runActive
<1> DEFINE n == Len(l.jobs)
<1>1. n \in Nat
  BY DEF SP!LogInv, SP!LogType
<1>2. l.runCount = IF l.runActive THEN n + 1 ELSE n
  BY DEF SP!LogInv, SP!JobsInv
<1>3. /\ P \subseteq EventsOf(Reporter) /\ e \in P
      /\ n < e.id[3] /\ e.id[3] <= begun
      /\ e.type = "run.finished" => e.id[3] <= ended
  BY DEF RunsCounted, First
<1>4. \A f \in P : f.id[2] \in Nat /\ f.id[3] \in Nat
  BY <1>3, EventFields
<1>5. \A f \in P : f # e =>
        /\ e.id[3] <= f.id[3]
        /\ e.type = "run.finished" \/ f.type = "run.started" => e.id[3] < f.id[3]
  BY DEF RunsCounted, Sorted, First
<1>6. /\ l.runCount >= 1
      /\ \A k \in 1 .. ended : k > n => \E f \in P : f.type = "run.finished" /\ f.id[3] = k
      /\ \A k \in 2 .. begun : k > l.runCount => \E f \in P : f.type = "run.started" /\ f.id[3] = k
  BY DEF RunsTold
<1> HIDE DEF n
<1>7. ASSUME e.type # "run.started" PROVE l.runActive
  <2> SUFFICES ASSUME ~ l.runActive PROVE FALSE
    OBVIOUS
  <2>1. n + 1 \in 2 .. begun /\ n + 1 > l.runCount
    BY <1>1, <1>2, <1>3, <1>4, <1>6
  <2>2. PICK f \in P : f.type = "run.started" /\ f.id[3] = n + 1
    BY <1>6, <2>1
  <2>3. f # e /\ e.id[3] < f.id[3]
    BY <1>5, <1>7, <2>2
  <2> QED BY <1>1, <1>3, <1>4, <2>2, <2>3
<1>8. ASSUME e.type = "run.finished" PROVE e.id[3] = n + 1
  <2> SUFFICES ASSUME e.id[3] # n + 1 PROVE FALSE
    OBVIOUS
  <2>1. n + 1 \in 1 .. ended /\ n + 1 > n /\ n + 1 < e.id[3]
    BY <1>1, <1>3, <1>4, <1>8
  <2>2. PICK f \in P : f.type = "run.finished" /\ f.id[3] = n + 1
    BY <1>6, <2>1
  <2>3. f # e /\ e.id[3] < f.id[3]
    BY <1>5, <1>8, <2>1, <2>2
  <2> QED BY <1>1, <1>3, <1>4, <2>1, <2>2, <2>3
<1>9. ASSUME e.type = "run.started" PROVE e.id[3] = n + 1
  <2> SUFFICES ASSUME e.id[3] # n + 1 PROVE FALSE
    OBVIOUS
  <2>1. n + 1 < e.id[3] /\ n + 1 \in 1 .. ended /\ n + 1 > n
    BY <1>1, <1>3, <1>4
  <2>2. PICK f \in P : f.type = "run.finished" /\ f.id[3] = n + 1
    BY <1>6, <2>1
  <2>3. f # e /\ e.id[3] <= f.id[3]
    BY <1>5, <1>9, <2>2
  <2> QED BY <1>1, <1>3, <1>4, <2>1, <2>2, <2>3
<1> QED BY <1>7, <1>8, <1>9 DEF n

\* The end of a run is accepted: its report has the tests of the run.
LEMMA EndTells ==
  ASSUME NEW l, SP!LogInv(l, Logged), NEW P, NEW Q, NEW e, NEW ended \in Nat, NEW begun \in Nat,
         RunsCounted(l, P, ended, begun), RunsTold(l, P, ended, begun), begun <= ended + 1,
         First(e, P, Q), e.type = "run.finished",
         NEW m \in SP!LogType(Logged), m.events = Append(l.events, e),
         m.runStart = l.runStart, m.runCount = l.runCount, m.runActive = FALSE,
         m.jobs = Append(l.jobs, [run |-> l.runCount, events |-> SP!RunEvents(m.events, l.runStart)])
  PROVE  RunsTold(m, Q, ended, begun)
<1> DEFINE n == Len(l.events)
           j == Len(l.jobs)
           job == [run |-> l.runCount, events |-> SP!RunEvents(m.events, l.runStart)]
<1>1. l \in SP!LogType(Logged) /\ j \in Nat /\ n \in Nat /\ l.runStart \in Nat /\ m.runCount >= 1
  BY DEF SP!LogInv, SP!LogType, RunsTold
<1>2. l.runActive /\ e.id[3] = j + 1
  BY FirstIsNext
<1>3. /\ Len(m.jobs) = j + 1 /\ m.jobs[j + 1] = job
      /\ \A k \in 1 .. j : m.jobs[k] = l.jobs[k]
  <2>1. job \in [run : Nat, events : SUBSET Nat]
    BY <1>1, LenProperties DEF SP!LogType, SP!RunEvents
  <2>2. l.jobs \in Seq([run : Nat, events : SUBSET Nat]) /\ m.jobs = Append(l.jobs, job)
    BY <1>1 DEF SP!LogType
  <2> HIDE DEF job
  <2> QED BY <2>1, <2>2, AppendProperties
<1>4. /\ DOMAIN l.events = 1 .. n /\ DOMAIN m.events = 1 .. n + 1 /\ m.events[n + 1] = e
      /\ \A i \in 1 .. n : m.events[i] = l.events[i]
  <2>1. e \in Logged
    BY DashboardAssumption DEF Logged, RunsCounted, First
  <2>2. SP!Appended(m, l, e)
    BY <1>1, <2>1, SP!AppendKeepsPlaces
  <2> QED BY <2>2 DEF SP!Appended
<1>5. /\ \A k \in 1 .. ended : k > j => \E f \in P : f.type = "run.finished" /\ f.id[3] = k
      /\ \A k \in 2 .. begun : k > l.runCount => \E f \in P : f.type = "run.started" /\ f.id[3] = k
      /\ \A i \in 1 .. n : IsTest(l, i) =>
           /\ l.events[i].id[3] <= begun
           /\ \A f \in P : l.events[i].id[3] <= f.id[3]
           /\ l.events[i].id[3] > j <=> i > l.runStart
           /\ \A k \in 1 .. j : i \in l.jobs[k].events <=> l.events[i].id[3] = k
  BY <1>2, <1>4 DEF RunsTold
<1> HIDE DEF n, j
<1>6. \A k \in 1 .. ended : k > j + 1 => \E f \in Q : f.type = "run.finished" /\ f.id[3] = k
  BY <1>1, <1>2, <1>5 DEF First
<1>7. \A k \in 2 .. begun : k > l.runCount => \E f \in Q : f.type = "run.started" /\ f.id[3] = k
  BY <1>5 DEF First
<1>8. ASSUME NEW i \in 1 .. n + 1, IsTest(m, i)
      PROVE  /\ m.events[i].id[3] <= begun
             /\ \A f \in Q : m.events[i].id[3] <= f.id[3]
             /\ ~ (m.events[i].id[3] > j + 1)
             /\ \A k \in 1 .. j + 1 : i \in m.jobs[k].events <=> m.events[i].id[3] = k
  <2>1. i \in 1 .. n /\ m.events[i] = l.events[i] /\ IsTest(l, i)
    BY <1>1, <1>4, <1>8 DEF IsTest
  <2>2. l.events[i].id[3] \in Nat
    <3>1. l.events[i] \in Logged
      BY <1>1, <2>1, ElementOfSeq DEF SP!LogType, n
    <3> QED BY <2>1, <3>1, LoggedOf, EventFields, DashboardAssumption DEF IsTest
  <2>3. l.events[i].id[3] <= j + 1
    BY <1>2, <1>5, <2>1 DEF First
  <2>4. ASSUME NEW k \in 1 .. j + 1 PROVE i \in m.jobs[k].events <=> m.events[i].id[3] = k
    <3>1. CASE k \in 1 .. j
      BY <1>3, <1>5, <2>1, <3>1
    <3>2. CASE k = j + 1
      <4>1. i \in job.events <=> i > l.runStart
        BY <1>1, <1>4, <2>1 DEF SP!RunEvents, IsTest
      <4>2. i > l.runStart <=> l.events[i].id[3] = j + 1
        <5>1. i > l.runStart <=> l.events[i].id[3] > j
          BY <1>5, <2>1
        <5> QED BY <1>1, <2>2, <2>3, <5>1
      <4> QED BY <1>3, <2>1, <3>2, <4>1, <4>2
    <3>3. k \in 1 .. j \/ k = j + 1
      BY <1>1
    <3> QED BY <3>1, <3>2, <3>3
  <2>5. ~ (m.events[i].id[3] > j + 1)
    BY <1>1, <2>1, <2>2, <2>3
  <2>6. m.events[i].id[3] <= begun /\ \A f \in Q : m.events[i].id[3] <= f.id[3]
    BY <1>5, <2>1 DEF First
  <2> QED BY <2>4, <2>5, <2>6
<1> QED BY <1>1, <1>3, <1>4, <1>6, <1>7, <1>8 DEF RunsTold

\* The start of a run is accepted: what follows is of this run.
LEMMA StartTells ==
  ASSUME NEW l, SP!LogInv(l, Logged), NEW P, NEW Q, NEW e, NEW ended \in Nat, NEW begun \in Nat,
         RunsCounted(l, P, ended, begun), RunsTold(l, P, ended, begun), begun <= ended + 1,
         First(e, P, Q), e.type = "run.started", ~ l.runActive,
         NEW m \in SP!LogType(Logged), m.events = Append(l.events, e),
         m.runStart = Len(l.events), m.runCount = l.runCount + 1, m.runActive = TRUE,
         m.jobs = l.jobs
  PROVE  RunsTold(m, Q, ended, begun)
<1> DEFINE n == Len(l.events)
           j == Len(l.jobs)
<1>1. l \in SP!LogType(Logged) /\ j \in Nat /\ n \in Nat /\ l.runCount = j
  BY DEF SP!LogInv, SP!LogType, SP!JobsInv
<1>2. e.id[3] = j + 1
  BY FirstIsNext
<1>3. /\ DOMAIN l.events = 1 .. n /\ DOMAIN m.events = 1 .. n + 1 /\ m.events[n + 1] = e
      /\ \A i \in 1 .. n : m.events[i] = l.events[i]
  <2>1. e \in Logged
    BY DashboardAssumption DEF Logged, RunsCounted, First
  <2>2. SP!Appended(m, l, e)
    BY <1>1, <2>1, SP!AppendKeepsPlaces
  <2> QED BY <2>2 DEF SP!Appended
<1>4. /\ \A k \in 1 .. ended : k > j => \E f \in P : f.type = "run.finished" /\ f.id[3] = k
      /\ \A k \in 2 .. begun : k > j => \E f \in P : f.type = "run.started" /\ f.id[3] = k
      /\ \A i \in 1 .. n : IsTest(l, i) =>
           /\ l.events[i].id[3] <= begun
           /\ \A f \in P : l.events[i].id[3] <= f.id[3]
           /\ ~ (l.events[i].id[3] > j)
           /\ \A k \in 1 .. j : i \in l.jobs[k].events <=> l.events[i].id[3] = k
  BY <1>1, <1>3 DEF RunsTold
<1> HIDE DEF n, j
<1>5. \A k \in 1 .. ended : k > j => \E f \in Q : f.type = "run.finished" /\ f.id[3] = k
  BY <1>4 DEF First
<1>6. \A k \in 2 .. begun : k > j + 1 => \E f \in Q : f.type = "run.started" /\ f.id[3] = k
  BY <1>1, <1>2, <1>4 DEF First
<1>7. ASSUME NEW i \in 1 .. n + 1, IsTest(m, i)
      PROVE  /\ m.events[i].id[3] <= begun
             /\ \A f \in Q : m.events[i].id[3] <= f.id[3]
             /\ ~ (m.events[i].id[3] > j) /\ ~ (i > n)
             /\ \A k \in 1 .. j : i \in m.jobs[k].events <=> m.events[i].id[3] = k
  <2>1. i \in 1 .. n /\ m.events[i] = l.events[i] /\ IsTest(l, i)
    BY <1>1, <1>3, <1>7 DEF IsTest
  <2> QED BY <1>1, <1>4, <2>1 DEF First
<1> QED BY <1>1, <1>3, <1>5, <1>6, <1>7 DEF RunsTold, n, j

\* An event that is no marker is accepted, be it of those to come or of another
\* client: the runs stay as they are.
LEMMA OtherTells ==
  ASSUME NEW l, SP!LogInv(l, Logged), NEW P, NEW Q, NEW e \in Logged, NEW ended \in Nat,
         NEW begun \in Nat, RunsTold(l, P, ended, begun), Q \subseteq P,
         P \subseteq {e} \cup Q, e.type \notin {"run.started", "run.finished"},
         e.id[1] = Reporter =>
           /\ l.runActive /\ e.id[3] > Len(l.jobs) /\ e.id[3] <= begun
           /\ \A f \in Q : e.id[3] <= f.id[3],
         NEW m \in SP!LogType(Logged), m.events = Append(l.events, e),
         m.runStart = l.runStart, m.runCount = l.runCount, m.runActive = l.runActive,
         m.jobs = l.jobs
  PROVE  RunsTold(m, Q, ended, begun)
<1> DEFINE n == Len(l.events)
           j == Len(l.jobs)
<1>1. l \in SP!LogType(Logged) /\ j \in Nat /\ n \in Nat /\ l.runStart \in Nat
  BY DEF SP!LogInv, SP!LogType
<1>2. /\ DOMAIN l.events = 1 .. n /\ DOMAIN m.events = 1 .. n + 1 /\ m.events[n + 1] = e
      /\ \A i \in 1 .. n : m.events[i] = l.events[i]
  <2>1. SP!Appended(m, l, e)
    BY <1>1, SP!AppendKeepsPlaces
  <2> QED BY <2>1 DEF SP!Appended
<1>3. /\ l.runCount >= 1
      /\ \A k \in 1 .. ended : k > j => \E f \in P : f.type = "run.finished" /\ f.id[3] = k
      /\ \A k \in 2 .. begun : k > l.runCount => \E f \in P : f.type = "run.started" /\ f.id[3] = k
      /\ \A i \in 1 .. n : IsTest(l, i) =>
           /\ l.events[i].id[3] <= begun
           /\ \A f \in P : l.events[i].id[3] <= f.id[3]
           /\ l.events[i].id[3] > j <=> (l.runActive /\ i > l.runStart)
           /\ \A k \in 1 .. j : i \in l.jobs[k].events <=> l.events[i].id[3] = k
  BY <1>2 DEF RunsTold
<1>4. /\ l.runActive => l.runStart + 1 \in 1 .. n
      /\ \A k \in 1 .. j : l.jobs[k].events \subseteq 1 .. n
  BY <1>2 DEF SP!LogInv, SP!RunInv, SP!JobsInv, SP!HoldsIn
<1> HIDE DEF n, j
<1>5. /\ \A k \in 1 .. ended : k > j => \E f \in Q : f.type = "run.finished" /\ f.id[3] = k
      /\ \A k \in 2 .. begun : k > l.runCount => \E f \in Q : f.type = "run.started" /\ f.id[3] = k
  BY <1>3
<1>6. ASSUME NEW i \in 1 .. n + 1, IsTest(m, i)
      PROVE  /\ m.events[i].id[3] <= begun
             /\ \A f \in Q : m.events[i].id[3] <= f.id[3]
             /\ m.events[i].id[3] > j <=> (l.runActive /\ i > l.runStart)
             /\ \A k \in 1 .. j : i \in l.jobs[k].events <=> m.events[i].id[3] = k
  <2>1. CASE i \in 1 .. n
    <3>1. m.events[i] = l.events[i] /\ IsTest(l, i)
      BY <1>2, <1>6, <2>1 DEF IsTest
    <3> QED BY <1>3, <2>1, <3>1
  <2>2. CASE i = n + 1
    <3>1. /\ m.events[i] = e /\ l.runActive /\ e.id[3] > j /\ e.id[3] <= begun
          /\ \A f \in Q : e.id[3] <= f.id[3]
      BY <1>2, <1>6, <2>2 DEF IsTest, j
    <3>2. e.id[3] \in Nat
      BY <1>2, <1>6, <2>2, LoggedOf, EventFields, DashboardAssumption DEF IsTest
    <3>3. i > l.runStart
      BY <1>1, <1>4, <2>2, <3>1
    <3>4. \A k \in 1 .. j : i \notin l.jobs[k].events /\ e.id[3] # k
      BY <1>1, <1>4, <2>2, <3>1, <3>2
    <3>5. m.events[i].id[3] > j <=> (l.runActive /\ i > l.runStart)
      BY <3>1, <3>3
    <3>6. \A k \in 1 .. j : i \in l.jobs[k].events <=> m.events[i].id[3] = k
      BY <3>1, <3>4
    <3> QED BY <3>1, <3>5, <3>6
  <2>3. i \in 1 .. n \/ i = n + 1
    BY <1>1
  <2> QED BY <2>1, <2>2, <2>3
<1>7. m.runCount >= 1 /\ Len(m.jobs) = j /\ m.jobs = l.jobs
  BY <1>3 DEF j
<1>8. ASSUME NEW i \in DOMAIN m.events, IsTest(m, i)
      PROVE  /\ m.events[i].id[3] <= begun
             /\ \A f \in Q : m.events[i].id[3] <= f.id[3]
             /\ m.events[i].id[3] > Len(m.jobs) <=> (m.runActive /\ i > m.runStart)
             /\ \A k \in 1 .. Len(m.jobs) : i \in m.jobs[k].events <=> m.events[i].id[3] = k
  <2>1. i \in 1 .. n + 1
    BY <1>2, <1>8
  <2>2. m.events[i].id[3] <= begun /\ \A f \in Q : m.events[i].id[3] <= f.id[3]
    BY <1>6, <1>8, <2>1
  <2>3. m.events[i].id[3] > Len(m.jobs) <=> (m.runActive /\ i > m.runStart)
    <3>1. m.events[i].id[3] > j <=> (l.runActive /\ i > l.runStart)
      BY <1>6, <1>8, <2>1
    <3> QED BY <1>7, <3>1
  <2>4. \A k \in 1 .. Len(m.jobs) : i \in m.jobs[k].events <=> m.events[i].id[3] = k
    <3>1. \A k \in 1 .. j : i \in l.jobs[k].events <=> m.events[i].id[3] = k
      BY <1>6, <1>8, <2>1
    <3> QED BY <1>7, <3>1
  <2> QED BY <2>2, <2>3, <2>4
<1>9. /\ \A k \in 1 .. ended : k > Len(m.jobs) => \E f \in Q : f.type = "run.finished" /\ f.id[3] = k
      /\ \A k \in 2 .. begun : k > m.runCount => \E f \in Q : f.type = "run.started" /\ f.id[3] = k
  BY <1>5, <1>7
<1> QED BY <1>7, <1>8, <1>9 DEF RunsTold

\* What becomes of the log, if the first of P is accepted or dropped.
LEMMA AcceptTells ==
  ASSUME NEW l, SP!LogInv(l, Logged), NEW P, NEW Q, NEW e, NEW ended \in Nat, NEW begun \in Nat,
         RunsCounted(l, P, ended, begun), RunsTold(l, P, ended, begun), begun <= ended + 1,
         First(e, P, Q)
  PROVE  RunsTold(SP!Accept(l, e), Q, ended, begun)
<1> DEFINE m == SP!Accept(l, e)
<1>1. /\ e \in EventsOf(Reporter) /\ e \in Logged /\ e \in P /\ Q \subseteq P /\ P \subseteq {e} \cup Q
      /\ l \in SP!LogType(Logged) /\ P \subseteq EventsOf(Reporter)
  BY DashboardAssumption DEF Logged, RunsCounted, First, SP!LogInv
<1>2. /\ e.type = "run.finished" => l.runActive /\ e.id[3] = Len(l.jobs) + 1
      /\ e.type = "run.started" => e.id[3] = Len(l.jobs) + 1
      /\ e.type = "test" => l.runActive
  BY FirstIsNext
<1>3. CASE SP!Drops(l, e)
  <2>1. m = l /\ e.type = "run.started" /\ l.runActive
    BY <1>2, <1>3 DEF SP!Accept, SP!Drops
  <2>2. l.runCount = e.id[3] /\ e.id[3] \in Nat
    BY <1>1, <1>2, <2>1, EventFields DEF SP!LogInv, SP!JobsInv
  <2>3. \A k \in 2 .. begun : k > l.runCount => \E f \in Q : f.type = "run.started" /\ f.id[3] = k
    BY <1>1, <2>2 DEF RunsTold
  <2>4. \A k \in 1 .. ended : k > Len(l.jobs) => \E f \in Q : f.type = "run.finished" /\ f.id[3] = k
    BY <1>1, <2>1 DEF RunsTold
  <2>5. RunsTold(l, Q, ended, begun)
    BY <1>1, <2>3, <2>4 DEF RunsTold
  <2> QED BY <2>1, <2>5
<1>4. CASE ~ SP!Drops(l, e)
  <2>1. /\ m \in SP!LogType(Logged) /\ m.events = Append(l.events, e)
        /\ \/ /\ e.type = "run.started" /\ ~ l.runActive
              /\ m.runStart = Len(l.events) /\ m.runCount = l.runCount + 1
              /\ m.runActive = TRUE /\ m.jobs = l.jobs
           \/ /\ e.type = "run.finished" /\ l.runActive
              /\ m.runStart = l.runStart /\ m.runCount = l.runCount
              /\ m.runActive = FALSE
              /\ m.jobs = Append(l.jobs, [run |-> l.runCount,
                                         events |-> SP!RunEvents(m.events, l.runStart)])
           \/ /\ e.type \notin {"run.started", "run.finished"}
              /\ m.runStart = l.runStart /\ m.runCount = l.runCount
              /\ m.runActive = l.runActive /\ m.jobs = l.jobs
    BY <1>1, <1>4, SP!AcceptEffect
  <2> HIDE DEF m
  <2>2. CASE e.type = "run.started"
    BY <2>1, <2>2, StartTells DEF m
  <2>3. CASE e.type = "run.finished"
    BY <2>1, <2>3, EndTells DEF m
  <2>4. CASE e.type \notin {"run.started", "run.finished"}
    <3>1. e.type = "test"
      BY <1>1, <2>4, EventFields
    <3>2. l.runActive /\ e.id[3] > Len(l.jobs) /\ e.id[3] <= begun
      <4>1. Len(l.jobs) < e.id[3] /\ e.id[3] <= begun
        BY <1>1 DEF RunsCounted
      <4>2. Len(l.jobs) \in Nat /\ e.id[3] \in Nat
        BY <1>1, EventFields DEF SP!LogType
      <4> QED BY <1>2, <3>1, <4>1, <4>2
    <3>3. \A f \in Q : e.id[3] <= f.id[3]
      BY <1>1 DEF RunsCounted, Sorted, First
    <3> QED BY <1>1, <2>1, <2>4, <3>2, <3>3, OtherTells DEF m
  <2> QED BY <2>2, <2>3, <2>4
<1> QED BY <1>3, <1>4

\* An event of another client, or of the session itself, that is no marker.
LEMMA ForeignTells ==
  ASSUME NEW l, SP!LogInv(l, Logged), NEW P, NEW e \in Logged, NEW ended \in Nat, NEW begun \in Nat,
         RunsCounted(l, P, ended, begun), e.id[1] # Reporter,
         e.type \notin {"run.started", "run.finished"}
  PROVE  /\ RunsCounted(SP!Accept(l, e), P, ended, begun)
         /\ RunsTold(l, P, ended, begun) => RunsTold(SP!Accept(l, e), P, ended, begun)
<1> DEFINE m == SP!Accept(l, e)
<1>1. l \in SP!LogType(Logged) /\ ~ SP!Drops(l, e)
  BY DEF SP!LogInv, SP!Drops
<1>2. /\ m \in SP!LogType(Logged) /\ m.events = Append(l.events, e)
      /\ m.runStart = l.runStart /\ m.runCount = l.runCount
      /\ m.runActive = l.runActive /\ m.jobs = l.jobs
  BY <1>1, SP!AcceptEffect
<1> HIDE DEF m
<1>3. RunsCounted(m, P, ended, begun)
  BY <1>2 DEF RunsCounted
<1>4. ASSUME RunsTold(l, P, ended, begun) PROVE RunsTold(m, P, ended, begun)
  BY <1>2, <1>4, OtherTells
<1> QED BY <1>3, <1>4 DEF m

-----------------------------------------------------------------------------
(* What a batch does to the runs of the log                                *)

\* The reporter's batch is taken, Q being what it has not sent yet.
LEMMA ReporterBatch ==
  ASSUME NEW l, SP!LogInv(l, Logged), NEW batch \in Seq(EventsOf(Reporter)), Increasing(batch),
         NEW Q, NEW ended \in Nat, NEW begun \in Nat,
         \A e \in ToSet(batch) : \A f \in Q : e.id[2] < f.id[2],
         RunsCounted(l, ToSet(batch) \cup Q, ended, begun)
  PROVE  /\ RunsCounted(SP!AcceptBatch(l, batch), Q, ended, begun)
         /\ RunsTold(l, ToSet(batch) \cup Q, ended, begun) /\ begun <= ended + 1
              => RunsTold(SP!AcceptBatch(l, batch), Q, ended, begun)
<1> DEFINE N == Len(batch)
           rest(n) == {batch[k] : k \in n + 1 .. N} \cup Q
           told == RunsTold(l, ToSet(batch) \cup Q, ended, begun) /\ begun <= ended + 1
<1>1. /\ N \in Nat /\ DOMAIN batch = 1 .. N
      /\ \A n \in 1 .. N : batch[n] \in EventsOf(Reporter) /\ batch[n] \in Logged
  BY LenProperties, ElementOfSeq, DashboardAssumption DEF Logged
<1>2. PICK after :
        /\ after[0] = l /\ after[N] = SP!AcceptBatch(l, batch)
        /\ \A n \in 1 .. N :
             after[n] = IF SP!Parses(batch[n]) THEN SP!Accept(after[n - 1], batch[n])
                        ELSE after[n - 1]
  BY <1>1, SP!BatchSteps
<1>3. \A n \in 1 .. N : SP!Parses(batch[n])
  BY <1>1, EventFields DEF SP!Parses
<1>4. \A n \in 0 .. N : SP!LogInv(after[n], Logged)
  BY <1>1, <1>2, SP!LoopKeeps
<1>5. rest(0) = ToSet(batch) \cup Q /\ rest(N) = Q
  BY <1>1 DEF ToSet
<1>6. ASSUME NEW n \in Nat, n + 1 <= N PROVE First(batch[n + 1], rest(n), rest(n + 1))
  <2>1. n + 1 \in n + 1 .. N /\ n + 1 \in 1 .. N
    BY <1>1, <1>6
  <2>2. \A k \in n + 1 .. N : k = n + 1 \/ k \in n + 1 + 1 .. N
    BY <1>1
  <2>3. \A k \in n + 1 + 1 .. N : k \in n + 1 .. N /\ k \in 1 .. N /\ n + 1 < k
    BY <1>1
  <2>4. \A k \in n + 1 + 1 .. N : batch[n + 1].id[2] < batch[k].id[2]
    BY <1>1, <2>1, <2>3 DEF Increasing
  <2>5. \A f \in Q : batch[n + 1].id[2] < f.id[2]
    BY <1>1, <2>1 DEF ToSet
  <2> QED BY <2>1, <2>2, <2>3, <2>4, <2>5 DEF First
<1> HIDE DEF N, rest, told
<1> DEFINE good == {n \in Nat : n <= N =>
                      /\ RunsCounted(after[n], rest(n), ended, begun)
                      /\ told => RunsTold(after[n], rest(n), ended, begun)}
<1>7. 0 \in good
  BY <1>2, <1>5 DEF told
<1>8. ASSUME NEW n \in Nat, n \in good PROVE n + 1 \in good
  <2> SUFFICES ASSUME n + 1 <= N
               PROVE  /\ RunsCounted(after[n + 1], rest(n + 1), ended, begun)
                      /\ told => RunsTold(after[n + 1], rest(n + 1), ended, begun)
    OBVIOUS
  <2>1. n \in 0 .. N /\ n + 1 \in 1 .. N /\ n <= N
    BY <1>1
  <2>2. after[n + 1] = SP!Accept(after[n], batch[n + 1])
    BY <1>2, <1>3, <2>1
  <2>3. SP!LogInv(after[n], Logged) /\ First(batch[n + 1], rest(n), rest(n + 1))
    BY <1>4, <1>6, <2>1
  <2>4. RunsCounted(after[n], rest(n), ended, begun)
    BY <1>8, <2>1
  <2>5. RunsCounted(after[n + 1], rest(n + 1), ended, begun)
    BY <2>2, <2>3, <2>4, AcceptCounts
  <2>6. ASSUME told PROVE RunsTold(after[n + 1], rest(n + 1), ended, begun)
    <3>1. RunsTold(after[n], rest(n), ended, begun)
      BY <1>8, <2>1, <2>6
    <3>2. begun <= ended + 1
      BY <2>6 DEF told
    <3> QED BY <2>2, <2>3, <2>4, <3>1, <3>2, AcceptTells
  <2> QED BY <2>5, <2>6
<1>9. N \in good
  <2> HIDE DEF good
  <2> QED BY <1>1, <1>7, <1>8, SP!InductionOnNat
<1> QED BY <1>1, <1>2, <1>5, <1>9 DEF told

\* A worker's batch says nothing of the runs.
LEMMA WorkerBatch ==
  ASSUME NEW l, SP!LogInv(l, Logged), NEW c \in Clients, c # Reporter,
         NEW batch \in Seq(EventsOf(c)), NEW P, NEW ended \in Nat, NEW begun \in Nat,
         RunsCounted(l, P, ended, begun)
  PROVE  /\ RunsCounted(SP!AcceptBatch(l, batch), P, ended, begun)
         /\ RunsTold(l, P, ended, begun) => RunsTold(SP!AcceptBatch(l, batch), P, ended, begun)
<1> DEFINE N == Len(batch)
<1>1. /\ N \in Nat
      /\ \A n \in 1 .. N : batch[n] \in EventsOf(c) /\ batch[n] \in Logged
  BY LenProperties, ElementOfSeq DEF Logged
<1>2. PICK after :
        /\ after[0] = l /\ after[N] = SP!AcceptBatch(l, batch)
        /\ \A n \in 1 .. N :
             after[n] = IF SP!Parses(batch[n]) THEN SP!Accept(after[n - 1], batch[n])
                        ELSE after[n - 1]
  BY <1>1, SP!BatchSteps
<1>3. \A n \in 1 .. N : SP!Parses(batch[n]) /\ batch[n].type = "test" /\ batch[n].id[1] # Reporter
  BY <1>1, EventFields DEF SP!Parses
<1>4. \A n \in 0 .. N : SP!LogInv(after[n], Logged)
  BY <1>1, <1>2, SP!LoopKeeps
<1> HIDE DEF N
<1> DEFINE good == {n \in Nat : n <= N =>
                      /\ RunsCounted(after[n], P, ended, begun)
                      /\ RunsTold(l, P, ended, begun) => RunsTold(after[n], P, ended, begun)}
<1>5. 0 \in good
  BY <1>2
<1>6. ASSUME NEW n \in Nat, n \in good PROVE n + 1 \in good
  <2> SUFFICES ASSUME n + 1 <= N
               PROVE  /\ RunsCounted(after[n + 1], P, ended, begun)
                      /\ RunsTold(l, P, ended, begun) => RunsTold(after[n + 1], P, ended, begun)
    OBVIOUS
  <2>1. n \in 0 .. N /\ n + 1 \in 1 .. N /\ n <= N
    BY <1>1
  <2>2. after[n + 1] = SP!Accept(after[n], batch[n + 1])
    BY <1>2, <1>3, <2>1
  <2>3. SP!LogInv(after[n], Logged) /\ RunsCounted(after[n], P, ended, begun)
    BY <1>4, <1>6, <2>1
  <2>4. batch[n + 1] \in Logged /\ batch[n + 1].type = "test" /\ batch[n + 1].id[1] # Reporter
    BY <1>1, <1>3, <2>1
  <2>5. batch[n + 1].type \notin {"run.started", "run.finished"}
    BY <2>4
  <2>6. /\ RunsCounted(after[n + 1], P, ended, begun)
        /\ RunsTold(after[n], P, ended, begun) => RunsTold(after[n + 1], P, ended, begun)
    BY <2>2, <2>3, <2>4, <2>5, ForeignTells
  <2> QED BY <1>6, <2>1, <2>6
<1>7. N \in good
  <2> HIDE DEF good
  <2> QED BY <1>1, <1>5, <1>6, SP!InductionOnNat
<1> QED BY <1>1, <1>2, <1>7

-----------------------------------------------------------------------------
(* What the clients do to queues and requests                              *)

LEMMA ToSetOfAppend ==
  ASSUME NEW S, NEW q \in Seq(S), NEW e \in S
  PROVE  ToSet(Append(q, e)) = ToSet(q) \cup {e}
<1>1. /\ Len(q) \in Nat /\ DOMAIN q = 1 .. Len(q) /\ DOMAIN Append(q, e) = 1 .. Len(q) + 1
      /\ \A i \in 1 .. Len(q) : Append(q, e)[i] = q[i]
      /\ Append(q, e)[Len(q) + 1] = e
  <2>1. Append(q, e) \in Seq(S)
    OBVIOUS
  <2> QED BY <2>1, AppendProperties, LenProperties
<1>2. \A i \in 1 .. Len(q) + 1 : i \in 1 .. Len(q) \/ i = Len(q) + 1
  BY <1>1
<1>3. 1 .. Len(q) \subseteq 1 .. Len(q) + 1 /\ Len(q) + 1 \in 1 .. Len(q) + 1
  BY <1>1
<1> QED BY <1>1, <1>2, <1>3 DEF ToSet

LEMMA ToSetOfEmpty == ToSet(<<>>) = {}
BY DEF ToSet

LEMMA OrderAppends ==
  ASSUME NEW c, NEW q, NEW R, NEW n, ClientOrder(c, q, R, n),
         NEW e \in EventsOf(c), e.id[2] = n + 1
  PROVE  ClientOrder(c, Append(q, e), R, n + 1)
<1> DEFINE p == Append(q, e)
<1>1. n \in Nat /\ q \in Seq(EventsOf(c)) /\ p \in Seq(EventsOf(c))
  BY DEF ClientOrder
<1>2. ToSet(p) = ToSet(q) \cup {e}
  BY <1>1, ToSetOfAppend
<1>3. /\ \A f \in ToSet(q) : f.id[2] <= n /\ f.id[2] \in Nat
      /\ \A r \in R : \A f \in ToSet(r.events) : f.id[2] <= n /\ f.id[2] \in Nat
  <2>1. \A s \in Seq(EventsOf(c)) : \A f \in ToSet(s) : f.id[2] \in Nat
    BY ElementOfSeq, LenProperties, EventFields DEF ToSet
  <2>2. \A r \in R : r.events \in Seq(EventsOf(c))
    BY DEF ClientOrder, RequestsOf
  <2> QED BY <1>1, <2>1, <2>2 DEF ClientOrder
<1>4. Increasing(p)
  <2>1. /\ Len(q) \in Nat /\ DOMAIN q = 1 .. Len(q) /\ DOMAIN p = 1 .. Len(q) + 1
        /\ \A i \in 1 .. Len(q) : p[i] = q[i]
        /\ p[Len(q) + 1] = e
    BY <1>1, AppendProperties, LenProperties
  <2>2. ASSUME NEW i \in 1 .. Len(q) + 1, NEW j \in 1 .. Len(q) + 1, i < j
        PROVE  p[i].id[2] < p[j].id[2]
    <3>1. i \in 1 .. Len(q) /\ p[i] = q[i]
      BY <2>1, <2>2
    <3>2. CASE j = Len(q) + 1
      <4>1. q[i] \in ToSet(q)
        BY <2>1, <3>1 DEF ToSet
      <4> QED BY <1>1, <1>3, <2>1, <3>1, <3>2, <4>1
    <3>3. CASE j \in 1 .. Len(q)
      BY <2>1, <2>2, <3>1, <3>3 DEF ClientOrder, Increasing
    <3> QED BY <2>1, <3>2, <3>3
  <2> QED BY <2>1, <2>2 DEF Increasing
<1>5. \A f \in ToSet(p) : f.id[2] <= n + 1
  BY <1>1, <1>2, <1>3
<1>6. ASSUME NEW r \in R
      PROVE  /\ r \in RequestsOf(c) /\ Increasing(r.events)
             /\ \A f \in ToSet(r.events) :
                  f.id[2] <= n + 1 /\ \A g \in ToSet(p) : f.id[2] < g.id[2]
  <2>1. /\ r \in RequestsOf(c) /\ Increasing(r.events)
        /\ \A f \in ToSet(r.events) : \A g \in ToSet(q) : f.id[2] < g.id[2]
    BY DEF ClientOrder
  <2>2. \A f \in ToSet(r.events) : f.id[2] <= n + 1 /\ f.id[2] < e.id[2]
    BY <1>1, <1>3
  <2> QED BY <1>2, <2>1, <2>2
<1> QED BY <1>1, <1>4, <1>5, <1>6 DEF ClientOrder

LEMMA OrderSends ==
  ASSUME NEW c, NEW q, NEW R, NEW n, ClientOrder(c, q, R, n)
  PROVE  ClientOrder(c, <<>>, {Request(q)}, n)
<1>1. <<>> \in Seq(EventsOf(c)) /\ Increasing(<<>>) /\ ToSet(<<>>) = {}
  BY ToSetOfEmpty DEF Increasing
<1>2. Request(q) \in RequestsOf(c) /\ Request(q).events = q
  BY DEF Request, RequestsOf, ClientOrder
<1> QED BY <1>1, <1>2 DEF ClientOrder

LEMMA OrderDrops ==
  ASSUME NEW c, NEW q, NEW R, NEW n, ClientOrder(c, q, R, n)
  PROVE  ClientOrder(c, q, {}, n)
BY DEF ClientOrder

LEMMA OrderHandles ==
  ASSUME NEW c, NEW q, NEW R, NEW n, ClientOrder(c, q, R, n), NEW r \in R
  PROVE  ClientOrder(c, q, {[r EXCEPT !.handled = TRUE]}, n)
<1> DEFINE h == [r EXCEPT !.handled = TRUE]
<1>1. r \in RequestsOf(c)
  BY DEF ClientOrder
<1>2. h \in RequestsOf(c) /\ h.events = r.events
  BY <1>1 DEF RequestsOf
<1> HIDE DEF h
<1>3. ClientOrder(c, q, {h}, n)
  BY <1>2 DEF ClientOrder
<1> QED BY <1>3 DEF h

\* A client whose queue has become q keeps it, or sends it if it has no request
\* on its way.
Moves(c, q) ==
  /\ \A d \in Clients \ {c} : queue'[d] = queue[d] /\ requests'[d] = requests[d]
  /\ \/ queue'[c] = q /\ requests'[c] = requests[c]
     \/ queue'[c] = <<>> /\ requests'[c] = {Request(q)} /\ requests[c] = {}

LEMMA StartFlushMoves ==
  ASSUME NEW c \in Clients, NEW q, ClientInv, StartFlush(c, q)
  PROVE  Moves(c, q)
<1> USE DEF ClientInv, DomainInv
<1>1. CASE ~flushing[c] /\ q # <<>>
  <2>1. requests[c] = {}
    BY <1>1 DEF OneRequest
  <2> QED BY <1>1, <2>1 DEF StartFlush, Send, Moves
<1>2. CASE ~(~flushing[c] /\ q # <<>>)
  BY <1>2 DEF StartFlush, Moves
<1> QED BY <1>1, <1>2

LEMMA EmitMoves ==
  ASSUME NEW c \in Clients, NEW e, ClientInv, Emit(c, e) \/ EmitAndFlush(c, e)
  PROVE  Moves(c, Append(queue[c], e)) /\ emitted' = [emitted EXCEPT ![c] = @ + 1]
<1> DEFINE q == Append(queue[c], e)
<1>1. emitted' = [emitted EXCEPT ![c] = @ + 1]
  BY DEF Emit, EmitAndFlush
<1>2. CASE StartFlush(c, q)
  BY <1>1, <1>2, StartFlushMoves
<1>3. CASE queue' = [queue EXCEPT ![c] = q] /\ UNCHANGED requests
  BY <1>1, <1>3 DEF Moves, ClientInv, DomainInv
<1> QED BY <1>2, <1>3 DEF Emit, EmitAndFlush

LEMMA AnsweredMoves ==
  ASSUME NEW c \in Clients, NEW r, ClientInv, Answered(c, r)
  PROVE  /\ \A d \in Clients \ {c} : queue'[d] = queue[d] /\ requests'[d] = requests[d]
         /\ requests[c] = {r} /\ queue'[c] = <<>>
         /\ requests'[c] = IF queue[c] = <<>> THEN {} ELSE {Request(queue[c])}
<1> USE DEF ClientInv, DomainInv
<1>1. requests[c] = {r}
  BY DEF Answered, OneRequest
<1>2. CASE queue[c] # <<>>
  BY <1>1, <1>2 DEF Answered, Send
<1>3. CASE queue[c] = <<>>
  BY <1>1, <1>3 DEF Answered
<1> QED BY <1>1, <1>2, <1>3

LEMMA LogFields ==
  ASSUME NEW l, SP!LogInv(l, Logged), NEW i \in DOMAIN l.events, l.events[i].id[1] \in Clients
  PROVE  /\ l.events[i] \in EventsOf(l.events[i].id[1])
         /\ l.events[i].id[2] \in Nat /\ l.events[i].id[3] \in Nat
<1>1. l.events[i] \in Logged
  BY ElementOfSeq, LenProperties DEF SP!LogInv, SP!LogType
<1> QED BY <1>1, LoggedOf, EventFields

-----------------------------------------------------------------------------
(* What they do to the order of events                                     *)

LEMMA UnheardOfSent ==
  ASSUME NEW q
  PROVE  Unheard(<<>>, {Request(q)}) = ToSet(q) /\ Unheard(q, {}) = ToSet(q)
<1>1. Request(q).events = q /\ ~ Request(q).handled
  BY DEF Request
<1>2. {r \in {Request(q)} : ~ r.handled} = {Request(q)}
  BY <1>1
<1> QED BY <1>1, <1>2, ToSetOfEmpty DEF Unheard

LEMMA MovesKeep ==
  ASSUME NEW c \in Clients, NEW q, Moves(c, q)
  PROVE  /\ Pending(c)' = Unheard(q, requests[c])
         /\ \A d \in Clients \ {c} : Pending(d)' = Pending(d)
         /\ \A d \in Clients : \A r \in requests'[d] : r.handled => r \in requests[d]
<1>1. \A d \in Clients \ {c} : Pending(d)' = Pending(d)
  BY DEF Moves, Pending
<1>2. Pending(c)' = Unheard(q, requests[c])
  BY UnheardOfSent DEF Moves, Pending
<1>3. \A d \in Clients : \A r \in requests'[d] : r.handled => r \in requests[d]
  BY DEF Moves, Request
<1> QED BY <1>1, <1>2, <1>3

LEMMA MovesInOrder ==
  ASSUME NEW c \in Clients, NEW q, Moves(c, q), DOMAIN emitted' = Clients,
         \A d \in Clients \ {c} :
           emitted'[d] = emitted[d] /\ ClientOrder(d, queue[d], requests[d], emitted[d]),
         ClientOrder(c, q, requests[c], emitted'[c])
  PROVE  OrderInv'
<1>1. ClientOrder(c, queue'[c], requests'[c], emitted'[c])
  BY OrderSends DEF Moves
<1>2. ASSUME NEW d \in Clients \ {c}
      PROVE  ClientOrder(d, queue'[d], requests'[d], emitted'[d])
  <2>1. queue'[d] = queue[d] /\ requests'[d] = requests[d] /\ emitted'[d] = emitted[d]
    BY DEF Moves
  <2> QED BY <2>1
<1> QED BY <1>1, <1>2 DEF OrderInv

\* A client emits an event: it is younger than all.
LEMMA EmissionKeeps ==
  ASSUME NEW c \in Clients, NEW e \in EventsOf(c), e.id[2] = emitted[c] + 1,
         SP!LogInv(log, Logged), OrderInv, LogOrderInv, HeardInv, log' = log,
         Moves(c, Append(queue[c], e)), emitted' = [emitted EXCEPT ![c] = @ + 1]
  PROVE  /\ OrderInv' /\ LogOrderInv' /\ HeardInv'
         /\ Pending(c)' = Pending(c) \cup {e}
         /\ \A f \in Pending(c) : f.id[2] < e.id[2]
         /\ \A d \in Clients \ {c} : Pending(d)' = Pending(d)
<1>1. /\ ClientOrder(c, queue[c], requests[c], emitted[c]) /\ DOMAIN emitted = Clients
      /\ emitted[c] \in Nat /\ queue[c] \in Seq(EventsOf(c))
  BY DEF OrderInv, ClientOrder
<1>2. /\ Pending(c)' = Unheard(Append(queue[c], e), requests[c])
      /\ \A d \in Clients \ {c} : Pending(d)' = Pending(d)
      /\ \A d \in Clients : \A r \in requests'[d] : r.handled => r \in requests[d]
  BY MovesKeep
<1>3. Pending(c)' = Pending(c) \cup {e}
  BY <1>1, <1>2, ToSetOfAppend DEF Unheard, Pending
<1>4. OrderInv'
  <2>1. ClientOrder(c, Append(queue[c], e), requests[c], emitted'[c])
    BY <1>1, OrderAppends
  <2>2. \A d \in Clients \ {c} :
          emitted'[d] = emitted[d] /\ ClientOrder(d, queue[d], requests[d], emitted[d])
    BY <1>1 DEF OrderInv
  <2> QED BY <1>1, <2>1, <2>2, MovesInOrder
<1>5. \A f \in Pending(c) : f.id[2] < e.id[2]
  <2>1. \A f \in Pending(c) : f.id[2] <= emitted[c]
    BY <1>1 DEF Pending, Unheard, ClientOrder
  <2>2. \A f \in Pending(c) : f \in EventsOf(c)
    <3>1. \A s \in Seq(EventsOf(c)) : \A f \in ToSet(s) : f \in EventsOf(c)
      BY ElementOfSeq, LenProperties DEF ToSet
    <3>2. \A r \in requests[c] : r.events \in Seq(EventsOf(c))
      BY <1>1 DEF ClientOrder, RequestsOf
    <3> QED BY <1>1, <3>1, <3>2 DEF Pending, Unheard
  <2> QED BY <1>1, <2>1, <2>2, EventFields
<1>6. LogOrderInv'
  <2>1. InOrder'
    BY DEF LogOrderInv, InOrder
  <2>2. ASSUME NEW d \in Clients, NEW i \in DOMAIN log.events, log.events[i].id[1] = d
        PROVE  /\ log.events[i].id[2] <= emitted'[d]
               /\ \A f \in Pending(d)' : log.events[i].id[2] < f.id[2]
    <3>1. /\ log.events[i].id[2] <= emitted[d]
          /\ \A f \in Pending(d) : log.events[i].id[2] < f.id[2]
      BY <2>2 DEF LogOrderInv
    <3>2. CASE d # c
      BY <1>1, <1>2, <3>1, <3>2
    <3>3. CASE d = c
      <4>1. log.events[i].id[2] \in Nat
        BY <2>2, <3>3, LogFields
      <4> QED BY <1>1, <1>3, <3>1, <3>3, <4>1
    <3> QED BY <3>2, <3>3
  <2> QED BY <2>1, <2>2 DEF LogOrderInv
<1>7. HeardInv'
  BY <1>2 DEF HeardInv
<1> QED BY <1>2, <1>3, <1>4, <1>5, <1>6, <1>7

\* The reporter emits an event of the run that is going on, or its start or end.
LEMMA EmissionCounts ==
  ASSUME NEW l, SP!LogInv(l, Logged), NEW P, NEW e \in EventsOf(Reporter),
         NEW en \in Nat, NEW bg \in Nat, NEW en2 \in Nat, NEW bg2 \in Nat,
         \A f \in P : f.id[2] < e.id[2], e.id[3] = bg2,
         en < bg2, en2 = en \/ (en2 = bg2 /\ bg2 = en + 1 /\ e.type = "run.finished"),
         bg2 = bg \/ (bg2 = bg + 1 /\ e.type = "run.started"),
         e.type = "run.started" => bg < bg2, e.type = "run.finished" => bg2 <= en2,
         RunsCounted(l, P, en, bg)
  PROVE  /\ RunsCounted(l, P \cup {e}, en2, bg2)
         /\ RunsTold(l, P, en, bg) => RunsTold(l, P \cup {e}, en2, bg2)
<1>1. /\ P \subseteq EventsOf(Reporter) /\ Sorted(P)
      /\ Len(l.jobs) <= en /\ Len(l.jobs) \in Nat
      /\ l.runCount = 1 \/ l.runCount <= bg
      /\ l.runCount \in Nat
      /\ \A f \in P :
           /\ Len(l.jobs) < f.id[3] /\ f.id[3] <= bg
           /\ f.type = "run.finished" => f.id[3] <= en
  BY DEF RunsCounted, SP!LogInv, SP!LogType
<1>2. \A f \in P \cup {e} : f.id[2] \in Nat /\ f.id[3] \in Nat
  BY <1>1, EventFields
<1>3. Sorted(P \cup {e})
  <2>1. ASSUME NEW f \in P
        PROVE  /\ ~ (e.id[2] < f.id[2])
               /\ f.id[3] <= e.id[3]
               /\ f.type = "run.finished" \/ e.type = "run.started" => f.id[3] < e.id[3]
    BY <1>1, <1>2
  <2>2. ~ (e.id[2] < e.id[2])
    BY <1>2
  <2> QED BY <1>1, <2>1, <2>2 DEF Sorted
<1>4. /\ Len(l.jobs) <= en2
      /\ l.runCount = 1 \/ l.runCount <= bg2
      /\ Len(l.jobs) < e.id[3] /\ e.id[3] <= bg2
      /\ e.type = "run.finished" => e.id[3] <= en2
  BY <1>1
<1>5. \A f \in P :
           /\ Len(l.jobs) < f.id[3] /\ f.id[3] <= bg2
           /\ f.type = "run.finished" => f.id[3] <= en2
  BY <1>1, <1>2
<1>6. RunsCounted(l, P \cup {e}, en2, bg2)
  BY <1>1, <1>3, <1>4, <1>5 DEF RunsCounted
<1>7. ASSUME RunsTold(l, P, en, bg) PROVE RunsTold(l, P \cup {e}, en2, bg2)
  <2>1. \A k \in 1 .. en2 : k > Len(l.jobs) =>
          \E f \in P \cup {e} : f.type = "run.finished" /\ f.id[3] = k
    <3>1. \A k \in 1 .. en2 : k \in 1 .. en \/ (k = bg2 /\ e.type = "run.finished")
      OBVIOUS
    <3> QED BY <1>7, <3>1 DEF RunsTold
  <2>2. \A k \in 2 .. bg2 : k > l.runCount =>
          \E f \in P \cup {e} : f.type = "run.started" /\ f.id[3] = k
    <3>1. \A k \in 2 .. bg2 : k \in 2 .. bg \/ (k = bg2 /\ e.type = "run.started")
      OBVIOUS
    <3> QED BY <1>7, <3>1 DEF RunsTold
  <2>3. ASSUME NEW i \in DOMAIN l.events, IsTest(l, i)
        PROVE  /\ l.events[i].id[3] <= bg2
               /\ \A f \in P \cup {e} : l.events[i].id[3] <= f.id[3]
    <3>1. l.events[i].id[3] <= bg /\ \A f \in P : l.events[i].id[3] <= f.id[3]
      BY <1>7, <2>3 DEF RunsTold
    <3>2. l.events[i].id[3] \in Nat
      BY <2>3, LogFields, DashboardAssumption DEF IsTest
    <3> QED BY <3>1, <3>2
  <2> QED BY <1>7, <2>1, <2>2, <2>3 DEF RunsTold
<1> QED BY <1>6, <1>7

\* A run that begins unseen, or that others are told of.
LEMMA FewerCount ==
  ASSUME NEW l, NEW P, NEW Q \in SUBSET P, NEW en, NEW bg, RunsCounted(l, P, en, bg)
  PROVE  RunsCounted(l, Q, en, bg)
BY DEF RunsCounted, Sorted

LEMMA UnseenCounts ==
  ASSUME NEW l, SP!LogInv(l, Logged), NEW P, RunsCounted(l, P, 0, 0)
  PROVE  /\ RunsCounted(l, P, 0, 1)
         /\ RunsTold(l, P, 0, 0) => RunsTold(l, P, 0, 1)
<1>1. l.runCount \in Nat
  BY DEF SP!LogInv, SP!LogType
<1>2. \A e \in P : e.id[3] \in Nat
  BY EventFields DEF RunsCounted
<1>3. RunsCounted(l, P, 0, 1)
  BY <1>1, <1>2 DEF RunsCounted
<1>4. ASSUME RunsTold(l, P, 0, 0) PROVE RunsTold(l, P, 0, 1)
  <2>1. \A i \in DOMAIN l.events : IsTest(l, i) => l.events[i].id[3] \in Nat
    BY LogFields, DashboardAssumption DEF IsTest
  <2>2. \A i \in DOMAIN l.events : IsTest(l, i) => l.events[i].id[3] <= 1
    BY <1>4, <2>1 DEF RunsTold
  <2>3. 2 .. 1 = {}
    OBVIOUS
  <2> QED BY <1>4, <2>2, <2>3 DEF RunsTold
<1> QED BY <1>3, <1>4

-----------------------------------------------------------------------------
(* The invariant                                                           *)

EventsInv ==
  /\ SP!SessionInv(Logged)
  /\ OrderInv /\ LogOrderInv /\ HeardInv
  /\ RunnerInv /\ RunsInv

\* The session of this module is that of the theorems about sessions.
LEMMA SameBatch ==
  ASSUME NEW l, NEW batch
  PROVE  Session!AcceptBatch(l, batch) = SP!AcceptBatch(l, batch)
BY DEF Session!AcceptBatch, SP!AcceptBatch, Session!Accept, SP!Accept, Session!Drops, SP!Drops,
       Session!RunEvents, SP!RunEvents, Session!Parses, SP!Parses

LEMMA SamePost ==
  ASSUME NEW batch
  PROVE  Session!Post(batch) <=> SP!Post(batch)
BY SameBatch DEF Session!Post, SP!Post, Session!Log, SP!Log

LEMMA SameAccept ==
  ASSUME NEW l, NEW e
  PROVE  Session!Accept(l, e) = SP!Accept(l, e)
BY DEF Session!Accept, SP!Accept, Session!Drops, SP!Drops, Session!RunEvents, SP!RunEvents

LEMMA SameFinalize == Session!Finalize <=> SP!Finalize
BY SameAccept DEF Session!Finalize, SP!Finalize, Session!Log, SP!Log, Session!Event, SP!Event

LEMMA SameSteps ==
  /\ Session!ReportStep => SP!ReportStep
  /\ Session!FinalizeStep => SP!FinalizeStep
<1>1. Session!ReportStep => SP!ReportStep
  BY DEF Session!ReportStep, SP!ReportStep, Session!WriteRunReport, SP!WriteRunReport,
         Session!RunReportFails, SP!RunReportFails
<1>2. Session!FinalizeStep => SP!FinalizeStep
  BY DEF Session!FinalizeStep, SP!FinalizeStep, Session!AwaitChain, SP!AwaitChain,
         Session!ChainSettled, SP!ChainSettled, Session!WriteIndex, SP!WriteIndex,
         Session!EndReaders, SP!EndReaders, Session!ServerCloses, SP!ServerCloses
<1> QED BY <1>1, <1>2

LEMMA SameInit == Session!Init => SP!Init
BY DEF Session!Init, SP!Init, Session!StartedLog, SP!StartedLog, Session!Accept, SP!Accept,
       Session!Drops, SP!Drops, Session!RunEvents, SP!RunEvents, Session!Event, SP!Event

LEMMA SessionRests ==
  ASSUME SP!SessionInv(Logged), UNCHANGED sessionVars
  PROVE  SP!SessionInv(Logged)'
BY SP!StutterKeeps DEF sessionVars, SP!sessionVars

LEMMA ClientsRest ==
  ASSUME OrderInv, LogOrderInv, HeardInv, UNCHANGED clientVars, log' = log
  PROVE  OrderInv' /\ LogOrderInv' /\ HeardInv' /\ \A c \in Clients : Pending(c)' = Pending(c)
BY DEF OrderInv, LogOrderInv, HeardInv, InOrder, Pending, clientVars

LEMMA RunsNumbers ==
  ASSUME RunnerInv
  PROVE  Ended \in Nat /\ Begun \in Nat /\ Begun <= Ended + 1
BY DEF RunnerInv, Ended, Begun

LEMMA EmittedIs ==
  ASSUME NEW c \in Clients, OrderInv, RunnerInv,
         NEW type \in IF c = Reporter THEN {"run.started", "run.finished", "test"} ELSE {"test"}
  PROVE  /\ Emitted(c, type) \in EventsOf(c) /\ Emitted(c, type).type = type
         /\ Emitted(c, type).id[2] = emitted[c] + 1 /\ Emitted(c, type).id[3] = run
<1>1. emitted[c] + 1 \in Nat /\ run \in Nat
  BY DEF OrderInv, ClientOrder, RunnerInv
<1>2. Emitted(c, type) = [type |-> type, id |-> <<c, emitted[c] + 1, run>>]
  BY DEF Emitted, Session!Event
<1> QED BY <1>1, <1>2 DEF EventsOf

-----------------------------------------------------------------------------
(* Each step preserves it                                                  *)

\* A worker emits an event.
LEMMA WorkerEmits ==
  ASSUME ClientInv, EventsInv, NEW w \in Workers,
         Emit(w, Emitted(w, "test")) \/ EmitAndFlush(w, Emitted(w, "test")),
         UNCHANGED <<sessionVars, runner, run, lost>>
  PROVE  EventsInv'
<1>1. w \in Clients /\ w # Reporter
  BY DEF Workers
<1> DEFINE e == Emitted(w, "test")
<1>2. e \in EventsOf(w) /\ e.id[2] = emitted[w] + 1
  BY <1>1, EmittedIs DEF EventsInv
<1>3. Moves(w, Append(queue[w], e)) /\ emitted' = [emitted EXCEPT ![w] = @ + 1]
  BY <1>1, EmitMoves
<1>4. log' = log /\ SP!SessionInv(Logged)'
  BY SessionRests DEF EventsInv, sessionVars
<1> HIDE DEF e
<1>5. OrderInv' /\ LogOrderInv' /\ HeardInv' /\ Pending(Reporter)' = Pending(Reporter)
  <2>1. SP!LogInv(log, Logged)
    BY DEF EventsInv, SP!SessionInv
  <2> QED BY <1>1, <1>2, <1>3, <1>4, <2>1, EmissionKeeps, DashboardAssumption DEF EventsInv
<1>6. RunnerInv' /\ Ended' = Ended /\ Begun' = Begun
  BY DEF EventsInv, RunnerInv, Ended, Begun
<1>7. RunsInv'
  BY <1>4, <1>5, <1>6 DEF EventsInv, RunsInv
<1> QED BY <1>4, <1>5, <1>6, <1>7 DEF EventsInv

\* The reporter emits an event of its run.
LEMMA ReporterEmits ==
  ASSUME ClientInv, EventsInv, NEW type \in {"run.started", "run.finished", "test"},
         \/ Emit(Reporter, Emitted(Reporter, type))
         \/ EmitAndFlush(Reporter, Emitted(Reporter, type)),
         UNCHANGED <<sessionVars, run, lost>>,
         \/ type = "run.started" /\ runner = "starting" /\ runner' = "files"
         \/ type = "test" /\ runner = "files" /\ runner' = "files"
         \/ type = "run.finished" /\ runner = "files" /\ runner' = "flushing"
  PROVE  EventsInv'
<1> USE DashboardAssumption
<1> DEFINE e == Emitted(Reporter, type)
<1>1. /\ e \in EventsOf(Reporter) /\ e.type = type
      /\ e.id[2] = emitted[Reporter] + 1 /\ e.id[3] = run
  BY EmittedIs DEF EventsInv
<1>2. Moves(Reporter, Append(queue[Reporter], e)) /\ emitted' = [emitted EXCEPT ![Reporter] = @ + 1]
  BY EmitMoves
<1>3. log' = log /\ SP!SessionInv(Logged)' /\ SP!LogInv(log, Logged)
  BY SessionRests DEF EventsInv, sessionVars, SP!SessionInv
<1> HIDE DEF e
<1>4. /\ OrderInv' /\ LogOrderInv' /\ HeardInv'
      /\ Pending(Reporter)' = Pending(Reporter) \cup {e}
      /\ \A f \in Pending(Reporter) : f.id[2] < e.id[2]
  BY <1>1, <1>2, <1>3, EmissionKeeps DEF EventsInv
<1>5. RunnerInv'
  BY DEF EventsInv, RunnerInv
<1>6. /\ Ended \in Nat /\ Begun \in Nat /\ Ended' \in Nat /\ Begun' \in Nat
      /\ Begun' = run /\ Ended < run
      /\ Ended' = Ended \/ (Ended' = Begun' /\ Begun' = Ended + 1 /\ e.type = "run.finished")
      /\ Begun' = Begun \/ (Begun' = Begun + 1 /\ e.type = "run.started")
      /\ e.type = "run.started" => Begun < Begun'
      /\ e.type = "run.finished" => Begun' <= Ended'
  BY <1>1 DEF EventsInv, RunnerInv, Ended, Begun
<1>7. RunsInv'
  <2> DEFINE P == Pending(Reporter)
             en == Ended
             bg == Begun
             en2 == Ended'
             bg2 == Begun'
  <2>1. RunsCounted(log, P, en, bg) /\ (~ lost => RunsTold(log, P, en, bg))
    BY DEF EventsInv, RunsInv
  <2>2. /\ en \in Nat /\ bg \in Nat /\ en2 \in Nat /\ bg2 \in Nat
        /\ e.id[3] = bg2 /\ en < bg2
        /\ en2 = en \/ (en2 = bg2 /\ bg2 = en + 1 /\ e.type = "run.finished")
        /\ bg2 = bg \/ (bg2 = bg + 1 /\ e.type = "run.started")
        /\ e.type = "run.started" => bg < bg2
        /\ e.type = "run.finished" => bg2 <= en2
    BY <1>1, <1>6
  <2>3. \A f \in P : f.id[2] < e.id[2]
    BY <1>4
  <2>4. Pending(Reporter)' = P \cup {e}
    BY <1>4
  <2>5. RunsInv' <=> /\ RunsCounted(log, P \cup {e}, en2, bg2)
                     /\ ~ lost => RunsTold(log, P \cup {e}, en2, bg2)
    BY <1>3, <2>4 DEF RunsInv
  <2> HIDE DEF P, en, bg, en2, bg2
  <2>6. /\ RunsCounted(log, P \cup {e}, en2, bg2)
        /\ RunsTold(log, P, en, bg) => RunsTold(log, P \cup {e}, en2, bg2)
    BY <1>1, <1>3, <2>1, <2>2, <2>3, EmissionCounts
  <2> QED BY <2>1, <2>5, <2>6
<1> QED BY <1>3, <1>4, <1>5, <1>7 DEF EventsInv

\* The delay of a client is over.
LEMMA DelayKeeps ==
  ASSUME ClientInv, EventsInv, NEW c \in Clients, DelayEnds(c)
  PROVE  EventsInv'
<1>1. StartFlush(c, queue[c]) /\ UNCHANGED <<sessionVars, runner, run, lost, emitted>>
  BY DEF DelayEnds, TimerFires, runnerVars
<1>2. Moves(c, queue[c])
  BY <1>1, StartFlushMoves
<1>3. log' = log /\ SP!SessionInv(Logged)'
  BY <1>1, SessionRests DEF EventsInv, sessionVars
<1>4. /\ \A d \in Clients : Pending(d)' = Pending(d)
      /\ \A d \in Clients : \A r \in requests'[d] : r.handled => r \in requests[d]
  BY <1>2, MovesKeep DEF Pending
<1>5. OrderInv'
  <2>1. DOMAIN emitted' = Clients /\ \A d \in Clients :
          emitted'[d] = emitted[d] /\ ClientOrder(d, queue[d], requests[d], emitted[d])
    BY <1>1 DEF EventsInv, OrderInv
  <2>2. ClientOrder(c, queue[c], requests[c], emitted'[c])
    BY <2>1
  <2> QED BY <1>2, <2>1, <2>2, MovesInOrder
<1>6. LogOrderInv' /\ HeardInv'
  BY <1>1, <1>3, <1>4 DEF EventsInv, LogOrderInv, InOrder, HeardInv
<1>7. RunnerInv' /\ RunsInv'
  BY <1>1, <1>3, <1>4, DashboardAssumption DEF EventsInv, RunnerInv, RunsInv, Ended, Begun
<1> QED BY <1>3, <1>5, <1>6, <1>7 DEF EventsInv

\* A request is answered, or fails: then its events are lost, if they were not
\* taken before.
LEMMA SettlingKeeps ==
  ASSUME ClientInv, EventsInv, NEW c \in Clients, RequestSettles(c)
  PROVE  EventsInv'
<1> USE DashboardAssumption
<1>1. PICK r \in requests[c] : Answered(c, r) /\ lost' = (lost \/ ~ r.handled)
  BY DEF RequestSettles
<1>2. UNCHANGED <<sessionVars, runner, run>> /\ emitted' = emitted
  BY <1>1 DEF RequestSettles, Answered, runnerVars
<1>3. log' = log /\ SP!SessionInv(Logged)'
  BY <1>2, SessionRests DEF EventsInv, sessionVars
<1>4. /\ \A d \in Clients \ {c} : queue'[d] = queue[d] /\ requests'[d] = requests[d]
      /\ requests[c] = {r} /\ queue'[c] = <<>>
      /\ requests'[c] = IF queue[c] = <<>> THEN {} ELSE {Request(queue[c])}
  BY <1>1, AnsweredMoves
<1>5. r.handled \in BOOLEAN
  BY DEF EventsInv, OrderInv, ClientOrder, RequestsOf
<1>6. Pending(c)' = ToSet(queue[c])
  <2>1. CASE queue[c] = <<>>
    BY <1>4, <2>1, UnheardOfSent DEF Pending
  <2>2. CASE queue[c] # <<>>
    BY <1>4, <2>2, UnheardOfSent DEF Pending
  <2> QED BY <2>1, <2>2
<1>7. Pending(c)' \subseteq Pending(c) /\ (r.handled => Pending(c)' = Pending(c))
  BY <1>4, <1>6 DEF Pending, Unheard
<1>8. \A d \in Clients \ {c} : Pending(d)' = Pending(d)
  BY <1>4 DEF Pending
<1>9. OrderInv'
  <2>1. \A d \in Clients : ClientOrder(d, queue[d], requests[d], emitted[d])
    BY DEF EventsInv, OrderInv
  <2>2. ClientOrder(c, queue'[c], requests'[c], emitted[c])
    <3>1. CASE queue[c] = <<>>
      BY <1>4, <2>1, <3>1, OrderDrops
    <3>2. CASE queue[c] # <<>>
      BY <1>4, <2>1, <3>2, OrderSends
    <3> QED BY <3>1, <3>2
  <2>3. \A d \in Clients : ClientOrder(d, queue'[d], requests'[d], emitted'[d])
    BY <1>2, <1>4, <2>1, <2>2
  <2> QED BY <1>2, <2>3 DEF EventsInv, OrderInv
<1>10. LogOrderInv'
  BY <1>2, <1>3, <1>7, <1>8 DEF EventsInv, LogOrderInv, InOrder
<1>11. HeardInv'
  <2>1. \A d \in Clients : \A s \in requests'[d] : s.handled => s \in requests[d]
    BY <1>4 DEF Request
  <2> QED BY <1>3, <2>1 DEF EventsInv, HeardInv
<1>12. RunnerInv' /\ Ended' = Ended /\ Begun' = Begun
  BY <1>1, <1>2, <1>5 DEF EventsInv, RunnerInv, Ended, Begun
<1>13. RunsInv'
  <2>1. Pending(Reporter)' \subseteq Pending(Reporter)
    BY <1>7, <1>8
  <2>2. RunsCounted(log, Pending(Reporter)', Ended, Begun)
    BY <2>1, FewerCount DEF EventsInv, RunsInv
  <2>3. ~ lost' => ~ lost /\ Pending(Reporter)' = Pending(Reporter)
    BY <1>1, <1>7, <1>8
  <2> QED BY <1>3, <1>12, <2>2, <2>3 DEF EventsInv, RunsInv
<1> QED BY <1>3, <1>9, <1>10, <1>11, <1>12, <1>13 DEF EventsInv

\* The session takes a batch: all of it is older than what the client still has,
\* and younger than what it took before.
LEMMA ArrivalKeeps ==
  ASSUME ClientInv, EventsInv, NEW c \in Clients, BatchArrives(c)
  PROVE  EventsInv'
<1> USE DashboardAssumption
<1>1. PICK r \in requests[c] : Handled(c, r) /\ Session!Post(r.events)
  BY DEF BatchArrives
<1> DEFINE b == r.events
           h == [r EXCEPT !.handled = TRUE]
<1>2. /\ UNCHANGED <<runner, run, lost>> /\ queue' = queue /\ emitted' = emitted
      /\ ~ r.handled /\ requests' = [requests EXCEPT ![c] = (requests[c] \ {r}) \cup {h}]
  BY <1>1 DEF BatchArrives, Handled, runnerVars
<1>3. /\ ClientOrder(c, queue[c], requests[c], emitted[c])
      /\ b \in Seq(EventsOf(c)) /\ Increasing(b) /\ r \in RequestsOf(c)
      /\ \A e \in ToSet(b) : e.id[2] <= emitted[c] /\ \A f \in ToSet(queue[c]) : e.id[2] < f.id[2]
  BY DEF EventsInv, OrderInv, ClientOrder, RequestsOf
<1>4. h \in RequestsOf(c) /\ h.handled /\ h.events = b
  BY <1>3 DEF RequestsOf
<1>5. requests[c] = {r} /\ requests'[c] = {h} /\ \A d \in Clients \ {c} : requests'[d] = requests[d]
  <2> HIDE DEF h
  <2> QED BY <1>2 DEF ClientInv, DomainInv, OneRequest
<1>6. Pending(c) = ToSet(queue[c]) \cup ToSet(b) /\ Pending(c)' = ToSet(queue[c])
  <2>1. {s \in requests[c] : ~ s.handled} = {r}
    BY <1>2, <1>5
  <2>2. {s \in requests'[c] : ~ s.handled} = {}
    <3> HIDE DEF h
    <3> QED BY <1>4, <1>5
  <2> QED BY <1>2, <2>1, <2>2 DEF Pending, Unheard
<1>7. \A d \in Clients \ {c} : Pending(d)' = Pending(d)
  BY <1>2, <1>5 DEF Pending
<1>8. b \in Seq(Logged)
  <2>1. EventsOf(c) \subseteq Logged
    BY DEF Logged
  <2> QED BY <1>3, <2>1, SeqMonotonic
<1>9. SP!Post(b) /\ SP!SessionInv(Logged)'
  BY <1>1, <1>8, SamePost, SP!PostKeeps DEF EventsInv
<1> DEFINE m == SP!AcceptBatch(log, b)
<1>10. log' = m /\ SP!LogInv(log, Logged)
  BY <1>9 DEF SP!Post, SP!Log, EventsInv, SP!SessionInv
<1>11. SP!LogInv(m, Logged) /\ SP!Extends(m, log) /\ SP!Taken(m, log, b, Len(b))
  BY <1>8, <1>10, SP!BatchKeeps, SP!BatchIsTaken
<1> HIDE DEF m, h
<1> DEFINE L == Len(log.events)
           M == Len(m.events)
<1>12. /\ L \in Nat /\ M \in Nat /\ L <= M /\ DOMAIN log.events = 1 .. L /\ DOMAIN m.events = 1 .. M
       /\ \A i \in 1 .. L : m.events[i] = log.events[i]
       /\ Len(b) \in Nat /\ DOMAIN b = 1 .. Len(b)
  BY <1>3, <1>10, <1>11, LenProperties DEF SP!LogInv, SP!LogType, SP!Extends
<1>13. PICK from \in [L + 1 .. M -> 1 .. Len(b)] :
         /\ \A i \in L + 1 .. M : m.events[i] = b[from[i]]
         /\ \A i, j \in L + 1 .. M : i < j => from[i] < from[j]
  BY <1>11 DEF SP!Taken, SP!Chosen, SP!New
<1>14. \A i \in L + 1 .. M : /\ m.events[i] \in ToSet(b) /\ m.events[i].id[1] = c
                             /\ m.events[i] \in EventsOf(c)
  BY <1>3, <1>12, <1>13, ElementOfSeq, EventFields DEF ToSet
<1>15. OrderInv'
  <2>1. ClientOrder(c, queue[c], {h}, emitted[c])
    BY <1>3, OrderHandles DEF h
  <2>2. \A d \in Clients : ClientOrder(d, queue'[d], requests'[d], emitted'[d])
    BY <1>2, <1>5, <2>1 DEF EventsInv, OrderInv
  <2> QED BY <1>2, <2>2 DEF EventsInv, OrderInv
<1>16. LogOrderInv'
  <2>1. /\ \A i, j \in 1 .. L : \A d \in Clients :
             i < j /\ log.events[i].id[1] = d /\ log.events[j].id[1] = d
               => log.events[i].id[2] < log.events[j].id[2]
        /\ \A d \in Clients : \A i \in 1 .. L : log.events[i].id[1] = d =>
             /\ log.events[i].id[2] <= emitted[d]
             /\ \A e \in Pending(d) : log.events[i].id[2] < e.id[2]
    BY <1>12 DEF EventsInv, LogOrderInv, InOrder
  <2>2. ASSUME NEW i \in 1 .. M, NEW j \in 1 .. M, NEW d \in Clients,
               i < j, m.events[i].id[1] = d, m.events[j].id[1] = d
        PROVE  m.events[i].id[2] < m.events[j].id[2]
    <3>1. CASE j \in 1 .. L
      <4>1. i \in 1 .. L
        BY <1>12, <2>2, <3>1
      <4> QED BY <1>12, <2>1, <2>2, <3>1, <4>1
    <3>2. CASE i \in 1 .. L /\ j \in L + 1 .. M
      <4>1. d = c /\ m.events[j] \in Pending(c)
        BY <1>6, <1>14, <2>2, <3>2
      <4> QED BY <1>12, <2>1, <2>2, <3>2, <4>1
    <3>3. CASE i \in L + 1 .. M /\ j \in L + 1 .. M
      <4>1. m.events[i] = b[from[i]] /\ m.events[j] = b[from[j]] /\ from[i] < from[j]
            /\ from[i] \in 1 .. Len(b) /\ from[j] \in 1 .. Len(b)
        BY <1>13, <2>2, <3>3
      <4> QED BY <1>3, <1>12, <4>1 DEF Increasing
    <3>4. (i \in 1 .. L \/ i \in L + 1 .. M) /\ (j \in 1 .. L \/ j \in L + 1 .. M)
      BY <1>12
    <3>5. i \in L + 1 .. M => j \in L + 1 .. M
      BY <1>12, <2>2
    <3> QED BY <3>1, <3>2, <3>3, <3>4, <3>5
  <2>3. ASSUME NEW d \in Clients, NEW i \in 1 .. M, m.events[i].id[1] = d
        PROVE  /\ m.events[i].id[2] <= emitted[d]
               /\ \A e \in Pending(d)' : m.events[i].id[2] < e.id[2]
    <3>1. CASE i \in 1 .. L
      <4>1. Pending(d)' \subseteq Pending(d)
        BY <1>6, <1>7
      <4> QED BY <1>12, <2>1, <2>3, <3>1, <4>1
    <3>2. CASE i \in L + 1 .. M
      <4>1. d = c /\ m.events[i] \in ToSet(b)
        BY <1>14, <2>3, <3>2
      <4> QED BY <1>3, <1>6, <4>1
    <3> QED BY <1>12, <3>1, <3>2
  <2> HIDE DEF L, M
  <2>4. DOMAIN log'.events = 1 .. M
    BY <1>10, <1>12
  <2>5. InOrder'
    BY <1>10, <2>2, <2>4 DEF InOrder
  <2> QED BY <1>2, <1>10, <2>3, <2>4, <2>5 DEF LogOrderInv
<1>17. HeardInv'
  <2>1. ToSet(log.events) \subseteq ToSet(m.events)
    BY <1>12 DEF ToSet
  <2>2. ASSUME NEW e \in ToSet(b), e.type = "test" PROVE e \in ToSet(m.events)
    <3>1. PICK k \in 1 .. Len(b) : e = b[k]
      BY <1>12 DEF ToSet
    <3>2. SP!Parses(b[k]) /\ b[k].type \notin {"run.started", "run.finished"}
      BY <2>2, <3>1 DEF SP!Parses
    <3>3. \E i \in 1 .. M : m.events[i] = b[k]
      BY <1>11, <3>2 DEF SP!Taken
    <3> QED BY <1>12, <3>1, <3>3 DEF ToSet
  <2>3. ASSUME NEW d \in Clients, NEW s \in requests'[d], s.handled,
               NEW e \in ToSet(s.events), e.type = "test"
        PROVE  e \in ToSet(m.events)
    <3>1. CASE d = c
      <4>1. s = h
        BY <1>5, <2>3, <3>1
      <4> QED BY <1>4, <2>2, <2>3, <4>1
    <3>2. CASE d # c
      BY <1>5, <2>1, <2>3, <3>2 DEF EventsInv, HeardInv
    <3> QED BY <3>1, <3>2
  <2> QED BY <1>10, <2>3 DEF HeardInv
<1>18. RunnerInv' /\ Ended' = Ended /\ Begun' = Begun
  BY <1>2 DEF EventsInv, RunnerInv, Ended, Begun
<1>19. RunsInv'
  <2>1. Ended \in Nat /\ Begun \in Nat /\ Begun <= Ended + 1
    BY RunsNumbers DEF EventsInv
  <2>2. /\ RunsCounted(log, Pending(Reporter), Ended, Begun)
        /\ ~ lost => RunsTold(log, Pending(Reporter), Ended, Begun)
    BY DEF EventsInv, RunsInv
  <2>3. CASE c = Reporter
    <3>1. Pending(Reporter) = ToSet(b) \cup Pending(Reporter)'
      BY <1>6, <2>3
    <3>2. \A e \in ToSet(b) : \A f \in Pending(Reporter)' : e.id[2] < f.id[2]
      BY <1>3, <1>6, <2>3
    <3>3. /\ RunsCounted(m, Pending(Reporter)', Ended, Begun)
          /\ RunsTold(log, Pending(Reporter), Ended, Begun)
               => RunsTold(m, Pending(Reporter)', Ended, Begun)
      BY <1>3, <1>10, <2>1, <2>2, <2>3, <3>1, <3>2, ReporterBatch DEF m
    <3> QED BY <1>2, <1>10, <1>18, <2>2, <3>3 DEF RunsInv
  <2>4. CASE c # Reporter
    <3>1. Pending(Reporter)' = Pending(Reporter)
      BY <1>7, <2>4
    <3>2. /\ RunsCounted(m, Pending(Reporter), Ended, Begun)
          /\ RunsTold(log, Pending(Reporter), Ended, Begun)
               => RunsTold(m, Pending(Reporter), Ended, Begun)
      BY <1>3, <1>10, <2>1, <2>2, <2>4, WorkerBatch DEF m
    <3> QED BY <1>2, <1>10, <1>18, <2>2, <3>1, <3>2 DEF RunsInv
  <2> QED BY <2>3, <2>4
<1> QED BY <1>9, <1>15, <1>16, <1>17, <1>18, <1>19 DEF EventsInv

\* The session says that it is over.
LEMMA TeardownKeeps ==
  ASSUME EventsInv, Teardown
  PROVE  EventsInv'
<1> DEFINE e == SP!Event("dashboard", <<1>>)
           m == SP!Accept(log, e)
<1>1. SP!Finalize /\ UNCHANGED <<clientVars, run, lost>> /\ runner = "idle" /\ runner' = "teardown"
  BY SameFinalize DEF Teardown
<1>2. SP!OwnEvents \subseteq Logged /\ e \in Logged /\ e.type = "dashboard" /\ e.id[1] = 1
  BY DEF Logged, SP!OwnEvents, SP!Event
<1>3. SP!SessionInv(Logged)' /\ log' = m
  BY <1>1, <1>2, SP!FinalizeKeeps DEF EventsInv, SP!Finalize, SP!Log
<1>4. SP!LogInv(log, Logged) /\ log \in SP!LogType(Logged)
  BY DEF EventsInv, SP!SessionInv, SP!LogInv
<1>5. m \in SP!LogType(Logged) /\ m.events = Append(log.events, e)
  <2>1. ~ SP!Drops(log, e)
    BY <1>2 DEF SP!Drops
  <2> QED BY <1>2, <1>4, <2>1, SP!AcceptEffect
<1> HIDE DEF e, m
<1>6. /\ Len(log.events) \in Nat /\ DOMAIN log.events = 1 .. Len(log.events)
      /\ DOMAIN m.events = 1 .. Len(log.events) + 1
      /\ \A i \in 1 .. Len(log.events) : m.events[i] = log.events[i]
      /\ m.events[Len(log.events) + 1] = e
  BY <1>2, <1>4, <1>5, SP!AppendKeepsPlaces DEF SP!Appended
<1>7. 1 \notin Clients
  BY DashboardAssumption
<1>8. ASSUME NEW i \in DOMAIN m.events, m.events[i].id[1] \in Clients
      PROVE  i \in DOMAIN log.events /\ m.events[i] = log.events[i]
  BY <1>2, <1>6, <1>7, <1>8
<1>9. /\ queue' = queue /\ requests' = requests /\ emitted' = emitted
      /\ \A c \in Clients : Pending(c)' = Pending(c)
  BY <1>1 DEF clientVars, Pending
<1>10. OrderInv'
  BY <1>9 DEF EventsInv, OrderInv
<1>11. LogOrderInv'
  <2>1. InOrder'
    <3> SUFFICES ASSUME NEW i \in DOMAIN m.events, NEW j \in DOMAIN m.events, NEW c \in Clients,
                        i < j, m.events[i].id[1] = c, m.events[j].id[1] = c
                 PROVE  m.events[i].id[2] < m.events[j].id[2]
      BY <1>3 DEF InOrder
    <3>1. /\ i \in DOMAIN log.events /\ m.events[i] = log.events[i]
          /\ j \in DOMAIN log.events /\ m.events[j] = log.events[j]
      BY <1>8
    <3> QED BY <3>1 DEF EventsInv, LogOrderInv, InOrder
  <2>2. ASSUME NEW c \in Clients, NEW i \in DOMAIN m.events, m.events[i].id[1] = c
        PROVE  /\ m.events[i].id[2] <= emitted[c]
               /\ \A f \in Pending(c) : m.events[i].id[2] < f.id[2]
    <3>1. i \in DOMAIN log.events /\ m.events[i] = log.events[i]
      BY <1>8, <2>2
    <3> QED BY <2>2, <3>1 DEF EventsInv, LogOrderInv
  <2> QED BY <1>3, <1>9, <2>1, <2>2 DEF LogOrderInv
<1>12. HeardInv'
  <2>1. ToSet(log.events) \subseteq ToSet(m.events)
    BY <1>6 DEF ToSet
  <2> QED BY <1>3, <1>9, <2>1 DEF EventsInv, HeardInv
<1>13. RunnerInv' /\ Ended' = Ended /\ Begun' = Begun
  BY <1>1 DEF EventsInv, RunnerInv, Ended, Begun
<1>14. RunsInv'
  <2>1. Ended \in Nat /\ Begun \in Nat
    BY RunsNumbers DEF EventsInv
  <2>2. /\ RunsCounted(m, Pending(Reporter), Ended, Begun)
        /\ RunsTold(log, Pending(Reporter), Ended, Begun)
             => RunsTold(m, Pending(Reporter), Ended, Begun)
    BY <1>2, <1>4, <1>7, <2>1, ForeignTells, DashboardAssumption DEF EventsInv, RunsInv, m
  <2> QED BY <1>1, <1>3, <1>9, <1>13, <2>2, DashboardAssumption DEF EventsInv, RunsInv
<1> QED BY <1>3, <1>10, <1>11, <1>12, <1>13, <1>14 DEF EventsInv

\* The session writes its reports, or closes.
LEMMA SessionStepKeeps ==
  ASSUME EventsInv, SessionStep
  PROVE  EventsInv'
<1>1. SP!ReportStep \/ SP!FinalizeStep
  BY SameSteps DEF SessionStep
<1>2. log' = log
  BY <1>1 DEF SP!ReportStep, SP!WriteRunReport, SP!RunReportFails, SP!FinalizeStep, SP!AwaitChain,
              SP!WriteIndex, SP!EndReaders, SP!ServerCloses
<1>3. SP!SessionInv(Logged)'
  BY <1>1, SP!ReportStepKeeps, SP!FinalizeStepKeeps DEF EventsInv
<1>4. UNCHANGED <<clientVars, runner, run, lost>>
  BY DEF SessionStep, runnerVars
<1>5. OrderInv' /\ LogOrderInv' /\ HeardInv' /\ Pending(Reporter)' = Pending(Reporter)
  BY <1>2, <1>4, ClientsRest, DashboardAssumption DEF EventsInv
<1>6. RunnerInv' /\ RunsInv'
  BY <1>2, <1>4, <1>5 DEF EventsInv, RunnerInv, RunsInv, Ended, Begun
<1> QED BY <1>3, <1>5, <1>6 DEF EventsInv

\* The runner goes on, or begins a run, without a word.
LEMMA RunnerKeeps ==
  ASSUME EventsInv, UNCHANGED <<clientVars, sessionVars, lost>>,
         \/ StartsUnseen \/ RunCompletes \/ Rerun \/ UNCHANGED <<runner, run>>
  PROVE  EventsInv'
<1>1. log' = log /\ SP!SessionInv(Logged)' /\ SP!LogInv(log, Logged)
  BY SessionRests DEF EventsInv, sessionVars, SP!SessionInv
<1>2. OrderInv' /\ LogOrderInv' /\ HeardInv' /\ Pending(Reporter)' = Pending(Reporter)
  BY <1>1, ClientsRest, DashboardAssumption DEF EventsInv
<1>3. CASE StartsUnseen
  <2>1. RunnerInv' /\ Ended = 0 /\ Begun = 0 /\ Ended' = 0 /\ Begun' = 1
    BY <1>3 DEF StartsUnseen, EventsInv, RunnerInv, Ended, Begun
  <2>2. RunsInv'
    BY <1>1, <1>2, <2>1, UnseenCounts DEF EventsInv, RunsInv
  <2> QED BY <1>1, <1>2, <2>1, <2>2 DEF EventsInv
<1>4. CASE RunCompletes \/ Rerun \/ UNCHANGED <<runner, run>>
  <2>1. RunnerInv' /\ Ended' = Ended /\ Begun' = Begun
    BY <1>4 DEF RunCompletes, Rerun, EventsInv, RunnerInv, Ended, Begun
  <2>2. RunsInv'
    BY <1>1, <1>2, <2>1 DEF EventsInv, RunsInv
  <2> QED BY <1>1, <1>2, <2>1, <2>2 DEF EventsInv
<1> QED BY <1>3, <1>4

-----------------------------------------------------------------------------
(* The theorems on the log                                                 *)

LEMMA AcceptedIsLast ==
  ASSUME NEW l \in SP!LogType(Logged), NEW e \in Logged, ~ SP!Drops(l, e),
         e.type # "run.finished"
  PROVE  /\ SP!Accept(l, e) \in SP!LogType(Logged)
         /\ SP!Accept(l, e).events = Append(l.events, e) /\ SP!Accept(l, e).jobs = l.jobs
         /\ IF e.type = "run.started" THEN SP!Accept(l, e).runCount = l.runCount + 1
            ELSE SP!Accept(l, e).runCount = l.runCount /\ SP!Accept(l, e).runActive = l.runActive
<1> DEFINE m == SP!Accept(l, e)
<1>1. /\ m \in SP!LogType(Logged) /\ m.events = Append(l.events, e)
      /\ \/ /\ e.type = "run.started" /\ ~ l.runActive
            /\ m.runStart = Len(l.events) /\ m.runCount = l.runCount + 1
            /\ m.runActive = TRUE /\ m.jobs = l.jobs
         \/ /\ e.type = "run.finished" /\ l.runActive
            /\ m.runStart = l.runStart /\ m.runCount = l.runCount
            /\ m.runActive = FALSE
            /\ m.jobs = Append(l.jobs, [run |-> l.runCount,
                                       events |-> SP!RunEvents(m.events, l.runStart)])
         \/ /\ e.type \notin {"run.started", "run.finished"}
            /\ m.runStart = l.runStart /\ m.runCount = l.runCount
            /\ m.runActive = l.runActive /\ m.jobs = l.jobs
  BY SP!AcceptEffect
<1> QED BY <1>1

LEMMA EventsInvInit == Init => EventsInv
<1> SUFFICES ASSUME Init PROVE EventsInv
  OBVIOUS
<1> USE DashboardAssumption
<1>1. /\ queue = [c \in Clients |-> <<>>] /\ requests = [c \in Clients |-> {}]
      /\ emitted = [c \in Clients |-> 0] /\ runner = "starting" /\ run = 1 /\ lost = FALSE
  BY DEF Init, ClientInit
<1>2. SP!Init
  BY SameInit DEF Init
<1>3. SP!SessionInv(Logged)
  <2>1. SP!OwnEvents \subseteq Logged
    BY DEF Logged
  <2> QED BY <1>2, <2>1, SP!InitHolds
<1>4. /\ DOMAIN log.events = {1, 2} /\ log.events[1] = SP!Event("dashboard", <<0>>)
      /\ log.events[2] = SP!Event("run.started", <<0>>)
      /\ log.runCount = 1 /\ log.jobs = <<>>
  <2> DEFINE a == SP!Event("dashboard", <<0>>)
             b == SP!Event("run.started", <<0>>)
             empty == [events |-> <<>>, runStart |-> 0, runCount |-> 0, runActive |-> FALSE,
                       jobs |-> <<>>]
             first == SP!Accept(empty, a)
  <2>1. log = SP!Accept(first, b)
    BY <1>2 DEF SP!Init, SP!StartedLog
  <2>2. a \in Logged /\ b \in Logged /\ a.type = "dashboard" /\ b.type = "run.started"
    BY DEF Logged, SP!OwnEvents, SP!Event
  <2>3. empty \in SP!LogType(Logged) /\ ~ empty.runActive
        /\ empty.events = <<>> /\ empty.jobs = <<>> /\ empty.runCount = 0
    BY DEF SP!LogType
  <2> HIDE DEF a, b, empty
  <2>4. ~ SP!Drops(empty, a)
    BY <2>2 DEF SP!Drops
  <2>5. /\ first \in SP!LogType(Logged) /\ first.events = Append(empty.events, a)
        /\ first.runCount = empty.runCount /\ first.runActive = empty.runActive
        /\ first.jobs = empty.jobs
    BY <2>2, <2>3, <2>4, AcceptedIsLast
  <2> HIDE DEF first
  <2>6. ~ SP!Drops(first, b)
    BY <2>2, <2>3, <2>5 DEF SP!Drops
  <2>7. /\ log.events = Append(first.events, b)
        /\ log.runCount = first.runCount + 1 /\ log.jobs = first.jobs
    BY <2>1, <2>2, <2>5, <2>6, AcceptedIsLast
  <2>8. DOMAIN log.events = {1, 2} /\ log.events[1] = a /\ log.events[2] = b
    <3>1. first.events \in Seq(Logged) /\ first.events = Append(<<>>, a)
      BY <2>3, <2>5 DEF SP!LogType
    <3>2. Len(first.events) = 1 /\ first.events[1] = a
      BY <2>2, <3>1
    <3>3. /\ DOMAIN log.events = 1 .. 2 /\ log.events[1] = a /\ log.events[2] = b
      BY <2>2, <2>7, <3>1, <3>2
    <3> QED BY <3>3
  <2>9. log.runCount = 1 /\ log.jobs = <<>>
    BY <2>3, <2>5, <2>7
  <2> QED BY <2>8, <2>9 DEF a, b
<1>5. /\ DOMAIN log.events = {1, 2}
      /\ \A i \in DOMAIN log.events : log.events[i].id[1] = 0 /\ log.events[i].type # "test"
  BY <1>4 DEF SP!Event
<1>6. \A c \in Clients : log.jobs = <<>> /\ Pending(c) = {}
  BY <1>1, <1>4, ToSetOfEmpty DEF Pending, Unheard
<1>7. OrderInv
  BY <1>1, ToSetOfEmpty DEF OrderInv, ClientOrder, Increasing
<1>8. LogOrderInv
  BY <1>5 DEF LogOrderInv, InOrder
<1>9. HeardInv
  BY <1>1 DEF HeardInv
<1>10. RunnerInv /\ Ended = 0 /\ Begun = 0
  <2>1. runner = "starting" /\ run = 1
    BY <1>1
  <2>2. lost \in BOOLEAN
    BY <1>1
  <2> QED BY <2>1, <2>2 DEF RunnerInv, Ended, Begun
<1>11. RunsCounted(log, {}, 0, 0) /\ RunsTold(log, {}, 0, 0)
  <2>1. Len(log.jobs) = 0
    BY <1>4
  <2>2. \A i \in DOMAIN log.events : ~ IsTest(log, i)
    BY <1>5 DEF IsTest
  <2>3. 1 .. 0 = {} /\ 2 .. 0 = {}
    OBVIOUS
  <2> QED BY <1>4, <2>1, <2>2, <2>3 DEF RunsCounted, RunsTold, Sorted
<1>12. RunsInv
  BY <1>6, <1>10, <1>11 DEF RunsInv
<1> QED BY <1>3, <1>7, <1>8, <1>9, <1>10, <1>12 DEF EventsInv

LEMMA EventsInvNext == ClientInv /\ EventsInv /\ [Next]_vars => EventsInv'
<1> SUFFICES ASSUME ClientInv, EventsInv, [Next]_vars PROVE EventsInv'
  OBVIOUS
<1>1. CASE StartsUnseen \/ RunCompletes \/ Rerun \/ Over \/ UNCHANGED vars
           \/ \E w \in Workers : AfterAllReturns(w)
  BY <1>1, RunnerKeeps DEF StartsUnseen, RunCompletes, Rerun, Over, AfterAllReturns, vars, runnerVars
<1>2. CASE OnRunStart
  BY <1>2, ReporterEmits DEF OnRunStart
<1>3. CASE OnTestCaseResult
  BY <1>3, ReporterEmits DEF OnTestCaseResult, runnerVars
<1>4. CASE OnRunComplete
  BY <1>4, ReporterEmits DEF OnRunComplete
<1>5. ASSUME NEW w \in Workers, HookEmits(w) \/ AfterAll(w) PROVE EventsInv'
  BY <1>5, WorkerEmits DEF HookEmits, AfterAll, runnerVars
<1>6. CASE Teardown
  BY <1>6, TeardownKeeps
<1>7. CASE SessionStep
  BY <1>7, SessionStepKeeps
<1>8. ASSUME NEW c \in Clients, DelayEnds(c) \/ BatchArrives(c) \/ RequestSettles(c)
      PROVE  EventsInv'
  BY <1>8, DelayKeeps, ArrivalKeeps, SettlingKeeps
<1> QED BY <1>1, <1>2, <1>3, <1>4, <1>5, <1>6, <1>7, <1>8 DEF Next

LEMMA EventsInvHolds == Spec => [](ClientInv /\ EventsInv)
BY ClientInvInit, ClientInvNext, EventsInvInit, EventsInvNext, PTL DEF Spec

\* The log has the events of each client in the order in which they were emitted,
\* none of them twice, in whatever order timers, hooks and answers flush them.
THEOREM LogIsInOrder == Spec => []InOrder
<1>1. EventsInv => InOrder
  BY DEF EventsInv, LogOrderInv
<1> QED BY <1>1, EventsInvHolds, PTL

\* Whatever gets lost, the dashboard has no more runs than there were executions
\* of the runner; and unless something got lost the report of a run has the
\* reporter's tests of one execution, neither more nor less.
THEOREM RunsMatchExecutions == Spec => []RunsAreExecutions
<1>1. ASSUME EventsInv PROVE RunsAreExecutions
  <2> USE DashboardAssumption
  <2>1. /\ SP!LogInv(log, Logged) /\ RunsCounted(log, Pending(Reporter), Ended, Begun)
        /\ ~ lost => RunsTold(log, Pending(Reporter), Ended, Begun)
    BY <1>1 DEF EventsInv, RunsInv, SP!SessionInv
  <2>2. log.runCount <= run
    <3>1. Begun \in Nat /\ run \in Nat \ {0} /\ Begun <= run
      BY <1>1 DEF EventsInv, RunnerInv, Begun
    <3>2. log.runCount \in Nat /\ (log.runCount = 1 \/ log.runCount <= Begun)
      BY <2>1 DEF RunsCounted, SP!LogInv, SP!LogType
    <3> QED BY <3>1, <3>2
  <2>3. ASSUME ~ lost, NEW r \in reports, r.run # 0, NEW e \in Told(Reporter)
        PROVE  e.id[3] = r.run <=> e \in Shown(r)
    <3>1. r.run \in 1 .. Len(log.jobs) /\ r = log.jobs[r.run]
      BY <1>1, <2>3 DEF EventsInv, SP!SessionInv, SP!ReportsInv
    <3>2. /\ Len(log.events) \in Nat /\ DOMAIN log.events = 1 .. Len(log.events)
          /\ r.events \subseteq 1 .. Len(log.events) /\ Len(log.jobs) \in Nat
      <4>1. \A k \in 1 .. Len(log.jobs) : log.jobs[k].events \subseteq 1 .. Len(log.events)
        BY <2>1 DEF SP!LogInv, SP!JobsInv
      <4> QED BY <2>1, <3>1, <4>1, LenProperties DEF SP!LogInv, SP!LogType
    <3>3. \A i \in 1 .. Len(log.events) :
            log.events[i] = e => (i \in r.events <=> e.id[3] = r.run)
      BY <2>1, <2>3, <3>1, <3>2 DEF RunsTold, IsTest, Told
    <3>4. e \in ToSet(log.events) \/ e \in Pending(Reporter)
      BY <1>1, <2>3 DEF Told, Pending, Unheard, EventsInv, HeardInv
    <3>5. CASE e \in ToSet(log.events)
      <4>1. PICK i \in 1 .. Len(log.events) : log.events[i] = e
        BY <3>2, <3>5 DEF ToSet
      <4>2. e \in Shown(r) <=> i \in r.events
        BY <3>2, <3>3, <4>1 DEF Shown
      <4> QED BY <3>3, <4>1, <4>2
    <3>6. CASE e \in Pending(Reporter)
      <4>1. e \in EventsOf(Reporter) /\ Len(log.jobs) < e.id[3]
        BY <2>1, <3>6 DEF RunsCounted
      <4>2. e.id[1] = Reporter /\ e.id[2] \in Nat /\ e.id[3] \in Nat
        BY <4>1, EventFields
      <4>3. \A i \in DOMAIN log.events : log.events[i] # e
        BY <1>1, <3>6, <4>2 DEF EventsInv, LogOrderInv
      <4> QED BY <3>1, <3>2, <4>1, <4>2, <4>3 DEF Shown
    <3> QED BY <3>4, <3>5, <3>6
  <2> QED BY <2>2, <2>3 DEF RunsAreExecutions
<1> QED BY <1>1, EventsInvHolds, PTL

\* What a session promises of its reports holds whatever clients send it.
THEOREM ReportsOfTheSession ==
  Spec => [](Session!ReportsAreIndependent /\ Session!FinalReportIsComplete)
<1>1. ASSUME EventsInv
      PROVE  Session!ReportsAreIndependent /\ Session!FinalReportIsComplete
  <2>1. SP!ReportsAreIndependent /\ SP!FinalReportIsComplete
    BY <1>1, SP!RunsAreIndependent, SP!FinalIsComplete DEF EventsInv
  <2>2. Session!ReportsAreIndependent <=> SP!ReportsAreIndependent
    BY DEF Session!ReportsAreIndependent, SP!ReportsAreIndependent, Session!RunReports,
           SP!RunReports, Session!Holds, SP!Holds
  <2>3. Session!FinalReportIsComplete <=> SP!FinalReportIsComplete
    BY DEF Session!FinalReportIsComplete, SP!FinalReportIsComplete, Session!RunReports,
           SP!RunReports, Session!Event, SP!Event
  <2> QED BY <2>1, <2>2, <2>3
<1> QED BY <1>1, EventsInvHolds, PTL

=============================================================================
