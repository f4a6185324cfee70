-------------------------- MODULE DashboardClient --------------------------
(***************************************************************************)
(* DashboardEventClient: every process that reports to a dashboard session *)
(* has one.  It queues events and sends them in batches over HTTP, after a *)
(* delay, when the queue is long enough, or when flush() is called.  A     *)
(* batch that cannot be delivered is given up.                             *)
(*                                                                         *)
(* The continuations that await one send run in one go, in the order in    *)
(* which they were registered: first the flush() that sends, which takes   *)
(* whatever was queued meanwhile, then those that only waited, which find  *)
(* the queue empty and return.                                             *)
(***************************************************************************)
EXTENDS Naturals, Sequences

CONSTANTS
  Clients,    \* the processes that report, each with a client of its own
  BatchSize   \* the length of the queue that triggers a send (25 in the code)

ASSUME ClientAssumption == BatchSize \in Nat \ {0}

VARIABLES
  queue,     \* queue[c]: the events not sent yet
  timer,     \* timer[c]: is the delayed flush pending?
  flushing,  \* flushing[c]: is this.flushing set?
  requests,  \* requests[c]: the requests on their way, and whether the server
             \* has handled them
  awaiting,  \* awaiting[c]: the flush() whose caller awaits it: none, one that
             \* waits for the send of another, or one that sends itself
  emitted    \* emitted[c]: how many events c has emitted

clientVars == <<queue, timer, flushing, requests, awaiting, emitted>>

Request(events) == [events |-> events, handled |-> FALSE]

ClientInit ==
  /\ queue = [c \in Clients |-> <<>>]
  /\ timer = [c \in Clients |-> FALSE]
  /\ flushing = [c \in Clients |-> FALSE]
  /\ requests = [c \in Clients |-> {}]
  /\ awaiting = [c \in Clients |-> "none"]
  /\ emitted = [c \in Clients |-> 0]

-----------------------------------------------------------------------------
(* The client                                                              *)

\* send(): all that is queued leaves in one request.
Send(c, events, others) ==
  /\ queue' = [queue EXCEPT ![c] = <<>>]
  /\ flushing' = [flushing EXCEPT ![c] = TRUE]
  /\ requests' = [requests EXCEPT ![c] = others \cup {Request(events)}]

\* Mutant: flush() does not wait for the send that is going on.
StartFlushAtOnce(c, q) ==
  /\ timer' = [timer EXCEPT ![c] = FALSE]
  /\ IF q # <<>>
       THEN Send(c, q, requests[c])
       ELSE queue' = [queue EXCEPT ![c] = q] /\ UNCHANGED <<flushing, requests>>

\* What flush() does up to its first await, q being the queue.
StartFlush(c, q) ==
  /\ timer' = [timer EXCEPT ![c] = FALSE]
  /\ IF ~flushing[c] /\ q # <<>>
       THEN Send(c, q, requests[c])
       ELSE queue' = [queue EXCEPT ![c] = q] /\ UNCHANGED <<flushing, requests>>

\* emit() queues the event; a long queue is flushed, a short one a moment later.
Emit(c, e) ==
  LET q == Append(queue[c], e)
  IN  /\ emitted' = [emitted EXCEPT ![c] = @ + 1]
      /\ IF Len(q) >= BatchSize
           THEN StartFlush(c, q)
           ELSE /\ queue' = [queue EXCEPT ![c] = q]
                /\ timer' = [timer EXCEPT ![c] = TRUE]
                /\ UNCHANGED <<flushing, requests>>
      /\ UNCHANGED awaiting

\* The delay is over.
TimerFires(c) ==
  /\ timer[c]
  /\ StartFlush(c, queue[c])
  /\ UNCHANGED <<awaiting, emitted>>

\* A hook or a reporter emits its last event, then awaits flush().  If that
\* event makes the queue long, emit() sends and the flush() only waits.
EmitAndFlush(c, e) ==
  LET q == Append(queue[c], e)
  IN  /\ awaiting[c] = "none"
      /\ emitted' = [emitted EXCEPT ![c] = @ + 1]
      /\ StartFlush(c, q)
      /\ awaiting' = [awaiting EXCEPT ![c] =
           IF flushing[c] \/ Len(q) >= BatchSize THEN "waits" ELSE "sends"]

\* Mutant: flush() does not await the flush() it calls.
AwaitingNothing(c) == "none"

\* Where the awaited flush() stands after a send: the one that sent goes on as
\* long as there is more, one that waited returns.
AwaitingAfterSend(c) == IF awaiting[c] = "sends" /\ queue[c] # <<>> THEN "sends" ELSE "none"

\* Mutant: flush() does not look at the queue again.
AnsweredOnce(c, r) ==
  /\ r \in requests[c]
  /\ flushing' = [flushing EXCEPT ![c] = FALSE]
  /\ requests' = [requests EXCEPT ![c] = @ \ {r}]
  /\ awaiting' = [awaiting EXCEPT ![c] = "none"]
  /\ UNCHANGED <<queue, timer, emitted>>

\* Mutant: this.flushing is cleared only by a response, not by a failure.
AnsweredThen(c, r) ==
  /\ r \in requests[c]
  /\ requests' = [requests EXCEPT ![c] = @ \ {r}]
  /\ flushing' = [flushing EXCEPT ![c] = ~r.handled]
  /\ awaiting' = [awaiting EXCEPT ![c] = IF r.handled THEN "none" ELSE @]
  /\ UNCHANGED <<queue, timer, emitted>>

\* The response is in, or the request failed: finally() clears this.flushing,
\* then the flush() that sent looks at the queue again.
Answered(c, r) ==
  /\ r \in requests[c]
  /\ awaiting' = [awaiting EXCEPT ![c] = AwaitingAfterSend(c)]
  /\ IF queue[c] # <<>>
       THEN timer' = [timer EXCEPT ![c] = FALSE] /\ Send(c, queue[c], requests[c] \ {r})
       ELSE /\ flushing' = [flushing EXCEPT ![c] = FALSE]
            /\ requests' = [requests EXCEPT ![c] = @ \ {r}]
            /\ UNCHANGED <<queue, timer>>
  /\ UNCHANGED emitted

\* The server has taken the events of a request.
Handled(c, r) ==
  /\ r \in requests[c] /\ ~r.handled
  /\ requests' = [requests EXCEPT ![c] = (@ \ {r}) \cup {[r EXCEPT !.handled = TRUE]}]
  /\ UNCHANGED <<queue, timer, flushing, awaiting, emitted>>

-----------------------------------------------------------------------------
(* Properties                                                              *)

\* What is queued is never forgotten: a timer or the end of a send will take
\* it, although flush() clears the timer before it knows whether it may send.
QueueIsWatched ==
  \A c \in Clients : queue[c] # <<>> => timer[c] \/ flushing[c]

\* A flush() that sends returns when everything emitted until then has been
\* taken or given up: nothing is queued, and nothing is on its way.
DrainingFlushDelivers ==
  [][\A c \in Clients :
       awaiting[c] = "sends" /\ awaiting'[c] = "none"
         => queue'[c] = <<>> /\ requests'[c] = {}]_clientVars

=============================================================================
