----------------------- MODULE DashboardSessionProofs -----------------------
(***************************************************************************)
(* Theorems about a DashboardSession, for any number of events and runs:   *)
(* its reports are independent, its final report is complete, its live     *)
(* page is in order.  The lemmas speak of events of any set E, so that a   *)
(* module with clients of its own can use them for its session.            *)
(***************************************************************************)
EXTENDS DashboardSession, SequenceTheorems, WellFoundedInduction, TLAPS

\* A log of events of some set: its runs are numbered in order, it has a job for
\* each run that is over, and the present run begins where it says.
LogType(events) ==
  [events : Seq(events), runStart : Nat, runCount : Nat, runActive : BOOLEAN,
   jobs : Seq([run : Nat, events : SUBSET Nat])]

HoldsIn(l, i, type) == i \in DOMAIN l.events /\ l.events[i].type = type

Marks(l, i) == HoldsIn(l, i, "run.started") \/ HoldsIn(l, i, "run.finished")

\* These places have the start and the end of one run.
OfOneRun(l, places) ==
  \E first, last \in places :
    /\ first < last /\ HoldsIn(l, first, "run.started") /\ HoldsIn(l, last, "run.finished")
    /\ \A i \in places \ {first, last} : ~ Marks(l, i)

JobsInv(l) ==
  /\ l.runCount = IF l.runActive THEN Len(l.jobs) + 1 ELSE Len(l.jobs)
  /\ \A k \in 1 .. Len(l.jobs) :
       /\ l.jobs[k].run = k
       /\ l.jobs[k].events \subseteq 1 .. Len(l.events)
       /\ OfOneRun(l, l.jobs[k].events)
  /\ \A j, k \in 1 .. Len(l.jobs) : j < k =>
       \A i \in l.jobs[j].events \cap l.jobs[k].events : HoldsIn(l, i, "shared")

RunInv(l) ==
  l.runActive =>
    /\ HoldsIn(l, l.runStart + 1, "run.started")
    /\ \A i \in DOMAIN l.events : i > l.runStart + 1 => ~ Marks(l, i)
    /\ \A k \in 1 .. Len(l.jobs) : l.jobs[k].events \subseteq 1 .. l.runStart

LogInv(l, events) == l \in LogType(events) /\ JobsInv(l) /\ RunInv(l)

\* A later log has the earlier one's events and jobs, where they were.
Extends(m, l) ==
  /\ Len(l.events) <= Len(m.events) /\ \A i \in 1 .. Len(l.events) : m.events[i] = l.events[i]
  /\ Len(l.jobs) <= Len(m.jobs) /\ \A k \in 1 .. Len(l.jobs) : m.jobs[k] = l.jobs[k]

-----------------------------------------------------------------------------
(* Lemmas on the loop that takes a batch                                   *)

\* Induction over the natural numbers, with a set for the predicate: a least
\* counterexample has a predecessor that is none.
LEMMA InductionOnNat ==
  ASSUME NEW S, 0 \in S, \A n \in Nat : n \in S => n + 1 \in S
  PROVE  Nat \subseteq S
<1> SUFFICES ASSUME Nat \ S # {} PROVE FALSE
  OBVIOUS
<1>1. PICK least \in Nat \ S : \A n \in Nat \ S : <<n, least>> \notin OpToRel(<, Nat)
  BY NatLessThanWellFounded, WFMin
<1>2. least - 1 \in Nat /\ least - 1 \notin S
  OBVIOUS
<1>3. least - 1 < least /\ least \in Nat
  BY <1>2
<1>4. <<least - 1, least>> \in OpToRel(<, Nat)
  BY <1>2, <1>3 DEF OpToRel
<1> QED BY <1>1, <1>2, <1>4

\* The loop over a batch: the log after each of its entries.
LEMMA BatchSteps ==
  ASSUME NEW l, NEW batch, Len(batch) \in Nat
  PROVE  \E after :
           /\ after[0] = l /\ after[Len(batch)] = AcceptBatch(l, batch)
           /\ \A n \in 1 .. Len(batch) :
                after[n] = IF Parses(batch[n]) THEN Accept(after[n - 1], batch[n])
                           ELSE after[n - 1]
<1> DEFINE N == Len(batch)
           next(m, n) == IF Parses(batch[n]) THEN Accept(m, batch[n]) ELSE m
           loop(f, k) == f = [n \in 0 .. k |-> IF n = 0 THEN l ELSE next(f[n - 1], n)]
           good == {k \in Nat : \E f : loop(f, k)}
<1> HIDE DEF next
<1>1. 0 \in good
  <2>1. loop([n \in 0 .. 0 |-> l], 0)
    OBVIOUS
  <2> QED BY <2>1
<1>2. ASSUME NEW k \in Nat, k \in good PROVE k + 1 \in good
  <2>1. PICK f : loop(f, k)
    BY <1>2
  <2> DEFINE g == [n \in 0 .. k + 1 |-> IF n = k + 1 THEN next(f[k], k + 1) ELSE f[n]]
  <2>2. DOMAIN f = 0 .. k /\ DOMAIN g = 0 .. k + 1
    BY <2>1
  <2>3. \A n \in 0 .. k + 1 : g[n] = IF n = 0 THEN l ELSE next(g[n - 1], n)
    BY <2>1, <2>2
  <2>4. g = [n \in 0 .. k + 1 |-> g[n]]
    OBVIOUS
  <2> HIDE DEF g
  <2>5. [n \in 0 .. k + 1 |-> g[n]]
          = [n \in 0 .. k + 1 |-> IF n = 0 THEN l ELSE next(g[n - 1], n)]
    BY <2>3, Zenon
  <2>6. loop(g, k + 1)
    BY <2>4, <2>5
  <2> QED BY <2>6
<1>3. N \in good
  <2> HIDE DEF good
  <2>1. Nat \subseteq good
    BY <1>1, <1>2, InductionOnNat
  <2> QED BY <2>1
<1>4. \E f : loop(f, N)
  BY <1>3
<1> DEFINE after == CHOOSE f : loop(f, N)
<1>5. loop(after, N)
  BY <1>4
<1>6. AcceptBatch(l, batch) = after[N]
  BY DEF AcceptBatch, next
<1> HIDE DEF after
<1>7. /\ after[0] = l /\ after[N] = AcceptBatch(l, batch)
      /\ \A n \in 1 .. N : after[n] = next(after[n - 1], n)
  BY <1>5, <1>6
<1> QED BY <1>7 DEF next
-----------------------------------------------------------------------------
(* What emit() does to a log                                               *)

LEMMA ExtendsIsTransitive ==
  ASSUME NEW E, NEW l \in LogType(E), NEW m \in LogType(E), NEW n \in LogType(E),
         Extends(m, l), Extends(n, m)
  PROVE  Extends(n, l)
<1>1. /\ {Len(l.events), Len(m.events), Len(n.events)} \subseteq Nat
      /\ {Len(l.jobs), Len(m.jobs), Len(n.jobs)} \subseteq Nat
  BY DEF LogType
<1> QED BY <1>1 DEF Extends

\* An event that is accepted is appended, and tells what became of the run.
LEMMA AcceptEffect ==
  ASSUME NEW E, NEW l \in LogType(E), NEW e \in E
  PROVE  LET m == Accept(l, e) IN
         \/ Drops(l, e) /\ m = l
         \/ /\ ~ Drops(l, e) /\ m \in LogType(E) /\ m.events = Append(l.events, e)
            /\ \/ /\ e.type = "run.started" /\ ~ l.runActive
                  /\ m.runStart = Len(l.events) /\ m.runCount = l.runCount + 1
                  /\ m.runActive = TRUE /\ m.jobs = l.jobs
               \/ /\ e.type = "run.finished" /\ l.runActive
                  /\ m.runStart = l.runStart /\ m.runCount = l.runCount
                  /\ m.runActive = FALSE
                  /\ m.jobs = Append(l.jobs, [run |-> l.runCount,
                                             events |-> RunEvents(m.events, l.runStart)])
               \/ /\ e.type \notin {"run.started", "run.finished"}
                  /\ m.runStart = l.runStart /\ m.runCount = l.runCount
                  /\ m.runActive = l.runActive /\ m.jobs = l.jobs
<1> DEFINE events == Append(l.events, e)
           job == [run |-> l.runCount, events |-> RunEvents(events, l.runStart)]
<1>1. /\ l.events \in Seq(E) /\ l.runStart \in Nat /\ l.runCount \in Nat
      /\ l.runActive \in BOOLEAN /\ l.jobs \in Seq([run : Nat, events : SUBSET Nat])
      /\ Len(l.events) \in Nat
  BY DEF LogType
<1>2. events \in Seq(E)
  BY <1>1
<1>3. job \in [run : Nat, events : SUBSET Nat]
  <2>1. DOMAIN events \subseteq Nat
    BY <1>2, LenProperties
  <2> QED BY <1>1, <2>1 DEF RunEvents
<1> HIDE DEF events, job
<1>4. Append(l.jobs, job) \in Seq([run : Nat, events : SUBSET Nat])
  BY <1>1, <1>3
<1>5. CASE Drops(l, e)
  BY <1>5 DEF Accept
<1>6. CASE ~ Drops(l, e) /\ e.type = "run.started"
  <2>1. Accept(l, e) = [l EXCEPT !.events = events, !.runStart = Len(l.events),
                                 !.runCount = @ + 1, !.runActive = TRUE]
    BY <1>6 DEF Accept, events
  <2>2. ~ l.runActive
    BY <1>6 DEF Drops
  <2>3. l.runCount + 1 \in Nat
    BY <1>1
  <2>4. Accept(l, e) \in LogType(E)
    BY <1>1, <1>2, <2>1, <2>3 DEF LogType
  <2>5. /\ Accept(l, e).events = events /\ Accept(l, e).runStart = Len(l.events)
        /\ Accept(l, e).runCount = l.runCount + 1 /\ Accept(l, e).runActive = TRUE
        /\ Accept(l, e).jobs = l.jobs
    BY <2>1 DEF LogType
  <2> QED BY <1>6, <2>2, <2>4, <2>5 DEF events
<1>7. CASE ~ Drops(l, e) /\ e.type = "run.finished"
  <2>1. Accept(l, e) = [l EXCEPT !.events = events, !.runActive = FALSE, !.jobs = Append(@, job)]
    BY <1>7 DEF Accept, events, job
  <2> QED BY <1>1, <1>2, <1>4, <1>7, <2>1 DEF LogType, Drops, events, job
<1>8. CASE ~ Drops(l, e) /\ e.type \notin {"run.started", "run.finished"}
  <2>1. Accept(l, e) = [l EXCEPT !.events = events]
    BY <1>8 DEF Accept, events
  <2> QED BY <1>1, <1>2, <1>8, <2>1 DEF LogType, events
<1> QED BY <1>5, <1>6, <1>7, <1>8

\* What was in the log stays where it was, and the new event is after it.
Appended(m, l, e) ==
  /\ Len(l.events) \in Nat /\ Len(m.events) = Len(l.events) + 1
  /\ DOMAIN l.events = 1 .. Len(l.events) /\ DOMAIN m.events = 1 .. Len(l.events) + 1
  /\ \A i \in 1 .. Len(l.events) : m.events[i] = l.events[i]
  /\ m.events[Len(l.events) + 1] = e
  /\ \A i \in 1 .. Len(l.events) : \A t : HoldsIn(m, i, t) <=> HoldsIn(l, i, t)
  /\ \A t : HoldsIn(m, Len(l.events) + 1, t) <=> e.type = t
  /\ \A places \in SUBSET (1 .. Len(l.events)) : OfOneRun(l, places) => OfOneRun(m, places)

LEMMA AppendKeepsPlaces ==
  ASSUME NEW E, NEW l \in LogType(E), NEW m \in LogType(E), NEW e \in E,
         m.events = Append(l.events, e)
  PROVE  Appended(m, l, e)
<1>1. l.events \in Seq(E) /\ m.events \in Seq(E)
  BY DEF LogType
<1>2. /\ Len(l.events) \in Nat /\ Len(m.events) = Len(l.events) + 1
      /\ DOMAIN l.events = 1 .. Len(l.events) /\ DOMAIN m.events = 1 .. Len(l.events) + 1
      /\ \A i \in 1 .. Len(l.events) : m.events[i] = l.events[i]
      /\ m.events[Len(l.events) + 1] = e
  BY <1>1, AppendProperties, LenProperties
<1>3. /\ \A i \in 1 .. Len(l.events) : \A t : HoldsIn(m, i, t) <=> HoldsIn(l, i, t)
      /\ \A t : HoldsIn(m, Len(l.events) + 1, t) <=> e.type = t
  BY <1>2 DEF HoldsIn
<1>4. ASSUME NEW places \in SUBSET (1 .. Len(l.events)), OfOneRun(l, places)
      PROVE  OfOneRun(m, places)
  BY <1>3, <1>4 DEF OfOneRun, Marks
<1> QED BY <1>2, <1>3, <1>4 DEF Appended

\* The start of a run: no job has a place of it.
LEMMA RunStarts ==
  ASSUME NEW E, NEW l, NEW m \in LogType(E), NEW e \in E, LogInv(l, E), ~ l.runActive,
         m.events = Append(l.events, e), e.type = "run.started",
         m.runStart = Len(l.events), m.runCount = l.runCount + 1, m.runActive = TRUE,
         m.jobs = l.jobs
  PROVE  LogInv(m, E)
<1>1. l \in LogType(E) /\ JobsInv(l)
  BY DEF LogInv
<1> DEFINE n == Len(l.events)
<1>2. /\ n \in Nat /\ Len(m.events) = n + 1 /\ DOMAIN m.events = 1 .. n + 1
      /\ \A i \in 1 .. n : \A t : HoldsIn(m, i, t) <=> HoldsIn(l, i, t)
      /\ HoldsIn(m, n + 1, "run.started")
      /\ \A places \in SUBSET (1 .. n) : OfOneRun(l, places) => OfOneRun(m, places)
  <2>1. Appended(m, l, e)
    BY <1>1, AppendKeepsPlaces
  <2> QED BY <2>1 DEF Appended
<1> HIDE DEF n
<1>3. \A k \in 1 .. Len(l.jobs) : l.jobs[k].events \subseteq 1 .. n
  BY <1>1 DEF JobsInv, n
<1>4. 1 .. n \subseteq 1 .. n + 1
  BY <1>2
<1>5. JobsInv(m)
  <2>1. m.runCount = IF m.runActive THEN Len(m.jobs) + 1 ELSE Len(m.jobs)
    BY <1>1 DEF JobsInv
  <2>2. ASSUME NEW k \in 1 .. Len(m.jobs)
        PROVE  /\ m.jobs[k].run = k /\ m.jobs[k].events \subseteq 1 .. Len(m.events)
               /\ OfOneRun(m, m.jobs[k].events)
    BY <1>1, <1>2, <1>3, <1>4 DEF JobsInv
  <2>3. ASSUME NEW j \in 1 .. Len(m.jobs), NEW k \in 1 .. Len(m.jobs), j < k,
               NEW i \in m.jobs[j].events \cap m.jobs[k].events
        PROVE  HoldsIn(m, i, "shared")
    BY <1>1, <1>2, <1>3, <2>3 DEF JobsInv
  <2> QED BY <2>1, <2>2, <2>3 DEF JobsInv
<1>6. RunInv(m)
  BY <1>2, <1>3 DEF RunInv, n
<1> QED BY <1>5, <1>6 DEF LogInv

\* The end of a run: its job has the places since its start, and shared ones.
LEMMA RunEnds ==
  ASSUME NEW E, NEW l, NEW m \in LogType(E), NEW e \in E, LogInv(l, E), l.runActive,
         m.events = Append(l.events, e), e.type = "run.finished",
         m.runStart = l.runStart, m.runCount = l.runCount, m.runActive = FALSE,
         m.jobs = Append(l.jobs, [run |-> l.runCount, events |-> RunEvents(m.events, l.runStart)])
  PROVE  LogInv(m, E)
<1>1. l \in LogType(E) /\ JobsInv(l) /\ RunInv(l)
  BY DEF LogInv
<1> DEFINE n == Len(l.events)
           job == [run |-> l.runCount, events |-> RunEvents(m.events, l.runStart)]
           start == l.runStart + 1
<1>2. /\ n \in Nat /\ Len(m.events) = n + 1 /\ DOMAIN m.events = 1 .. n + 1
      /\ \A i \in 1 .. n : \A t : HoldsIn(m, i, t) <=> HoldsIn(l, i, t)
      /\ \A t : HoldsIn(m, n + 1, t) <=> t = "run.finished"
      /\ \A places \in SUBSET (1 .. n) : OfOneRun(l, places) => OfOneRun(m, places)
      /\ DOMAIN l.events = 1 .. n
  <2>1. Appended(m, l, e)
    BY <1>1, AppendKeepsPlaces
  <2> QED BY <2>1 DEF Appended
<1> HIDE DEF n
<1>3. l.runStart \in Nat /\ l.runCount \in Nat /\ l.jobs \in Seq([run : Nat, events : SUBSET Nat])
  BY <1>1 DEF LogType
<1>4. /\ start \in 1 .. n /\ HoldsIn(l, start, "run.started")
      /\ \A i \in 1 .. n : i > start => ~ Marks(l, i)
      /\ \A k \in 1 .. Len(l.jobs) : l.jobs[k].events \subseteq 1 .. l.runStart
  BY <1>1, <1>2, <1>3 DEF RunInv, HoldsIn
<1>5. /\ job.run = l.runCount
      /\ job.events = {i \in 1 .. n + 1 : i > l.runStart \/ HoldsIn(m, i, "shared")}
  BY <1>2 DEF RunEvents, HoldsIn
<1> HIDE DEF job
<1>6. job \in [run : Nat, events : SUBSET Nat]
  <2>1. job = [run |-> l.runCount, events |-> RunEvents(m.events, l.runStart)]
    BY DEF job
  <2>2. RunEvents(m.events, l.runStart) \subseteq Nat
    BY <1>2 DEF RunEvents
  <2> QED BY <1>3, <2>1, <2>2
<1>7. /\ Len(l.jobs) \in Nat /\ Len(m.jobs) = Len(l.jobs) + 1
      /\ \A k \in 1 .. Len(l.jobs) : m.jobs[k] = l.jobs[k]
      /\ m.jobs[Len(l.jobs) + 1] = job
  <2>1. m.jobs = Append(l.jobs, job)
    BY DEF job
  <2> QED BY <1>3, <1>6, <2>1, AppendProperties, LenProperties
<1>8. OfOneRun(m, job.events)
  <2>1. start \in job.events /\ n + 1 \in job.events /\ start < n + 1
    BY <1>2, <1>3, <1>4, <1>5
  <2>2. HoldsIn(m, start, "run.started") /\ HoldsIn(m, n + 1, "run.finished")
    BY <1>2, <1>4
  <2>3. ASSUME NEW i \in job.events \ {start, n + 1} PROVE ~ Marks(m, i)
    <3>1. CASE i > start
      BY <1>2, <1>4, <1>5, <2>3, <3>1 DEF Marks
    <3>2. CASE ~ (i > start)
      <4>1. HoldsIn(m, i, "shared")
        BY <1>2, <1>3, <1>5, <2>3, <3>2
      <4> QED BY <4>1 DEF HoldsIn, Marks
    <3> QED BY <3>1, <3>2
  <2> QED BY <2>1, <2>2, <2>3 DEF OfOneRun
<1>9. JobsInv(m)
  <2>1. m.runCount = IF m.runActive THEN Len(m.jobs) + 1 ELSE Len(m.jobs)
    BY <1>1, <1>7 DEF JobsInv
  <2>2. ASSUME NEW k \in 1 .. Len(m.jobs)
        PROVE  /\ m.jobs[k].run = k /\ m.jobs[k].events \subseteq 1 .. Len(m.events)
               /\ OfOneRun(m, m.jobs[k].events)
    <3>1. CASE k = Len(l.jobs) + 1
      BY <1>1, <1>2, <1>5, <1>7, <1>8, <3>1 DEF JobsInv
    <3>2. CASE k \in 1 .. Len(l.jobs)
      <4>1. m.jobs[k] = l.jobs[k] /\ l.jobs[k].run = k /\ OfOneRun(l, l.jobs[k].events)
            /\ l.jobs[k].events \subseteq 1 .. n
        BY <1>1, <1>7, <3>2 DEF JobsInv, n
      <4> QED BY <1>2, <4>1
    <3> QED BY <1>7, <3>1, <3>2
  <2>3. ASSUME NEW j \in 1 .. Len(m.jobs), NEW k \in 1 .. Len(m.jobs), j < k,
               NEW i \in m.jobs[j].events \cap m.jobs[k].events
        PROVE  HoldsIn(m, i, "shared")
    <3>1. j \in 1 .. Len(l.jobs) /\ m.jobs[j] = l.jobs[j] /\ i \in 1 .. l.runStart
      BY <1>4, <1>7, <2>3
    <3>2. CASE k = Len(l.jobs) + 1
      BY <1>3, <1>5, <1>7, <3>1, <3>2
    <3>3. CASE k \in 1 .. Len(l.jobs)
      <4>1. HoldsIn(l, i, "shared")
        BY <1>1, <1>7, <2>3, <3>1, <3>3 DEF JobsInv
      <4>2. i \in 1 .. n
        BY <4>1, <1>2 DEF HoldsIn
      <4> QED BY <1>2, <4>1, <4>2
    <3> QED BY <1>7, <3>2, <3>3
  <2> QED BY <2>1, <2>2, <2>3 DEF JobsInv
<1> QED BY <1>9 DEF LogInv, RunInv

LEMMA OtherEvent ==
  ASSUME NEW E, NEW l, NEW m \in LogType(E), NEW e \in E, LogInv(l, E),
         m.events = Append(l.events, e), e.type \notin {"run.started", "run.finished"},
         m.runStart = l.runStart, m.runCount = l.runCount, m.runActive = l.runActive,
         m.jobs = l.jobs
  PROVE  LogInv(m, E)
<1>1. l \in LogType(E) /\ JobsInv(l) /\ RunInv(l)
  BY DEF LogInv
<1> DEFINE n == Len(l.events)
<1>2. /\ n \in Nat /\ Len(m.events) = n + 1 /\ DOMAIN m.events = 1 .. n + 1
      /\ \A i \in 1 .. n : \A t : HoldsIn(m, i, t) <=> HoldsIn(l, i, t)
      /\ \A t : HoldsIn(m, n + 1, t) <=> e.type = t
      /\ \A places \in SUBSET (1 .. n) : OfOneRun(l, places) => OfOneRun(m, places)
      /\ DOMAIN l.events = 1 .. n
  <2>1. Appended(m, l, e)
    BY <1>1, AppendKeepsPlaces
  <2> QED BY <2>1 DEF Appended
<1> HIDE DEF n
<1>3. \A k \in 1 .. Len(l.jobs) : l.jobs[k].events \subseteq 1 .. n
  BY <1>1 DEF JobsInv, n
<1>4. JobsInv(m)
  <2>1. m.runCount = IF m.runActive THEN Len(m.jobs) + 1 ELSE Len(m.jobs)
    BY <1>1 DEF JobsInv
  <2>2. ASSUME NEW k \in 1 .. Len(m.jobs)
        PROVE  /\ m.jobs[k].run = k /\ m.jobs[k].events \subseteq 1 .. Len(m.events)
               /\ OfOneRun(m, m.jobs[k].events)
    <3>1. 1 .. n \subseteq 1 .. n + 1
      BY <1>2
    <3> QED BY <1>1, <1>2, <1>3, <3>1 DEF JobsInv
  <2>3. ASSUME NEW j \in 1 .. Len(m.jobs), NEW k \in 1 .. Len(m.jobs), j < k,
               NEW i \in m.jobs[j].events \cap m.jobs[k].events
        PROVE  HoldsIn(m, i, "shared")
    BY <1>1, <1>2, <1>3, <2>3 DEF JobsInv
  <2> QED BY <2>1, <2>2, <2>3 DEF JobsInv
<1>5. RunInv(m)
  <2> SUFFICES ASSUME l.runActive PROVE RunInv(m)
    BY DEF RunInv
  <2>1. HoldsIn(m, l.runStart + 1, "run.started")
    BY <1>1, <1>2 DEF RunInv, HoldsIn
  <2>2. ASSUME NEW i \in DOMAIN m.events, i > l.runStart + 1 PROVE ~ Marks(m, i)
    <3>1. CASE i = n + 1
      BY <1>2, <3>1 DEF Marks
    <3>2. CASE i \in 1 .. n
      BY <1>1, <1>2, <2>2, <3>2 DEF Marks, RunInv
    <3> QED BY <1>2, <3>1, <3>2
  <2> QED BY <1>1, <2>1, <2>2 DEF RunInv
<1> QED BY <1>4, <1>5 DEF LogInv

LEMMA AcceptKeeps ==
  ASSUME NEW E, NEW l, NEW e \in E, LogInv(l, E)
  PROVE  LogInv(Accept(l, e), E) /\ Extends(Accept(l, e), l)
<1> DEFINE m == Accept(l, e)
<1>1. l \in LogType(E) /\ Len(l.events) \in Nat /\ Len(l.jobs) \in Nat
  BY DEF LogInv, LogType
<1>2. Extends(l, l)
  BY <1>1 DEF Extends
<1>3. CASE Drops(l, e)
  BY <1>1, <1>2, <1>3 DEF Accept
<1>4. CASE ~ Drops(l, e)
  <2>1. /\ m \in LogType(E) /\ m.events = Append(l.events, e)
        /\ \/ /\ e.type = "run.started" /\ ~ l.runActive
              /\ m.runStart = Len(l.events) /\ m.runCount = l.runCount + 1
              /\ m.runActive = TRUE /\ m.jobs = l.jobs
           \/ /\ e.type = "run.finished" /\ l.runActive
              /\ m.runStart = l.runStart /\ m.runCount = l.runCount
              /\ m.runActive = FALSE
              /\ m.jobs = Append(l.jobs, [run |-> l.runCount,
                                         events |-> RunEvents(m.events, l.runStart)])
           \/ /\ e.type \notin {"run.started", "run.finished"}
              /\ m.runStart = l.runStart /\ m.runCount = l.runCount
              /\ m.runActive = l.runActive /\ m.jobs = l.jobs
    BY <1>1, <1>4, AcceptEffect
  <2> HIDE DEF m
  <2>2. LogInv(m, E)
    BY <2>1, RunStarts, RunEnds, OtherEvent
  <2>3. /\ Len(m.events) = Len(l.events) + 1
        /\ \A i \in 1 .. Len(l.events) : m.events[i] = l.events[i]
    <3>1. Appended(m, l, e)
      BY <1>1, <2>1, AppendKeepsPlaces
    <3> QED BY <3>1 DEF Appended
  <2>4. Len(l.jobs) <= Len(m.jobs) /\ \A k \in 1 .. Len(l.jobs) : m.jobs[k] = l.jobs[k]
    <3>1. CASE m.jobs = l.jobs
      BY <1>1, <3>1
    <3>2. CASE m.jobs = Append(l.jobs, [run |-> l.runCount, events |-> RunEvents(m.events, l.runStart)])
      <4> DEFINE job == [run |-> l.runCount, events |-> RunEvents(m.events, l.runStart)]
      <4>1. job \in [run : Nat, events : SUBSET Nat]
        BY <1>1, <2>1 DEF LogType, RunEvents
      <4>2. m.jobs = Append(l.jobs, job) /\ l.jobs \in Seq([run : Nat, events : SUBSET Nat])
        BY <1>1, <3>2 DEF LogType
      <4> HIDE DEF job
      <4> QED BY <1>1, <4>1, <4>2, AppendProperties
    <3> QED BY <2>1, <3>1, <3>2
  <2> QED BY <1>1, <2>2, <2>3, <2>4 DEF Extends, m
<1> QED BY <1>3, <1>4

\* The loop over a batch: so do its entries, one after the other.
LEMMA LoopKeeps ==
  ASSUME NEW E, NEW l, NEW batch, NEW N \in Nat, NEW after, LogInv(l, E),
         \A n \in 1 .. N : batch[n] \in E,
         after[0] = l,
         \A n \in 1 .. N : after[n] = IF Parses(batch[n]) THEN Accept(after[n - 1], batch[n])
                                      ELSE after[n - 1]
  PROVE  \A n \in 0 .. N : LogInv(after[n], E) /\ Extends(after[n], l)
<1> DEFINE good == {n \in Nat : n <= N => LogInv(after[n], E) /\ Extends(after[n], l)}
<1>1. Extends(l, l)
  BY DEF Extends, LogInv, LogType
<1>2. 0 \in good
  BY <1>1
<1>3. ASSUME NEW n \in Nat, n \in good PROVE n + 1 \in good
  <2> SUFFICES ASSUME n + 1 <= N PROVE LogInv(after[n + 1], E) /\ Extends(after[n + 1], l)
    OBVIOUS
  <2>1. LogInv(after[n], E) /\ Extends(after[n], l)
    BY <1>3
  <2>2. n + 1 \in 1 .. N /\ batch[n + 1] \in E
    OBVIOUS
  <2>3. after[n + 1] = IF Parses(batch[n + 1]) THEN Accept(after[n], batch[n + 1]) ELSE after[n]
    BY <2>2
  <2>4. CASE ~ Parses(batch[n + 1])
    BY <2>1, <2>3, <2>4
  <2>5. CASE Parses(batch[n + 1])
    <3>1. LogInv(after[n + 1], E) /\ Extends(after[n + 1], after[n])
      BY <2>1, <2>2, <2>3, <2>5, AcceptKeeps
    <3>2. l \in LogType(E) /\ after[n] \in LogType(E) /\ after[n + 1] \in LogType(E)
      BY <2>1, <3>1 DEF LogInv
    <3> QED BY <2>1, <3>1, <3>2, ExtendsIsTransitive
  <2> QED BY <2>4, <2>5
<1>4. Nat \subseteq good
  <2> HIDE DEF good
  <2> QED BY <1>2, <1>3, InductionOnNat
<1> QED BY <1>4

\* And so does the whole batch.
LEMMA BatchKeeps ==
  ASSUME NEW E, NEW l, NEW batch \in Seq(E), LogInv(l, E)
  PROVE  LogInv(AcceptBatch(l, batch), E) /\ Extends(AcceptBatch(l, batch), l)
<1> DEFINE N == Len(batch)
<1>1. N \in Nat /\ \A n \in 1 .. N : batch[n] \in E
  BY LenProperties, ElementOfSeq
<1>2. PICK after :
        /\ after[0] = l /\ after[N] = AcceptBatch(l, batch)
        /\ \A n \in 1 .. N :
             after[n] = IF Parses(batch[n]) THEN Accept(after[n - 1], batch[n])
                        ELSE after[n - 1]
  BY <1>1, BatchSteps
<1>3. \A n \in 0 .. N : LogInv(after[n], E) /\ Extends(after[n], l)
  BY <1>1, <1>2, LoopKeeps
<1> QED BY <1>1, <1>2, <1>3

\* What is new in a log after n entries of a batch is entries of it, in their
\* order; and it has all of them that are neither malformed nor a run's marker.
New(m, l) == Len(l.events) + 1 .. Len(m.events)

Chosen(from, m, l, batch) ==
  /\ \A i \in New(m, l) : m.events[i] = batch[from[i]]
  /\ \A i, j \in New(m, l) : i < j => from[i] < from[j]

Taken(m, l, batch, n) ==
  /\ \E from \in [New(m, l) -> 1 .. n] : Chosen(from, m, l, batch)
  /\ \A k \in 1 .. n :
       Parses(batch[k]) /\ batch[k].type \notin {"run.started", "run.finished"}
         => \E i \in 1 .. Len(m.events) : m.events[i] = batch[k]

LEMMA TakesNext ==
  ASSUME NEW E, NEW l \in LogType(E), NEW m \in LogType(E), NEW p, NEW batch, NEW n \in Nat,
         Len(l.events) <= Len(m.events), Taken(m, l, batch, n), batch[n + 1] \in E,
         p = IF Parses(batch[n + 1]) THEN Accept(m, batch[n + 1]) ELSE m
  PROVE  Taken(p, l, batch, n + 1)
<1> DEFINE e == batch[n + 1]
           L == Len(l.events)
           M == Len(m.events)
<1>1. L \in Nat /\ M \in Nat /\ L <= M
  BY DEF LogType
<1>2. PICK from \in [L + 1 .. M -> 1 .. n] :
        /\ \A i \in L + 1 .. M : m.events[i] = batch[from[i]]
        /\ \A i, j \in L + 1 .. M : i < j => from[i] < from[j]
  BY DEF Taken, Chosen, New
<1>3. \A k \in 1 .. n :
        Parses(batch[k]) /\ batch[k].type \notin {"run.started", "run.finished"}
          => \E i \in 1 .. M : m.events[i] = batch[k]
  BY DEF Taken
<1>4. CASE p = m /\ (Parses(e) => e.type \in {"run.started", "run.finished"})
  <2>1. from \in [L + 1 .. M -> 1 .. n + 1]
    BY <1>1, <1>2
  <2>2. \A k \in 1 .. n + 1 : k \in 1 .. n \/ k = n + 1
    BY <1>1
  <2> HIDE DEF L, M
  <2>3. \A k \in 1 .. n + 1 :
          Parses(batch[k]) /\ batch[k].type \notin {"run.started", "run.finished"}
            => \E i \in 1 .. M : m.events[i] = batch[k]
    BY <1>3, <1>4, <2>2
  <2>4. New(p, l) = L + 1 .. M /\ Len(p.events) = M
    BY <1>4 DEF New, L, M
  <2>5. from \in [New(p, l) -> 1 .. n + 1] /\ Chosen(from, p, l, batch)
    BY <1>2, <1>4, <2>1, <2>4 DEF Chosen
  <2> QED BY <2>3, <2>4, <2>5, <1>4 DEF Taken
<1>5. CASE p \in LogType(E) /\ p.events = Append(m.events, e)
  <2>1. /\ Len(p.events) = M + 1 /\ p.events[M + 1] = e
        /\ \A i \in 1 .. M : p.events[i] = m.events[i]
    <3>1. Appended(p, m, e)
      BY <1>5, AppendKeepsPlaces
    <3> QED BY <3>1 DEF Appended
  <2> HIDE DEF L, M, e
  <2> DEFINE to == [i \in L + 1 .. M + 1 |-> IF i = M + 1 THEN n + 1 ELSE from[i]]
  <2>2. to \in [L + 1 .. M + 1 -> 1 .. n + 1]
    BY <1>1, <1>2
  <2>3. \A i \in L + 1 .. M + 1 : p.events[i] = batch[to[i]]
    BY <1>1, <1>2, <2>1 DEF e
  <2>4. \A i, j \in L + 1 .. M + 1 : i < j => to[i] < to[j]
    BY <1>1, <1>2
  <2>5. ASSUME NEW k \in 1 .. n + 1, Parses(batch[k]),
               batch[k].type \notin {"run.started", "run.finished"}
        PROVE  \E i \in 1 .. M + 1 : p.events[i] = batch[k]
    <3>1. CASE k = n + 1
      BY <1>1, <2>1, <3>1 DEF e
    <3>2. CASE k \in 1 .. n
      <4>1. PICK i \in 1 .. M : m.events[i] = batch[k]
        BY <1>3, <2>5, <3>2
      <4> QED BY <1>1, <2>1, <4>1
    <3> QED BY <3>1, <3>2
  <2> HIDE DEF to
  <2>6. New(p, l) = L + 1 .. M + 1
    BY <2>1 DEF New, L
  <2>7. to \in [New(p, l) -> 1 .. n + 1] /\ Chosen(to, p, l, batch)
    BY <2>2, <2>3, <2>4, <2>6 DEF Chosen
  <2> QED BY <2>1, <2>5, <2>7 DEF Taken
<1>6. CASE Parses(e)
  <2>1. \/ Drops(m, e) /\ p = m
        \/ p \in LogType(E) /\ p.events = Append(m.events, e)
    <3> DEFINE a == Accept(m, e)
    <3>1. p = a
      BY <1>6
    <3>2. e \in E
      OBVIOUS
    <3> HIDE DEF e
    <3>3. (Drops(m, e) /\ a = m) \/ (a \in LogType(E) /\ a.events = Append(m.events, e))
      <4>1. CASE Drops(m, e)
        BY <4>1 DEF Accept
      <4>2. CASE ~ Drops(m, e)
        <5>1. a \in LogType(E) /\ a.events = Append(m.events, e)
          BY <3>2, <4>2, AcceptEffect, Zenon
        <5> QED BY <5>1
      <4> QED BY <4>1, <4>2
    <3> QED BY <3>1, <3>3
  <2>2. Drops(m, e) => e.type \in {"run.started", "run.finished"}
    BY DEF Drops
  <2> QED BY <1>4, <1>5, <2>1, <2>2
<1>7. CASE ~ Parses(e)
  BY <1>4, <1>7
<1> QED BY <1>6, <1>7

\* So is a log after a whole batch.
LEMMA BatchIsTaken ==
  ASSUME NEW E, NEW l, NEW batch \in Seq(E), LogInv(l, E)
  PROVE  Taken(AcceptBatch(l, batch), l, batch, Len(batch))
<1> DEFINE N == Len(batch)
<1>1. N \in Nat /\ \A n \in 1 .. N : batch[n] \in E
  BY LenProperties, ElementOfSeq
<1>2. PICK after :
        /\ after[0] = l /\ after[N] = AcceptBatch(l, batch)
        /\ \A n \in 1 .. N :
             after[n] = IF Parses(batch[n]) THEN Accept(after[n - 1], batch[n])
                        ELSE after[n - 1]
  BY <1>1, BatchSteps
<1>3. \A n \in 0 .. N : LogInv(after[n], E) /\ Extends(after[n], l)
  BY <1>1, <1>2, LoopKeeps
<1> HIDE DEF N
<1> DEFINE good == {n \in Nat : n <= N => Taken(after[n], l, batch, n)}
<1>4. 0 \in good
  <2>1. Len(l.events) \in Nat
    BY DEF LogInv, LogType
  <2>2. New(l, l) = {}
    BY <2>1 DEF New
  <2> DEFINE none == [i \in {} |-> 0]
  <2>3. none \in [New(l, l) -> 1 .. 0] /\ Chosen(none, l, l, batch)
    BY <2>2 DEF Chosen
  <2> HIDE DEF none
  <2>4. Taken(l, l, batch, 0)
    BY <2>3 DEF Taken
  <2> QED BY <1>2, <2>4
<1>5. ASSUME NEW n \in Nat, n \in good PROVE n + 1 \in good
  <2> SUFFICES ASSUME n + 1 <= N PROVE Taken(after[n + 1], l, batch, n + 1)
    OBVIOUS
  <2>1. n \in 0 .. N /\ n + 1 \in 1 .. N /\ Taken(after[n], l, batch, n)
    BY <1>1, <1>5
  <2>2. after[n + 1] = IF Parses(batch[n + 1]) THEN Accept(after[n], batch[n + 1]) ELSE after[n]
    BY <1>2, <2>1
  <2>3. l \in LogType(E) /\ after[n] \in LogType(E) /\ Len(l.events) <= Len(after[n].events)
    BY <1>3, <2>1 DEF LogInv, Extends
  <2>4. batch[n + 1] \in E
    BY <1>1, <2>1
  <2> QED BY <2>1, <2>2, <2>3, <2>4, TakesNext
<1>6. Nat \subseteq good
  <2> HIDE DEF good
  <2> QED BY <1>4, <1>5, InductionOnNat
<1>7. Taken(after[N], l, batch, N)
  BY <1>1, <1>6
<1> QED BY <1>2, <1>7 DEF N

-----------------------------------------------------------------------------
(* The inductive invariant of the session                                  *)

\* The session's own events, which it logs whoever else posts what.
OwnEvents == {Event("dashboard", <<0>>), Event("run.started", <<0>>), Event("dashboard", <<1>>)}

\* The reports of runs are those the log has jobs for.
ReportsInv ==
  /\ settled \in 0 .. Len(log.jobs)
  /\ \A r \in reports : r.run # 0 => r.run \in 1 .. Len(log.jobs) /\ r = log.jobs[r.run]

\* The session's end is in the log, after all that the awaited reports show, and
\* the final report has what is before it.
FinalInv ==
  IF phase = "live"
    THEN \A r \in reports : r.run # 0
    ELSE /\ awaited \in 0 .. Len(log.jobs)
         /\ \E i \in DOMAIN log.events :
              /\ log.events[i] = Event("dashboard", <<1>>)
              /\ \A k \in 1 .. awaited : log.jobs[k].events \subseteq 1 .. i
              /\ \A r \in reports : r.run = 0 => 1 .. i \subseteq r.events

\* The events of a sequence are in the log, at places that increase.
Follows(events, l) ==
  \E place \in [DOMAIN events -> Nat] :
    /\ \A i \in DOMAIN events : place[i] \in 1 .. Len(l.events) /\ l.events[place[i]] = events[i]
    /\ \A i, j \in DOMAIN events : i < j => place[i] < place[j]

PageInv(E) == shown \in Seq(E) /\ Follows(shown, log)

SessionInv(E) == LogInv(log, E) /\ ReportsInv /\ FinalInv /\ PageInv(E)

-----------------------------------------------------------------------------
(* It implies the properties                                               *)

LEMMA RunsAreIndependent ==
  ASSUME NEW E, SessionInv(E) PROVE ReportsAreIndependent
<1>1. JobsInv(log) /\ ReportsInv
  BY DEF SessionInv, LogInv
<1>2. ASSUME NEW r \in RunReports
      PROVE  r.run \in 1 .. Len(log.jobs) /\ r = log.jobs[r.run]
  BY <1>1, <1>2 DEF ReportsInv, RunReports
<1>3. \A i, type : Holds(i, type) <=> HoldsIn(log, i, type)
  BY DEF Holds, HoldsIn
<1>4. ASSUME NEW r \in RunReports
      PROVE  \E first, last \in r.events :
               /\ first < last /\ Holds(first, "run.started") /\ Holds(last, "run.finished")
               /\ \A i \in r.events \ {first, last} :
                    ~ Holds(i, "run.started") /\ ~ Holds(i, "run.finished")
  <2>1. OfOneRun(log, r.events)
    BY <1>1, <1>2, <1>4 DEF JobsInv
  <2> QED BY <1>3, <2>1 DEF OfOneRun, Marks
<1>5. ASSUME NEW r \in RunReports, NEW s \in RunReports, r.run < s.run,
             NEW i \in r.events \cap s.events
      PROVE  Holds(i, "shared")
  <2>1. /\ r.run \in 1 .. Len(log.jobs) /\ s.run \in 1 .. Len(log.jobs)
        /\ r.events = log.jobs[r.run].events /\ s.events = log.jobs[s.run].events
    BY <1>2, <1>5
  <2> QED BY <1>1, <1>3, <1>5, <2>1 DEF JobsInv
<1> QED BY <1>4, <1>5 DEF ReportsAreIndependent

LEMMA FinalIsComplete ==
  ASSUME NEW E, SessionInv(E) PROVE FinalReportIsComplete
<1> SUFFICES ASSUME NEW r \in reports, r.run = 0
             PROVE  /\ \A s \in RunReports : s.run <= awaited => s.events \subseteq r.events
                    /\ \E i \in DOMAIN log.events :
                         log.events[i] = Event("dashboard", <<1>>) /\ 1 .. i \subseteq r.events
  BY DEF FinalReportIsComplete
<1>1. phase # "live"
  BY DEF SessionInv, FinalInv
<1>2. PICK i \in DOMAIN log.events :
        /\ log.events[i] = Event("dashboard", <<1>>)
        /\ \A k \in 1 .. awaited : log.jobs[k].events \subseteq 1 .. i
        /\ 1 .. i \subseteq r.events
  BY <1>1 DEF SessionInv, FinalInv
<1>3. ASSUME NEW s \in RunReports, s.run <= awaited PROVE s.events \subseteq r.events
  <2>1. s.run \in 1 .. Len(log.jobs) /\ s = log.jobs[s.run]
    BY <1>3 DEF SessionInv, ReportsInv, RunReports
  <2>2. Len(log.jobs) \in Nat /\ awaited \in Nat
    BY <1>1 DEF SessionInv, FinalInv, LogInv, LogType
  <2>3. s.run \in 1 .. awaited
    BY <1>3, <2>1, <2>2
  <2> QED BY <1>2, <2>1, <2>3
<1> QED BY <1>2, <1>3

LEMMA PageFollows ==
  ASSUME NEW E, SessionInv(E) PROVE PageInOrder
<1>1. PICK place \in [DOMAIN shown -> Nat] :
        /\ \A i \in DOMAIN shown :
             place[i] \in 1 .. Len(log.events) /\ log.events[place[i]] = shown[i]
        /\ \A i, j \in DOMAIN shown : i < j => place[i] < place[j]
  BY DEF SessionInv, PageInv, Follows
<1>2. DOMAIN log.events = 1 .. Len(log.events)
  BY LenProperties DEF SessionInv, LogInv, LogType
<1>3. ASSUME NEW i \in DOMAIN shown, NEW j \in DOMAIN shown, i < j
      PROVE  \E k, l \in DOMAIN log.events :
               k < l /\ log.events[k] = shown[i] /\ log.events[l] = shown[j]
  BY <1>1, <1>2, <1>3
<1> QED BY <1>3 DEF PageInOrder

-----------------------------------------------------------------------------
(* The steps preserve it                                                   *)

\* A log that grows keeps what is said of the reports.
LEMMA LogGrows ==
  ASSUME NEW E, NEW m, SessionInv(E), LogInv(m, E), Extends(m, log), log' = m,
         UNCHANGED <<settled, reports, phase, awaited>>
  PROVE  LogInv(log, E)' /\ ReportsInv' /\ FinalInv'
<1>1. /\ Len(log.jobs) \in Nat /\ Len(m.jobs) \in Nat /\ Len(log.jobs) <= Len(m.jobs)
      /\ \A k \in 1 .. Len(log.jobs) : m.jobs[k] = log.jobs[k]
      /\ DOMAIN log.events \subseteq DOMAIN m.events
      /\ \A i \in DOMAIN log.events : m.events[i] = log.events[i]
  <2>1. /\ log.events \in Seq(E) /\ m.events \in Seq(E)
        /\ Len(log.jobs) \in Nat /\ Len(m.jobs) \in Nat
    BY DEF SessionInv, LogInv, LogType
  <2>2. /\ DOMAIN log.events = 1 .. Len(log.events) /\ DOMAIN m.events = 1 .. Len(m.events)
        /\ Len(log.events) \in Nat /\ Len(m.events) \in Nat
    BY <2>1, LenProperties
  <2> QED BY <2>1, <2>2 DEF Extends
<1>2. LogInv(log, E)'
  OBVIOUS
<1>3. ReportsInv'
  BY <1>1 DEF SessionInv, ReportsInv
<1>4. FinalInv'
  <2>1. CASE phase = "live"
    BY <2>1 DEF SessionInv, FinalInv
  <2>2. CASE phase # "live"
    <3>1. PICK i \in DOMAIN log.events :
            /\ log.events[i] = Event("dashboard", <<1>>)
            /\ \A k \in 1 .. awaited : log.jobs[k].events \subseteq 1 .. i
            /\ \A r \in reports : r.run = 0 => 1 .. i \subseteq r.events
      BY <2>2 DEF SessionInv, FinalInv
    <3>2. awaited \in 0 .. Len(log.jobs)
      BY <2>2 DEF SessionInv, FinalInv
    <3>3. i \in DOMAIN m.events /\ m.events[i] = Event("dashboard", <<1>>)
      BY <1>1, <3>1
    <3>4. \A k \in 1 .. awaited : m.jobs[k].events \subseteq 1 .. i
      BY <1>1, <3>1, <3>2
    <3>5. awaited \in 0 .. Len(m.jobs)
      BY <1>1, <3>2
    <3> QED BY <2>2, <3>1, <3>3, <3>4, <3>5 DEF FinalInv, Event
  <2> QED BY <2>1, <2>2
<1> QED BY <1>2, <1>3, <1>4

\* A live page gets what is new, in its order; another one stays as it is.
LEMMA PageGrows ==
  ASSUME NEW E, NEW m, SessionInv(E), LogInv(m, E), Extends(m, log), Log(m)
  PROVE  PageInv(E)'
<1> DEFINE L == Len(log.events)
           M == Len(m.events)
           S == Len(shown)
           new == SubSeq(m.events, L + 1, M)
<1>1. /\ shown \in Seq(E) /\ log.events \in Seq(E) /\ m.events \in Seq(E)
      /\ log' = m
  BY DEF SessionInv, PageInv, LogInv, LogType, Log
<1>2. /\ L \in Nat /\ M \in Nat /\ L <= M /\ S \in Nat /\ DOMAIN shown = 1 .. S
      /\ \A i \in 1 .. L : m.events[i] = log.events[i]
  BY <1>1, LenProperties DEF Extends
<1>3. PICK place \in [1 .. S -> Nat] :
        /\ \A i \in 1 .. S : place[i] \in 1 .. L /\ log.events[place[i]] = shown[i]
        /\ \A i, j \in 1 .. S : i < j => place[i] < place[j]
  BY <1>2 DEF SessionInv, PageInv, Follows
<1>4. CASE shown' = shown
  <2>1. \A i \in 1 .. S : place[i] \in 1 .. M /\ m.events[place[i]] = shown[i]
    BY <1>2, <1>3
  <2> QED BY <1>1, <1>2, <1>3, <1>4, <2>1 DEF PageInv, Follows
<1>5. CASE shown' = shown \o new
  <2>1. \A i \in L + 1 .. M : m.events[i] \in E
    BY <1>1, <1>2, ElementOfSeq
  <2>2. /\ new \in Seq(E) /\ Len(new) = M - L
        /\ \A i \in 1 .. M - L : new[i] = m.events[L + i]
    <3>1. L + 1 \in Int /\ M \in Int
      BY <1>2
    <3> HIDE DEF L, M
    <3>2. /\ new \in Seq(E) /\ Len(new) = IF L + 1 <= M THEN M - (L + 1) + 1 ELSE 0
          /\ \A i \in 1 .. M - (L + 1) + 1 : new[i] = m.events[L + 1 + i - 1]
      BY <2>1, <3>1, SubSeqProperties
    <3> HIDE DEF new
    <3> QED BY <1>2, <3>2
  <2> HIDE DEF new
  <2>3. /\ shown' \in Seq(E) /\ Len(shown') = S + M - L
        /\ \A i \in 1 .. S + M - L : shown'[i] = IF i <= S THEN shown[i] ELSE new[i - S]
    <3>1. /\ shown \o new \in Seq(E) /\ Len(shown \o new) = S + Len(new)
          /\ \A i \in 1 .. S + Len(new) :
               (shown \o new)[i] = IF i <= S THEN shown[i] ELSE new[i - S]
      BY <1>1, <2>2, ConcatProperties
    <3> HIDE DEF L, M, S
    <3>2. S + Len(new) = S + M - L
      BY <1>2, <2>2
    <3> QED BY <1>5, <3>1, <3>2
  <2>4. DOMAIN shown' = 1 .. S + M - L
    BY <2>3, LenProperties
  <2> DEFINE places == [i \in 1 .. S + M - L |-> IF i <= S THEN place[i] ELSE L + i - S]
  <2> HIDE DEF L, M, S
  <2>5. places \in [1 .. S + M - L -> Nat]
    <3>1. \A i \in 1 .. S + M - L : (IF i <= S THEN place[i] ELSE L + i - S) \in Nat
      BY <1>2, <1>3
    <3> QED BY <3>1
  <2>6. ASSUME NEW i \in 1 .. S + M - L
        PROVE  places[i] \in 1 .. M /\ m.events[places[i]] = shown'[i]
    <3>1. CASE i <= S
      BY <1>2, <1>3, <2>3, <3>1
    <3>2. CASE ~ (i <= S)
      <4>1. i - S \in 1 .. M - L /\ places[i] = L + (i - S)
        BY <1>2, <3>2
      <4> QED BY <1>2, <2>2, <2>3, <3>2, <4>1
    <3> QED BY <3>1, <3>2
  <2>7. ASSUME NEW i \in 1 .. S + M - L, NEW j \in 1 .. S + M - L, i < j
        PROVE  places[i] < places[j]
    BY <1>2, <1>3, <2>7
  <2> HIDE DEF places
  <2>8. Follows(shown', m)
    BY <2>4, <2>5, <2>6, <2>7 DEF Follows, M
  <2> QED BY <1>1, <2>3, <2>8 DEF PageInv
<1> QED BY <1>4, <1>5 DEF Log

LEMMA StartedLogInv ==
  ASSUME NEW E, OwnEvents \subseteq E PROVE LogInv(StartedLog, E)
<1> DEFINE empty == [events |-> <<>>, runStart |-> 0, runCount |-> 0, runActive |-> FALSE,
                     jobs |-> <<>>]
<1>1. LogInv(empty, E)
  BY DEF LogInv, LogType, JobsInv, RunInv
<1>2. Event("dashboard", <<0>>) \in E /\ Event("run.started", <<0>>) \in E
  BY DEF OwnEvents
<1> HIDE DEF empty
<1>3. StartedLog = Accept(Accept(empty, Event("dashboard", <<0>>)), Event("run.started", <<0>>))
  BY DEF StartedLog, empty
<1> QED BY <1>1, <1>2, <1>3, AcceptKeeps

LEMMA InitHolds ==
  ASSUME NEW E, OwnEvents \subseteq E, Init PROVE SessionInv(E)
<1>1. LogInv(log, E)
  BY StartedLogInv DEF Init
<1>2. ReportsInv
  BY <1>1 DEF Init, ReportsInv, LogInv, LogType
<1>3. FinalInv
  BY DEF Init, FinalInv
<1>4. PageInv(E)
  <2>1. shown = <<>> /\ DOMAIN shown = {}
    BY DEF Init
  <2>2. [i \in {} |-> 0] \in [DOMAIN shown -> Nat]
    BY <2>1
  <2>3. shown \in Seq(E)
    BY <2>1, EmptySeq
  <2> QED BY <2>1, <2>2, <2>3 DEF PageInv, Follows
<1> QED BY <1>1, <1>2, <1>3, <1>4 DEF SessionInv

\* A post: the log grows by a batch, whatever its entries are.
LEMMA PostKeeps ==
  ASSUME NEW E, SessionInv(E), NEW batch \in Seq(E), Post(batch)
  PROVE  SessionInv(E)'
<1> DEFINE m == AcceptBatch(log, batch)
<1>1. LogInv(m, E) /\ Extends(m, log)
  BY BatchKeeps DEF SessionInv
<1>2. Log(m) /\ log' = m /\ UNCHANGED <<settled, reports, phase, awaited>>
  BY DEF Post, Log
<1> HIDE DEF m
<1> QED BY <1>1, <1>2, LogGrows, PageGrows DEF SessionInv

LEMMA ReportStepKeeps ==
  ASSUME NEW E, SessionInv(E), ReportStep
  PROVE  SessionInv(E)'
<1>1. LogInv(log, E)' /\ PageInv(E)'
  BY DEF SessionInv, PageInv, ReportStep, WriteRunReport, RunReportFails
<1>2. Len(log.jobs) \in Nat /\ settled \in Nat /\ settled + 1 \in 1 .. Len(log.jobs)
  BY DEF SessionInv, ReportsInv, LogInv, LogType, ReportStep, WriteRunReport, RunReportFails
<1>3. log.jobs[settled + 1].run = settled + 1
  BY <1>2 DEF SessionInv, LogInv, JobsInv
<1>4. ReportsInv'
  BY <1>2, <1>3 DEF SessionInv, ReportsInv, ReportStep, WriteRunReport, RunReportFails
<1>5. \A r \in reports' : r \in reports \/ r.run # 0
  BY <1>2, <1>3 DEF ReportStep, WriteRunReport, RunReportFails
<1>6. FinalInv'
  BY <1>5 DEF SessionInv, FinalInv, ReportStep, WriteRunReport, RunReportFails
<1> QED BY <1>1, <1>4, <1>6 DEF SessionInv

\* The end of the session comes after all there is.
LEMMA FinalizeKeeps ==
  ASSUME NEW E, OwnEvents \subseteq E, SessionInv(E), Finalize
  PROVE  SessionInv(E)'
<1> DEFINE e == Event("dashboard", <<1>>)
           m == Accept(log, e)
<1>1. e \in E /\ e.type = "dashboard" /\ ~ Drops(log, e)
  BY DEF OwnEvents, Event, Drops
<1>2. LogInv(m, E) /\ Extends(m, log)
  BY <1>1, AcceptKeeps DEF SessionInv
<1>3. log \in LogType(E) /\ JobsInv(log)
  BY DEF SessionInv, LogInv
<1>4. m \in LogType(E) /\ m.events = Append(log.events, e) /\ m.jobs = log.jobs
  BY <1>1, <1>3, AcceptEffect
<1>5. Log(m) /\ log' = m /\ awaited' = Len(log.jobs) /\ UNCHANGED <<settled, reports>>
      /\ phase = "live" /\ phase' = "chain"
  BY DEF Finalize, Log
<1> HIDE DEF m, e
<1>6. PageInv(E)'
  BY <1>2, <1>5, PageGrows
<1>7. ReportsInv'
  BY <1>4, <1>5 DEF SessionInv, ReportsInv
<1>8. FinalInv'
  <2>1. Appended(m, log, e)
    BY <1>1, <1>3, <1>4, AppendKeepsPlaces
  <2> DEFINE n == Len(log.events)
  <2>2. n \in Nat /\ n + 1 \in DOMAIN m.events /\ m.events[n + 1] = e
    BY <2>1 DEF Appended
  <2>3. \A k \in 1 .. Len(m.jobs) : m.jobs[k].events \subseteq 1 .. n + 1
    <3>1. 1 .. n \subseteq 1 .. n + 1
      BY <2>2
    <3> QED BY <1>3, <1>4, <3>1 DEF JobsInv
  <2>4. \A r \in reports' : r.run # 0
    BY <1>5 DEF SessionInv, FinalInv
  <2>5. Len(m.jobs) \in Nat /\ awaited' = Len(m.jobs)
    BY <1>4, <1>5 DEF LogType
  <2> QED BY <1>5, <2>2, <2>3, <2>4, <2>5 DEF FinalInv, e
<1> QED BY <1>2, <1>5, <1>6, <1>7, <1>8 DEF SessionInv

LEMMA FinalizeStepKeeps ==
  ASSUME NEW E, SessionInv(E), FinalizeStep
  PROVE  SessionInv(E)'
<1>1. LogInv(log, E)' /\ PageInv(E)'
  BY DEF SessionInv, PageInv, FinalizeStep, AwaitChain, WriteIndex, EndReaders, ServerCloses
<1>2. phase # "live" /\ phase' # "live" /\ UNCHANGED <<log, settled, awaited>>
  BY DEF FinalizeStep, AwaitChain, WriteIndex, EndReaders, ServerCloses
<1>3. \A r \in reports' : r \in reports \/ (r.run = 0 /\ r.events = DOMAIN log.events)
  <2>1. CASE UNCHANGED reports
    BY <2>1
  <2>2. CASE reports' = reports \cup {[run |-> 0, events |-> DOMAIN log.events]}
    BY <2>2
  <2> QED BY <2>1, <2>2 DEF FinalizeStep, AwaitChain, WriteIndex, EndReaders, ServerCloses
<1>4. ReportsInv'
  BY <1>2, <1>3 DEF SessionInv, ReportsInv
<1>5. DOMAIN log.events = 1 .. Len(log.events) /\ Len(log.events) \in Nat
  BY LenProperties DEF SessionInv, LogInv, LogType
<1>6. \A i \in DOMAIN log.events : 1 .. i \subseteq DOMAIN log.events
  BY <1>5
<1>7. FinalInv'
  BY <1>2, <1>3, <1>6 DEF SessionInv, FinalInv, Event
<1> QED BY <1>1, <1>4, <1>7 DEF SessionInv

LEMMA PageStepKeeps ==
  ASSUME NEW E, SessionInv(E), LoadPage \/ ConnectPage
  PROVE  SessionInv(E)'
<1>1. LogInv(log, E)' /\ ReportsInv' /\ FinalInv'
  BY DEF SessionInv, ReportsInv, FinalInv, LoadPage, ConnectPage
<1>2. CASE ConnectPage
  BY <1>1, <1>2 DEF SessionInv, PageInv, ConnectPage
<1>3. CASE LoadPage
  <2>1. shown' = log.events /\ log' = log /\ log.events \in Seq(E)
    BY <1>3 DEF LoadPage, SessionInv, LogInv, LogType
  <2>2. DOMAIN log.events = 1 .. Len(log.events) /\ Len(log.events) \in Nat
    BY <2>1, LenProperties
  <2> DEFINE place == [i \in DOMAIN log.events |-> i]
  <2>3. /\ place \in [DOMAIN log.events -> Nat]
        /\ \A i \in DOMAIN log.events :
             place[i] \in 1 .. Len(log.events) /\ log.events[place[i]] = log.events[i]
        /\ \A i, j \in DOMAIN log.events : i < j => place[i] < place[j]
    BY <2>2
  <2> HIDE DEF place
  <2>4. Follows(log.events, log)
    BY <2>3 DEF Follows
  <2> QED BY <1>1, <2>1, <2>4 DEF SessionInv, PageInv
<1> QED BY <1>2, <1>3

LEMMA StutterKeeps ==
  ASSUME NEW E, SessionInv(E), UNCHANGED sessionVars
  PROVE  SessionInv(E)'
BY DEF SessionInv, ReportsInv, FinalInv, PageInv, sessionVars

-----------------------------------------------------------------------------
(* The theorems                                                            *)

EventTypes == Types \cup {"dashboard", "malformed"}

Events == [type : EventTypes, id : Seq(Nat)]

LEMMA EventIsEvent ==
  ASSUME NEW type \in EventTypes, NEW n \in Nat
  PROVE  Event(type, <<n>>) \in Events
<1>1. <<n>> \in Seq(Nat)
  OBVIOUS
<1> QED BY <1>1 DEF Event, Events

LEMMA OwnAreEvents == OwnEvents \subseteq Events
BY EventIsEvent DEF OwnEvents, EventTypes, Types

LEMMA EntriesAreEvents ==
  ASSUME NEW n \in Nat, NEW batch \in Entries(n)
  PROVE  batch \in Seq(Events)
<1>1. PICK types \in BoundedSeq(Types \cup {"malformed"}, 2) :
        batch = [i \in DOMAIN types |-> Event(types[i], <<n + i>>)]
  BY DEF Entries
<1>2. PICK k \in 0 .. 2 : types \in [1 .. k -> Types \cup {"malformed"}]
  BY <1>1 DEF BoundedSeq, SeqOf
<1>3. \A i \in 1 .. k : Event(types[i], <<n + i>>) \in Events
  <2>1. \A i \in 1 .. k : types[i] \in EventTypes /\ n + i \in Nat
    BY <1>2 DEF EventTypes
  <2> QED BY <2>1, EventIsEvent
<1>4. batch \in [1 .. k -> Events]
  BY <1>1, <1>2, <1>3
<1> QED BY <1>4, SeqDef

LEMMA InvariantHolds == Spec => [](SessionInv(Events) /\ inputs \in Nat)
<1>1. Init => SessionInv(Events) /\ inputs \in Nat
  <2>1. Init => inputs \in Nat
    BY DEF Init
  <2> QED BY <2>1, OwnAreEvents, InitHolds
<1>2. SessionInv(Events) /\ inputs \in Nat /\ [Next]_vars
        => (SessionInv(Events) /\ inputs \in Nat)'
  <2> SUFFICES ASSUME SessionInv(Events), inputs \in Nat, [Next]_vars
               PROVE  SessionInv(Events)' /\ inputs' \in Nat
    OBVIOUS
  <2>1. CASE Input
    <3>1. PICK batch \in Entries(inputs) :
            inputs' = inputs + Len(batch) /\ (Post(batch) \/ UNCHANGED sessionVars)
      BY <2>1 DEF Input
    <3>2. batch \in Seq(Events)
      BY <3>1, EntriesAreEvents
    <3>3. Len(batch) \in Nat
      BY <3>2, LenProperties
    <3> QED BY <3>1, <3>2, <3>3, PostKeeps, StutterKeeps
  <2>2. CASE Step /\ UNCHANGED inputs
    <3>1. UNCHANGED sessionVars \/ ReportStep \/ Finalize \/ FinalizeStep \/ LoadPage \/ ConnectPage
      BY <2>2 DEF Step, Over
    <3> QED BY <2>2, <3>1, OwnAreEvents, ReportStepKeeps, FinalizeKeeps, FinalizeStepKeeps,
               PageStepKeeps, StutterKeeps
  <2>3. CASE UNCHANGED vars
    <3>1. UNCHANGED sessionVars /\ UNCHANGED inputs
      BY <2>3 DEF vars
    <3> QED BY <3>1, StutterKeeps
  <2> QED BY <2>1, <2>2, <2>3 DEF Next
<1> QED BY <1>1, <1>2, PTL DEF Spec

\* Reports of runs are independent, for any batches that are posted at any time,
\* in whatever order the chain of reports is worked off.
THEOREM SessionReportsAreIndependent == Spec => []ReportsAreIndependent
<1>1. SessionInv(Events) => ReportsAreIndependent
  BY RunsAreIndependent
<1> QED BY <1>1, InvariantHolds, PTL

\* The final report has all that was accepted before finalize() was called, even
\* if events are accepted while it awaits the chain of reports.
THEOREM SessionFinalReportIsComplete == Spec => []FinalReportIsComplete
<1>1. SessionInv(Events) => FinalReportIsComplete
  BY FinalIsComplete
<1> QED BY <1>1, InvariantHolds, PTL

\* A live page has the events in the order of the log, none of them twice, although
\* it is loaded and connected at different times.
THEOREM SessionPageInOrder == Spec => []PageInOrder
<1>1. SessionInv(Events) => PageInOrder
  BY PageFollows
<1> QED BY <1>1, InvariantHolds, PTL
=============================================================================
