----------------------- MODULE ContainerAdapterProofs -----------------------
(***************************************************************************)
(* Theorems about one container adapter, for any number of attempts to     *)
(* boot: its stop() leaves nothing that its start() promised, all its      *)
(* callers share one container, and the container's log, of any length,    *)
(* reaches the logger line by line.                                        *)
(***************************************************************************)
EXTENDS ContainerAdapter, SequenceTheorems, WellFoundedInduction, TLAPS

\* Attempts are numbered as they begin, and their containers with them.
NumberInv ==
  /\ up \cup orphans \cup resources \subseteq 1..attempts
  /\ handle \in 0..attempts /\ target \in 0..attempts
  /\ promise = "pending" => attempts > 0 /\ attempts \notin up

\* Where stop() is, and what that says of the promise it awaited.
StopInv ==
  /\ ~stopped <=> stopPc = "idle"
  /\ stopPc \in {"taking", "stopping", "done"} => promise # "pending"
  /\ stopPc = "taking" => promise = "none"
  /\ stopPc = "stopping" => target # 0
  /\ stopPc \in {"stopping", "done"} => handle \in {0} \cup orphans

\* A container that runs is in somebody's hands, or nobody can stop it.
HandleInv ==
  /\ \A c \in up :
       \/ c \in orphans \cup refused
       \/ c = handle
       \/ stopPc = "stopping" /\ c = target
  /\ handle # 0 /\ promise # "resolved" => handle \in orphans

\* Only the attempt that resolved the promise has a resource.
ResourceInv ==
  /\ resources # {} => promise = "resolved"
  /\ promise = "resolved" => resources = {attempts}
  /\ promise = "resolved" /\ ~stopped => handle = attempts /\ attempts \in up

AdapterInv == TypeOK /\ NumberInv /\ StopInv /\ HandleInv /\ ResourceInv

-----------------------------------------------------------------------------
(* Every step of the adapter preserves the invariant.                      *)

LEMMA InitHolds == Init => AdapterInv
<1> SUFFICES ASSUME AdapterInit PROVE AdapterInv
  BY DEF Init
<1> USE DEF AdapterInit
<1>1. TypeOK
  <2>1. 0 \in 0..MaxAttempts  BY AdapterAssumption
  <2>2. {} \subseteq Attempt  OBVIOUS
  <2> QED BY <2>1, <2>2 DEF TypeOK
<1>2. NumberInv    BY DEF NumberInv
<1>3. StopInv      BY DEF StopInv
<1>4. HandleInv    BY DEF HandleInv
<1>5. ResourceInv  BY DEF ResourceInv
<1> QED BY <1>1, <1>2, <1>3, <1>4, <1>5 DEF AdapterInv

\* A new attempt has the next number, and no container of its own yet.
LEMMA StartKeeps == AdapterInv /\ Start => AdapterInv'
<1> SUFFICES ASSUME AdapterInv, Start PROVE AdapterInv'
  OBVIOUS
<1> USE AdapterAssumption DEF AdapterInv, Start, Attempt
<1>1. TypeOK'      BY DEF TypeOK
<1>2. NumberInv'   BY DEF TypeOK, NumberInv
<1>3. StopInv'     BY DEF TypeOK, StopInv
<1>4. HandleInv'   BY DEF TypeOK, StopInv, HandleInv
<1>5. ResourceInv' BY DEF TypeOK, ResourceInv
<1> QED BY <1>1, <1>2, <1>3, <1>4, <1>5

LEMMA StartMisconfiguredKeeps == AdapterInv /\ StartMisconfigured => AdapterInv'
<1> SUFFICES ASSUME AdapterInv, StartMisconfigured PROVE AdapterInv'
  OBVIOUS
<1> USE DEF AdapterInv, StartMisconfigured, TypeOK, Attempt
<1>1. TypeOK' /\ NumberInv'      BY DEF NumberInv
<1>2. StopInv'     BY DEF StopInv
<1>3. HandleInv'   BY DEF HandleInv
<1>4. ResourceInv' BY DEF ResourceInv
<1> QED BY <1>1, <1>2, <1>3, <1>4

LEMMA BootFailsKeeps == AdapterInv /\ BootFails => AdapterInv'
<1> SUFFICES ASSUME AdapterInv, BootFails PROVE AdapterInv'
  OBVIOUS
<1> USE DEF AdapterInv, BootFails, TypeOK, Attempt
<1>1. TypeOK' /\ NumberInv'      BY DEF NumberInv
<1>2. StopInv'     BY DEF StopInv
<1>3. HandleInv'   BY DEF HandleInv
<1>4. ResourceInv' BY DEF ResourceInv
<1> QED BY <1>1, <1>2, <1>3, <1>4

\* The new handle replaces none or an orphan, and no stop() has passed the await.
LEMMA BootSucceedsKeeps == AdapterInv /\ BootSucceeds => AdapterInv'
<1> SUFFICES ASSUME AdapterInv, BootSucceeds PROVE AdapterInv'
  OBVIOUS
<1> USE AdapterAssumption DEF AdapterInv, BootSucceeds, Attempt
<1>1. attempts \in Attempt /\ attempts \in Nat
  BY DEF TypeOK, NumberInv
<1>2. TypeOK'      BY <1>1 DEF TypeOK
<1>3. NumberInv'   BY <1>1 DEF TypeOK, NumberInv
<1>4. StopInv'     BY DEF TypeOK, StopInv
<1>5. HandleInv'   BY <1>1 DEF TypeOK, NumberInv, HandleInv
<1>6. ResourceInv' BY DEF TypeOK, ResourceInv
<1> QED BY <1>2, <1>3, <1>4, <1>5, <1>6

LEMMA ResourceFailsKeeps == AdapterInv /\ ResourceFails => AdapterInv'
<1> SUFFICES ASSUME AdapterInv, ResourceFails PROVE AdapterInv'
  OBVIOUS
<1> USE AdapterAssumption DEF AdapterInv, ResourceFails, Attempt
<1>1. attempts \in Attempt /\ attempts \in Nat
  BY DEF TypeOK, NumberInv
<1>2. TypeOK'      BY <1>1 DEF TypeOK
<1>3. NumberInv'   BY <1>1 DEF TypeOK, NumberInv
<1>4. StopInv'     BY DEF TypeOK, StopInv
<1>5. HandleInv'   BY <1>1 DEF TypeOK, NumberInv, HandleInv
<1>6. ResourceInv' BY DEF TypeOK, ResourceInv
<1> QED BY <1>2, <1>3, <1>4, <1>5, <1>6

LEMMA StopKeeps == AdapterInv /\ Stop => AdapterInv'
<1> SUFFICES ASSUME AdapterInv, Stop PROVE AdapterInv'
  OBVIOUS
<1> USE DEF AdapterInv, Stop, TypeOK, Attempt
<1>1. TypeOK' /\ NumberInv'      BY DEF NumberInv
<1>2. StopInv'     BY DEF StopInv
<1>3. HandleInv'   BY DEF StopInv, HandleInv
<1>4. ResourceInv' BY DEF ResourceInv
<1> QED BY <1>1, <1>2, <1>3, <1>4

\* A promise that rejected leaves only an orphan behind the handle.
LEMMA StopReturnsKeeps == AdapterInv /\ StopReturns => AdapterInv'
<1> SUFFICES ASSUME AdapterInv, StopReturns PROVE AdapterInv'
  OBVIOUS
<1> USE DEF AdapterInv, StopReturns, TypeOK, Attempt
<1>1. TypeOK' /\ NumberInv'      BY DEF NumberInv
<1>2. StopInv'     BY DEF StopInv, HandleInv
<1>3. HandleInv'   BY DEF HandleInv
<1>4. ResourceInv' BY DEF ResourceInv
<1> QED BY <1>1, <1>2, <1>3, <1>4

LEMMA TakeHandleKeeps == AdapterInv /\ TakeHandle => AdapterInv'
<1> SUFFICES ASSUME AdapterInv, TakeHandle PROVE AdapterInv'
  OBVIOUS
<1> USE DEF AdapterInv, TakeHandle, Attempt
<1>1. TypeOK' /\ NumberInv'      BY AdapterAssumption DEF TypeOK, NumberInv
<1>2. StopInv'     BY DEF TypeOK, StopInv
<1>3. HandleInv'   BY DEF TypeOK, NumberInv, HandleInv
<1>4. ResourceInv' BY DEF TypeOK, StopInv, ResourceInv
<1> QED BY <1>1, <1>2, <1>3, <1>4

LEMMA ContainerStopsKeeps == AdapterInv /\ ContainerStops => AdapterInv'
<1> SUFFICES ASSUME AdapterInv, ContainerStops PROVE AdapterInv'
  OBVIOUS
<1> USE DEF AdapterInv, ContainerStops, Attempt
<1>1. TypeOK'
  <2>1. target \in 1..MaxAttempts  BY AdapterAssumption DEF TypeOK, StopInv
  <2>2. up' \subseteq Attempt /\ refused' \subseteq Attempt
    BY <2>1 DEF TypeOK
  <2> QED BY <2>2 DEF TypeOK
<1>2. NumberInv' /\ StopInv'  BY DEF NumberInv, StopInv
<1>3. HandleInv'              BY DEF HandleInv
<1>4. ResourceInv'            BY DEF StopInv, ResourceInv
<1> QED BY <1>1, <1>2, <1>3, <1>4

LEMMA NextHolds == AdapterInv /\ [Next]_vars => AdapterInv'
<1> SUFFICES ASSUME AdapterInv, [Next]_vars PROVE AdapterInv'
  OBVIOUS
<1>1. CASE UNCHANGED adapterVars
  BY <1>1 DEF adapterVars, AdapterInv, TypeOK, NumberInv, StopInv, HandleInv, ResourceInv
<1>2. CASE AdapterNext
  BY <1>2, StartKeeps, StartMisconfiguredKeeps, BootFailsKeeps, BootSucceedsKeeps,
     ResourceFailsKeeps, StopKeeps, StopReturnsKeeps, TakeHandleKeeps, ContainerStopsKeeps
     DEF AdapterNext, BootSettles, StopGoesOn
<1> QED BY <1>1, <1>2 DEF Next, vars

-----------------------------------------------------------------------------

\* For any number of attempts, the invariant holds throughout.
THEOREM InvariantHolds == Spec => []AdapterInv
<1>1. Init => AdapterInv
  BY InitHolds
<1>2. AdapterInv /\ [Next]_vars => AdapterInv'
  BY NextHolds
<1> QED BY <1>1, <1>2, PTL DEF Spec

\* However many attempts failed before it and whatever start() it overlaps, a
\* settled stop() leaves only what Docker refused to stop or what the adapter
\* gave up when its resource could not be built.
THEOREM StopReleasesAll == Spec => []StopReleases
<1>1. AdapterInv => StopReleases
  BY DEF AdapterInv, TypeOK, NumberInv, StopInv, HandleInv, StopReleases, Attempt
<1> QED BY <1>1, InvariantHolds, PTL

\* All callers of start(), in any number and at any time, are answered with
\* the resource of one container, which is up and held until stop().
THEOREM CallersShareOne == Spec => []OneContainer
<1>1. AdapterInv => OneContainer
  BY DEF AdapterInv, ResourceInv, OneContainer
<1> QED BY <1>1, InvariantHolds, PTL

-----------------------------------------------------------------------------
(* The lines of a log                                                      *)

\* Induction over the natural numbers, with a set for the predicate: a least
\* counterexample has a predecessor that is none.
LEMMA InductionOnNat ==
  ASSUME NEW S, 0 \in S, \A n \in Nat : n \in S => n + 1 \in S
  PROVE  Nat \subseteq S
<1> SUFFICES ASSUME Nat \ S # {} PROVE FALSE
  OBVIOUS
<1>1. PICK least \in Nat \ S : \A n \in Nat \ S : <<n, least>> \notin OpToRel(<, Nat)
  BY NatLessThanWellFounded, WFMin
<1>2. least - 1 \in Nat /\ least - 1 \notin S
  OBVIOUS
<1>3. least - 1 < least /\ least \in Nat
  BY <1>2
<1>4. <<least - 1, least>> \in OpToRel(<, Nat)
  BY <1>2, <1>3 DEF OpToRel
<1> QED BY <1>1, <1>2, <1>4

Nothing == [lines |-> <<>>, rest |-> <<>>]

\* The loop of split(): the parts after each symbol.
LEMMA SplitSteps ==
  ASSUME NEW text, Len(text) \in Nat
  PROVE  \E after :
           /\ after[0] = Nothing /\ after[Len(text)] = Split(text)
           /\ \A n \in 1 .. Len(text) : after[n] = TakeSymbol(after[n - 1], text[n])
<1> DEFINE N == Len(text)
           next(m, n) == TakeSymbol(m, text[n])
           loop(f, k) == f = [n \in 0 .. k |-> IF n = 0 THEN Nothing ELSE next(f[n - 1], n)]
           good == {k \in Nat : \E f : loop(f, k)}
<1> HIDE DEF next
<1>1. 0 \in good
  <2>1. loop([n \in 0 .. 0 |-> Nothing], 0)
    OBVIOUS
  <2> QED BY <2>1
<1>2. ASSUME NEW k \in Nat, k \in good PROVE k + 1 \in good
  <2>1. PICK f : loop(f, k)
    BY <1>2
  <2> DEFINE g == [n \in 0 .. k + 1 |-> IF n = k + 1 THEN next(f[k], k + 1) ELSE f[n]]
  <2>2. DOMAIN f = 0 .. k /\ DOMAIN g = 0 .. k + 1
    BY <2>1
  <2>3. \A n \in 0 .. k + 1 : g[n] = IF n = 0 THEN Nothing ELSE next(g[n - 1], n)
    BY <2>1, <2>2
  <2>4. g = [n \in 0 .. k + 1 |-> g[n]]
    OBVIOUS
  <2> HIDE DEF g
  <2>5. [n \in 0 .. k + 1 |-> g[n]]
          = [n \in 0 .. k + 1 |-> IF n = 0 THEN Nothing ELSE next(g[n - 1], n)]
    BY <2>3, Zenon
  <2>6. loop(g, k + 1)
    BY <2>4, <2>5
  <2> QED BY <2>6
<1>3. N \in good
  <2> HIDE DEF good
  <2>1. Nat \subseteq good
    BY <1>1, <1>2, InductionOnNat
  <2> QED BY <2>1
<1>4. \E f : loop(f, N)
  BY <1>3
<1> DEFINE after == CHOOSE f : loop(f, N)
<1>5. loop(after, N)
  BY <1>4
<1>6. Split(text) = after[N]
  BY DEF Split, next, Nothing
<1> HIDE DEF after
<1>7. /\ after[0] = Nothing /\ after[N] = Split(text)
      /\ \A n \in 1 .. N : after[n] = next(after[n - 1], n)
  BY <1>5, <1>6
<1> QED BY <1>7 DEF next

LEMMA SplitOfNothing == Split(<<>>) = Nothing
<1>1. Len(<<>>) = 0
  OBVIOUS
<1> QED BY <1>1, SplitSteps

\* The parts of a longer text are those of the shorter one and what the last
\* symbol makes of them.
LEMMA SplitOfAppend ==
  ASSUME NEW S, NEW text \in Seq(S), NEW x \in S
  PROVE  Split(Append(text, x)) = TakeSymbol(Split(text), x)
<1> DEFINE N == Len(text)
           long == Append(text, x)
<1>1. /\ N \in Nat /\ Len(long) = N + 1 /\ long[N + 1] = x
      /\ \A n \in 1 .. N : long[n] = text[n]
  BY AppendProperties, LenProperties
<1>2. PICK a : /\ a[0] = Nothing /\ a[N] = Split(text)
               /\ \A n \in 1 .. N : a[n] = TakeSymbol(a[n - 1], text[n])
  BY <1>1, SplitSteps
<1> HIDE DEF N, long
<1>3. PICK b : /\ b[0] = Nothing /\ b[N + 1] = Split(long)
               /\ \A n \in 1 .. N + 1 : b[n] = TakeSymbol(b[n - 1], long[n])
  <2>1. Len(long) \in Nat
    BY <1>1
  <2>2. \E b : /\ b[0] = Nothing /\ b[Len(long)] = Split(long)
               /\ \A n \in 1 .. Len(long) : b[n] = TakeSymbol(b[n - 1], long[n])
    BY <2>1, SplitSteps
  <2> QED BY <1>1, <2>2
<1> DEFINE good == {n \in Nat : n <= N => b[n] = a[n]}
<1>4. 0 \in good
  BY <1>2, <1>3
<1>5. ASSUME NEW n \in Nat, n \in good PROVE n + 1 \in good
  <2> SUFFICES ASSUME n + 1 <= N PROVE b[n + 1] = a[n + 1]
    OBVIOUS
  <2>1. n + 1 \in 1 .. N /\ n + 1 \in 1 .. N + 1 /\ n + 1 - 1 = n /\ n <= N
    BY <1>1
  <2> QED BY <1>1, <1>2, <1>3, <1>5, <2>1
<1>6. b[N] = a[N]
  <2>1. Nat \subseteq good
    <3> HIDE DEF good
    <3> QED BY <1>4, <1>5, InductionOnNat
  <2> QED BY <1>1, <2>1
<1>7. N + 1 \in 1 .. N + 1 /\ N + 1 - 1 = N
  BY <1>1
<1>8. Split(long) = TakeSymbol(b[N], x)
  BY <1>1, <1>3, <1>7
<1> QED BY <1>2, <1>6, <1>8 DEF long

\* Texts have a last symbol or none: for induction over their length.
LEMMA LastOfText ==
  ASSUME NEW S, NEW n \in Nat, NEW text \in Seq(S), Len(text) = n + 1
  PROVE  \E d \in Seq(S), x \in S : text = Append(d, x) /\ Len(d) = n
<1> DEFINE d == SubSeq(text, 1, n)
           x == text[n + 1]
<1>1. /\ \A i \in 1 .. n + 1 : text[i] \in S
      /\ 1 .. n \subseteq 1 .. n + 1 /\ n + 1 \in 1 .. n + 1
  BY ElementOfSeq
<1>2. d \in Seq(S) /\ Len(d) = n /\ \A i \in 1 .. n : d[i] = text[i]
  <2>1. /\ d \in Seq(S) /\ Len(d) = (IF 1 <= n THEN n - 1 + 1 ELSE 0)
        /\ \A i \in 1 .. n - 1 + 1 : d[i] = text[1 + i - 1]
    BY <1>1, SubSeqProperties
  <2> QED BY <2>1
<1>3. x \in S
  BY <1>1
<1> HIDE DEF d, x
<1>4. text = Append(d, x)
  <2>1. /\ Append(d, x) \in Seq(S) /\ Len(Append(d, x)) = n + 1
        /\ \A i \in 1 .. n : Append(d, x)[i] = d[i]
        /\ Append(d, x)[n + 1] = x
    BY <1>2, <1>3, AppendProperties
  <2>2. \A i \in 1 .. n + 1 : i \in 1 .. n \/ i = n + 1
    OBVIOUS
  <2>3. \A i \in 1 .. n + 1 : Append(d, x)[i] = text[i]
    BY <1>2, <2>1, <2>2 DEF x
  <2> QED BY <2>1, <2>3, SeqEqual
<1> QED BY <1>2, <1>3, <1>4

LEMMA AppendToConcat ==
  ASSUME NEW S, NEW s \in Seq(S), NEW t \in Seq(S), NEW x \in S
  PROVE  s \o t \in Seq(S) /\ s \o Append(t, x) = Append(s \o t, x)
<1>1. s \o t \in Seq(S) /\ <<x>> \in Seq(S)
  BY ConcatProperties
<1>2. Append(t, x) = t \o <<x>> /\ Append(s \o t, x) = (s \o t) \o <<x>>
  BY <1>1, AppendIsConcat
<1> QED BY <1>1, <1>2, ConcatAssociative

Parts(S) == [lines : Seq(Seq(S)), rest : Seq(S)]

LEMMA TakeSymbolType ==
  ASSUME NEW S, NEW parts \in Parts(S), NEW x \in S
  PROVE  TakeSymbol(parts, x) \in Parts(S) /\ WithoutReturn(parts.rest) \in Seq(S)
<1>1. parts.lines \in Seq(Seq(S)) /\ parts.rest \in Seq(S)
  BY DEF Parts
<1>2. WithoutReturn(parts.rest) \in Seq(S)
  <2>1. CASE parts.rest = <<>>
    BY <1>1, <2>1 DEF WithoutReturn
  <2>2. CASE parts.rest # <<>>
    <3>1. Len(parts.rest) \in Nat \ {0}
      BY <1>1, <2>2, EmptySeq
    <3>2. Front(parts.rest) \in Seq(S)
      <4>1. \A i \in 1 .. Len(parts.rest) - 1 : parts.rest[i] \in S
        BY <1>1, <3>1, ElementOfSeq
      <4> QED BY <3>1, <4>1, SubSeqProperties DEF Front
    <3> QED BY <1>1, <3>2 DEF WithoutReturn
  <2> QED BY <2>1, <2>2
<1> QED BY <1>1, <1>2 DEF TakeSymbol, Parts

\* What remains has no newline: alone, it would remain as it is.
LEMMA RestRemains ==
  ASSUME NEW S, NEW text \in Seq(S)
  PROVE  /\ Split(text) \in Parts(S)
         /\ Split(Split(text).rest) = [lines |-> <<>>, rest |-> Split(text).rest]
<1> DEFINE claim(t) == /\ Split(t) \in Parts(S)
                       /\ Split(Split(t).rest) = [lines |-> <<>>, rest |-> Split(t).rest]
           good == {n \in Nat : \A t \in Seq(S) : Len(t) = n => claim(t)}
<1>1. 0 \in good
  <2>1. \A t \in Seq(S) : Len(t) = 0 => t = <<>>
    OBVIOUS
  <2>2. Nothing \in Parts(S) /\ Nothing.rest = <<>>
    BY DEF Nothing, Parts
  <2>3. Split(Nothing.rest) = [lines |-> <<>>, rest |-> Nothing.rest]
    BY <2>2, SplitOfNothing DEF Nothing
  <2>4. claim(<<>>)
    BY <2>2, <2>3, SplitOfNothing
  <2> QED BY <2>1, <2>4
<1>2. ASSUME NEW n \in Nat, n \in good PROVE n + 1 \in good
  <2> SUFFICES ASSUME NEW t \in Seq(S), Len(t) = n + 1 PROVE claim(t)
    OBVIOUS
  <2>1. PICK d \in Seq(S), x \in S : t = Append(d, x) /\ Len(d) = n
    BY LastOfText
  <2>2. claim(d)
    BY <1>2, <2>1
  <2> DEFINE p == Split(d)
  <2>3. Split(t) = TakeSymbol(p, x)
    BY <2>1, SplitOfAppend
  <2>4. Split(t) \in Parts(S) /\ p.rest \in Seq(S)
    BY <2>2, <2>3, TakeSymbolType DEF Parts
  <2>5. CASE x = "NL"
    <3>1. Split(t).rest = <<>>
      BY <2>3, <2>5 DEF TakeSymbol
    <3> QED BY <2>4, <3>1, SplitOfNothing DEF Nothing
  <2>6. CASE x # "NL"
    <3>1. Split(t).rest = Append(p.rest, x)
      BY <2>3, <2>6 DEF TakeSymbol
    <3>2. Split(Append(p.rest, x)) = TakeSymbol(Split(p.rest), x)
      BY <2>4, SplitOfAppend
    <3>3. Split(Append(p.rest, x)) = [lines |-> <<>>, rest |-> Append(p.rest, x)]
      BY <2>2, <2>6, <3>2 DEF TakeSymbol
    <3> QED BY <2>4, <3>1, <3>3
  <2> QED BY <2>5, <2>6
<1>3. Len(text) \in good
  <2>1. Nat \subseteq good
    <3> HIDE DEF good
    <3> QED BY <1>1, <1>2, InductionOnNat
  <2> QED BY <2>1, LenProperties
<1> QED BY <1>3

\* A text may be cut anywhere: its lines are those of the first piece and those
\* of what remained of it with the second.
LEMMA SplitOfPieces ==
  ASSUME NEW S, NEW text \in Seq(S), NEW chunk \in Seq(S)
  PROVE  LET first  == Split(text)
             second == Split(first.rest \o chunk)
             whole  == Split(text \o chunk)
         IN  /\ whole.lines = first.lines \o second.lines
             /\ whole.rest = second.rest
<1> DEFINE first     == Split(text)
           second(c) == Split(first.rest \o c)
           whole(c)  == Split(text \o c)
           claim(c)  == /\ whole(c).lines = first.lines \o second(c).lines
                        /\ whole(c).rest = second(c).rest
           good == {n \in Nat : \A c \in Seq(S) : Len(c) = n => claim(c)}
<1>1. /\ first \in Parts(S) /\ first.rest \in Seq(S) /\ first.lines \in Seq(Seq(S))
      /\ Split(first.rest) = [lines |-> <<>>, rest |-> first.rest]
  BY RestRemains DEF Parts
<1> HIDE DEF first, second, whole, claim
<1>2. 0 \in good
  <2>1. \A c \in Seq(S) : Len(c) = 0 => c = <<>>
    OBVIOUS
  <2>2. text \o <<>> = text /\ first.rest \o <<>> = first.rest /\ first.lines \o <<>> = first.lines
    BY <1>1, ConcatEmptySeq
  <2>3. whole(<<>>) = first /\ second(<<>>) = [lines |-> <<>>, rest |-> first.rest]
    BY <1>1, <2>2 DEF first, whole, second
  <2>4. second(<<>>).lines = <<>> /\ second(<<>>).rest = first.rest
    BY <2>3
  <2>5. whole(<<>>).lines = first.lines \o second(<<>>).lines
    BY <2>2, <2>3, <2>4, Zenon
  <2>6. claim(<<>>)
    BY <2>3, <2>4, <2>5 DEF claim
  <2> QED BY <2>1, <2>6
<1>3. ASSUME NEW n \in Nat, n \in good PROVE n + 1 \in good
  <2> SUFFICES ASSUME NEW c \in Seq(S), Len(c) = n + 1 PROVE claim(c)
    OBVIOUS
  <2>1. PICK d \in Seq(S), x \in S : c = Append(d, x) /\ Len(d) = n
    BY LastOfText
  <2>2. claim(d)
    BY <1>3, <2>1
  <2>3. \A s \in Seq(S) : s \o d \in Seq(S) /\ s \o c = Append(s \o d, x)
    BY <2>1, AppendToConcat
  <2>4. whole(c) = TakeSymbol(whole(d), x) /\ second(c) = TakeSymbol(second(d), x)
    BY <1>1, <2>3, SplitOfAppend DEF whole, second
  <2>5. second(d) \in Parts(S)
    BY <1>1, <2>3, RestRemains DEF second
  <2> DEFINE line == WithoutReturn(second(d).rest)
  <2>6. second(d).lines \in Seq(Seq(S)) /\ line \in Seq(S)
    BY <2>5, TakeSymbolType DEF Parts
  <2>7. whole(d).rest = second(d).rest /\ whole(d).lines = first.lines \o second(d).lines
    BY <2>2 DEF claim
  <2>8. CASE x = "NL"
    <3>1. /\ whole(c).rest = <<>> /\ second(c).rest = <<>>
          /\ second(c).lines = IF line = <<>> THEN second(d).lines
                               ELSE Append(second(d).lines, line)
          /\ whole(c).lines = IF line = <<>> THEN whole(d).lines
                              ELSE Append(whole(d).lines, line)
      BY <2>4, <2>7, <2>8 DEF TakeSymbol
    <3>2. first.lines \o Append(second(d).lines, line)
            = Append(first.lines \o second(d).lines, line)
      <4> DEFINE before == first.lines
                 more == second(d).lines
                 T == Seq(S)
      <4>1. before \in Seq(T) /\ more \in Seq(T) /\ line \in T
        BY <1>1, <2>6
      <4> HIDE DEF before, more, line, T
      <4>2. \A s, t \in Seq(T), e \in T : s \o Append(t, e) = Append(s \o t, e)
        BY AppendToConcat
      <4>3. before \o Append(more, line) = Append(before \o more, line)
        BY <4>1, <4>2, Zenon
      <4> QED BY <4>3 DEF before, more
    <3>3. CASE line = <<>>
      <4>1. whole(c).lines = whole(d).lines /\ second(c).lines = second(d).lines
        BY <3>1, <3>3
      <4>2. whole(c).lines = first.lines \o second(c).lines
        BY <2>7, <4>1, Zenon
      <4> QED BY <3>1, <4>2 DEF claim
    <3>4. CASE line # <<>>
      <4>1. /\ whole(c).lines = Append(whole(d).lines, line)
            /\ second(c).lines = Append(second(d).lines, line)
        BY <3>1, <3>4
      <4>2. whole(c).lines = first.lines \o second(c).lines
        BY <2>7, <3>2, <4>1, Zenon
      <4> QED BY <3>1, <4>2 DEF claim
    <3> QED BY <3>3, <3>4
  <2>9. CASE x # "NL"
    <3>1. /\ whole(c).rest = Append(whole(d).rest, x) /\ whole(c).lines = whole(d).lines
          /\ second(c).rest = Append(second(d).rest, x) /\ second(c).lines = second(d).lines
      BY <2>4, <2>9 DEF TakeSymbol
    <3>2. whole(c).rest = second(c).rest
      BY <2>7, <3>1, Zenon
    <3>3. whole(c).lines = first.lines \o second(c).lines
      BY <2>7, <3>1, Zenon
    <3> QED BY <3>2, <3>3 DEF claim
  <2> QED BY <2>8, <2>9
<1>4. Len(chunk) \in good
  <2>1. Nat \subseteq good
    <3> HIDE DEF good
    <3> QED BY <1>2, <1>3, InductionOnNat
  <2> QED BY <2>1, LenProperties
<1>5. claim(chunk)
  BY <1>4
<1> QED BY <1>5 DEF claim, whole, second, first

\* Until a character is cut: the buffer is what remains of the text so far.
LogInv ==
  /\ sent \in Seq(Symbols) /\ cut \in BOOLEAN
  /\ LinesAreWhole
  /\ ~ cut => /\ sent # <<>> => sent[Len(sent)] # "b1"
              /\ stream # "ended" => pending = Split(sent).rest

\* A chunk that begins and ends with whole characters is decoded as it is.
LEMMA DecodeWhole ==
  ASSUME NEW text \in Seq(Symbols), NEW chunk \in Seq(Symbols), chunk # <<>>,
         WellFormed(text \o chunk), text # <<>> => text[Len(text)] # "b1",
         Last(chunk) # "b1"
  PROVE  Decode(chunk) = chunk
<1> DEFINE N == Len(text)
           M == Len(chunk)
           all == text \o chunk
<1>1. /\ N \in Nat /\ M \in Nat \ {0} /\ DOMAIN chunk = 1 .. M
      /\ DOMAIN all = 1 .. N + M /\ Len(all) = N + M
      /\ \A i \in 1 .. N + M : all[i] = IF i <= N THEN text[i] ELSE chunk[i - N]
      /\ chunk = [i \in 1 .. M |-> chunk[i]]
  BY ConcatProperties, LenProperties, EmptySeq
<1>2. /\ \A i \in 1 .. M : N + i \in 1 .. N + M /\ all[N + i] = chunk[i]
      /\ text # <<>> <=> N > 0
      /\ N > 0 => N \in 1 .. N + M /\ all[N] = text[N]
  BY <1>1, EmptySeq
<1> HIDE DEF N, M, all
<1>0. WellFormed(all)
  BY DEF all
<1>3. ASSUME NEW i \in 1 .. M, chunk[i] = "b1" PROVE i < M /\ chunk[i + 1] = "b2"
  <2>1. i < M
    BY <1>1, <1>3 DEF Last, M
  <2>2. N + i \in 1 .. N + M /\ N + i < N + M /\ i + 1 \in 1 .. M /\ N + i + 1 = N + (i + 1)
    BY <1>1, <2>1
  <2>3. all[N + i + 1] = "b2"
    BY <1>0, <1>1, <1>2, <1>3, <2>2 DEF WellFormed
  <2> QED BY <1>2, <2>1, <2>2, <2>3
<1>4. ASSUME NEW i \in 1 .. M, chunk[i] = "b2" PROVE i > 1 /\ chunk[i - 1] = "b1"
  <2>1. N + i \in 1 .. N + M /\ all[N + i] = "b2"
    BY <1>2, <1>4
  <2> DEFINE j == N + i
  <2>2. j > 1 /\ all[j - 1] = "b1"
    <3>1. \A k \in 1 .. N + M : all[k] = "b2" => k > 1 /\ all[k - 1] = "b1"
      BY <1>0, <1>1 DEF WellFormed
    <3> QED BY <2>1, <3>1
  <2>3. i # 1
    <3> SUFFICES ASSUME i = 1 PROVE FALSE
      OBVIOUS
    <3>1. j - 1 = N /\ N > 0
      BY <1>1, <2>2
    <3>2. text # <<>> /\ all[N] = text[N] /\ all[N] = "b1"
      BY <1>2, <2>2, <3>1
    <3> QED BY <3>2 DEF N
  <2>4. i - 1 \in 1 .. M /\ j - 1 = N + (i - 1)
    BY <1>1, <2>3
  <2> QED BY <1>2, <2>2, <2>3, <2>4
<1>5. \A i \in 1 .. M :
        (CASE chunk[i] = "b1" /\ (i < Len(chunk) => chunk[i + 1] # "b2") -> "bad"
           [] chunk[i] = "b2" /\ (i > 1 => chunk[i - 1] # "b1") -> "bad"
           [] OTHER -> chunk[i]) = chunk[i]
  BY <1>3, <1>4 DEF M
<1>6. Decode(chunk) = [i \in 1 .. M |-> chunk[i]]
  BY <1>1, <1>5 DEF Decode
<1> QED BY <1>1, <1>6

LEMMA DataKeeps == LogInv /\ Data => LogInv'
<1> SUFFICES ASSUME LogInv, Data PROVE LogInv'
  OBVIOUS
<1>0. PICK n \in 1 .. MaxText - Len(sent) :
        \E chunk \in [1 .. n -> Symbols] :
          /\ WellFormed(sent \o chunk)
          /\ sent' = sent \o chunk
          /\ EmitCompleteLines(chunk)
          /\ cut' = (cut \/ Last(chunk) = "b1")
  BY DEF Data
<1>1. PICK chunk \in [1 .. n -> Symbols] :
        /\ WellFormed(sent \o chunk)
        /\ sent' = sent \o chunk
        /\ EmitCompleteLines(chunk)
        /\ cut' = (cut \/ Last(chunk) = "b1")
  BY <1>0
<1>2. stream = "open" /\ stream' = "open"
  BY DEF Data
<1>3. chunk \in Seq(Symbols) /\ chunk # <<>> /\ Len(chunk) \in Nat \ {0}
  <2>1. n \in Nat \ {0}
    BY <1>0, LogAssumption DEF LogInv
  <2>2. chunk \in Seq(Symbols) /\ Len(chunk) = n
    BY <1>1, <2>1
  <2> QED BY <2>1, <2>2
<1>4. sent' \in Seq(Symbols) /\ cut' \in BOOLEAN
  <2>1. sent' \in Seq(Symbols)
    BY <1>1, <1>3, ConcatProperties DEF LogInv
  <2>2. cut' \in BOOLEAN
    BY <1>1 DEF LogInv
  <2> QED BY <2>1, <2>2
<1>5. ASSUME ~ cut'
      PROVE  /\ logged' = Split(sent').lines
             /\ pending' = Split(sent').rest
             /\ sent' # <<>> => sent'[Len(sent')] # "b1"
  <2>1. ~ cut /\ Last(chunk) # "b1"
    BY <1>1, <1>5
  <2>2. /\ sent \in Seq(Symbols)
        /\ sent # <<>> => sent[Len(sent)] # "b1"
        /\ pending = Split(sent).rest
    BY <1>2, <2>1 DEF LogInv
  <2>3. Decode(chunk) = chunk
    BY <1>1, <1>3, <2>1, <2>2, DecodeWhole
  <2>4. Split(sent).lines \in Seq(Seq(Symbols)) /\ logged = Split(sent).lines
    <3>1. Split(sent) \in Parts(Symbols)
      BY <2>2, RestRemains
    <3>2. logged = Split(sent).lines \o <<>>
      BY <1>2, <2>1 DEF LogInv, LinesAreWhole
    <3> QED BY <3>1, <3>2, ConcatEmptySeq DEF Parts
  <2>5. /\ logged' = logged \o Split(pending \o chunk).lines
        /\ pending' = Split(pending \o chunk).rest
    BY <1>1, <2>3 DEF EmitCompleteLines
  <2>6. /\ Split(sent \o chunk).lines = Split(sent).lines \o Split(pending \o chunk).lines
        /\ Split(sent \o chunk).rest = Split(pending \o chunk).rest
    BY <1>3, <2>2, SplitOfPieces
  <2>7. sent'[Len(sent')] # "b1"
    <3>1. Len(sent') = Len(sent) + Len(chunk) /\ Len(sent) \in Nat
      BY <1>1, <1>3, <2>2, ConcatProperties, LenProperties
    <3>2. Len(sent) + Len(chunk) \in 1 .. Len(sent) + Len(chunk)
      BY <1>3, <3>1
    <3>3. (sent \o chunk)[Len(sent) + Len(chunk)] = chunk[Len(chunk)]
      BY <1>3, <2>2, <3>1, <3>2, ConcatProperties
    <3> QED BY <1>1, <2>1, <3>1, <3>3 DEF Last
  <2> QED BY <1>1, <2>4, <2>5, <2>6, <2>7
<1>6. LinesAreWhole'
  <2> SUFFICES ASSUME ~ cut' PROVE logged' = Split(sent').lines \o <<>>
    BY <1>2 DEF LinesAreWhole
  <2>1. Split(sent') \in Parts(Symbols)
    BY <1>4, RestRemains
  <2> QED BY <1>5, <2>1, ConcatEmptySeq DEF Parts
<1> QED BY <1>2, <1>4, <1>5, <1>6 DEF LogInv

LEMMA LogHolds ==
  /\ Init => LogInv
  /\ LogInv /\ [Next]_vars => LogInv'
<1>1. Init => LogInv
  <2> SUFFICES ASSUME Init PROVE LogInv
    OBVIOUS
  <2>1. stream = "none" /\ sent = <<>> /\ pending = <<>> /\ logged = <<>> /\ cut = FALSE
    BY DEF Init, LogInit
  <2>2. Split(sent) = Nothing
    BY <2>1, SplitOfNothing
  <2>3. cut \in BOOLEAN
    BY <2>1
  <2>4. <<>> \o <<>> = <<>>
    OBVIOUS
  <2> QED BY <2>1, <2>2, <2>3, <2>4 DEF LogInv, LinesAreWhole, Nothing
<1>2. ASSUME LogInv, StreamOpens \/ StreamBreaks \/ UNCHANGED logVars PROVE LogInv'
  <2>1. UNCHANGED <<sent, pending, logged, cut>>
    BY <1>2 DEF StreamOpens, StreamBreaks, logVars
  <2>2. stream' = stream \/ (stream \in {"none", "open"} /\ stream' \in {"open", "broken"})
    BY <1>2 DEF StreamOpens, StreamBreaks, logVars
  <2>3. stream = "ended" <=> stream' = "ended"
    BY <2>2
  <2> QED BY <1>2, <2>1, <2>3 DEF LogInv, LinesAreWhole
<1>3. ASSUME LogInv, StreamEnds PROVE LogInv'
  <2>1. /\ stream = "open" /\ stream' = "ended" /\ sent' = sent /\ cut' = cut
        /\ logged' = IF pending = <<>> THEN logged ELSE Append(logged, pending)
    BY <1>3 DEF StreamEnds
  <2>2. ASSUME ~ cut
        PROVE  logged' = Split(sent).lines
                 \o (IF Split(sent).rest # <<>> THEN <<Split(sent).rest>> ELSE <<>>)
    <3>1. Split(sent).lines \in Seq(Seq(Symbols)) /\ Split(sent).rest \in Seq(Symbols)
      BY <1>3, RestRemains DEF LogInv, Parts
    <3>2. logged = Split(sent).lines \o <<>> /\ pending = Split(sent).rest
      BY <1>3, <2>1, <2>2 DEF LogInv, LinesAreWhole
    <3>3. /\ Split(sent).lines \o <<>> = Split(sent).lines
          /\ Append(Split(sent).lines, Split(sent).rest)
               = Split(sent).lines \o <<Split(sent).rest>>
      BY <3>1, ConcatEmptySeq, AppendIsConcat
    <3> QED BY <2>1, <3>2, <3>3
  <2> QED BY <1>3, <2>1, <2>2 DEF LogInv, LinesAreWhole
<1>4. LogInv /\ [Next]_vars => LogInv'
  BY <1>2, <1>3, DataKeeps DEF Next, LogNext, vars
<1> QED BY <1>1, <1>4

\* However the stream of a container is cut into chunks, the logger gets the
\* lines that were written, each whole and once, unless a character is cut.
THEOREM LogsAreWhole == Spec => []LinesAreWhole
<1>1. LogInv => LinesAreWhole
  BY DEF LogInv
<1> QED BY <1>1, LogHolds, PTL DEF Spec

=============================================================================
