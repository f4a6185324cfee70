----------------------------- MODULE ContainerLog -----------------------------
(***************************************************************************)
(* createContainerLogConsumer(): the log stream of a container, which      *)
(* arrives in chunks cut anywhere, as lines for the logger.                *)
(*                                                                         *)
(* A text is a sequence of symbols: "x" is any other character, "CR" and   *)
(* "NL" the two that end lines, "b1" and "b2" the bytes of one character   *)
(* that has two.                                                           *)
(***************************************************************************)
EXTENDS Naturals, Sequences, SequencesExt

CONSTANT MaxText  \* bound: symbols in a stream

ASSUME LogAssumption == MaxText \in Nat

VARIABLES
  stream,   \* "none", "open", "ended", "broken"
  sent,     \* what the container has written
  pending,  \* the consumer's buffer
  logged,   \* the lines given to the logger
  cut       \* did a chunk end inside a character?

logVars == <<stream, sent, pending, logged, cut>>

Symbols == {"x", "CR", "NL", "b1", "b2"}

LogInit ==
  /\ stream = "none"
  /\ sent = <<>> /\ pending = <<>> /\ logged = <<>>
  /\ cut = FALSE

\* A line as the pattern \r?\n leaves it.
WithoutReturn(line) ==
  IF line # <<>> /\ Last(line) = "CR" THEN Front(line) ELSE line

\* A newline ends a line, which is logged unless it is empty.
TakeSymbol(parts, symbol) ==
  IF symbol = "NL"
    THEN LET line == WithoutReturn(parts.rest) IN
         [lines |-> IF line = <<>> THEN parts.lines ELSE Append(parts.lines, line),
          rest |-> <<>>]
    ELSE [lines |-> parts.lines, rest |-> Append(parts.rest, symbol)]

\* split(): the lines to be logged, and the part that remains.
Split(text) ==
  LET after[n \in 0 .. Len(text)] ==
        IF n = 0 THEN [lines |-> <<>>, rest |-> <<>>]
        ELSE TakeSymbol(after[n - 1], text[n])
  IN  after[Len(text)]

\* chunk.toString('utf8'): a byte without its other half is replaced.
Decode(chunk) ==
  [i \in DOMAIN chunk |->
     CASE chunk[i] = "b1" /\ (i < Len(chunk) => chunk[i + 1] # "b2") -> "bad"
       [] chunk[i] = "b2" /\ (i > 1 => chunk[i - 1] # "b1") -> "bad"
       [] OTHER -> chunk[i]]

\* The texts a container writes: every character is whole.
WellFormed(text) ==
  \A i \in DOMAIN text :
    /\ text[i] = "b2" => i > 1 /\ text[i - 1] = "b1"
    /\ text[i] = "b1" /\ i < Len(text) => text[i + 1] = "b2"

StreamOpens ==
  /\ stream = "none"
  /\ stream' = "open"
  /\ UNCHANGED <<sent, pending, logged, cut>>

\* Mutant: only the newest chunk is split.
LinesOfChunk(chunk) ==
  LET parts == Split(Decode(chunk)) IN
  /\ logged' = logged \o parts.lines
  /\ pending' = parts.rest

\* emitCompleteLines()
EmitCompleteLines(chunk) ==
  LET parts == Split(pending \o Decode(chunk)) IN
  /\ logged' = logged \o parts.lines
  /\ pending' = parts.rest

\* 'data': a chunk of any length arrives.
Data ==
  /\ stream = "open"
  /\ \E n \in 1 .. MaxText - Len(sent) : \E chunk \in [1..n -> Symbols] :
       /\ WellFormed(sent \o chunk)
       /\ sent' = sent \o chunk
       /\ EmitCompleteLines(chunk)
       /\ cut' = (cut \/ Last(chunk) = "b1")
  /\ UNCHANGED stream

\* 'end': what is left is a line.
StreamEnds ==
  /\ stream = "open"
  /\ stream' = "ended"
  /\ logged' = IF pending = <<>> THEN logged ELSE Append(logged, pending)
  /\ pending' = <<>>
  /\ UNCHANGED <<sent, cut>>

\* 'error': an entry of its own, the buffer stays.
StreamBreaks ==
  /\ stream = "open"
  /\ stream' = "broken"
  /\ UNCHANGED <<sent, pending, logged, cut>>

LogNext == StreamOpens \/ Data \/ StreamEnds \/ StreamBreaks

\* However the stream is cut into chunks, the logger gets the lines that were
\* written, in order, each whole and once (container-log-consumer.ts:15): save
\* that a character cut in two is lost, which the code does not rejoin.
LinesAreWhole ==
  LET parts == Split(sent) IN
  ~cut =>
    logged = parts.lines \o
      (IF stream = "ended" /\ parts.rest # <<>> THEN <<parts.rest>> ELSE <<>>)

=============================================================================
