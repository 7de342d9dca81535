------------------------------ MODULE SSEParser ------------------------------
(***************************************************************************)
(* SSEParser (agent/sse_parser.py): the bytes of one answer, cut into      *)
(* chunks anywhere, become the payloads of server-sent events.             *)
(*                                                                         *)
(* Abstracted: "data" stands for the characters "data: ", "note" for any   *)
(* other field or comment up to its text, "head" and "tail" for the bytes  *)
(* of a two-byte character (which is written "head" once it is decoded),   *)
(* "done" for "[DONE]".  Every token counts as one character.              *)
(***************************************************************************)
EXTENDS Integers, Sequences, SequencesExt, Pieces

CONSTANTS
  Wires,         \* bound: the streams a server may send
  MaxChunk,      \* chunk_size of the HTTP client, 8192 in the code
  MaxEventSize   \* DEFAULT_MAX_EVENT_SIZE, 1048576 in the code

Tokens == {"data", "note", "p", "done", "head", "tail", "CR", "LF"}

ASSUME SSEAssumption ==
  /\ \A wire \in Wires : wire \in Seq(Tokens)
  /\ MaxChunk \in Nat \ {0} /\ MaxEventSize \in Nat

VARIABLES
  wire,       \* what the server sends
  fed,        \* how much of it was fed
  decoder,    \* bytes of a character cut in two, in the incremental decoder
  buffer,     \* _buffer
  dataLines,  \* _current_data_lines
  isDone,     \* _is_done
  delivered,  \* payloads returned so far, each the sequence of its data lines
  status      \* open, closed, INVALID_UTF8 or EVENT_TOO_LARGE

parserVars == <<decoder, buffer, dataLines, isDone>>
vars == <<wire, fed, parserVars, delivered, status>>

-----------------------------------------------------------------------------
\* decode: the bytes that make characters, and the one that waits for its second half.
ValidBytes(bytes) ==
  \A i \in DOMAIN bytes :
    /\ bytes[i] = "tail" => i > 1 /\ bytes[i - 1] = "head"
    /\ bytes[i] = "head" /\ i < Len(bytes) => bytes[i + 1] = "tail"
Undecoded(bytes) == IF bytes # <<>> /\ Last(bytes) = "head" THEN <<"head">> ELSE <<>>
Text(bytes) ==
  InOrder([i \in {j \in DOMAIN bytes : bytes[j] # "tail"} |-> bytes[i]], Len(bytes))
Decoded(bytes) == Text(SubSeq(bytes, 1, Len(bytes) - Len(Undecoded(bytes))))

\* A carriage return is part of the line feed behind it.
IsReturn(text, i) == text[i] = "CR" /\ i < Len(text) /\ text[i + 1] = "LF"

\* Faulty variant of Normalized: a carriage return of its own is no line end.
NormalizedPairs(text) ==
  InOrder([i \in {j \in DOMAIN text : ~IsReturn(text, j)} |-> text[i]], Len(text))

\* replace("\r\n", "\n").replace("\r", "\n"), then split("\n").
Normalized(text) ==
  InOrder([i \in {j \in DOMAIN text : ~IsReturn(text, j)} |->
             IF text[i] = "CR" THEN "LF" ELSE text[i]], Len(text))
Parts(text) == Groups(text, {i \in DOMAIN text : text[i] = "LF"}, Len(text))

\* Faulty variant of PendingReturn: a final carriage return ends its line at once.
NoPendingReturn(text) == <<>>

\* _extract_lines: a final carriage return may be half of a line end, and waits.
PendingReturn(text) == IF text # <<>> /\ Last(text) = "CR" THEN <<"CR">> ELSE <<>>

SplitAt(text) ==
  Parts(Normalized(SubSeq(text, 1, Len(text) - Len(PendingReturn(text)))))
Complete(text) == Front(SplitAt(text))
Rest(text)     == Last(SplitAt(text)) \o PendingReturn(text)

-----------------------------------------------------------------------------
SizeOf(lines) ==
  LET upTo[n \in 0..Len(lines)] == IF n = 0 THEN 0 ELSE upTo[n - 1] + Len(lines[n])
  IN  upTo[Len(lines)]

\* A payload ends: it is returned, unless there is none.
Dispatch(acc) ==
  IF acc.data = <<>> THEN acc
  ELSE [acc EXCEPT !.out = Append(@, acc.data), !.data = <<>>,
                   !.done = @ \/ acc.data = << <<"done">> >>]

\* _process_lines, one line of it.
ProcessLine(acc, line) ==
  IF acc.large THEN acc
  ELSE IF line = <<>> THEN Dispatch(acc)
  ELSE IF line[1] # "data" THEN acc
  ELSE [acc EXCEPT !.data = Append(@, Tail(line)),
                   !.large = SizeOf(Append(acc.data, Tail(line))) > MaxEventSize]
ProcessLines(lines) ==
  LET after[n \in 0..Len(lines)] ==
        IF n = 0 THEN [data |-> dataLines, out |-> <<>>, done |-> isDone, large |-> FALSE]
        ELSE ProcessLine(after[n - 1], lines[n])
  IN  after[Len(lines)]

-----------------------------------------------------------------------------
Init ==
  /\ wire \in Wires /\ fed = 0
  /\ decoder = <<>> /\ buffer = <<>> /\ dataLines = <<>> /\ isDone = FALSE
  /\ delivered = <<>> /\ status = "open"

\* An error is raised: what this call would have returned is lost, and the provider
\* throws the parser away.
Raise(error) ==
  /\ status' = error
  /\ UNCHANGED <<parserVars, delivered>>

\* Faulty variant of TooLong: the limit is one less.
TooLongByOne(text) == Len(text) >= MaxEventSize

TooLong(text) == Len(text) > MaxEventSize

Feed ==
  /\ status = "open"
  /\ \E n \in 1..MaxChunk :
       LET bytes == decoder \o SubSeq(wire, fed + 1, fed + n)
           text  == buffer \o Decoded(bytes)
           acc   == ProcessLines(Complete(text))
       IN /\ fed + n <= Len(wire)
          /\ fed' = fed + n
          /\ IF ~ValidBytes(bytes) THEN Raise("INVALID_UTF8")
             ELSE IF TooLong(text) \/ acc.large THEN Raise("EVENT_TOO_LARGE")
             ELSE /\ decoder' = Undecoded(bytes)
                  /\ buffer' = Rest(text)
                  /\ dataLines' = acc.data /\ isDone' = acc.done
                  /\ delivered' = delivered \o acc.out
                  /\ UNCHANGED status
  /\ UNCHANGED wire

\* The stream ends, wherever it is: the last line and the last event count as complete.
Close ==
  /\ status = "open"
  /\ LET acc == ProcessLines(IF buffer = <<>> THEN <<>> ELSE Parts(Normalized(buffer)))
         end == Dispatch(acc)
     IN IF decoder # <<>> THEN Raise("INVALID_UTF8")
        ELSE IF acc.large THEN Raise("EVENT_TOO_LARGE")
        ELSE /\ status' = "closed"
             /\ buffer' = <<>> /\ dataLines' = end.data /\ isDone' = end.done
             /\ delivered' = delivered \o end.out
             /\ UNCHANGED decoder
  /\ UNCHANGED <<wire, fed>>

Next == Feed \/ Close
Spec == Init /\ [][Next]_vars

-----------------------------------------------------------------------------
(* The events of a stream, defined on the whole of it.                      *)

\* Its lines, each without its end; the last one has none.
LinesOf(text) ==
  LET ends       == {i \in DOMAIN text : text[i] \in {"CR", "LF"} /\ ~IsReturn(text, i)}
      characters == [i \in {j \in DOMAIN text : text[j] \notin {"CR", "LF"}} |-> text[i]]
  IN  Groups(characters, ends, Len(text))

\* The data between two blank lines, wherever there is any.
EventsOf(lines) ==
  LET blanks   == {k \in DOMAIN lines : lines[k] = <<>>}
      data     == [k \in {j \in DOMAIN lines \ blanks : lines[j][1] = "data"} |-> Tail(lines[k])]
      event(b) == Between(data, blanks, b)
  IN  InOrder([b \in {k \in blanks : event(k) # <<>>} |-> event(b)], Len(lines))

Received == SubSeq(wire, 1, fed)

\* Typing, and no line end but a waiting carriage return in the buffer.
TypeOKB ==
  /\ wire \in Wires /\ fed \in 0..Len(wire)
  /\ decoder \in {<<>>, <<"head">>}
  /\ buffer \in Seq(Tokens \ {"tail", "LF"})
  /\ \A i \in 1..(Len(buffer) - 1) : buffer[i] # "CR"
  /\ dataLines \in Seq(Seq(Tokens)) /\ isDone \in BOOLEAN
  /\ delivered \in Seq(Seq(Seq(Tokens)))
  /\ status \in {"open", "closed", "INVALID_UTF8", "EVENT_TOO_LARGE"}

\* However the stream is cut (sse_parser.py:41), the payloads returned so far are those
\* of the lines that are certainly complete; when it is closed, those of all of it.  A
\* carriage return is not certain to end its line while the character behind it is not
\* there, be it that half of it is.
EventsAsSent ==
  LET text    == Text(Received)
      decoded == SubSeq(text, 1, Len(text) - Len(decoder))
      certain == IF decoded # <<>> /\ Last(decoded) = "CR" THEN Front(decoded) ELSE decoded
  IN  /\ status = "open"   => delivered = EventsOf(Front(LinesOf(certain)))
      /\ status = "closed" => delivered = EventsOf(Append(LinesOf(text), <<>>))
      /\ status \in {"open", "closed"} => isDone = Contains(delivered, << <<"done">> >>)

\* The size limit refuses no stream whose events, and whose lines together with one
\* chunk, are within it (sse_parser.py:67): how a stream is cut plays no part below that.
LimitSparesSmallEvents ==
  status = "EVENT_TOO_LARGE" =>
    LET lines  == LinesOf(Text(Received))
        events == EventsOf(Append(lines, <<>>))
    IN  \/ \E k \in DOMAIN lines : Len(lines[k]) + 1 + MaxChunk > MaxEventSize
        \/ \E k \in DOMAIN events : SizeOf(events[k]) > MaxEventSize
=============================================================================
