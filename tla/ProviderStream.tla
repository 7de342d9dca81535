--------------------------- MODULE ProviderStream ---------------------------
(***************************************************************************)
(* One provider request after the other on the worker thread:              *)
(* AgentWorker._run_loop draws events from the generator                   *)
(* OpenAICompatibleProvider.stream_chat, which reads an HttpResponse, and  *)
(* collects tool calls in a ToolCallAccumulator that all requests share.   *)
(* The main thread sets the cancel event at any time; a read may fail or   *)
(* time out at any time.                                                   *)
(*                                                                         *)
(* A chunk is the payloads its events complete: SSEParser shows that how   *)
(* the bytes are cut plays no other part.  A payload carries one delta.    *)
(* Abstracted: finish_reason and usage, which the worker never looks at.   *)
(***************************************************************************)
EXTENDS Integers, Sequences, FiniteSets, Pieces

CONSTANTS
  Payloads,      \* bound: the payloads a server may send
  MaxPayloads,   \* bound: payloads in one answer
  MaxChunk,      \* bound: payloads completed by one chunk
  MaxTasks       \* bound: requests

\* Texts and the pieces of ids, names and arguments of calls; "" is an absent field.
\* Arguments are complete with both their pieces, "{" and "}".
CallDeltas == [kind : {"call"}, index : {0, 1}, id : {"", "id", "more"}, name : {"", "name", "more"},
               args : {"", "{", "}", "[]"}]
Text(t)    == [kind |-> "text", text |-> t]
Plain(k)   == [kind |-> k]
AllPayloads ==
  CallDeltas \union {Text(t) : t \in {"a", "b"}}
             \union {Plain(k) : k \in {"nothing", "malformed", "crashing", "done"}}

ASSUME StreamAssumption ==
  /\ Payloads \subseteq AllPayloads
  /\ MaxPayloads \in Nat /\ MaxChunk \in Nat \ {0} /\ MaxTasks \in Nat

VARIABLES
  tasks,      \* requests submitted so far
  phase,      \* where the worker is in serving the newest one, or idle
  cancelSet,  \* its cancel event
  received,   \* payloads that came in for it
  batch,      \* those of the chunk still to be handled
  failedRead, \* did a read fail or time out in mid-stream?
  offer,      \* the event the generator yielded, until the worker has looked at it
  calls,      \* accumulator._calls: the pieces of each call so far
  lastCalls,  \* last_tool_calls
  streamed,   \* streamed_text, as its pieces
  held,       \* the event the worker is about to put
  put,        \* events put for the task
  late        \* those put since it was cancelled

readVars == <<received, batch, failedRead>>
putVars  == <<streamed, held, put, late>>
vars == <<tasks, phase, cancelSet, readVars, offer, calls, lastCalls, putVars>>

None      == Plain("none")
NoCalls   == [index \in {} |-> 0]
EmptyCall == [id |-> <<>>, name |-> <<>>, args |-> <<>>]

Init ==
  /\ tasks = 0 /\ phase = "idle" /\ cancelSet = FALSE
  /\ received = <<>> /\ batch = <<>> /\ failedRead = FALSE
  /\ offer = None /\ calls = NoCalls /\ lastCalls = NoCalls
  /\ streamed = <<>> /\ held = None /\ put = <<>> /\ late = 0

-----------------------------------------------------------------------------
\* submit_task, when the request before is done, and cancel_current_turn.
SubmitTask ==
  /\ phase = "idle" /\ tasks < MaxTasks
  /\ tasks' = tasks + 1 /\ phase' = "queued" /\ cancelSet' = FALSE
  /\ received' = <<>> /\ batch' = <<>> /\ failedRead' = FALSE
  /\ streamed' = <<>> /\ put' = <<>> /\ late' = 0
  /\ UNCHANGED <<offer, calls, lastCalls, held>>

SetCancelEvent ==
  /\ phase # "idle" /\ ~cancelSet
  /\ cancelSet' = TRUE
  /\ UNCHANGED <<tasks, phase, readVars, offer, calls, lastCalls, putVars>>

TakeTask ==
  /\ phase = "queued"
  /\ phase' = IF cancelSet THEN "idle" ELSE "asking"
  /\ UNCHANGED <<tasks, cancelSet, readVars, offer, calls, lastCalls, putVars>>

-----------------------------------------------------------------------------
\* Faulty variant of Running: the generator runs on before the event is put.
RunsAhead == offer = None

\* The generator runs when the worker draws from it, done with the event before.
Running == offer = None /\ held = None

Yield(event) == offer' = event /\ UNCHANGED phase

\* Faulty variant of YieldError: every error passes for a cancellation.
YieldCancelled(type) == offer' = [kind |-> "error", cancelled |-> TRUE] /\ UNCHANGED phase

\* The generator returns after an error: the worker never draws from it again.
YieldError(type) == offer' = [kind |-> "error", cancelled |-> type = "CANCELLED"] /\ UNCHANGED phase

\* Faulty variant of Ask: the accumulator is not reset.
AskUnreset ==
  /\ phase = "asking" /\ Running
  /\ \/ cancelSet /\ YieldError("CANCELLED") /\ UNCHANGED <<calls, lastCalls>>
     \/ YieldError("NETWORK_ERROR") /\ UNCHANGED <<calls, lastCalls>>
     \/ /\ ~cancelSet
        /\ phase' = "reading" /\ lastCalls' = NoCalls
        /\ UNCHANGED <<offer, calls>>
  /\ UNCHANGED <<tasks, cancelSet, readVars, putVars>>

\* stream_chat up to the response: configuration, network policy, images and the HTTP
\* request may each end it with an error.
Ask ==
  /\ phase = "asking" /\ Running
  /\ \/ cancelSet /\ YieldError("CANCELLED") /\ UNCHANGED <<calls, lastCalls>>
     \/ YieldError("NETWORK_ERROR") /\ UNCHANGED <<calls, lastCalls>>
     \/ /\ ~cancelSet
        /\ phase' = "reading" /\ calls' = NoCalls /\ lastCalls' = NoCalls
        /\ UNCHANGED offer
  /\ UNCHANGED <<tasks, cancelSet, readVars, putVars>>

\* HttpResponse.__iter__: looks at the cancel event, then reads.
ReadChunk ==
  /\ phase = "reading" /\ ~cancelSet
  /\ \E n \in 1..MaxChunk : batch' \in [1..n -> Payloads]
  /\ received' = received \o batch'
  /\ Len(received') <= MaxPayloads
  /\ phase' = "feeding"
  /\ UNCHANGED <<tasks, cancelSet, failedRead, offer, calls, lastCalls, putVars>>

\* The answer ends, the read fails, or the event was set: the iteration just stops.
StopReading ==
  /\ phase = "reading"
  /\ failedRead' \in (IF cancelSet THEN {FALSE} ELSE BOOLEAN)
  /\ phase' = "closing"
  /\ UNCHANGED <<tasks, cancelSet, received, batch, offer, calls, lastCalls, putVars>>

\* The chunk is fed to the parser, which may refuse it.
FeedChunk ==
  /\ phase = "feeding" /\ Running
  /\ \/ cancelSet /\ YieldError("CANCELLED")
     \/ ~cancelSet /\ YieldError("INVALID_RESPONSE")
     \/ ~cancelSet /\ phase' = "handling" /\ UNCHANGED offer
  /\ UNCHANGED <<tasks, cancelSet, readVars, calls, lastCalls, putVars>>

\* feed_delta: an id that repeats is no continuation.
Piece(old, new) == IF new = "" THEN old ELSE Append(old, new)
IdPiece(old, new) == IF old = <<new>> THEN old ELSE Piece(old, new)
FeedDelta(d) ==
  LET known == IF d.index \in DOMAIN calls THEN calls[d.index] ELSE EmptyCall
      call  == [id |-> IdPiece(known.id, d.id), name |-> Piece(known.name, d.name),
                args |-> Piece(known.args, d.args)]
  IN  calls' = [index \in DOMAIN calls \union {d.index} |-> IF index = d.index THEN call ELSE calls[index]]

\* An exception ends the generator and is reported by the worker, cancelled or not.
RaiseException ==
  /\ put' = Append(put, Plain("failure"))
  /\ late' = IF cancelSet THEN late + 1 ELSE late
  /\ phase' = "idle"
  /\ UNCHANGED <<streamed, held>>

HandlePayload ==
  /\ phase = "handling" /\ Running
  /\ IF batch = <<>>
     THEN phase' = "reading" /\ UNCHANGED <<batch, offer, calls, putVars>>
     ELSE LET p == Head(batch) IN
          /\ batch' = Tail(batch)
          /\ \/ /\ p.kind = "text" /\ Yield(p)
                /\ UNCHANGED <<calls, putVars>>
             \/ /\ p.kind = "call" /\ FeedDelta(p) /\ Yield(p)
                /\ UNCHANGED putVars
             \/ /\ p.kind = "nothing"
                /\ UNCHANGED <<phase, offer, calls, putVars>>
             \/ /\ p.kind = "malformed" /\ YieldError("INVALID_RESPONSE")
                /\ UNCHANGED <<calls, putVars>>
             \/ /\ p.kind = "crashing" /\ RaiseException
                /\ UNCHANGED <<offer, calls>>
             \/ /\ p.kind = "done" /\ phase' = "closing"
                /\ UNCHANGED <<offer, calls, putVars>>
  /\ UNCHANGED <<tasks, cancelSet, received, failedRead, lastCalls>>

\* finalize: every call has an id and a name, and arguments that are an object or absent.
Finalizable ==
  \A index \in DOMAIN calls :
    /\ calls[index].id # <<>> /\ calls[index].name # <<>>
    /\ calls[index].args \in {<<>>, <<"{", "}">>}

\* The stream is over: the parser is closed, which may fail, and calls are finalized.
\* What the parser still held is looked through for usage only.
Finish ==
  /\ phase = "closing" /\ Running
  /\ \/ YieldError("INVALID_RESPONSE") /\ UNCHANGED lastCalls
     \/ /\ cancelSet
        /\ YieldError("CANCELLED") /\ UNCHANGED lastCalls
     \/ /\ ~cancelSet /\ ~Finalizable
        /\ YieldError("TOOL_CALL_PARSE_ERROR") /\ UNCHANGED lastCalls
     \/ /\ ~cancelSet /\ Finalizable
        /\ lastCalls' = calls
        /\ Yield(Plain("completed"))
  /\ UNCHANGED <<tasks, cancelSet, readVars, calls, putVars>>

-----------------------------------------------------------------------------
\* Faulty variant of DropTask: the event is dropped, and the next one is drawn.
DropEvent == UNCHANGED <<phase, streamed, held>>

DropTask == phase' = "idle" /\ UNCHANGED <<streamed, held>>

\* Faulty variant of MustDrop: the cancel event is left to the provider.
MustDropError == offer.kind = "error" /\ offer.cancelled

MustDrop == cancelSet \/ (offer.kind = "error" /\ offer.cancelled)

\* The worker looks at the cancel event, then goes on to put what it was offered.
ReceiveEvent ==
  /\ offer # None
  /\ offer' = None
  /\ \/ MustDrop /\ DropTask
     \/ /\ ~MustDrop
        /\ \/ /\ offer.kind = "text"
              /\ streamed' = Append(streamed, offer.text)
              /\ held' = [kind |-> "delta", text |-> offer.text]
           \/ /\ offer.kind = "error"
              /\ held' = Plain("failure") /\ UNCHANGED streamed
           \/ /\ offer.kind = "completed"
              /\ held' = [kind |-> "answer", text |-> streamed, calls |-> lastCalls]
              /\ UNCHANGED streamed
           \/ /\ offer.kind = "call"
              /\ UNCHANGED <<streamed, held>>
        /\ UNCHANGED phase
  /\ UNCHANGED <<tasks, cancelSet, readVars, calls, lastCalls, put, late>>

PutEvent ==
  /\ held # None
  /\ put' = Append(put, held)
  /\ late' = IF cancelSet THEN late + 1 ELSE late
  /\ held' = None
  /\ phase' = IF held.kind = "delta" THEN phase ELSE "idle"
  /\ UNCHANGED <<tasks, cancelSet, readVars, offer, calls, lastCalls, streamed>>

Worker ==
  \/ TakeTask \/ Ask \/ ReadChunk \/ StopReading \/ FeedChunk
  \/ HandlePayload \/ Finish \/ ReceiveEvent \/ PutEvent
Next == SubmitTask \/ SetCancelEvent \/ Worker
Spec == Init /\ [][Next]_vars

\* The thread keeps running, and every read returns: by data, the end or the timeout.
\* The bound on an answer's length stands for servers that end their answers.
Fairness == WF_vars(Worker)
FairSpec == Spec /\ Fairness

-----------------------------------------------------------------------------
Phases == {"idle", "queued", "asking", "reading", "feeding", "handling", "closing"}
Calls(s) == \A index \in DOMAIN s : index \in {0, 1} /\ DOMAIN s[index] = DOMAIN EmptyCall

\* Typing: the generator runs on only when its last event was looked at and put.
TypeOKW ==
  /\ tasks \in 0..MaxTasks /\ phase \in Phases /\ cancelSet \in BOOLEAN /\ failedRead \in BOOLEAN
  /\ received \in Seq(Payloads) /\ batch \in Seq(Payloads)
  /\ offer.kind \in {"none", "text", "call", "error", "completed"}
  /\ held.kind \in {"none", "delta", "failure", "answer"}
  /\ Calls(calls) /\ Calls(lastCalls)
  /\ streamed \in Seq({"a", "b"}) /\ late \in Nat
  /\ offer # None => held = None
  /\ phase \in {"idle", "queued", "reading"} => Running

\* What the answer was made from: the payloads before [DONE].
Handled == {i \in DOMAIN received : \A j \in 1..i : received[j].kind # "done"}
OfKind(kind)   == {i \in Handled : received[i].kind = kind}
OfCall(index)  == {i \in OfKind("call") : received[i].index = index}
TextPieces     == [i \in OfKind("text") |-> received[i].text]
NamePieces(index) == [i \in {j \in OfCall(index) : received[j].name # ""} |-> received[i].name]
ArgPieces(index)  == [i \in {j \in OfCall(index) : received[j].args # ""} |-> received[i].args]
DeltaPieces    == [i \in {j \in DOMAIN put : put[j].kind = "delta"} |-> put[i].text]

\* The deltas put are the beginning of the server's text, and an answer has all of it
\* and exactly its own calls, each with every piece the server sent for it and none of
\* an earlier request (openai_provider.py:395, tool_call_accumulator.py:42).
Sent(piece) == InOrder(piece, Len(received))
DeltasPut   == InOrder(DeltaPieces, Len(put))
AnswerIsItsOwn ==
  /\ \A i \in DOMAIN DeltasPut : i \in DOMAIN Sent(TextPieces) /\ DeltasPut[i] = Sent(TextPieces)[i]
  /\ \A i \in DOMAIN put : put[i].kind = "answer" =>
       /\ put[i].text = Sent(TextPieces)
       /\ DOMAIN put[i].calls = {received[j].index : j \in OfKind("call")}
       /\ \A index \in DOMAIN put[i].calls :
            /\ put[i].calls[index].name = Sent(NamePieces(index))
            /\ put[i].calls[index].args = Sent(ArgPieces(index))
            /\ put[i].calls[index].args \in {<<>>, <<"{", "}">>}

\* A cancelled task puts at most two more events, and the second is the report of an
\* exception (worker.py:127, worker.py:207).
FewLateEvents ==
  /\ late <= 2
  /\ late = 2 => put[Len(put)].kind = "failure" /\ put[Len(put) - 1].kind = "delta"

\* The rest of the agent sees deltas, then one answer or one failure; only a cancelled
\* task ends in silence.
AsTask == INSTANCE WorkerTask WITH
            serving <- phase # "idle", held <- held.kind, put <- [i \in DOMAIN put |-> put[i].kind]
ImplementsTask == AsTask!Task

\* Every request ends.
TaskEnds == phase = "queued" ~> phase = "idle"

\* What http_client.py:34 says: a read that times out is an error.
TimeoutsAreErrors == failedRead => \A i \in DOMAIN put : put[i].kind # "answer"
=============================================================================
