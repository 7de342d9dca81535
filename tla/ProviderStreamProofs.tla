------------------------ MODULE ProviderStreamProofs ------------------------
(***************************************************************************)
(* Proofs about ProviderStream, for any payloads, chunks and number of     *)
(* requests: it implements WorkerTask, few events come late, and an answer *)
(* is all of its own request's and nothing of another's.                   *)
(***************************************************************************)
EXTENDS ProviderStream, PiecesProofs, TLAPS

-----------------------------------------------------------------------------
(* The events put are a sequence, and their kinds grow with them.          *)

Kinds(events)    == [i \in DOMAIN events |-> events[i].kind]
Sequence(events) == \E S : events \in Seq(S)

LEMMA AppendEvent ==
  ASSUME NEW events, Sequence(events), NEW e
  PROVE  /\ Sequence(Append(events, e))
         /\ Kinds(Append(events, e)) = Append(Kinds(events), e.kind)
         /\ Len(events) \in Nat
         /\ Len(Append(events, e)) = Len(events) + 1
         /\ Append(events, e)[Len(events) + 1] = e
         /\ \A i \in 1..Len(events) : Append(events, e)[i] = events[i]
<1>1. PICK S : events \in Seq(S)
  BY DEF Sequence
<1>2. events \in Seq(S \union {e}) /\ e \in S \union {e}
  BY <1>1
<1>3. Append(events, e) \in Seq(S \union {e})
  BY <1>2
<1>4. /\ Len(events) \in Nat /\ DOMAIN events = 1..Len(events)
      /\ DOMAIN Append(events, e) = 1..(Len(events) + 1)
      /\ Len(Append(events, e)) = Len(events) + 1
      /\ \A i \in 1..Len(events) : Append(events, e)[i] = events[i]
      /\ Append(events, e)[Len(events) + 1] = e
  BY <1>2
<1>5. Kinds(Append(events, e)) = Append(Kinds(events), e.kind)
  <2> DEFINE K == {events[i].kind : i \in DOMAIN events} \union {e.kind}
             ks == Kinds(events)
  <2>1. ks \in Seq(K) /\ Len(ks) = Len(events)
    BY <1>4 DEF Kinds
  <2>2. Append(ks, e.kind) \in Seq(K) /\ Len(Append(ks, e.kind)) = Len(events) + 1
    BY <2>1
  <2>3. DOMAIN Append(ks, e.kind) = 1..(Len(events) + 1)
    BY <2>2
  <2>4. \A i \in 1..(Len(events) + 1) : Append(ks, e.kind)[i] = Append(events, e)[i].kind
    <3> SUFFICES ASSUME NEW i \in 1..(Len(events) + 1)
                 PROVE  Append(ks, e.kind)[i] = Append(events, e)[i].kind
      OBVIOUS
    <3>1. CASE i = Len(events) + 1
      BY <1>4, <2>1, <3>1
    <3>2. CASE i \in 1..Len(events)
      <4>1. ks[i] = events[i].kind
        BY <1>4, <3>2 DEF Kinds
      <4>2. Append(ks, e.kind)[i] = ks[i]
        BY <2>1, <3>2
      <4> QED
        BY <1>4, <3>2, <4>1, <4>2
    <3>3. i = Len(events) + 1 \/ i \in 1..Len(events)
      BY <1>4
    <3> QED
      BY <3>1, <3>2, <3>3, Zenon
  <2>5. Kinds(Append(events, e)) = [i \in 1..(Len(events) + 1) |-> Append(events, e)[i].kind]
    BY <1>4 DEF Kinds
  <2>6. Append(ks, e.kind) = [i \in 1..(Len(events) + 1) |-> Append(ks, e.kind)[i]]
    BY <2>2, <2>3
  <2> HIDE DEF ks
  <2>7. Kinds(Append(events, e)) = Append(ks, e.kind)
    BY <2>4, <2>5, <2>6
  <2> QED
    BY <2>7 DEF ks
<1> QED
  BY <1>3, <1>4, <1>5 DEF Sequence

-----------------------------------------------------------------------------
(* The worker and the generator take turns.                                *)

Offered == offer = None \/ offer.kind \in {"text", "call", "error", "completed"}
Turns ==
  /\ Sequence(put)
  /\ Offered
  /\ held = None \/ held.kind \in {"delta", "failure", "answer"}
  /\ offer # None => held = None
  /\ phase \in {"idle", "queued"} => Running
  /\ offer.kind = "error" /\ offer.cancelled => cancelSet

Late ==
  /\ late \in 0..2
  /\ late > 0 => cancelSet /\ held = None
  /\ late = 1 /\ phase # "idle" => Len(put) >= 1 /\ put[Len(put)].kind = "delta"
  /\ late = 2 =>
       /\ phase = "idle" /\ Len(put) >= 2
       /\ put[Len(put)].kind = "failure" /\ put[Len(put) - 1].kind = "delta"

LInv == Turns /\ Late

LEMMA NoneKind == None.kind = "none" /\ None = [kind |-> "none"]
  BY DEF None, Plain

LEMMA InitHolds == Init => LInv
<1>1. Sequence(<<>>)
  <2>1. <<>> \in Seq({})
    OBVIOUS
  <2> QED
    BY <2>1 DEF Sequence
<1> QED
  BY <1>1, NoneKind DEF Init, LInv, Turns, Late, Offered, Running

\* What an exception does, and an event that is put.
LEMMA RaiseHolds ==
  ASSUME LInv, Running, phase = "handling", RaiseException, UNCHANGED <<cancelSet, offer>>
  PROVE  LInv'
<1>1. /\ Sequence(put') /\ Len(put) \in Nat /\ Len(put') = Len(put) + 1
      /\ put'[Len(put) + 1].kind = "failure"
      /\ \A i \in 1..Len(put) : put'[i] = put[i]
  BY AppendEvent DEF RaiseException, LInv, Turns, Plain
<1>2. Turns'
  BY <1>1 DEF LInv, Turns, Offered, RaiseException, Running
<1>3. Late'
  <2>1. late # 2 /\ phase' = "idle" /\ UNCHANGED held /\ held = None
    BY DEF LInv, Late, RaiseException, Running
  <2>2. CASE ~cancelSet
    BY <2>1, <2>2 DEF LInv, Late, RaiseException
  <2>3. CASE cancelSet /\ late = 0
    BY <2>1, <2>3 DEF LInv, Late, RaiseException
  <2>4. CASE cancelSet /\ late = 1
    <3>1. late' = 2 /\ Len(put) >= 1 /\ put[Len(put)].kind = "delta"
      BY <2>1, <2>4 DEF LInv, Late, RaiseException
    <3>2. Len(put') - 1 = Len(put) /\ put'[Len(put') - 1].kind = "delta" /\ put'[Len(put')].kind = "failure"
      BY <1>1, <3>1
    <3> QED
      BY <1>1, <2>1, <2>4, <3>1, <3>2 DEF Late
  <2> QED
    BY <2>1, <2>2, <2>3, <2>4 DEF LInv, Late
<1> QED
  BY <1>2, <1>3 DEF LInv

LEMMA PutHolds ==
  ASSUME LInv, PutEvent
  PROVE  LInv'
<1>1. /\ Sequence(put') /\ Len(put) \in Nat /\ Len(put') = Len(put) + 1
      /\ put'[Len(put) + 1] = held
  BY AppendEvent DEF PutEvent, LInv, Turns
<1>2. Turns'
  BY <1>1, NoneKind DEF LInv, Turns, Offered, PutEvent, Running
<1>3. late = 0 /\ late' \in 0..1 /\ (late' = 1 => cancelSet')
  BY DEF LInv, Late, PutEvent
<1>4. phase' # "idle" => held.kind = "delta"
  BY DEF PutEvent
<1>5. Late'
  BY <1>1, <1>3, <1>4 DEF Late, PutEvent
<1> QED
  BY <1>2, <1>5 DEF LInv

\* The rest of the generator's steps put nothing.
LEMMA QuietHolds ==
  ASSUME LInv, UNCHANGED <<put, late, held>>, cancelSet => cancelSet', Turns',
         phase' # "idle" => phase # "idle"
  PROVE  LInv'
<1>1. Late'
  <2>1. late' > 0 => cancelSet' /\ held' = None
    BY DEF LInv, Late
  <2>2. late' = 2 => phase' = "idle"
    BY DEF LInv, Late
  <2> QED
    BY <2>1, <2>2 DEF LInv, Late
<1> QED
  BY <1>1 DEF LInv

LEMMA YieldHolds ==
  ASSUME LInv, Running, phase \notin {"idle", "queued"}, UNCHANGED <<put, late, held, cancelSet, phase>>,
         NEW event, offer' = event, event.kind \in {"text", "call", "error", "completed"},
         event.kind = "error" /\ event.cancelled => cancelSet
  PROVE  LInv'
<1>1. Turns'
  BY NoneKind DEF LInv, Turns, Offered, Running
<1> QED
  BY <1>1, QuietHolds

LEMMA MoveHolds ==
  ASSUME LInv, UNCHANGED <<put, late, held, cancelSet, offer>>, phase # "idle",
         phase' \notin {"idle", "queued"}
  PROVE  LInv'
<1>1. Turns'
  BY DEF LInv, Turns, Offered, Running
<1> QED
  BY <1>1, QuietHolds

LEMMA YieldErrorHolds ==
  ASSUME LInv, Running, phase \notin {"idle", "queued"}, UNCHANGED <<put, late, held, cancelSet>>,
         NEW type, YieldError(type), type = "CANCELLED" => cancelSet
  PROVE  LInv'
<1> DEFINE event == [kind |-> "error", cancelled |-> type = "CANCELLED"]
<1>1. offer' = event /\ UNCHANGED phase
  BY DEF YieldError
<1>2. event.kind = "error" /\ (event.cancelled => cancelSet)
  OBVIOUS
<1> HIDE DEF event
<1> QED
  BY <1>1, <1>2, YieldHolds

LEMMA NextHolds == LInv /\ [Next]_vars => LInv'
<1> SUFFICES ASSUME LInv, [Next]_vars PROVE LInv'
  OBVIOUS
<1>1. CASE SubmitTask
  <2>1. Sequence(<<>>)
    <3>1. <<>> \in Seq({})
      OBVIOUS
    <3> QED
      BY <3>1 DEF Sequence
  <2>2. Turns'
    BY <1>1, <2>1, NoneKind DEF SubmitTask, LInv, Turns, Offered, Running
  <2> QED
    BY <1>1, <2>2 DEF SubmitTask, LInv, Late
<1>2. CASE SetCancelEvent
  <2>1. Turns'
    BY <1>2 DEF SetCancelEvent, LInv, Turns, Offered, Running, readVars, putVars
  <2> QED
    BY <1>2, <2>1, QuietHolds DEF SetCancelEvent, readVars, putVars
<1>3. CASE TakeTask
  <2>1. Turns'
    BY <1>3 DEF TakeTask, LInv, Turns, Offered, Running, readVars, putVars
  <2> QED
    BY <1>3, <2>1, QuietHolds DEF TakeTask, readVars, putVars
<1>4. CASE Ask
  BY <1>4, YieldErrorHolds, MoveHolds DEF Ask, readVars, putVars
<1>5. CASE ReadChunk \/ StopReading
  BY <1>5, MoveHolds DEF ReadChunk, StopReading, readVars, putVars
<1>6. CASE FeedChunk
  BY <1>6, YieldErrorHolds, MoveHolds DEF FeedChunk, readVars, putVars
<1>7. CASE HandlePayload
  <2>1. Running /\ phase = "handling" /\ UNCHANGED cancelSet
    BY <1>7 DEF HandlePayload
  <2>2. CASE batch = <<>>
    BY <1>7, <2>1, <2>2, MoveHolds DEF HandlePayload, putVars
  <2>3. CASE batch # <<>>
    <3> DEFINE p == Head(batch)
    <3>1. CASE p.kind \in {"text", "call"} /\ Yield(p) /\ UNCHANGED putVars
      <4> HIDE DEF p
      <4> QED
        BY <2>1, <3>1, YieldHolds DEF Yield, putVars
    <3>2. CASE UNCHANGED <<phase, offer, calls, putVars>>
      BY <2>1, <3>2, MoveHolds DEF putVars
    <3>3. CASE YieldError("INVALID_RESPONSE") /\ UNCHANGED <<calls, putVars>>
      BY <2>1, <3>3, YieldErrorHolds DEF putVars
    <3>4. CASE RaiseException /\ UNCHANGED <<offer, calls>>
      BY <2>1, <3>4, RaiseHolds
    <3>5. CASE phase' = "closing" /\ UNCHANGED <<offer, calls, putVars>>
      BY <2>1, <3>5, MoveHolds DEF putVars
    <3> QED
      BY <1>7, <2>3, <3>1, <3>2, <3>3, <3>4, <3>5 DEF HandlePayload
  <2> QED
    BY <2>2, <2>3
<1>8. CASE Finish
  <2>1. CASE Yield(Plain("completed"))
    <3>1. Plain("completed").kind = "completed"
      BY DEF Plain
    <3> HIDE DEF Plain
    <3> QED
      BY <1>8, <2>1, <3>1, YieldHolds DEF Finish, Yield, putVars
  <2> QED
    BY <1>8, <2>1, YieldErrorHolds DEF Finish, putVars
<1>9. CASE ReceiveEvent
  <2>1. /\ offer' = None /\ UNCHANGED <<put, late, cancelSet>> /\ phase # "idle" /\ held = None
    BY <1>9 DEF ReceiveEvent, LInv, Turns, Running
  <2>2. CASE MustDrop /\ DropTask
    <3>1. Turns'
      BY <2>1, <2>2, NoneKind DEF DropTask, LInv, Turns, Offered, Running
    <3> QED
      BY <2>1, <2>2, <3>1, QuietHolds DEF DropTask
  <2>3. CASE ~MustDrop
    <3>1. UNCHANGED phase /\ ~cancelSet /\ phase \notin {"idle", "queued"}
      BY <1>9, <2>3 DEF ReceiveEvent, MustDrop, LInv, Turns, Running
    <3>2. held' = None \/ held'.kind \in {"delta", "failure", "answer"}
      BY <1>9, <2>1, <2>3 DEF ReceiveEvent, Plain
    <3>3. Turns'
      BY <2>1, <3>1, <3>2, NoneKind DEF LInv, Turns, Offered, Running
    <3>4. Late'
      BY <2>1, <3>1 DEF LInv, Late
    <3> QED
      BY <3>3, <3>4 DEF LInv
  <2> QED
    BY <1>9, <2>2, <2>3 DEF ReceiveEvent
<1>10. CASE PutEvent
  BY <1>10, PutHolds
<1>11. CASE UNCHANGED vars
  BY <1>11 DEF vars, readVars, putVars, LInv, Turns, Late, Offered, Running
<1> QED
  BY <1>1, <1>2, <1>3, <1>4, <1>5, <1>6, <1>7, <1>8, <1>9, <1>10, <1>11 DEF Next, Worker

\* A cancelled task puts at most two more events: what the worker was putting when the
\* event was set, and the report of an exception (worker.py:127, worker.py:207).
THEOREM FewLateEventsHolds == Spec => []FewLateEvents
<1>1. LInv => FewLateEvents
  BY DEF LInv, Late, FewLateEvents
<1> QED
  BY InitHolds, NextHolds, <1>1, PTL DEF Spec

-----------------------------------------------------------------------------
(* Every step is one of WorkerTask's, or changes nothing it has.           *)

Quiet == UNCHANGED <<phase # "idle", cancelSet, held, put>>

LEMMA QuietMaps == Quiet => UNCHANGED AsTask!taskVars
  BY DEF Quiet, AsTask!taskVars

LEMMA RaiseMaps ==
  ASSUME LInv, Running, phase = "handling", RaiseException, UNCHANGED cancelSet
  PROVE  AsTask!Except
<1>1. Kinds(put') = Append(Kinds(put), "failure")
  <2>1. put' = Append(put, Plain("failure")) /\ Plain("failure").kind = "failure"
    BY DEF RaiseException, Plain
  <2>2. Kinds(Append(put, Plain("failure"))) = Append(Kinds(put), Plain("failure").kind)
    BY AppendEvent DEF LInv, Turns
  <2> QED
    BY <2>1, <2>2
<1> QED
  BY <1>1, NoneKind DEF AsTask!Except, Kinds, RaiseException, Running

LEMMA PutMaps ==
  ASSUME LInv, PutEvent
  PROVE  AsTask!Put
<1>1. Kinds(put') = Append(Kinds(put), held.kind)
  BY AppendEvent DEF PutEvent, LInv, Turns
<1>2. held.kind # "none" /\ held'.kind = "none" /\ UNCHANGED cancelSet /\ phase # "idle"
  BY NoneKind DEF PutEvent, LInv, Turns, Running
<1>3. (phase' # "idle") = (held.kind = "delta")
  BY <1>2 DEF PutEvent
<1> QED
  BY <1>1, <1>2, <1>3 DEF AsTask!Put, Kinds

LEMMA NextMaps == LInv /\ [Next]_vars => [AsTask!TaskNext]_(AsTask!taskVars)
<1> SUFFICES ASSUME LInv, [Next]_vars
             PROVE  AsTask!TaskNext \/ UNCHANGED AsTask!taskVars
  OBVIOUS
<1>1. CASE SubmitTask
  <2>1. [i \in DOMAIN put' |-> put'[i].kind] = <<>>
    BY <1>1 DEF SubmitTask
  <2>2. AsTask!Submit
    BY <1>1, <2>1 DEF SubmitTask, AsTask!Submit
  <2> QED
    BY <2>2 DEF AsTask!TaskNext
<1>2. CASE SetCancelEvent
  BY <1>2 DEF SetCancelEvent, putVars, AsTask!Cancel, AsTask!TaskNext
<1>3. CASE TakeTask
  <2>1. CASE cancelSet
    BY <1>3, <2>1, NoneKind DEF TakeTask, putVars, LInv, Turns, Running, AsTask!GiveUp, AsTask!TaskNext
  <2>2. CASE ~cancelSet
    BY <1>3, <2>2, QuietMaps DEF TakeTask, putVars, Quiet
  <2> QED
    BY <2>1, <2>2
<1>4. CASE Ask \/ ReadChunk \/ StopReading \/ FeedChunk \/ Finish
  <2>1. Quiet
    BY <1>4 DEF Ask, ReadChunk, StopReading, FeedChunk, Finish, Yield, YieldError, readVars, putVars, Quiet
  <2> QED
    BY <2>1, QuietMaps
<1>5. CASE HandlePayload
  <2>1. Running /\ phase = "handling" /\ UNCHANGED cancelSet
    BY <1>5 DEF HandlePayload
  <2>2. CASE RaiseException
    BY <2>1, <2>2, RaiseMaps DEF AsTask!TaskNext
  <2>3. CASE ~RaiseException
    <3>1. Quiet
      BY <1>5, <2>3 DEF HandlePayload, Yield, YieldError, putVars, Quiet
    <3> QED
      BY <3>1, QuietMaps
  <2> QED
    BY <2>2, <2>3
<1>6. CASE ReceiveEvent
  <2>1. /\ UNCHANGED <<put, cancelSet>> /\ phase # "idle" /\ held = None
        /\ UNCHANGED [i \in DOMAIN put |-> put[i].kind]
    BY <1>6 DEF ReceiveEvent, LInv, Turns, Running
  <2>2. CASE MustDrop /\ DropTask
    BY <2>1, <2>2, NoneKind DEF MustDrop, DropTask, LInv, Turns, AsTask!GiveUp, AsTask!TaskNext
  <2>3. CASE ~MustDrop
    <3>1. UNCHANGED phase /\ ~cancelSet
      BY <1>6, <2>3 DEF ReceiveEvent, MustDrop
    <3>2. CASE UNCHANGED held
      BY <2>1, <3>1, <3>2, QuietMaps DEF Quiet
    <3>3. CASE held'.kind \in {"delta", "answer", "failure"}
      BY <2>1, <3>1, <3>3, NoneKind DEF AsTask!Hold, AsTask!TaskNext
    <3>4. UNCHANGED held \/ held'.kind \in {"delta", "answer", "failure"}
      BY <1>6, <2>3 DEF ReceiveEvent, Plain
    <3> QED
      BY <3>2, <3>3, <3>4
  <2> QED
    BY <1>6, <2>2, <2>3 DEF ReceiveEvent
<1>7. CASE PutEvent
  BY <1>7, PutMaps DEF AsTask!TaskNext
<1>8. CASE UNCHANGED vars
  BY <1>8, QuietMaps DEF vars, putVars, Quiet
<1> QED
  BY <1>1, <1>2, <1>3, <1>4, <1>5, <1>6, <1>7, <1>8 DEF Next, Worker

\* Whatever the server, the network and the user do, the rest of the agent sees text
\* deltas, then one answer or one failure, and silence only from a cancelled task
\* (worker.py:89).
THEOREM TaskImplemented == Spec => ImplementsTask
<1>1. Init => AsTask!TaskInit
  BY NoneKind DEF Init, AsTask!TaskInit
<1> QED
  BY InitHolds, NextHolds, NextMaps, <1>1, PTL DEF Spec, ImplementsTask, AsTask!Task

-----------------------------------------------------------------------------
(* An answer is its own.  What the generator and the worker have made of   *)
(* the payloads handled so far is compared, piece by piece, with those     *)
(* payloads themselves.                                                    *)

LEMMA PayloadTypes ==
  ASSUME NEW p \in Payloads
  PROVE  /\ p.kind = "text" => p.text \in {"a", "b"}
         /\ p.kind = "call" => p.index \in {0, 1}
<1>1. CASE p \in CallDeltas
  BY <1>1 DEF CallDeltas
<1>2. CASE p \in {Text(t) : t \in {"a", "b"}}
  BY <1>2 DEF Text
<1>3. CASE p \in {Plain(k) : k \in {"nothing", "malformed", "crashing", "done"}}
  BY <1>3 DEF Plain
<1> QED
  BY <1>1, <1>2, <1>3, StreamAssumption DEF AllPayloads

\* How many payloads were handled.
SoFar == Len(received) - Len(batch)

Reading ==
  /\ received \in Seq(Payloads) /\ batch \in Seq(Payloads) /\ Len(batch) <= Len(received)
  /\ \A i \in DOMAIN batch : batch[i] = received[SoFar + i]
  /\ phase \in Phases
  /\ phase \in {"queued", "asking"} => received = <<>>
  /\ phase = "reading" => batch = <<>>
  /\ phase \in {"reading", "feeding", "handling"} => 1..SoFar \subseteq Handled
  /\ phase = "closing" => Handled \subseteq 1..SoFar

Streaming ==
  /\ streamed \in Seq({"a", "b"})
  /\ offer.kind = "text" => offer.text \in {"a", "b"}
  /\ held.kind = "delta" => held.text \in {"a", "b"}
  /\ \A i \in DOMAIN put : put[i].kind = "delta" => put[i].text \in {"a", "b"}
  /\ phase # "idle" => InOrder(TextPieces, SoFar) = IF offer.kind = "text" THEN Append(streamed, offer.text)
                                                    ELSE streamed
  /\ phase = "idle" => IsStart(streamed, InOrder(TextPieces, SoFar))
  /\ streamed = IF held.kind = "delta" THEN Append(DeltasPut, held.text) ELSE DeltasPut

\* The calls of the first n payloads.
Collected(collection, n) ==
  /\ DOMAIN collection = {received[j].index : j \in OfKind("call") \intersect 1..n}
  /\ \A index \in DOMAIN collection : /\ collection[index].name = InOrder(NamePieces(index), n)
                                      /\ collection[index].args = InOrder(ArgPieces(index), n)

OwnAnswer(event) ==
  /\ event.text = Sent(TextPieces)
  /\ DOMAIN event.calls = {received[j].index : j \in OfKind("call")}
  /\ \A index \in DOMAIN event.calls :
       /\ event.calls[index].name = Sent(NamePieces(index))
       /\ event.calls[index].args = Sent(ArgPieces(index))
       /\ event.calls[index].args \in {<<>>, <<"{", "}">>}

Collecting ==
  /\ phase \in {"reading", "feeding", "handling", "closing"} => Collected(calls, SoFar)
  /\ offer.kind = "completed" => phase = "closing" /\ lastCalls = calls /\ Finalizable
  /\ held.kind = "answer" => phase = "closing" /\ OwnAnswer(held)
  /\ \A i \in DOMAIN put : put[i].kind = "answer" => phase = "idle" /\ OwnAnswer(put[i])

AInv == LInv /\ Reading /\ Streaming /\ Collecting

\* The pieces are what they are as long as nothing is received.
LEMMA PiecesStay ==
  ASSUME UNCHANGED received
  PROVE  /\ Handled' = Handled /\ TextPieces' = TextPieces
         /\ \A kind : OfKind(kind)' = OfKind(kind)
         /\ \A index : NamePieces(index)' = NamePieces(index) /\ ArgPieces(index)' = ArgPieces(index)
         /\ \A collection, n : Collected(collection, n)' = Collected(collection, n)
         /\ \A event : OwnAnswer(event)' = OwnAnswer(event)
<1>1. Handled' = Handled
  BY DEF Handled
<1>2. \A kind : OfKind(kind)' = OfKind(kind)
  BY <1>1 DEF OfKind
<1>3. \A index : OfCall(index)' = OfCall(index)
  BY <1>2 DEF OfCall
<1>4. TextPieces' = TextPieces
  BY <1>2 DEF TextPieces
<1>5. \A index : NamePieces(index)' = NamePieces(index) /\ ArgPieces(index)' = ArgPieces(index)
  BY <1>3 DEF NamePieces, ArgPieces
<1>6. \A collection, n : Collected(collection, n)' = Collected(collection, n)
  BY <1>2, <1>5 DEF Collected
<1>7. \A event : OwnAnswer(event)' = OwnAnswer(event)
  BY <1>2, <1>4, <1>5 DEF OwnAnswer, Sent
<1> QED
  BY <1>1, <1>2, <1>4, <1>5, <1>6, <1>7

LEMMA BatchHandled ==
  ASSUME Reading, phase = "handling", batch # <<>>
  PROVE  /\ Head(batch) \in Payloads /\ Head(batch) = received[SoFar + 1]
         /\ SoFar \in Nat /\ SoFar + 1 \in DOMAIN received
         /\ Tail(batch) \in Seq(Payloads) /\ Len(Tail(batch)) = Len(batch) - 1
         /\ Len(received) - Len(Tail(batch)) = SoFar + 1
         /\ \A i \in DOMAIN Tail(batch) : Tail(batch)[i] = received[(SoFar + 1) + i]
<1>1. received \in Seq(Payloads) /\ batch \in Seq(Payloads) /\ Len(batch) <= Len(received)
  BY DEF Reading
<1>2. /\ 1 \in DOMAIN batch /\ Head(batch) = batch[1] /\ Head(batch) \in Payloads
      /\ Tail(batch) \in Seq(Payloads) /\ Len(Tail(batch)) = Len(batch) - 1
      /\ \A i \in DOMAIN Tail(batch) : i + 1 \in DOMAIN batch /\ Tail(batch)[i] = batch[i + 1]
  BY <1>1
<1>3. SoFar \in Nat /\ SoFar + 1 \in DOMAIN received /\ Len(received) - (Len(batch) - 1) = SoFar + 1
  BY <1>1, <1>2 DEF SoFar
<1>4. Head(batch) = received[SoFar + 1]
  BY <1>2 DEF Reading
<1>5. ASSUME NEW i \in DOMAIN Tail(batch)
      PROVE  Tail(batch)[i] = received[(SoFar + 1) + i]
  <2>1. PICK k \in DOMAIN batch : k = i + 1 /\ Tail(batch)[i] = batch[k]
    BY <1>2
  <2>2. batch[k] = received[SoFar + k]
    BY DEF Reading
  <2>3. i \in Nat /\ SoFar + k = (SoFar + 1) + i
    BY <1>2, <1>3, <2>1
  <2> QED
    BY <2>1, <2>2, <2>3
<1> QED
  BY <1>2, <1>3, <1>4, <1>5

LEMMA ReadingSame ==
  ASSUME Reading, UNCHANGED <<received, batch>>, phase' = phase \/ phase' = "idle"
  PROVE  Reading'
<1>1. SoFar' = SoFar /\ Handled' = Handled
  BY PiecesStay DEF SoFar
<1> QED
  BY <1>1 DEF Reading, Phases

LEMMA ReadingHandle ==
  ASSUME Reading, HandlePayload
  PROVE  Reading'
<1>1. phase = "handling" /\ UNCHANGED received /\ Handled' = Handled
  BY PiecesStay DEF HandlePayload
<1>2. CASE batch = <<>>
  <2>1. phase' = "reading" /\ UNCHANGED batch /\ SoFar' = SoFar
    BY <1>1, <1>2 DEF HandlePayload, SoFar
  <2> QED
    BY <1>1, <1>2, <2>1 DEF Reading, Phases
<1>3. CASE batch # <<>>
  <2>1. /\ Head(batch) = received[SoFar + 1]
        /\ SoFar \in Nat /\ SoFar + 1 \in DOMAIN received
        /\ Tail(batch) \in Seq(Payloads) /\ Len(Tail(batch)) = Len(batch) - 1
        /\ Len(received) - Len(Tail(batch)) = SoFar + 1
        /\ \A i \in DOMAIN Tail(batch) : Tail(batch)[i] = received[(SoFar + 1) + i]
    BY <1>1, <1>3, BatchHandled
  <2>2. batch' = Tail(batch) /\ SoFar' = SoFar + 1
    BY <1>1, <1>3, <2>1 DEF HandlePayload, SoFar
  <2>3. \/ phase' \in {"handling", "idle"} /\ Head(batch).kind # "done"
        \/ phase' = "closing" /\ Head(batch).kind = "done"
    BY <1>1, <1>3 DEF HandlePayload, Yield, YieldError, RaiseException
  <2>4. received \in Seq(Payloads) /\ batch \in Seq(Payloads) /\ Len(batch) <= Len(received)
    BY DEF Reading
  <2>5. batch' \in Seq(Payloads) /\ Len(batch') <= Len(received)
    BY <2>1, <2>2, <2>4
  <2>6. PICK m : m = SoFar + 1
    OBVIOUS
  <2>7. CASE phase' \in {"handling", "idle"} /\ Head(batch).kind # "done"
    <3>1. 1..m \subseteq Handled
      <4>1. 1..SoFar \subseteq Handled
        BY <1>1 DEF Reading
      <4>2. \A j \in 1..m : received[j].kind # "done"
        <5>1. \A j \in 1..SoFar : received[j].kind # "done"
          BY <2>1, <4>1 DEF Handled
        <5>2. 1..m = (1..SoFar) \union {m}
          BY <2>1, <2>6
        <5> QED
          BY <2>1, <2>6, <2>7, <5>1, <5>2
      <4>3. 1..m \subseteq DOMAIN received
        BY <2>1, <2>4, <2>6
      <4> QED
        BY <4>2, <4>3, <2>1, <2>6 DEF Handled
    <3> QED
      BY <1>1, <2>1, <2>2, <2>4, <2>5, <2>6, <2>7, <3>1 DEF Reading, Phases
  <2>8. CASE phase' = "closing" /\ Head(batch).kind = "done"
    <3>1. Handled \subseteq 1..m
      <4> SUFFICES ASSUME NEW i \in Handled PROVE i \in 1..m
        OBVIOUS
      <4>1. i \in DOMAIN received /\ (m \in 1..i => received[m].kind # "done")
        BY DEF Handled
      <4> QED
        BY <2>1, <2>4, <2>6, <2>8, <4>1
    <3> QED
      BY <1>1, <2>1, <2>2, <2>4, <2>5, <2>6, <2>8, <3>1 DEF Reading, Phases
  <2> QED
    BY <2>3, <2>7, <2>8
<1> QED
  BY <1>2, <1>3

\* What a chunk adds comes behind the payloads handled before it.
LEMMA ReadPrefix ==
  ASSUME Reading, ReadChunk
  PROVE  /\ received' \in Seq(Payloads) /\ batch' \in Seq(Payloads) /\ Len(batch') <= Len(received')
         /\ SoFar' = Len(received) /\ SoFar = Len(received) /\ SoFar \in Nat
         /\ \A i \in DOMAIN batch' : batch'[i] = received'[SoFar + i]
         /\ 1..SoFar \subseteq DOMAIN received' /\ DOMAIN received = 1..SoFar
         /\ \A i \in 1..SoFar : received'[i] = received[i]
<1>1. received \in Seq(Payloads) /\ batch = <<>>
  BY DEF Reading, ReadChunk
<1>2. batch' \in Seq(Payloads)
  <2>1. PICK n \in 1..MaxChunk : batch' \in [1..n -> Payloads]
    BY DEF ReadChunk
  <2>2. n \in Nat
    BY StreamAssumption
  <2> QED
    BY <2>1, <2>2
<1>3. received' = received \o batch'
  BY DEF ReadChunk
<1>4. SoFar = Len(received) /\ SoFar' = Len(received') - Len(batch')
  BY <1>1 DEF SoFar
<1>5. /\ received' \in Seq(Payloads) /\ Len(received') = Len(received) + Len(batch')
      /\ \A i \in 1..Len(received) : received'[i] = received[i]
      /\ \A i \in 1..Len(batch') : received'[Len(received) + i] = batch'[i]
  BY <1>1, <1>2, <1>3
<1>6. /\ Len(received) \in Nat /\ Len(batch') \in Nat
      /\ DOMAIN received = 1..Len(received) /\ DOMAIN batch' = 1..Len(batch')
      /\ DOMAIN received' = 1..Len(received')
  BY <1>1, <1>2, <1>5
<1>7. SoFar' = Len(received) /\ Len(batch') <= Len(received') /\ 1..Len(received) \subseteq DOMAIN received'
  BY <1>4, <1>5, <1>6
<1>8. \A i \in DOMAIN batch' : batch'[i] = received'[SoFar + i]
  BY <1>4, <1>5, <1>6
<1> QED
  BY <1>2, <1>4, <1>5, <1>6, <1>7, <1>8

LEMMA ReadingNext == LInv /\ Reading /\ [Next]_vars => Reading'
<1> SUFFICES ASSUME LInv, Reading, [Next]_vars PROVE Reading'
  OBVIOUS
<1>0. received \in Seq(Payloads) /\ batch \in Seq(Payloads) /\ Len(batch) <= Len(received)
  BY DEF Reading
<1>1. CASE SubmitTask
  BY <1>1 DEF SubmitTask, Reading, Phases, SoFar
<1>2. CASE SetCancelEvent \/ Finish \/ ReceiveEvent \/ PutEvent \/ UNCHANGED vars
  BY <1>2, ReadingSame DEF SetCancelEvent, Finish, ReceiveEvent, PutEvent, vars, readVars, Yield, YieldError, DropTask
<1>3. CASE TakeTask \/ Ask
  <2>1. /\ UNCHANGED <<received, batch>> /\ phase \in {"queued", "asking"}
        /\ phase' \in {"idle", "asking", "reading"}
    BY <1>3 DEF TakeTask, Ask, readVars, YieldError
  <2>2. received = <<>> /\ batch = <<>> /\ SoFar' = 0
    <3>1. received = <<>> /\ Len(batch) = 0
      BY <1>0, <2>1 DEF Reading
    <3> QED
      BY <1>0, <2>1, <3>1 DEF SoFar
  <2> QED
    BY <2>1, <2>2 DEF Reading, Phases
<1>4. CASE ReadChunk
  <2>1. /\ received' \in Seq(Payloads) /\ batch' \in Seq(Payloads) /\ Len(batch') <= Len(received')
        /\ SoFar' = SoFar /\ SoFar \in Nat
        /\ \A i \in DOMAIN batch' : batch'[i] = received'[SoFar + i]
        /\ 1..SoFar \subseteq DOMAIN received' /\ DOMAIN received = 1..SoFar
        /\ \A i \in 1..SoFar : received'[i] = received[i]
    BY <1>4, ReadPrefix
  <2>2. 1..SoFar \subseteq Handled /\ phase' = "feeding"
    BY <1>4 DEF ReadChunk, Reading
  <2>3. 1..SoFar \subseteq Handled'
    BY <2>1, <2>2 DEF Handled
  <2> QED
    BY <2>1, <2>2, <2>3 DEF Reading, Phases
<1>5. CASE StopReading
  <2>1. /\ UNCHANGED <<received, batch>> /\ phase' = "closing" /\ batch = <<>>
    BY <1>5 DEF StopReading, Reading
  <2>2. SoFar' = Len(received) /\ Handled' = Handled
    BY <1>0, <2>1, PiecesStay DEF SoFar
  <2>3. Handled \subseteq 1..Len(received)
    BY <1>0 DEF Handled
  <2> QED
    BY <1>0, <2>1, <2>2, <2>3 DEF Reading, Phases
<1>6. CASE FeedChunk
  <2>1. UNCHANGED <<received, batch>> /\ phase = "feeding" /\ phase' \in {"feeding", "handling"}
    BY <1>6 DEF FeedChunk, readVars, YieldError
  <2>2. SoFar' = SoFar /\ Handled' = Handled
    BY <2>1, PiecesStay DEF SoFar
  <2> QED
    BY <2>1, <2>2 DEF Reading, Phases
<1>7. CASE HandlePayload
  BY <1>7, ReadingHandle
<1> QED
  BY <1>1, <1>2, <1>3, <1>4, <1>5, <1>6, <1>7 DEF Next, Worker

\* A payload that is handled, and that is not [DONE], counts.
LEMMA NextHandled ==
  ASSUME Reading, phase = "handling", batch # <<>>, Head(batch).kind # "done"
  PROVE  SoFar + 1 \in Handled
<1>1. /\ Head(batch) = received[SoFar + 1] /\ SoFar \in Nat /\ SoFar + 1 \in DOMAIN received
  BY BatchHandled
<1>2. PICK m : m = SoFar + 1
  OBVIOUS
<1>3. \A j \in 1..SoFar : received[j].kind # "done"
  <2>1. 1..SoFar \subseteq Handled
    BY DEF Reading
  <2> QED
    BY <1>1, <2>1 DEF Handled
<1>4. 1..m = (1..SoFar) \union {m}
  BY <1>1, <1>2
<1> QED
  BY <1>1, <1>2, <1>3, <1>4 DEF Handled

LEMMA SoFarIn ==
  ASSUME Reading
  PROVE  SoFar \in Nat /\ Len(received) \in Nat /\ SoFar <= Len(received) /\ DOMAIN received = 1..Len(received)
<1>1. received \in Seq(Payloads) /\ batch \in Seq(Payloads) /\ Len(batch) <= Len(received)
  BY DEF Reading
<1> QED
  BY <1>1 DEF SoFar

LEMMA TextTypes ==
  ASSUME Reading
  PROVE  /\ \A i \in DOMAIN TextPieces : TextPieces[i] \in {"a", "b"}
         /\ \A n \in Nat : InOrder(TextPieces, n) \in Seq({"a", "b"})
<1>1. ASSUME NEW i \in DOMAIN TextPieces PROVE TextPieces[i] \in {"a", "b"}
  <2>1. i \in DOMAIN received /\ received[i].kind = "text" /\ TextPieces[i] = received[i].text
    BY DEF TextPieces, OfKind, Handled
  <2>2. received[i] \in Payloads
    BY <2>1 DEF Reading
  <2> QED
    BY <2>1, <2>2, PayloadTypes
<1> QED
  BY <1>1, InOrderType

LEMMA TextStep ==
  ASSUME Reading, phase = "handling", batch # <<>>
  PROVE  InOrder(TextPieces, SoFar + 1)
           = IF Head(batch).kind = "text" THEN Append(InOrder(TextPieces, SoFar), Head(batch).text)
                                          ELSE InOrder(TextPieces, SoFar)
<1>1. Head(batch) = received[SoFar + 1] /\ SoFar \in Nat
  BY BatchHandled
<1>2. PICK m : m = SoFar + 1
  OBVIOUS
<1>3. m \in DOMAIN TextPieces <=> Head(batch).kind = "text"
  BY <1>1, <1>2, NextHandled DEF TextPieces, OfKind
<1>4. m \in DOMAIN TextPieces => TextPieces[m] = Head(batch).text
  BY <1>1, <1>2 DEF TextPieces
<1>5. InOrder(TextPieces, m) = IF m \in DOMAIN TextPieces THEN Append(InOrder(TextPieces, SoFar), TextPieces[m])
                               ELSE InOrder(TextPieces, SoFar)
  BY <1>1, <1>2, InOrderStep
<1> QED
  BY <1>2, <1>3, <1>4, <1>5

\* A chunk that comes in leaves what was handled before it as it was.
LEMMA ReadAgrees ==
  ASSUME Reading, ReadChunk
  PROVE  /\ SoFar \in Nat /\ SoFar' = SoFar
         /\ Agree(TextPieces', TextPieces, SoFar)
         /\ \A index : Agree(NamePieces(index)', NamePieces(index), SoFar)
         /\ \A index : Agree(ArgPieces(index)', ArgPieces(index), SoFar)
         /\ OfKind("call")' \intersect 1..SoFar = OfKind("call") \intersect 1..SoFar
         /\ \A i \in 1..SoFar : received'[i] = received[i]
<1>1. /\ SoFar' = SoFar /\ SoFar \in Nat
      /\ 1..SoFar \subseteq DOMAIN received' /\ DOMAIN received = 1..SoFar
      /\ \A i \in 1..SoFar : received'[i] = received[i]
  BY ReadPrefix
<1>2. ASSUME NEW i \in 1..SoFar
      PROVE  i \in Handled' <=> i \in Handled
  BY <1>1 DEF Handled
<1>3. ASSUME NEW i \in 1..SoFar, NEW kind
      PROVE  i \in OfKind(kind)' <=> i \in OfKind(kind)
  BY <1>1, <1>2 DEF OfKind
<1>4. ASSUME NEW i \in 1..SoFar, NEW index
      PROVE  i \in OfCall(index)' <=> i \in OfCall(index)
  BY <1>1, <1>3 DEF OfCall
<1>5. Agree(TextPieces', TextPieces, SoFar)
  BY <1>1, <1>3 DEF Agree, TextPieces
<1>6. ASSUME NEW index PROVE Agree(NamePieces(index)', NamePieces(index), SoFar)
  BY <1>1, <1>4 DEF Agree, NamePieces
<1>7. ASSUME NEW index PROVE Agree(ArgPieces(index)', ArgPieces(index), SoFar)
  BY <1>1, <1>4 DEF Agree, ArgPieces
<1>8. OfKind("call")' \intersect 1..SoFar = OfKind("call") \intersect 1..SoFar
  BY <1>3
<1> QED
  BY <1>1, <1>5, <1>6, <1>7, <1>8

\* An event that is put adds its text to the deltas put if it is one.
LEMMA PutDeltas ==
  ASSUME Sequence(put), NEW e, put' = Append(put, e)
  PROVE  DeltasPut' = IF e.kind = "delta" THEN Append(DeltasPut, e.text) ELSE DeltasPut
<1>1. /\ Sequence(put') /\ Len(put) \in Nat /\ Len(put') = Len(put) + 1
      /\ put'[Len(put) + 1] = e
      /\ \A i \in 1..Len(put) : put'[i] = put[i]
  BY AppendEvent
<1>2. PICK n, m : n = Len(put) /\ m = n + 1
  OBVIOUS
<1>3. DOMAIN put = 1..n /\ DOMAIN put' = 1..m /\ n \in Nat /\ m \in Nat
  BY <1>1, <1>2 DEF Sequence
<1>4. Agree(DeltaPieces', DeltaPieces, n)
  BY <1>1, <1>2, <1>3 DEF Agree, DeltaPieces
<1>5. m \in DOMAIN DeltaPieces' <=> e.kind = "delta"
  BY <1>1, <1>2, <1>3 DEF DeltaPieces
<1>6. m \in DOMAIN DeltaPieces' => DeltaPieces'[m] = e.text
  BY <1>1, <1>2, <1>3 DEF DeltaPieces
<1>7. InOrder(DeltaPieces', m) = IF m \in DOMAIN DeltaPieces' THEN Append(InOrder(DeltaPieces', n), DeltaPieces'[m])
                                ELSE InOrder(DeltaPieces', n)
  BY <1>2, <1>3, InOrderStep
<1>8. InOrder(DeltaPieces', n) = InOrder(DeltaPieces, n)
  BY <1>3, <1>4, InOrderAgree
<1>9. DeltasPut' = InOrder(DeltaPieces', m) /\ DeltasPut = InOrder(DeltaPieces, n)
  BY <1>1, <1>2 DEF DeltasPut
<1> QED
  BY <1>5, <1>6, <1>7, <1>8, <1>9

\* Steps that take in no payload and put nothing.
LEMMA StreamingSame ==
  ASSUME Reading, Streaming, UNCHANGED <<received, batch, held, put, streamed>>,
         phase' = "idle" \/ phase # "idle",
         \/ phase' = "idle"
         \/ UNCHANGED offer
         \/ offer.kind # "text" /\ offer'.kind # "text",
         offer'.kind = "text" => offer'.text \in {"a", "b"}
  PROVE  Streaming'
<1>1. SoFar' = SoFar /\ TextPieces' = TextPieces /\ DeltasPut' = DeltasPut
  BY PiecesStay DEF SoFar, DeltasPut, DeltaPieces
<1>2. InOrder(TextPieces, SoFar)' = InOrder(TextPieces, SoFar)
  BY <1>1
<1>3. IsStart(streamed, InOrder(TextPieces, SoFar))
  <2>1. InOrder(TextPieces, SoFar) \in Seq({"a", "b"})
    BY TextTypes, SoFarIn
  <2>2. CASE phase = "idle"
    BY <2>2 DEF Streaming
  <2>3. CASE phase # "idle" /\ offer.kind # "text"
    <3>1. InOrder(TextPieces, SoFar) = streamed
      BY <2>3 DEF Streaming
    <3> QED
      BY <2>1, <3>1 DEF IsStart
  <2>4. CASE phase # "idle" /\ offer.kind = "text"
    <3>1. InOrder(TextPieces, SoFar) = Append(streamed, offer.text)
      BY <2>4 DEF Streaming
    <3>2. streamed \in Seq({"a", "b"})
      BY DEF Streaming
    <3> QED
      BY <3>1, <3>2 DEF IsStart
  <2> QED
    BY <2>2, <2>3, <2>4
<1>4. /\ phase' # "idle" => InOrder(TextPieces, SoFar)' = IF offer'.kind = "text" THEN Append(streamed', offer'.text)
                                                        ELSE streamed'
      /\ phase' = "idle" => IsStart(streamed', InOrder(TextPieces, SoFar)')
  BY <1>2, <1>3 DEF Streaming
<1> QED
  BY <1>1, <1>4 DEF Streaming

LEMMA StreamingHandle ==
  ASSUME LInv, Reading, Streaming, HandlePayload
  PROVE  Streaming'
<1>1. phase = "handling" /\ offer = None /\ held = None /\ UNCHANGED received /\ TextPieces' = TextPieces
  BY PiecesStay DEF HandlePayload, Running
<1>2. offer.kind # "text"
  BY <1>1, NoneKind
<1>3. CASE batch = <<>>
  <2>1. UNCHANGED <<received, batch, held, put, streamed, offer>> /\ phase # "idle"
    BY <1>1, <1>3 DEF HandlePayload, putVars
  <2>2. offer'.kind # "text"
    BY <1>2, <2>1
  <2> QED
    BY <2>1, <2>2, StreamingSame
<1>4. CASE batch # <<>>
  <2> DEFINE p == Head(batch)
  <2>1. /\ p \in Payloads /\ SoFar \in Nat
        /\ Len(received) - Len(Tail(batch)) = SoFar + 1
    BY <1>1, <1>4, BatchHandled
  <2>2. batch' = Tail(batch) /\ SoFar' = SoFar + 1
    BY <1>1, <1>4, <2>1 DEF HandlePayload, SoFar
  <2>3. InOrder(TextPieces, SoFar)' = IF p.kind = "text" THEN Append(streamed, p.text) ELSE streamed
    <3>1. InOrder(TextPieces, SoFar + 1)
            = IF Head(batch).kind = "text" THEN Append(InOrder(TextPieces, SoFar), Head(batch).text)
                                           ELSE InOrder(TextPieces, SoFar)
      BY <1>1, <1>4, TextStep
    <3>2. InOrder(TextPieces, SoFar)' = InOrder(TextPieces, SoFar + 1)
      BY <1>1, <2>2
    <3>3. InOrder(TextPieces, SoFar) = streamed
      BY <1>1, <1>2 DEF Streaming
    <3> QED
      BY <3>1, <3>2, <3>3
  <2>4. p.kind = "text" => p.text \in {"a", "b"}
    BY <2>1, PayloadTypes
  <2>5. \/ p.kind = "text" /\ Yield(p) /\ UNCHANGED putVars
        \/ p.kind = "call" /\ Yield(p) /\ UNCHANGED putVars
        \/ p.kind = "nothing" /\ UNCHANGED <<phase, offer, putVars>>
        \/ p.kind = "malformed" /\ YieldError("INVALID_RESPONSE") /\ UNCHANGED putVars
        \/ p.kind = "crashing" /\ RaiseException /\ UNCHANGED offer
        \/ p.kind = "done" /\ phase' = "closing" /\ UNCHANGED <<offer, putVars>>
    BY <1>4 DEF HandlePayload
  <2> HIDE DEF p
  <2>6. CASE UNCHANGED putVars
    <3>1. DeltasPut' = DeltasPut /\ UNCHANGED <<streamed, held, put>>
      BY <2>6 DEF putVars, DeltasPut, DeltaPieces
    <3>2. phase' # "idle" /\ phase # "idle"
      BY <1>1, <2>5, <2>6 DEF Yield, YieldError, RaiseException, putVars
    <3>3. /\ offer'.kind = "text" <=> p.kind = "text"
          /\ p.kind = "text" => offer' = p
      BY <1>2, <2>5, <2>6, <3>2 DEF Yield, YieldError, RaiseException
    <3> QED
      BY <2>3, <2>4, <3>1, <3>2, <3>3 DEF Streaming
  <2>7. CASE p.kind = "crashing" /\ RaiseException /\ UNCHANGED offer
    <3>1. put' = Append(put, Plain("failure")) /\ Plain("failure").kind = "failure"
          /\ UNCHANGED <<streamed, held>> /\ phase' = "idle"
      BY <2>7 DEF RaiseException, Plain
    <3>2. DeltasPut' = DeltasPut
      BY <3>1, PutDeltas DEF LInv, Turns
    <3>3. IsStart(streamed, streamed)
      BY DEF Streaming, IsStart
    <3>4. \A i \in DOMAIN put' : put'[i].kind = "delta" => put'[i].text \in {"a", "b"}
      <4>0. PICK e : e.kind = "failure" /\ put' = Append(put, e)
        BY <3>1
      <4>1. /\ Sequence(put') /\ Len(put) \in Nat /\ Len(put') = Len(put) + 1
            /\ put'[Len(put) + 1].kind = "failure"
            /\ \A i \in 1..Len(put) : put'[i] = put[i]
        <5>1. Sequence(put)
          BY DEF LInv, Turns
        <5> QED
          BY <4>0, <5>1, AppendEvent, ZenonT(30)
      <4>2. DOMAIN put' = 1..(Len(put) + 1) /\ DOMAIN put = 1..Len(put)
        BY <4>1 DEF Sequence, LInv, Turns
      <4> QED
        BY <4>1, <4>2 DEF Streaming
    <3> QED
      BY <1>1, <2>3, <2>7, <3>1, <3>2, <3>3, <3>4 DEF Streaming
  <2> QED
    BY <2>5, <2>6, <2>7
<1> QED
  BY <1>3, <1>4

LEMMA StreamingPut ==
  ASSUME LInv, Reading, Streaming, PutEvent
  PROVE  Streaming'
<1>1. /\ held # None /\ put' = Append(put, held) /\ held' = None
      /\ UNCHANGED <<received, batch, offer, streamed>>
      /\ phase # "idle" /\ (phase' = phase \/ phase' = "idle") /\ offer = None
  BY DEF PutEvent, readVars, LInv, Turns, Running
<1>2. SoFar' = SoFar /\ TextPieces' = TextPieces
  BY <1>1, PiecesStay DEF SoFar
<1>3. InOrder(TextPieces, SoFar)' = streamed /\ offer'.kind # "text" /\ held'.kind # "delta"
  BY <1>1, <1>2, NoneKind DEF Streaming
<1>4. DeltasPut' = IF held.kind = "delta" THEN Append(DeltasPut, held.text) ELSE DeltasPut
  BY <1>1, PutDeltas DEF LInv, Turns
<1>5. IsStart(streamed, streamed)
  BY DEF Streaming, IsStart
<1>6. \A i \in DOMAIN put' : put'[i].kind = "delta" => put'[i].text \in {"a", "b"}
  <2>1. /\ Sequence(put') /\ Len(put) \in Nat /\ Len(put') = Len(put) + 1
        /\ put'[Len(put) + 1] = held
        /\ \A i \in 1..Len(put) : put'[i] = put[i]
    BY <1>1, AppendEvent DEF LInv, Turns
  <2>2. DOMAIN put' = 1..(Len(put) + 1) /\ DOMAIN put = 1..Len(put)
    BY <2>1 DEF Sequence, LInv, Turns
  <2> QED
    BY <2>1, <2>2 DEF Streaming
<1> QED
  BY <1>1, <1>3, <1>4, <1>5, <1>6 DEF Streaming

LEMMA StreamingReceive ==
  ASSUME LInv, Reading, Streaming, ReceiveEvent
  PROVE  Streaming'
<1>1. /\ offer # None /\ offer' = None /\ held = None /\ phase # "idle"
      /\ UNCHANGED <<received, batch, put>>
  BY DEF ReceiveEvent, readVars, LInv, Turns, Running
<1>2. offer'.kind # "text" /\ held.kind # "delta"
  BY <1>1, NoneKind
<1>3. CASE MustDrop /\ DropTask
  BY <1>1, <1>2, <1>3, StreamingSame DEF DropTask
<1>4. CASE ~MustDrop
  <2>1. /\ SoFar' = SoFar /\ TextPieces' = TextPieces /\ DeltasPut' = DeltasPut /\ UNCHANGED phase
        /\ InOrder(TextPieces, SoFar)' = InOrder(TextPieces, SoFar)
    <3>1. SoFar' = SoFar /\ TextPieces' = TextPieces /\ DeltasPut' = DeltasPut /\ UNCHANGED phase
      BY <1>1, <1>4, PiecesStay DEF SoFar, ReceiveEvent, DeltasPut, DeltaPieces
    <3> QED
      BY <3>1
  <2>2. CASE offer.kind = "text"
    <3>1. streamed' = Append(streamed, offer.text) /\ held' = [kind |-> "delta", text |-> offer.text]
      BY <1>4, <2>2 DEF ReceiveEvent
    <3>2. offer.text \in {"a", "b"} /\ InOrder(TextPieces, SoFar) = Append(streamed, offer.text)
      BY <1>1, <2>2 DEF Streaming
    <3>3. held'.kind = "delta" /\ held'.text = offer.text
      BY <3>1
    <3>4. streamed' \in Seq({"a", "b"})
      BY <3>1, <3>2 DEF Streaming
    <3> QED
      BY <1>1, <1>2, <2>1, <3>1, <3>2, <3>3, <3>4 DEF Streaming
  <2>3. CASE offer.kind # "text"
    <3>1. UNCHANGED streamed /\ held'.kind # "delta"
      BY <1>1, <1>2, <1>4, <2>3 DEF ReceiveEvent, Plain
    <3> QED
      BY <1>1, <1>2, <2>1, <2>3, <3>1 DEF Streaming
  <2> QED
    BY <2>2, <2>3
<1> QED
  BY <1>3, <1>4 DEF ReceiveEvent

LEMMA StreamingNext == LInv /\ Reading /\ Streaming /\ [Next]_vars => Streaming'
<1> SUFFICES ASSUME LInv, Reading, Streaming, [Next]_vars PROVE Streaming'
  OBVIOUS
<1>1. CASE SubmitTask
  <2>1. /\ received' = <<>> /\ batch' = <<>> /\ put' = <<>> /\ streamed' = <<>> /\ phase' = "queued"
        /\ UNCHANGED <<offer, held>> /\ offer = None /\ held = None
    BY <1>1 DEF SubmitTask, LInv, Turns, Running
  <2>2. SoFar' = 0 /\ Len(put') = 0 /\ DOMAIN put' = {}
    BY <2>1 DEF SoFar
  <2>3. InOrder(TextPieces, SoFar)' = <<>> /\ DeltasPut' = <<>>
    BY <2>2, InOrderEmpty DEF DeltasPut
  <2> QED
    BY <2>1, <2>2, <2>3, NoneKind DEF Streaming
<1>2. CASE SetCancelEvent \/ TakeTask \/ StopReading \/ UNCHANGED vars
  <2>1. UNCHANGED <<received, batch, held, put, streamed, offer>> /\ (phase' = phase \/ phase # "idle")
    BY <1>2 DEF SetCancelEvent, TakeTask, StopReading, vars, readVars, putVars
  <2>2. CASE phase = "idle"
    <3>1. phase' = "idle"
      BY <2>1, <2>2
    <3> QED
      BY <2>1, <3>1, StreamingSame DEF Streaming
  <2>3. CASE phase # "idle"
    BY <2>1, <2>3, StreamingSame DEF Streaming
  <2> QED
    BY <2>2, <2>3
<1>3. CASE Ask \/ FeedChunk \/ Finish
  <2>1. /\ UNCHANGED <<received, batch, held, put, streamed>> /\ phase # "idle" /\ offer = None
        /\ offer'.kind # "text"
    BY <1>3, NoneKind DEF Ask, FeedChunk, Finish, readVars, putVars, Yield, YieldError, Running, Plain
  <2>2. offer.kind # "text"
    BY <2>1, NoneKind
  <2> QED
    BY <2>1, <2>2, StreamingSame
<1>4. CASE ReadChunk
  <2>1. /\ UNCHANGED <<offer, held, put, streamed>> /\ phase' # "idle" /\ phase # "idle"
    BY <1>4 DEF ReadChunk, putVars
  <2>2. SoFar \in Nat /\ SoFar' = SoFar /\ Agree(TextPieces', TextPieces, SoFar)
    BY <1>4, ReadAgrees
  <2>3. InOrder(TextPieces', SoFar) = InOrder(TextPieces, SoFar)
    BY <2>2, InOrderAgree
  <2>4. InOrder(TextPieces, SoFar)' = InOrder(TextPieces, SoFar) /\ DeltasPut' = DeltasPut
    BY <2>1, <2>2, <2>3 DEF DeltasPut, DeltaPieces
  <2> QED
    BY <2>1, <2>4 DEF Streaming
<1>5. CASE HandlePayload
  BY <1>5, StreamingHandle
<1>6. CASE ReceiveEvent
  BY <1>6, StreamingReceive
<1>7. CASE PutEvent
  BY <1>7, StreamingPut
<1> QED
  BY <1>1, <1>2, <1>3, <1>4, <1>5, <1>6, <1>7 DEF Next, Worker

\* A payload adds its pieces to those of its own call, and nothing to any other.
CallStep(p, n, m, index) ==
  /\ InOrder(NamePieces(index), m)
       = IF p.kind = "call" /\ p.index = index /\ p.name # ""
         THEN Append(InOrder(NamePieces(index), n), p.name) ELSE InOrder(NamePieces(index), n)
  /\ InOrder(ArgPieces(index), m)
       = IF p.kind = "call" /\ p.index = index /\ p.args # ""
         THEN Append(InOrder(ArgPieces(index), n), p.args) ELSE InOrder(ArgPieces(index), n)

LEMMA CallSteps ==
  ASSUME Reading, phase = "handling", batch # <<>>, NEW p, p = Head(batch), NEW n, n = SoFar,
         NEW m, m = SoFar + 1, NEW index
  PROVE  /\ OfKind("call") \intersect 1..m
              = (OfKind("call") \intersect 1..n) \union (IF p.kind = "call" THEN {m} ELSE {})
         /\ CallStep(p, n, m, index)
<1>1. p = received[m] /\ n \in Nat /\ m \in DOMAIN received /\ m = n + 1
  BY BatchHandled
<1>2. m \in OfKind("call") <=> p.kind = "call"
  BY <1>1, NextHandled DEF OfKind
<1>3. m \in OfCall(index) <=> p.kind = "call" /\ p.index = index
  BY <1>1, <1>2 DEF OfCall
<1>4. 1..m = (1..n) \union {m} /\ m \notin 1..n
  BY <1>1
<1>5. OfKind("call") \intersect 1..m
        = (OfKind("call") \intersect 1..n) \union (IF p.kind = "call" THEN {m} ELSE {})
  BY <1>2, <1>4
<1>6. /\ m \in DOMAIN NamePieces(index) <=> p.kind = "call" /\ p.index = index /\ p.name # ""
      /\ m \in DOMAIN NamePieces(index) => NamePieces(index)[m] = p.name
  BY <1>1, <1>3 DEF NamePieces
<1>7. /\ m \in DOMAIN ArgPieces(index) <=> p.kind = "call" /\ p.index = index /\ p.args # ""
      /\ m \in DOMAIN ArgPieces(index) => ArgPieces(index)[m] = p.args
  BY <1>1, <1>3 DEF ArgPieces
<1>8. InOrder(NamePieces(index), m)
        = IF m \in DOMAIN NamePieces(index)
          THEN Append(InOrder(NamePieces(index), n), NamePieces(index)[m]) ELSE InOrder(NamePieces(index), n)
  BY <1>1, InOrderStep
<1>9. InOrder(ArgPieces(index), m)
        = IF m \in DOMAIN ArgPieces(index)
          THEN Append(InOrder(ArgPieces(index), n), ArgPieces(index)[m]) ELSE InOrder(ArgPieces(index), n)
  BY <1>1, InOrderStep
<1> QED
  BY <1>5, <1>6, <1>7, <1>8, <1>9 DEF CallStep

\* A call that did not come up has no pieces.
LEMMA NoPieces ==
  ASSUME NEW n \in Nat, NEW index, index \notin {received[j].index : j \in OfKind("call") \intersect 1..n}
  PROVE  InOrder(NamePieces(index), n) = <<>> /\ InOrder(ArgPieces(index), n) = <<>>
<1>1. \A i \in OfCall(index) : i \notin 1..n
  BY DEF OfCall
<1>2. \A i \in DOMAIN NamePieces(index) : i \notin (0 + 1)..n
  <2>1. DOMAIN NamePieces(index) \subseteq OfCall(index)
    BY DEF NamePieces
  <2> QED
    BY <1>1, <2>1
<1>3. \A i \in DOMAIN ArgPieces(index) : i \notin (0 + 1)..n
  <2>1. DOMAIN ArgPieces(index) \subseteq OfCall(index)
    BY DEF ArgPieces
  <2> QED
    BY <1>1, <2>1
<1>4. 0 \in Nat /\ 0 <= n
  OBVIOUS
<1>5. InOrder(NamePieces(index), n) = InOrder(NamePieces(index), 0)
  BY <1>2, <1>4, InOrderIdle
<1>6. InOrder(ArgPieces(index), n) = InOrder(ArgPieces(index), 0)
  BY <1>3, <1>4, InOrderIdle
<1> QED
  BY <1>5, <1>6, InOrderEmpty

\* feed_delta keeps the pieces of all calls.
LEMMA FeedCollects ==
  ASSUME Reading, phase = "handling", batch # <<>>, Collected(calls, SoFar),
         NEW p, p = Head(batch), NEW m, m = SoFar + 1,
         \/ p.kind = "call" /\ FeedDelta(p)
         \/ p.kind # "call" /\ UNCHANGED calls
  PROVE  Collected(calls', m)
<1>1. p = received[m] /\ SoFar \in Nat
  BY BatchHandled
<1>2. PICK n \in Nat : n = SoFar
  BY <1>1
<1>3. OfKind("call") \intersect 1..m
        = (OfKind("call") \intersect 1..n) \union (IF p.kind = "call" THEN {m} ELSE {})
  BY <1>2, CallSteps
<1>4. \A index : CallStep(p, n, m, index)
  BY <1>2, CallSteps
<1>5. /\ DOMAIN calls = {received[j].index : j \in OfKind("call") \intersect 1..n}
      /\ \A index \in DOMAIN calls : /\ calls[index].name = InOrder(NamePieces(index), n)
                                     /\ calls[index].args = InOrder(ArgPieces(index), n)
  BY <1>2 DEF Collected
<1>6. CASE p.kind # "call" /\ UNCHANGED calls
  BY <1>3, <1>4, <1>5, <1>6 DEF Collected, CallStep
<1>7. CASE p.kind = "call" /\ FeedDelta(p)
  <2>1. PICK known, call : 
          /\ known = IF p.index \in DOMAIN calls THEN calls[p.index] ELSE EmptyCall
          /\ call.name = Piece(known.name, p.name) /\ call.args = Piece(known.args, p.args)
          /\ calls' = [index \in DOMAIN calls \union {p.index} |-> IF index = p.index THEN call ELSE calls[index]]
    BY <1>7 DEF FeedDelta
  <2>2. DOMAIN calls' = {received[j].index : j \in OfKind("call") \intersect 1..m}
    BY <1>1, <1>3, <1>5, <1>7, <2>1
  <2>3. known.name = InOrder(NamePieces(p.index), n) /\ known.args = InOrder(ArgPieces(p.index), n)
    <3>1. CASE p.index \in DOMAIN calls
      BY <1>5, <2>1, <3>1
    <3>2. CASE p.index \notin DOMAIN calls
      BY <1>5, <2>1, <3>2, NoPieces DEF EmptyCall
    <3> QED
      BY <3>1, <3>2
  <2>4. ASSUME NEW index \in DOMAIN calls'
        PROVE  /\ calls'[index].name = InOrder(NamePieces(index), m)
               /\ calls'[index].args = InOrder(ArgPieces(index), m)
    <3>1. CASE index = p.index
      BY <1>4, <1>7, <2>1, <2>3, <3>1 DEF Piece, CallStep
    <3>2. CASE index # p.index
      <4>1. index \in DOMAIN calls /\ calls'[index] = calls[index]
        BY <2>1, <2>4, <3>2
      <4>2. /\ InOrder(NamePieces(index), m) = InOrder(NamePieces(index), n)
            /\ InOrder(ArgPieces(index), m) = InOrder(ArgPieces(index), n)
        BY <1>4, <3>2 DEF CallStep
      <4> QED
        BY <1>5, <4>1, <4>2
    <3> QED
      BY <3>1, <3>2
  <2> QED
    BY <2>2, <2>4 DEF Collected
<1> QED
  BY <1>6, <1>7

\* At the end of an answer all of it has been handled.
LEMMA AllHandled ==
  ASSUME Reading, phase = "closing"
  PROVE  /\ Sent(TextPieces) = InOrder(TextPieces, SoFar)
         /\ \A index : /\ Sent(NamePieces(index)) = InOrder(NamePieces(index), SoFar)
                       /\ Sent(ArgPieces(index)) = InOrder(ArgPieces(index), SoFar)
         /\ OfKind("call") \intersect 1..SoFar = OfKind("call")
<1>1. PICK n \in Nat, m \in Nat : n = SoFar /\ m = Len(received) /\ n <= m
  BY SoFarIn
<1>2. \A i \in Handled : i \in 1..n /\ i \notin (n + 1)..m
  BY <1>1 DEF Reading
<1>3. DOMAIN TextPieces \subseteq Handled
  BY DEF TextPieces, OfKind
<1>4. InOrder(TextPieces, m) = InOrder(TextPieces, n)
  BY <1>1, <1>2, <1>3, InOrderIdle
<1>5. ASSUME NEW index
      PROVE  /\ InOrder(NamePieces(index), m) = InOrder(NamePieces(index), n)
             /\ InOrder(ArgPieces(index), m) = InOrder(ArgPieces(index), n)
  <2>1. DOMAIN NamePieces(index) \subseteq Handled /\ DOMAIN ArgPieces(index) \subseteq Handled
    BY DEF NamePieces, ArgPieces, OfCall, OfKind
  <2>2. /\ \A i \in DOMAIN NamePieces(index) : i \notin (n + 1)..m
        /\ \A i \in DOMAIN ArgPieces(index) : i \notin (n + 1)..m
    BY <1>2, <2>1
  <2> QED
    BY <1>1, <2>2, InOrderIdle
<1>6. OfKind("call") \intersect 1..n = OfKind("call")
  BY <1>2 DEF OfKind
<1> QED
  BY <1>1, <1>4, <1>5, <1>6 DEF Sent

\* Steps that take in no payload leave what was collected.
LEMMA CollectedStays ==
  ASSUME UNCHANGED <<received, batch, calls>>
  PROVE  Collected(calls, SoFar)' = Collected(calls, SoFar) /\ Finalizable' = Finalizable
<1>1. SoFar' = SoFar /\ \A collection, n : Collected(collection, n)' = Collected(collection, n)
  BY PiecesStay DEF SoFar
<1>2. Collected(calls, SoFar)' = Collected(calls, SoFar)
  BY <1>1, PiecesStay, ZenonT(30) DEF Collected
<1>3. Finalizable' = Finalizable
  BY DEF Finalizable
<1> QED
  BY <1>2, <1>3

\* Steps that take in no payload and put nothing.
LEMMA CollectingSame ==
  ASSUME Collecting, UNCHANGED <<received, batch, calls, lastCalls, held, put>>,
         phase = "idle" => phase' = "idle",
         phase' = "idle" => held.kind # "answer" /\ offer'.kind # "completed",
         phase = "closing" => phase' \in {"closing", "idle"},
         phase' \in {"reading", "feeding", "handling", "closing"}
           => phase \in {"reading", "feeding", "handling", "closing"},
         offer'.kind = "completed" => UNCHANGED offer
  PROVE  Collecting'
<1>1. /\ SoFar' = SoFar
      /\ \A collection, n : Collected(collection, n)' = Collected(collection, n)
      /\ \A event : OwnAnswer(event)' = OwnAnswer(event)
  BY PiecesStay DEF SoFar
<1>2. Collected(calls, SoFar)' = Collected(calls, SoFar)
  BY <1>1, PiecesStay, ZenonT(30) DEF Collected
<1>3. OwnAnswer(held)' = OwnAnswer(held) /\ \A i : OwnAnswer(put[i])' = OwnAnswer(put[i])
  BY <1>1, PiecesStay DEF OwnAnswer, Sent
<1>4. Finalizable' = Finalizable
  BY DEF Finalizable
<1> QED
  BY <1>2, <1>3, <1>4 DEF Collecting

\* An event is put: an answer only as the last one.
LEMMA CollectingPut ==
  ASSUME LInv, Collecting, UNCHANGED received, phase # "idle", NEW e, put' = Append(put, e),
         e.kind = "answer" => phase' = "idle" /\ OwnAnswer(e)
  PROVE  \A i \in DOMAIN put' : put'[i].kind = "answer" => phase' = "idle" /\ OwnAnswer(put[i])'
<1>1. Sequence(put)
  BY DEF LInv, Turns
<1>2. /\ Sequence(put') /\ Len(put) \in Nat /\ Len(put') = Len(put) + 1
      /\ put'[Len(put) + 1] = e
      /\ \A i \in 1..Len(put) : put'[i] = put[i]
  BY <1>1, AppendEvent
<1>3. DOMAIN put' = 1..(Len(put) + 1) /\ DOMAIN put = 1..Len(put)
  BY <1>1, <1>2 DEF Sequence
<1>4. \A i \in 1..Len(put) : put'[i].kind # "answer"
  BY <1>2, <1>3 DEF Collecting
<1>5. SUFFICES ASSUME NEW i \in DOMAIN put', put'[i].kind = "answer"
               PROVE  phase' = "idle" /\ OwnAnswer(put[i])'
  OBVIOUS
<1>6. put'[i] = e
  BY <1>2, <1>3, <1>4, <1>5
<1>7. OwnAnswer(e)' = OwnAnswer(e)
  BY PiecesStay
<1>8. OwnAnswer(put[i])' = OwnAnswer(e)'
  BY <1>6, Zenon DEF OwnAnswer
<1> QED
  BY <1>5, <1>6, <1>7, <1>8

LEMMA CollectingHandle ==
  ASSUME LInv, Reading, Collecting, HandlePayload
  PROVE  Collecting'
<1>1. phase = "handling" /\ offer = None /\ held = None /\ UNCHANGED <<received, lastCalls>>
  BY DEF HandlePayload, Running
<1>2. offer.kind # "completed" /\ held.kind # "answer" /\ \A i \in DOMAIN put : put[i].kind # "answer"
  BY <1>1, NoneKind DEF Collecting
<1>3. CASE batch = <<>>
  <2>1. UNCHANGED <<batch, calls, held, put, offer>> /\ phase' = "reading"
    BY <1>3 DEF HandlePayload, putVars
  <2>2. offer'.kind # "completed"
    BY <1>2, <2>1
  <2> QED
    BY <1>1, <1>2, <2>1, <2>2, CollectingSame
<1>4. CASE batch # <<>>
  <2>1. PICK p, m : p = Head(batch) /\ m = SoFar + 1
    OBVIOUS
  <2>2. SoFar' = m
    <3>1. Len(received) - Len(Tail(batch)) = SoFar + 1
      BY <1>1, <1>4, BatchHandled
    <3> QED
      BY <1>1, <1>4, <2>1, <3>1 DEF HandlePayload, SoFar
  <2>3. \/ p.kind = "text" /\ Yield(p) /\ UNCHANGED <<calls, putVars>>
        \/ p.kind = "call" /\ FeedDelta(p) /\ Yield(p) /\ UNCHANGED putVars
        \/ p.kind = "nothing" /\ UNCHANGED <<phase, offer, calls, putVars>>
        \/ p.kind = "malformed" /\ YieldError("INVALID_RESPONSE") /\ UNCHANGED <<calls, putVars>>
        \/ p.kind = "crashing" /\ RaiseException /\ UNCHANGED <<offer, calls>>
        \/ p.kind = "done" /\ phase' = "closing" /\ UNCHANGED <<offer, calls, putVars>>
    BY <1>4, <2>1 DEF HandlePayload
  <2>4. \/ p.kind = "call" /\ FeedDelta(p)
        \/ p.kind # "call" /\ UNCHANGED calls
    BY <2>3
  <2>5. Collected(calls, SoFar)
    BY <1>1 DEF Collecting
  <2>6. Collected(calls', m)
    BY <1>1, <1>4, <2>1, <2>4, <2>5, FeedCollects
  <2>7. Collected(calls, SoFar)'
    <3>1. Collected(calls', SoFar')
      BY <2>2, <2>6
    <3> QED
      BY <1>1, <3>1, PiecesStay DEF Collected
  <2>8. offer'.kind # "completed" /\ UNCHANGED held
    BY <1>2, <2>3 DEF Yield, YieldError, RaiseException, putVars
  <2>9. \A i \in DOMAIN put' : put'[i].kind = "answer" => phase' = "idle" /\ OwnAnswer(put[i])'
    <3>1. CASE RaiseException
      <4>1. PICK e : put' = Append(put, e) /\ e.kind # "answer"
        BY <3>1 DEF RaiseException, Plain
      <4> QED
        BY <1>1, <4>1, CollectingPut
    <3>2. CASE UNCHANGED putVars
      BY <1>2, <3>2 DEF putVars
    <3> QED
      BY <2>3, <3>1, <3>2
  <2> QED
    BY <1>2, <2>7, <2>8, <2>9 DEF Collecting
<1> QED
  BY <1>3, <1>4

LEMMA CollectingReceive ==
  ASSUME LInv, Reading, Streaming, Collecting, ReceiveEvent
  PROVE  Collecting'
<1>1. /\ offer # None /\ offer' = None /\ held = None /\ phase # "idle"
      /\ UNCHANGED <<received, batch, calls, lastCalls, put>> /\ (phase' = phase \/ phase' = "idle")
  BY DEF ReceiveEvent, readVars, LInv, Turns, Running, DropTask
<1>2. offer'.kind # "completed" /\ held.kind # "answer"
  BY <1>1, NoneKind
<1>3. CASE UNCHANGED held
  BY <1>1, <1>2, <1>3, CollectingSame
<1>4. CASE held'.kind \in {"delta", "failure"} /\ UNCHANGED phase
  <2>1. /\ Collected(calls, SoFar)' = Collected(calls, SoFar)
        /\ \A i \in DOMAIN put : put[i].kind # "answer"
    BY <1>1, CollectedStays DEF Collecting
  <2> QED
    BY <1>1, <1>2, <1>4, <2>1 DEF Collecting
<1>5. CASE /\ ~MustDrop /\ offer.kind = "completed"
           /\ held' = [kind |-> "answer", text |-> streamed, calls |-> lastCalls]
  <2>1. /\ phase = "closing" /\ lastCalls = calls /\ Finalizable /\ Collected(calls, SoFar)
        /\ \A i \in DOMAIN put : put[i].kind # "answer"
    BY <1>1, <1>5 DEF Collecting
  <2>2. UNCHANGED phase
    BY <1>5 DEF ReceiveEvent
  <2>3. Sent(TextPieces) = streamed
    <3>1. Sent(TextPieces) = InOrder(TextPieces, SoFar)
      BY <2>1, AllHandled
    <3>2. InOrder(TextPieces, SoFar) = streamed
      BY <1>5, <2>1 DEF Streaming
    <3> QED
      BY <3>1, <3>2
  <2>4. PICK e : /\ e = held' /\ e.kind = "answer" /\ e.text = streamed /\ e.calls = calls
    BY <1>5, <2>1
  <2>5. OwnAnswer(e)
    <3>1. /\ \A index : /\ Sent(NamePieces(index)) = InOrder(NamePieces(index), SoFar)
                        /\ Sent(ArgPieces(index)) = InOrder(ArgPieces(index), SoFar)
          /\ OfKind("call") \intersect 1..SoFar = OfKind("call")
      BY <2>1, AllHandled
    <3> QED
      BY <2>1, <2>3, <2>4, <3>1 DEF OwnAnswer, Collected, Finalizable
  <2>6. OwnAnswer(held)'
    BY <1>1, <2>4, <2>5, PiecesStay DEF OwnAnswer
  <2>7. Collected(calls, SoFar)' = Collected(calls, SoFar)
    BY <1>1, CollectedStays
  <2> QED
    BY <1>1, <1>2, <2>1, <2>2, <2>6, <2>7 DEF Collecting
<1> QED
  BY <1>3, <1>4, <1>5 DEF ReceiveEvent, DropTask, Plain

LEMMA CollectingNext == LInv /\ Reading /\ Streaming /\ Collecting /\ [Next]_vars => Collecting'
<1> SUFFICES ASSUME LInv, Reading, Streaming, Collecting, [Next]_vars PROVE Collecting'
  OBVIOUS
<1>1. CASE SubmitTask
  <2>1. /\ put' = <<>> /\ phase' = "queued" /\ UNCHANGED <<offer, held>> /\ offer = None /\ held = None
    BY <1>1 DEF SubmitTask, LInv, Turns, Running
  <2> QED
    BY <2>1, NoneKind DEF Collecting
<1>2. CASE SetCancelEvent \/ TakeTask \/ StopReading
  <2>1. /\ UNCHANGED <<received, batch, calls, lastCalls, held, put, offer>> /\ phase # "idle"
        /\ \/ UNCHANGED phase
           \/ phase = "queued" /\ phase' \in {"idle", "asking"} /\ offer = None /\ held = None
           \/ phase = "reading" /\ phase' = "closing"
    BY <1>2 DEF SetCancelEvent, TakeTask, StopReading, readVars, putVars, LInv, Turns, Running
  <2>2. CASE phase = "queued"
    <3>1. offer'.kind # "completed" /\ held.kind # "answer"
      BY <2>1, <2>2, NoneKind DEF LInv, Turns, Running
    <3> QED
      BY <2>1, <2>2, <3>1, CollectingSame
  <2>3. CASE phase # "queued"
    BY <2>1, <2>3, CollectingSame
  <2> QED
    BY <2>2, <2>3
<1>3. CASE Ask
  <2>1. /\ UNCHANGED <<received, batch, held, put>> /\ phase = "asking" /\ offer = None /\ held = None
    BY <1>3 DEF Ask, readVars, putVars, Running
  <2>2. held.kind # "answer" /\ \A i \in DOMAIN put : put[i].kind # "answer"
    BY <2>1, NoneKind DEF Collecting
  <2>3. offer'.kind # "completed"
    BY <1>3, <2>1, NoneKind DEF Ask, YieldError
  <2>4. phase' = "asking" \/ (phase' = "reading" /\ calls' = NoCalls)
    BY <1>3, <2>1 DEF Ask, YieldError
  <2>5. calls' = NoCalls => Collected(calls, SoFar)'
    <3>1. received' = <<>> /\ SoFar' \in Nat
      <4>1. received = <<>> /\ SoFar \in Nat
        BY <2>1, SoFarIn DEF Reading
      <4> QED
        BY <2>1, <4>1 DEF SoFar
    <3>2. OfKind("call")' = {}
      BY <3>1 DEF OfKind, Handled
    <3> QED
      BY <3>2 DEF Collected, NoCalls
  <2> QED
    BY <2>1, <2>2, <2>3, <2>4, <2>5 DEF Collecting
<1>4. CASE ReadChunk
  <2>1. /\ UNCHANGED <<calls, lastCalls, offer, held, put>> /\ phase = "reading" /\ phase' = "feeding"
    BY <1>4 DEF ReadChunk, putVars
  <2>2. /\ SoFar \in Nat /\ SoFar' = SoFar
        /\ \A index : Agree(NamePieces(index)', NamePieces(index), SoFar)
        /\ \A index : Agree(ArgPieces(index)', ArgPieces(index), SoFar)
        /\ OfKind("call")' \intersect 1..SoFar = OfKind("call") \intersect 1..SoFar
        /\ \A i \in 1..SoFar : received'[i] = received[i]
    BY <1>4, ReadAgrees
  <2>3. \A index : InOrder(NamePieces(index)', SoFar) = InOrder(NamePieces(index), SoFar)
    BY <2>2, InOrderAgree
  <2>4. \A index : InOrder(ArgPieces(index)', SoFar) = InOrder(ArgPieces(index), SoFar)
    BY <2>2, InOrderAgree
  <2>5. Collected(calls, SoFar)
    BY <2>1 DEF Collecting
  <2>6. Collected(calls, SoFar)'
    <3>1. {received'[j].index : j \in OfKind("call")' \intersect 1..SoFar}
            = {received[j].index : j \in OfKind("call") \intersect 1..SoFar}
      BY <2>2
    <3> QED
      BY <2>1, <2>2, <2>3, <2>4, <2>5, <3>1 DEF Collected
  <2>7. offer.kind # "completed" /\ held.kind # "answer" /\ \A i \in DOMAIN put : put[i].kind # "answer"
    BY <2>1 DEF Collecting
  <2> QED
    BY <2>1, <2>6, <2>7 DEF Collecting
<1>5. CASE FeedChunk
  <2>1. /\ UNCHANGED <<received, batch, calls, lastCalls, held, put>> /\ phase = "feeding" /\ offer = None
        /\ phase' \in {"feeding", "handling"}
    BY <1>5 DEF FeedChunk, readVars, putVars, YieldError, Running
  <2>2. offer'.kind # "completed"
    BY <1>5, <2>1, NoneKind DEF FeedChunk, YieldError
  <2> QED
    BY <2>1, <2>2, CollectingSame
<1>6. CASE HandlePayload
  BY <1>6, CollectingHandle
<1>7. CASE Finish
  <2>1. /\ UNCHANGED <<received, batch, calls, held, put, phase>> /\ phase = "closing" /\ held = None
    BY <1>7 DEF Finish, readVars, putVars, Yield, YieldError, Running
  <2>2. \/ offer'.kind = "completed" /\ lastCalls' = calls /\ Finalizable
        \/ offer'.kind # "completed"
    BY <1>7 DEF Finish, Yield, YieldError, Plain
  <2>3. Collected(calls, SoFar)' = Collected(calls, SoFar) /\ Finalizable' = Finalizable
    BY <2>1, CollectedStays
  <2>4. held.kind # "answer" /\ \A i \in DOMAIN put : put[i].kind # "answer"
    BY <2>1, NoneKind DEF Collecting
  <2> QED
    BY <2>1, <2>2, <2>3, <2>4 DEF Collecting
<1>8. CASE ReceiveEvent
  BY <1>8, CollectingReceive
<1>9. CASE PutEvent
  <2>1. /\ UNCHANGED <<received, batch, calls, lastCalls, offer>> /\ put' = Append(put, held) /\ held' = None
        /\ phase # "idle" /\ offer = None
        /\ phase' = IF held.kind = "delta" THEN phase ELSE "idle"
    BY <1>9 DEF PutEvent, readVars, LInv, Turns, Running
  <2>2. held.kind = "answer" => phase' = "idle" /\ OwnAnswer(held)
    BY <2>1 DEF Collecting
  <2>3. \A i \in DOMAIN put' : put'[i].kind = "answer" => phase' = "idle" /\ OwnAnswer(put[i])'
    BY <2>1, <2>2, CollectingPut
  <2>4. Collected(calls, SoFar)' = Collected(calls, SoFar)
    BY <2>1, CollectedStays
  <2> QED
    BY <2>1, <2>3, <2>4, NoneKind DEF Collecting
<1>10. CASE UNCHANGED vars
  BY <1>10, CollectingSame DEF vars, readVars, putVars, Collecting
<1> QED
  BY <1>1, <1>2, <1>3, <1>4, <1>5, <1>6, <1>7, <1>8, <1>9, <1>10 DEF Next, Worker

LEMMA AnswerInit == Init => AInv
<1> SUFFICES ASSUME Init PROVE AInv
  OBVIOUS
<1>1. LInv
  BY InitHolds
<1>2. SoFar = 0 /\ Len(put) = 0 /\ DOMAIN put = {}
  BY DEF Init, SoFar
<1>3. Reading
  BY <1>2 DEF Init, Reading, Phases
<1>4. InOrder(TextPieces, SoFar) = <<>> /\ DeltasPut = <<>>
  BY <1>2, InOrderEmpty DEF DeltasPut
<1>5. Streaming
  BY <1>2, <1>4, NoneKind DEF Init, Streaming, IsStart
<1>6. Collecting
  BY <1>2, NoneKind DEF Init, Collecting
<1> QED
  BY <1>1, <1>3, <1>5, <1>6 DEF AInv

LEMMA AnswerNext == AInv /\ [Next]_vars => AInv'
  BY NextHolds, ReadingNext, StreamingNext, CollectingNext DEF AInv

\* An answer is the whole of its own request's and nothing of any other's, however the
\* server cuts its texts, names and arguments into pieces, interleaves its calls or
\* repeats their ids (openai_provider.py:395, tool_call_accumulator.py:42): what was put
\* as deltas before is a beginning of the same text.
THEOREM AnswerIsItsOwnHolds == Spec => []AnswerIsItsOwn
<1>1. AInv => AnswerIsItsOwn
  <2> SUFFICES ASSUME AInv PROVE AnswerIsItsOwn
    OBVIOUS
  <2>1. Reading /\ Streaming /\ Collecting
    BY DEF AInv
  <2>2. PICK whole, part : whole = Sent(TextPieces) /\ part = InOrder(TextPieces, SoFar)
    OBVIOUS
  <2>3. IsStart(part, whole) /\ part \in Seq({"a", "b"}) /\ whole \in Seq({"a", "b"})
    <3>1. PICK n \in Nat, m \in Nat : n = SoFar /\ m = Len(received) /\ n <= m
      BY <2>1, SoFarIn
    <3>2. IsStart(InOrder(TextPieces, n), InOrder(TextPieces, m))
      BY <2>1, <3>1, TextTypes, InOrderStart
    <3>3. InOrder(TextPieces, n) \in Seq({"a", "b"}) /\ InOrder(TextPieces, m) \in Seq({"a", "b"})
      BY <2>1, <3>1, TextTypes
    <3> QED
      BY <2>2, <3>1, <3>2, <3>3 DEF Sent
  <2>4. IsStart(streamed, part) /\ streamed \in Seq({"a", "b"})
    <3>1. CASE phase = "idle"
      BY <2>1, <2>2, <3>1 DEF Streaming
    <3>2. CASE phase # "idle"
      BY <2>1, <2>2, <2>3, <3>2 DEF Streaming, IsStart
    <3> QED
      BY <3>1, <3>2
  <2>5. IsStart(DeltasPut, streamed) /\ \E S : DeltasPut \in Seq(S)
    <3>1. DeltasPut \in Seq({"a", "b"})
      <4>1. \A i \in DOMAIN DeltaPieces : DeltaPieces[i] \in {"a", "b"}
        BY <2>1 DEF DeltaPieces, Streaming
      <4>2. Len(put) \in Nat
        BY DEF AInv, LInv, Turns, Sequence
      <4> QED
        BY <4>1, <4>2, InOrderType DEF DeltasPut
    <3>2. PICK deltas \in Seq({"a", "b"}) : deltas = DeltasPut
      BY <3>1
    <3>3. IsStart(deltas, streamed)
      BY <2>1, <2>4, <3>2 DEF Streaming, IsStart
    <3> QED
      BY <3>2, <3>3
  <2>6. ASSUME NEW i \in DOMAIN DeltasPut
        PROVE  i \in DOMAIN Sent(TextPieces) /\ DeltasPut[i] = Sent(TextPieces)[i]
    BY <2>2, <2>3, <2>4, <2>5 DEF IsStart
  <2>7. \A i \in DOMAIN put : put[i].kind = "answer" => OwnAnswer(put[i])
    BY <2>1 DEF Collecting
  <2> QED
    BY <2>6, <2>7 DEF AnswerIsItsOwn, OwnAnswer
<1> QED
  BY AnswerInit, AnswerNext, <1>1, PTL DEF Spec
-----------------------------------------------------------------------------
(* Types: what the invariants above leave open.                            *)

Rest ==
  /\ tasks \in 0..MaxTasks /\ cancelSet \in BOOLEAN /\ failedRead \in BOOLEAN
  /\ Calls(calls) /\ Calls(lastCalls)
  /\ phase = "reading" => Running

LEMMA NoCallsTyped == Calls(NoCalls)
  BY DEF Calls, NoCalls

\* A delta that is fed makes or extends a call of one of the two indices.
LEMMA FeedTyped ==
  ASSUME Calls(calls), NEW d \in Payloads, d.kind = "call", FeedDelta(d)
  PROVE  Calls(calls')
<1>1. d.index \in {0, 1}
  BY PayloadTypes
<1>2. PICK call :
        /\ DOMAIN call = DOMAIN EmptyCall
        /\ calls' = [index \in DOMAIN calls \union {d.index} |-> IF index = d.index THEN call ELSE calls[index]]
  BY DEF FeedDelta, EmptyCall
<1> QED
  BY <1>1, <1>2 DEF Calls

LEMMA RestHandle ==
  ASSUME LInv, Reading, Rest, HandlePayload
  PROVE  Rest'
<1>1. /\ UNCHANGED <<tasks, cancelSet, failedRead, lastCalls>> /\ phase = "handling" /\ offer = None /\ held = None
  BY DEF HandlePayload, Running
<1>2. CASE batch = <<>>
  BY <1>1, <1>2 DEF HandlePayload, Rest, Calls, Running, putVars
<1>3. CASE batch # <<>>
  <2>1. PICK p : p = Head(batch) /\ p \in Payloads
    BY <1>1, <1>3, BatchHandled
  <2>2. phase' \in {"handling", "idle", "closing"}
    BY <1>1, <1>3 DEF HandlePayload, Yield, YieldError, RaiseException
  <2>3. UNCHANGED calls \/ (p.kind = "call" /\ FeedDelta(p))
    BY <1>3, <2>1 DEF HandlePayload
  <2>4. Calls(calls')
    BY <2>1, <2>3, FeedTyped DEF Rest
  <2> QED
    BY <1>1, <2>2, <2>4 DEF Rest, Calls
<1> QED
  BY <1>2, <1>3

LEMMA RestNext == LInv /\ Reading /\ Rest /\ [Next]_vars => Rest'
<1> SUFFICES ASSUME LInv, Reading, Rest, [Next]_vars PROVE Rest'
  OBVIOUS
<1>1. CASE SubmitTask
  <2>1. tasks' \in 0..MaxTasks
    BY <1>1, StreamAssumption DEF SubmitTask, Rest
  <2> QED
    BY <1>1, <2>1 DEF SubmitTask, Rest, Calls
<1>2. CASE SetCancelEvent \/ TakeTask \/ StopReading \/ PutEvent
  BY <1>2 DEF SetCancelEvent, TakeTask, StopReading, PutEvent, Rest, Calls, Running, readVars, putVars
<1>3. CASE Ask
  <2>1. /\ Calls(calls') /\ Calls(lastCalls')
        /\ UNCHANGED <<tasks, cancelSet, failedRead>>
    BY <1>3, NoCallsTyped DEF Ask, Rest, readVars
  <2>2. phase' = "reading" => Running'
    BY <1>3 DEF Ask, Running, putVars, YieldError
  <2> QED
    BY <2>1, <2>2 DEF Rest, Calls
<1>4. CASE ReadChunk \/ FeedChunk
  <2>1. phase' # "reading" /\ UNCHANGED <<tasks, cancelSet, failedRead, calls, lastCalls>>
    BY <1>4 DEF ReadChunk, FeedChunk, readVars, putVars, YieldError
  <2> QED
    BY <2>1 DEF Rest, Calls
<1>5. CASE HandlePayload
  BY <1>5, RestHandle
<1>6. CASE Finish
  <2>1. /\ phase' # "reading" /\ UNCHANGED <<tasks, cancelSet, failedRead, calls>>
        /\ lastCalls' \in {lastCalls, calls}
    BY <1>6 DEF Finish, readVars, putVars, Yield, YieldError
  <2> QED
    BY <2>1 DEF Rest, Calls
<1>7. CASE ReceiveEvent
  <2>1. /\ UNCHANGED <<tasks, cancelSet, failedRead, calls, lastCalls>>
        /\ offer # None /\ phase' \in {phase, "idle"}
    BY <1>7 DEF ReceiveEvent, readVars, DropTask
  <2> QED
    BY <2>1 DEF Rest, Calls, Running
<1>8. CASE UNCHANGED vars
  BY <1>8 DEF vars, readVars, putVars, Rest, Calls, Running
<1> QED
  BY <1>1, <1>2, <1>3, <1>4, <1>5, <1>6, <1>7, <1>8 DEF Next, Worker

\* Every state is one the program can be in, and the generator runs on only when its
\* last event was looked at and put (worker.py:124): a read is never taken with an event
\* under way.
THEOREM TypeCorrectW == Spec => []TypeOKW
<1>1. Init => Rest
  <2> SUFFICES ASSUME Init PROVE Rest
    OBVIOUS
  <2>1. tasks \in 0..MaxTasks
    BY StreamAssumption DEF Init
  <2>2. calls = NoCalls /\ lastCalls = NoCalls
    BY DEF Init
  <2>3. Calls(calls) /\ Calls(lastCalls)
    BY <2>2, NoCallsTyped DEF Calls
  <2> QED
    BY <2>1, <2>3 DEF Init, Rest
<1>2. AInv /\ Rest => TypeOKW
  <2> SUFFICES ASSUME AInv, Rest PROVE TypeOKW
    OBVIOUS
  <2>1. LInv /\ Reading /\ Streaming
    BY DEF AInv
  <2>2. late \in Nat /\ (phase \in {"idle", "queued"} => Running) /\ (offer # None => held = None)
    BY <2>1 DEF LInv, Turns, Late
  <2>3. /\ offer.kind \in {"none", "text", "call", "error", "completed"}
        /\ held.kind \in {"none", "delta", "failure", "answer"}
    BY <2>1, NoneKind DEF LInv, Turns, Offered
  <2> QED
    BY <2>1, <2>2, <2>3 DEF TypeOKW, Reading, Streaming, Rest
<1>3. AInv /\ Rest /\ [Next]_vars => Rest'
  BY RestNext DEF AInv
<1> QED
  BY <1>1, <1>2, <1>3, AnswerInit, AnswerNext, PTL DEF Spec
=============================================================================
