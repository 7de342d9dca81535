---------------------- MODULE RuntimeConversationProofs ----------------------
(***************************************************************************)
(* Theorems about RuntimeConversation for every value of its constants.    *)
(***************************************************************************)
EXTENDS RuntimeConversation, AgentRuntimeProofs, ConversationProofs, PiecesProofs

-----------------------------------------------------------------------------
(***************************************************************************)
(* RuntimeConversation implements AgentRuntime: what holds of the turn     *)
(* lifecycle whatever the conversation does holds with the conversation.   *)
(***************************************************************************)

\* Handling a response with its messages is handling a response.
LEMMA ResponseImplements == HandleResponseC => HandleResponse
<1>1. \A k : HandleCallC(k) => HandleCall(k)
  BY DEF HandleCallC, HandleCall, AnsweredAtOnce
<1>2. QED  BY <1>1 DEF HandleResponseC, HandleResponse, FinishTurnC

\* Every step with the conversation is a step without it.
LEMMA StepImplements == [NextC]_allVars => [Next]_vars
<1>1. TickC => Tick
  BY ResponseImplements DEF TickC, Tick, ProcessEventC, ProcessEvent, TickEndC
<1>2. WorkerC => Worker
  BY DEF WorkerC
<1>3. UserC => User
  <2>1. \A id : DecideC(id) => Decide(id)
    BY DEF DecideC, Decide
  <2>2. QED
    BY <2>1 DEF UserC, User, SubmitPromptC, CancelCurrentTurnC, ClearHistoryC,
                RestoreSessionMemoryC
<1>4. UNCHANGED allVars => UNCHANGED vars
  BY DEF allVars
<1>5. QED  BY <1>1, <1>2, <1>3, <1>4 DEF NextC, Next

\* Every behaviour of the runtime with its conversation is a behaviour of the
\* turn lifecycle: the free choices of AgentRuntime cover all that the
\* conversation can make of a prompt.
THEOREM Implements == SpecC => Spec
<1>1. InitC => Init
  BY DEF InitC
<1>2. QED  BY <1>1, StepImplements, PTL DEF SpecC, Spec

-----------------------------------------------------------------------------
(***************************************************************************)
(* What the messages are.                                                  *)
(***************************************************************************)

\* An empty conversation is valid.
LEMMA EmptyValid == <<>> \in Seq(Message) /\ ValidSequence(<<>>)
<1>1. <<>> \in Seq(Message) /\ DOMAIN <<>> = {}
  OBVIOUS
<1>2. QED  BY <1>1, ValidPlain

\* So is the conversation made of a restored memory: it has neither calls nor answers.
LEMMA RestoredValid ==
  LET s == <<SystemMsg>> \o SummaryPair
  IN  /\ s \in Seq(Message) /\ ValidSequence(s)
      /\ WellFormed(s) /\ \A i \in DOMAIN s : s[i].kind # "tool"
<1> DEFINE s == <<SystemMsg>> \o SummaryPair
<1>1. /\ Len(s) = 3 /\ DOMAIN s = 1..3
      /\ s[1] = SystemMsg /\ s[2] = Plain("summary", 0) /\ s[3] = Plain("ack", 0)
  BY DEF SummaryPair
<1> HIDE DEF s
<1>2. s \in Seq(Message)
  <2>1. \A i \in 1..3 : s[i] \in Message
    BY <1>1, PlainTypes DEF SystemMsg
  <2>2. s = [i \in 1..3 |-> s[i]]
    BY <1>1 DEF s, SummaryPair
  <2>3. QED  BY <2>1, <2>2
<1>3. \A i \in 1..3 : /\ s[i].kind # "tool" /\ s[i].calls = <<>>
                      /\ s[i].kind = "system" => i = 1
  BY <1>1 DEF SystemMsg, Plain
<1>4. ValidSequence(s)
  BY <1>1, <1>2, <1>3, ValidPlain
<1>5. QED  BY <1>1, <1>2, <1>3, <1>4 DEF s, WellFormed

\* Messages added behind the first n leave those alone.
LEMMA HeadKept ==
  ASSUME NEW s \in Seq(Message), NEW t \in Seq(Message), NEW n \in 0..Len(s)
  PROVE  /\ s \o t \in Seq(Message) /\ n \in 0..Len(s \o t)
         /\ SubSeq(s \o t, 1, n) = SubSeq(s, 1, n)
<1>1. s \o t \in Seq(Message) /\ Len(s \o t) = Len(s) + Len(t)
  OBVIOUS
<1>2. \A i \in 1..n : (s \o t)[i] = s[i]
  OBVIOUS
<1>3. QED  BY <1>1, <1>2

-----------------------------------------------------------------------------
(***************************************************************************)
(* The conversation can always be repaired.  HistoryValid is not           *)
(* inductive: it says nothing of where the active turn begins, and a       *)
(* message added by a turn that begins nowhere stays for good.             *)
(***************************************************************************)

\* While nothing has disturbed it, the index of an active turn lies within the
\* messages, so that what the turn adds stands behind the part that is kept.
ConvInv ==
  /\ pendingCall \in CallId
  /\ disturbed = {} =>
       /\ messages \in Seq(Message) /\ start \in Nat \union {NoStart}
       /\ ValidSequence(Discarded)
       /\ turn # NoTurn => start \in 0..Len(messages)

\* What remains of a conversation without its active turn is a conversation.
LEMMA DiscardedType ==
  ASSUME messages \in Seq(Message), start \in Nat \union {NoStart}
  PROVE  Discarded \in Seq(Message)
<1>1. CASE start # NoStart /\ start <= Len(messages)
  <2>1. start \in 0..Len(messages)
    BY <1>1
  <2>2. SubSeq(messages, 1, start) \in Seq(Message)
    BY <2>1
  <2>3. QED  BY <1>1, <2>2 DEF Discarded
<1>2. CASE ~(start # NoStart /\ start <= Len(messages))
  BY <1>2 DEF Discarded
<1>3. QED  BY <1>1, <1>2

\* The messages of a round are messages.
LEMMA RoundType ==
  ASSUME turn \in Nat, rounds \in Nat, Response.calls \in Seq(CallKinds), NEW n \in Nat
  PROVE  Round(n) \in Seq(Message) /\ CallOf(n) \in CallId
<1>1. \A k \in Nat : CallOf(k) \in CallId
  BY DEF CallOf, CallId
<1>2. \A k \in 1..n : ToolMsg(turn, CallOf(k)) \in Message
  BY <1>1 DEF ToolMsg, Message
<1>3. [k \in DOMAIN Response.calls |-> CallOf(k)] \in Seq(CallId)
  <2>1. DOMAIN Response.calls = 1..Len(Response.calls) /\ Len(Response.calls) \in Nat
    OBVIOUS
  <2>2. QED  BY <1>1, <2>1
<1>4. AssistantMsg(turn, [k \in DOMAIN Response.calls |-> CallOf(k)]) \in Message
  BY <1>3 DEF AssistantMsg, Message, NoCall, CallId
<1>5. [k \in 1..n |-> ToolMsg(turn, CallOf(k))] \in Seq(Message)
  BY <1>2
<1>6. QED  BY <1>1, <1>4, <1>5 DEF Round

\* An active turn may add what it likes: the repair removes it.
LEMMA TurnAdds ==
  ASSUME ConvInv, turn # NoTurn, turn' \in {turn, NoTurn}, pendingCall' \in CallId,
         UNCHANGED <<start, disturbed>>,
         messages \in Seq(Message) => \E t \in Seq(Message) : messages' = messages \o t
  PROVE  ConvInv'
<1>1. SUFFICES ASSUME disturbed = {}
               PROVE  messages' \in Seq(Message) /\ ValidSequence(Discarded)'
                        /\ start \in 0..Len(messages')
  BY DEF ConvInv
<1>2. messages \in Seq(Message) /\ start \in 0..Len(messages) /\ ValidSequence(Discarded)
  BY <1>1 DEF ConvInv
<1>3. PICK t \in Seq(Message) : messages' = messages \o t
  BY <1>2
<1>4. /\ messages' \in Seq(Message) /\ start \in 0..Len(messages')
      /\ SubSeq(messages', 1, start) = SubSeq(messages, 1, start)
  BY <1>2, <1>3, HeadKept
<1>5. Discarded' = Discarded
  <2>1. start # NoStart /\ start <= Len(messages) /\ start <= Len(messages')
    BY <1>2, <1>4 DEF NoStart
  <2>2. QED  BY <1>4, <2>1 DEF Discarded
<1>6. QED  BY <1>2, <1>4, <1>5

\* One message is a sequence of messages to add.
LEMMA AppendAdds ==
  ASSUME NEW m \in Message, messages' = Append(messages, m)
  PROVE  messages \in Seq(Message) => \E t \in Seq(Message) : messages' = messages \o t
<1> SUFFICES ASSUME messages \in Seq(Message)
             PROVE  \E t \in Seq(Message) : messages' = messages \o t
  OBVIOUS
<1>1. <<m>> \in Seq(Message) /\ messages' = messages \o <<m>>
  OBVIOUS
<1>2. QED  BY <1>1

\* Nothing happens to the conversation, and no turn begins.
LEMMA ConvKept ==
  ASSUME ConvInv, UNCHANGED convVars, turn' \in {turn, NoTurn}
  PROVE  ConvInv'
BY DEF ConvInv, convVars, Discarded

\* A prompt is refused, or its turn begins behind a valid conversation.
LEMMA StartKeeps ==
  ASSUME TypeOK, ConvInv, NEW p, StartPrompt(p), StartC
  PROVE  ConvInv'
<1>1. turns \in Nat
  BY DEF TypeOK, TurnTypes
<1>2. CASE RefuseC
  <2>1. turn' = turn
    BY <1>1, <1>2 DEF RefuseC, StartPrompt, RefusePrompt, BeginTurn, turnVars
  <2>2. QED  BY <1>2, <2>1, ConvKept DEF RefuseC
<1>3. CASE BeginC
  <2>1. pendingCall' \in CallId /\ start' = Len(Recovered)
    BY <1>3 DEF BeginC, ConvInv
  <2>2. SUFFICES ASSUME disturbed' = {}
                 PROVE  /\ messages' \in Seq(Message) /\ start' \in 0..Len(messages')
                        /\ ValidSequence(Discarded)'
    BY <2>1 DEF ConvInv
  <2>3. disturbed = {} /\ messages' = Append(Recovered, UserMsg(turns + 1))
    BY <1>3, <2>2 DEF BeginC
  <2>4. Recovered \in Seq(Message) /\ ValidSequence(Recovered)
    BY <2>3, DiscardedType DEF Recovered, ConvInv
  <2>5. UserMsg(turns + 1) \in Message
    BY <1>1, PlainTypes DEF UserMsg
  <2>6. Len(Recovered) \in Nat /\ <<UserMsg(turns + 1)>> \in Seq(Message)
        /\ messages' = Recovered \o <<UserMsg(turns + 1)>>
    BY <2>3, <2>4, <2>5
  <2>7. /\ messages' \in Seq(Message) /\ start' \in 0..Len(messages')
        /\ SubSeq(messages', 1, start') = SubSeq(Recovered, 1, Len(Recovered))
    BY <2>1, <2>4, <2>6, HeadKept
  <2>8. SubSeq(Recovered, 1, Len(Recovered)) = Recovered
    BY <2>4
  <2>9. Discarded' = Recovered
    <3>1. start' # NoStart /\ start' <= Len(messages')
      BY <2>7 DEF NoStart
    <3>2. QED  BY <2>7, <2>8, <3>1 DEF Discarded
  <2>10. QED  BY <2>4, <2>7, <2>9
<1>4. QED  BY <1>2, <1>3 DEF StartC

\* Initially there is nothing to repair.
LEMMA InitConv == InitC => ConvInv
<1> SUFFICES ASSUME InitC PROVE ConvInv
  OBVIOUS
<1>1. messages = <<>> /\ start = NoStart /\ pendingCall = NoCall /\ turn = NoTurn
  BY DEF InitC, Init
<1>2. Discarded = <<>>
  BY <1>1 DEF Discarded
<1>3. NoCall \in CallId /\ <<>> \in Seq(Message)
  BY DEF NoCall, CallId
<1>4. QED  BY <1>1, <1>2, <1>3, EmptyValid DEF ConvInv

\* The operations of the user keep the conversation repairable.
LEMMA UserKeepsConv == Inv /\ ConvInv /\ UserC => ConvInv'
<1> SUFFICES ASSUME Inv, ConvInv, UserC PROVE ConvInv'
  OBVIOUS
<1>1. TypeOK /\ ActiveTurn /\ turns \in Nat /\ turn \in Nat
  BY DEF Inv, TypeOK, TurnTypes
<1>2. CASE SubmitPromptC
  <2>1. CASE MustWait
    <3>1. UNCHANGED convVars /\ turn' = turn
      BY <1>2, <2>1 DEF SubmitPromptC, SubmitPrompt, turnVars
    <3>2. QED  BY <3>1, ConvKept
  <2>2. CASE ~MustWait
    <3>1. StartPrompt(submitted + 1) /\ StartC
      BY <1>2, <2>2 DEF SubmitPromptC, SubmitPrompt
    <3>2. QED  BY <1>1, <3>1, StartKeeps
  <2>3. QED  BY <2>1, <2>2
<1>3. CASE CancelCurrentTurnC
  <2>1. messages' = Discarded /\ start' = NoStart /\ UNCHANGED <<pendingCall, disturbed>>
    BY <1>3 DEF CancelCurrentTurnC
  <2>2. turn' = NoTurn
    BY <1>3 DEF CancelCurrentTurnC, CancelCurrentTurn, AbandonTurn
  <2>3. Discarded' = messages'
    BY <2>1 DEF Discarded
  <2>4. QED  BY <2>1, <2>2, <2>3, DiscardedType DEF ConvInv
<1>4. CASE ClearHistoryC
  <2>1. /\ messages' = <<>> /\ UNCHANGED <<start, pendingCall, turn>>
        /\ disturbed' = IF turn = NoTurn THEN disturbed ELSE disturbed \union {"clear"}
    BY <1>4 DEF ClearHistoryC, ClearHistory
  <2>2. SUFFICES ASSUME disturbed' = {}
                 PROVE  <<>> \in Seq(Message) /\ ValidSequence(Discarded)' /\ turn = NoTurn
                          /\ start \in Nat \union {NoStart}
    BY <2>1 DEF ConvInv
  <2>3. turn = NoTurn /\ start \in Nat \union {NoStart}
    BY <2>1, <2>2 DEF ConvInv
  <2>4. Discarded' = <<>>
    <3>1. CASE start # NoStart /\ start <= 0
      <4>1. start = 0 /\ SubSeq(<<>>, 1, 0) = <<>>
        BY <2>3, <3>1
      <4>2. QED  BY <2>1, <4>1 DEF Discarded
    <3>2. CASE ~(start # NoStart /\ start <= 0)
      BY <2>1, <3>2 DEF Discarded
    <3>3. QED  BY <3>1, <3>2
  <2>5. QED  BY <2>3, <2>4, EmptyValid
<1>5. CASE RestoreSessionMemoryC
  <2>1. /\ messages' = <<SystemMsg>> \o SummaryPair /\ start' = NoStart
        /\ UNCHANGED <<pendingCall, turn>>
        /\ disturbed' = IF turn = NoTurn THEN disturbed ELSE disturbed \union {"load"}
    BY <1>5 DEF RestoreSessionMemoryC, RestoreSessionMemory
  <2>2. Discarded' = messages'
    BY <2>1 DEF Discarded
  <2>3. QED  BY <2>1, <2>2, RestoredValid DEF ConvInv
<1>6. ASSUME NEW id \in DOMAIN approvals, DecideC(id) PROVE ConvInv'
  <2>1. /\ AnswerPendingCall /\ state = "PENDING_APPROVAL"
        /\ Resubmit(turn, events) \/ CloseWithError(turn, events)
    BY <1>6 DEF DecideC, ApproveTool, RejectTool, ApprovePlan, RejectPlan, ToolRequest,
                PlanRequest
  <2>2. turn # NoTurn /\ turn' \in {turn, NoTurn}
    BY <1>1, <2>1, ResubmitOutcome DEF ActiveTurn
  <2>3. pendingCall \in CallId /\ ToolMsg(turn, pendingCall) \in Message
    BY <1>1 DEF ConvInv, ToolMsg, Message
  <2>4. messages \in Seq(Message) => \E t \in Seq(Message) : messages' = messages \o t
    BY <2>1, <2>3, AppendAdds DEF AnswerPendingCall
  <2>5. QED  BY <2>1, <2>2, <2>3, <2>4, TurnAdds DEF AnswerPendingCall
<1>7. QED  BY <1>2, <1>3, <1>4, <1>5, <1>6 DEF UserC

\* A response that is handled belongs to an active turn.
LEMMA LiveTurn ==
  ASSUME Inv, HandleResponse
  PROVE  /\ turn # NoTurn /\ turn \in Nat /\ rounds \in Nat
         /\ Response.calls \in Seq(CallKinds) /\ turn' \in {turn, NoTurn}
<1>1. /\ turns \in Nat /\ turn \in Nat /\ rounds \in Nat
      /\ EventTypes /\ events \in Seq(Event) /\ AllFrom(events, turns)
  BY SignalsAreFrom DEF Inv, TypeOK, TurnTypes, BudgetTypes, EventTypes
<1>2. NextEvent /\ Head(events).turn = turn
  BY ResponseOutcome DEF LiveResponse, Live, Stale
<1>3. Head(events) \in Event /\ Head(events) = events[1] /\ 1 \in 1..Len(events)
  BY <1>1, <1>2, NextEventTypes
<1>4. turn # NoTurn
  BY <1>1, <1>2, <1>3 DEF AllFrom, NoTurn
<1>5. Response.calls \in Seq(CallKinds)
  BY <1>3 DEF Response, Event
<1>6. turn' \in {turn, NoTurn}
  <2>1. CASE Resubmit(turn, Rest) \/ CloseWithError(turn, Rest)
    BY <2>1, ResubmitOutcome
  <2>2. QED  BY <2>1, ResponseOutcome
<1>7. QED  BY <1>1, <1>4, <1>5, <1>6

\* Whatever a response makes of its turn, it only adds messages of that turn.
LEMMA ResponseKeepsConv == Inv /\ ConvInv /\ HandleResponseC => ConvInv'
<1> SUFFICES ASSUME Inv, ConvInv, HandleResponseC PROVE ConvInv'
  OBVIOUS
<1>1. /\ turn # NoTurn /\ turn \in Nat /\ rounds \in Nat
      /\ Response.calls \in Seq(CallKinds) /\ turn' \in {turn, NoTurn}
  BY ResponseImplements, LiveTurn
<1>2. CASE FinishTurnC
  <2>1. <<>> \in Seq(CallId) /\ NoCall \in CallId
    BY DEF NoCall, CallId
  <2>2. AssistantMsg(turn, <<>>) \in Message
    BY <1>1, <2>1 DEF AssistantMsg, Message
  <2>3. /\ messages' = Append(messages, AssistantMsg(turn, <<>>))
        /\ UNCHANGED <<start, pendingCall, disturbed>>
    BY <1>2 DEF FinishTurnC
  <2>4. messages \in Seq(Message) => \E t \in Seq(Message) : messages' = messages \o t
    BY <2>2, <2>3, AppendAdds
  <2>5. QED  BY <1>1, <2>3, <2>4, TurnAdds DEF ConvInv
<1>3. CASE ExceedToolRounds /\ UNCHANGED convVars
  BY <1>1, <1>3, ConvKept
<1>4. ASSUME NEW n \in Nat, Record(n), pendingCall' \in CallId PROVE ConvInv'
  <2>1. Round(n) \in Seq(Message) /\ messages' = messages \o Round(n)
        /\ UNCHANGED <<start, disturbed>>
    BY <1>1, <1>4, RoundType DEF Record
  <2>2. QED  BY <1>1, <1>4, <2>1, TurnAdds
<1>5. CASE AllCallsDone /\ Record(Len(Response.calls)) /\ UNCHANGED pendingCall
  <2>1. Len(Response.calls) \in Nat
    BY <1>1
  <2>2. QED  BY <1>4, <1>5, <2>1 DEF ConvInv
<1>6. ASSUME NEW k \in DOMAIN Response.calls, HandleCallC(k) PROVE ConvInv'
  <2>1. k \in Nat /\ k - 1 \in Nat
    BY <1>1
  <2>2. CallOf(k) \in CallId
    BY <1>1, <2>1, RoundType
  <2>3. CASE Record(k) /\ UNCHANGED pendingCall
    BY <1>4, <2>1, <2>3 DEF ConvInv
  <2>4. CASE Record(k - 1) /\ pendingCall' \in {pendingCall, CallOf(k)}
    BY <1>4, <2>1, <2>2, <2>4 DEF ConvInv
  <2>5. QED  BY <1>6, <2>3, <2>4 DEF HandleCallC
<1>7. QED  BY <1>2, <1>3, <1>5, <1>6 DEF HandleResponseC

\* A tick keeps the conversation repairable, the prompt it starts included.
LEMMA TickKeepsConv == Inv /\ ConvInv /\ TickC => ConvInv'
<1> SUFFICES ASSUME Inv, ConvInv, TickC PROVE ConvInv'
  OBVIOUS
<1>1. CASE /\ TickBegin \/ DropStale \/ HandleDelta \/ HandleError
           /\ UNCHANGED convVars
  <2>1. turn' \in {turn, NoTurn}
    BY <1>1 DEF TickBegin, DropStale, HandleDelta, HandleError, turnVars
  <2>2. QED  BY <1>1, <2>1, ConvKept
<1>2. CASE HandleResponseC
  BY <1>2, ResponseKeepsConv
<1>3. CASE TickEndC
  <2>1. CASE MustWait \/ queue = <<>>
    <3>1. UNCHANGED convVars /\ turn' = turn
      BY <1>3, <2>1 DEF TickEndC, TickEnd, PumpPromptQueue, turnVars
    <3>2. QED  BY <3>1, ConvKept
  <2>2. CASE ~(MustWait \/ queue = <<>>)
    <3>1. StartPrompt(NextPrompt) /\ StartC
      BY <1>3, <2>2 DEF TickEndC, TickEnd, PumpPromptQueue
    <3>2. QED  BY <3>1, StartKeeps DEF Inv
  <2>3. QED  BY <2>1, <2>2
<1>4. QED  BY <1>1, <1>2, <1>3 DEF TickC, ProcessEventC

\* The inductive invariant of the conversation holds in every reachable state.
LEMMA ConvInvHolds == SpecC => []ConvInv
<1>1. InitC => ConvInv
  BY InitConv
<1>2. Inv /\ ConvInv /\ [NextC]_allVars => ConvInv'
  <2> SUFFICES ASSUME Inv, ConvInv, [NextC]_allVars PROVE ConvInv'
    OBVIOUS
  <2>1. CASE TickC
    BY <2>1, TickKeepsConv
  <2>2. CASE WorkerC
    <3>1. UNCHANGED convVars /\ turn' = turn
      BY <2>2 DEF WorkerC, Worker, WorkerTake, WorkerReceive, WorkerPut, WorkerException,
                  turnVars
    <3>2. QED  BY <3>1, ConvKept
  <2>3. CASE UserC
    BY <2>3, UserKeepsConv
  <2>4. CASE UNCHANGED allVars
    BY <2>4, ConvKept DEF allVars, vars, turnVars
  <2>5. QED  BY <2>1, <2>2, <2>3, <2>4 DEF NextC
<1>3. SpecC => []Inv
  BY Implements, InvHolds, PTL
<1>4. QED  BY <1>1, <1>2, <1>3, PTL DEF SpecC

\* However the turns before it ended, and whatever the active turn has left
\* behind, what a cancellation or the next prompt makes of the conversation is
\* valid, unless a compaction, or clearing or loading in the middle of a turn,
\* has put the index of the active turn at odds with the messages.
THEOREM HistoryValidHolds == SpecC => []HistoryValid
<1>1. ConvInv => HistoryValid
  BY DEF ConvInv, HistoryValid
<1>2. QED  BY <1>1, ConvInvHolds, PTL

\* A prompt is refused only by a conversation that something has disturbed.
THEOREM NeverRefused == SpecC => [][disturbed = {} => ~RefuseC]_allVars
<1>1. ConvInv /\ disturbed = {} => ~RefuseC
  <2> SUFFICES ASSUME ConvInv, disturbed = {}, RefuseC PROVE FALSE
    OBVIOUS
  <2>1. ValidSequence(Discarded) /\ start = NoStart /\ ~ValidSequence(messages)
    BY DEF ConvInv, RefuseC
  <2>2. QED  BY <2>1 DEF Discarded
<1>2. ConvInv => [disturbed = {} => ~RefuseC]_allVars
  BY <1>1
<1>3. QED  BY <1>2, ConvInvHolds, PTL

-----------------------------------------------------------------------------
(***************************************************************************)
(* Types, the shape of the messages and the order of the answers.  The     *)
(* shape is what makes contexts and compaction sound; the order is not     *)
(* inductive: a decided request adds the answer to a call, and only the    *)
(* conversation itself tells that this call is the next one.               *)
(***************************************************************************)

ConvTypes ==
  /\ messages \in Seq(Message) /\ WellFormed(messages)
  /\ start \in Nat \union {NoStart} /\ pendingCall \in CallId
  /\ disturbed \in SUBSET {"clear", "load", "compaction"}

\* While a request is before the user, the conversation waits for its call.
Ordered ==
  "clear" \notin disturbed =>
    /\ AnswersFollow(messages)
    /\ state = "PENDING_APPROVAL" /\ Pending # {} => AwaitsAnswer(messages, turn, pendingCall)

MessagesInv == ConvTypes /\ Ordered

\* Messages that may come anywhere but at the beginning.
Addable(t) ==
  /\ t \in Seq(Message)
  /\ \A i \in DOMAIN t : /\ t[i].kind # "system"
                         /\ t[i].calls # <<>> => t[i].kind = "assistant"

\* A conversation stays well formed when such messages are added, or some taken away.
LEMMA WellFormedAdd ==
  ASSUME NEW s \in Seq(Message), WellFormed(s), NEW t, Addable(t)
  PROVE  s \o t \in Seq(Message) /\ WellFormed(s \o t)
<1> DEFINE c == s \o t
<1>1. /\ t \in Seq(Message) /\ c \in Seq(Message) /\ DOMAIN c = 1..(Len(s) + Len(t))
      /\ Len(s) \in Nat /\ Len(t) \in Nat /\ DOMAIN s = 1..Len(s) /\ DOMAIN t = 1..Len(t)
      /\ \A i \in 1..Len(s) : c[i] = s[i]
      /\ \A i \in 1..Len(t) : c[Len(s) + i] = t[i]
  BY DEF Addable
<1> HIDE DEF c
<1>2. ASSUME NEW i \in DOMAIN c
      PROVE  (c[i].calls # <<>> => c[i].kind = "assistant") /\ (c[i].kind = "system" => i = 1)
  <2>1. CASE i <= Len(s)
    <3>1. i \in DOMAIN s /\ c[i] = s[i]
      BY <1>1, <2>1
    <3>2. QED  BY <3>1 DEF WellFormed
  <2>2. CASE i > Len(s)
    <3>1. i - Len(s) \in 1..Len(t) /\ i = Len(s) + (i - Len(s))
      BY <1>1, <2>2
    <3>2. PICK j \in DOMAIN t : c[i] = t[j]
      BY <1>1, <3>1
    <3>3. QED  BY <3>2 DEF Addable
  <2>3. QED  BY <1>1, <2>1, <2>2
<1>3. QED  BY <1>1, <1>2 DEF c, WellFormed

LEMMA WellFormedCut ==
  ASSUME NEW s \in Seq(Message), WellFormed(s), NEW n \in 0..Len(s)
  PROVE  WellFormed(SubSeq(s, 1, n))
<1> DEFINE t == SubSeq(s, 1, n)
<1>1. t \in Seq(Message) /\ Len(t) = n /\ \A i \in 1..n : t[i] = s[i]
  BY CutAt
<1> SUFFICES WellFormed(t)
  OBVIOUS
<1> HIDE DEF t
<1>2. \A i \in DOMAIN t : i \in DOMAIN s /\ t[i] = s[i]
  BY <1>1
<1>3. QED  BY <1>2 DEF WellFormed

\* Neither the repair of a conversation nor a prompt changes the shape.
LEMMA DiscardedShape ==
  ASSUME ConvTypes
  PROVE  /\ Discarded \in Seq(Message) /\ WellFormed(Discarded)
         /\ AnswersFollow(messages) => AnswersFollow(Discarded)
<1>1. CASE start # NoStart /\ start <= Len(messages)
  <2>1. start \in 0..Len(messages)
    BY <1>1 DEF ConvTypes
  <2>2. /\ SubSeq(messages, 1, start) \in Seq(Message)
        /\ WellFormed(SubSeq(messages, 1, start))
        /\ AnswersFollow(messages) => AnswersFollow(SubSeq(messages, 1, start))
    BY <2>1, CutAt, WellFormedCut, FollowPrefix DEF ConvTypes
  <2>3. QED  BY <1>1, <2>2 DEF Discarded
<1>2. CASE ~(start # NoStart /\ start <= Len(messages))
  BY <1>2 DEF Discarded, ConvTypes
<1>3. QED  BY <1>1, <1>2

LEMMA PromptShape ==
  ASSUME ConvTypes, NEW t \in Nat, NEW s, s = Append(Recovered, UserMsg(t))
  PROVE  /\ s \in Seq(Message) /\ WellFormed(s)
         /\ AnswersFollow(messages) => AnswersFollow(s)
         /\ ValidSequence(Recovered) => ValidSequence(s)
         /\ Recovered \in Seq(Message)
<1>1. /\ Recovered \in Seq(Message) /\ WellFormed(Recovered)
      /\ AnswersFollow(messages) => AnswersFollow(Recovered)
  BY DiscardedShape DEF Recovered, ConvTypes
<1> DEFINE u == <<UserMsg(t)>>
<1>2. UserMsg(t) \in Message /\ UserMsg(t).kind = "user" /\ UserMsg(t).calls = <<>>
  BY PlainTypes DEF UserMsg, Plain
<1>3. /\ u \in Seq(Message) /\ s = Recovered \o u /\ DOMAIN u = {1} /\ u[1] = UserMsg(t)
      /\ u # <<>>
  BY <1>1, <1>2
<1> HIDE DEF u
<1>4. Addable(u) /\ AnswersFollow(u) /\ ValidSequence(u)
  BY <1>2, <1>3, FollowPlain, ValidPlain DEF Addable
<1>5. s \in Seq(Message) /\ WellFormed(s)
  BY <1>1, <1>3, <1>4, WellFormedAdd
<1>6. AnswersFollow(messages) => AnswersFollow(s)
  BY <1>1, <1>3, <1>4, FollowJoin
<1>7. ValidSequence(Recovered) => ValidSequence(s)
  <2>1. u[1].kind # "tool"
    BY <1>2, <1>3
  <2>2. QED  BY <1>1, <1>3, <1>4, <2>1, ValidJoin
<1>8. QED  BY <1>1, <1>5, <1>6, <1>7

\* Nothing happens to the conversation, and no request comes before the user.
LEMMA MessagesKept ==
  ASSUME MessagesInv, UNCHANGED convVars,
         \/ state' # "PENDING_APPROVAL"
         \/ Pending' = {}
         \/ UNCHANGED <<state, turn, pendingApproval, pendingReview>>
  PROVE  MessagesInv'
<1>1. ConvTypes'
  BY DEF MessagesInv, ConvTypes, convVars
<1>2. "clear" \notin disturbed' => AnswersFollow(messages')
  BY DEF MessagesInv, Ordered, convVars
<1>3. CASE state' # "PENDING_APPROVAL" \/ Pending' = {}
  BY <1>1, <1>2, <1>3 DEF MessagesInv, Ordered
<1>4. CASE UNCHANGED <<state, turn, pendingApproval, pendingReview>>
  <2>1. Pending' = Pending
    BY <1>4 DEF Pending
  <2>2. QED  BY <1>1, <1>4, <2>1 DEF MessagesInv, Ordered, convVars
<1>5. QED  BY <1>3, <1>4

\* The messages change, and no request is before the user.
LEMMA MessagesChanged ==
  ASSUME ConvTypes', "clear" \notin disturbed' => AnswersFollow(messages'),
         state' # "PENDING_APPROVAL" \/ Pending' = {}
  PROVE  MessagesInv'
BY DEF MessagesInv, Ordered

\* A prompt begins with a conversation in shape, compacted or not.
LEMMA StartKeepsMessages ==
  ASSUME TypeOK, MessagesInv, ~MustWait, NEW p, StartPrompt(p), StartC
  PROVE  MessagesInv'
<1>1. turns \in Nat /\ ConvTypes
  BY DEF TypeOK, TurnTypes, MessagesInv
<1>2. state' # "PENDING_APPROVAL"
  BY StartPromptOutcome DEF MustWait, Busy
<1>3. CASE RefuseC
  BY <1>2, <1>3, MessagesKept DEF RefuseC
<1>4. CASE BeginC
  <2> DEFINE prompted == Append(Recovered, UserMsg(turns + 1))
  <2>1. /\ prompted \in Seq(Message) /\ WellFormed(prompted) /\ Recovered \in Seq(Message)
        /\ AnswersFollow(messages) => AnswersFollow(prompted)
    <3>1. PICK t \in Nat : t = turns + 1
      BY <1>1
    <3>2. prompted = Append(Recovered, UserMsg(t))
      BY <3>1
    <3> HIDE DEF prompted
    <3>3. QED  BY <1>1, <3>2, PromptShape
  <2> HIDE DEF prompted
  <2>2. start' \in Nat
    BY <1>4, <2>1 DEF BeginC
  <2>3. \/ messages' = prompted /\ disturbed' \in {disturbed, disturbed \union {"compaction"}}
        \/ /\ Compactable(prompted) /\ messages' = Compacted(prompted)
           /\ disturbed' = disturbed \union {"compaction"}
    BY <1>4 DEF BeginC, prompted
  <2>4. Compactable(prompted) =>
          /\ Compacted(prompted) \in Seq(Message) /\ WellFormed(Compacted(prompted))
          /\ AnswersFollow(messages) => AnswersFollow(Compacted(prompted))
    BY <2>1, CompactedWellFormed, FollowCompacted
  <2>5. ConvTypes'
    BY <1>1, <1>4, <2>1, <2>2, <2>3, <2>4 DEF ConvTypes, BeginC
  <2>6. "clear" \notin disturbed' => AnswersFollow(messages')
    BY <2>1, <2>3, <2>4 DEF MessagesInv, Ordered
  <2>7. QED  BY <1>2, <2>5, <2>6, MessagesChanged
<1>5. QED  BY <1>3, <1>4 DEF StartC

\* Initially there are no messages.
LEMMA InitMessages == InitC => MessagesInv
<1> SUFFICES ASSUME InitC PROVE MessagesInv
  OBVIOUS
<1>1. /\ messages = <<>> /\ start = NoStart /\ pendingCall = NoCall /\ disturbed = {}
      /\ state = "IDLE"
  BY DEF InitC, Init
<1>2. NoCall \in CallId /\ <<>> \in Seq(Message) /\ DOMAIN <<>> = {}
  BY DEF NoCall, CallId
<1>3. QED  BY <1>1, <1>2, FollowPlain DEF MessagesInv, ConvTypes, Ordered, WellFormed

\* The user's decision adds the answer that the conversation waits for.
LEMMA DecideKeepsMessages ==
  ASSUME TypeOK, MessagesInv, NEW id \in DOMAIN approvals, DecideC(id)
  PROVE  MessagesInv'
<1>1. /\ AnswerPendingCall /\ state = "PENDING_APPROVAL" /\ Pending # {}
      /\ Resubmit(turn, events) \/ CloseWithError(turn, events)
  <2>1. Pending = {} <=> pendingApproval = NoId /\ pendingReview = NoId
    BY DEF Pending
  <2>2. CASE ApproveTool(id) \/ RejectTool(id)
    BY <2>1, <2>2 DEF DecideC, ApproveTool, RejectTool, ToolRequest, Names,
       ApprovePlan, RejectPlan
  <2>3. CASE ApprovePlan(id) \/ RejectPlan(id)
    BY <2>1, <2>3 DEF DecideC, ApprovePlan, RejectPlan, PlanRequest, Names,
       ApproveTool, RejectTool
  <2>4. AnswerPendingCall
    BY DEF DecideC
  <2>5. QED  BY <2>2, <2>3, <2>4 DEF DecideC
<1>2. state' # "PENDING_APPROVAL"
  BY <1>1, ResubmitOutcome
<1>3. /\ messages \in Seq(Message) /\ WellFormed(messages) /\ pendingCall \in CallId
      /\ turn \in Nat
  BY DEF MessagesInv, ConvTypes, TypeOK, TurnTypes
<1> DEFINE m == ToolMsg(turn, pendingCall)
           u == <<m>>
<1>4. m \in Message /\ m.kind = "tool" /\ m.calls = <<>>
  BY <1>3 DEF ToolMsg, Message
<1>5. messages' = Append(messages, m) /\ UNCHANGED <<start, pendingCall, disturbed>>
  BY <1>1 DEF AnswerPendingCall
<1>6. "clear" \notin disturbed' => AnswersFollow(messages')
  BY <1>1, <1>3, <1>4, <1>5, FollowAnswer DEF MessagesInv, Ordered
<1> HIDE DEF m
<1>7. u \in Seq(Message) /\ DOMAIN u = {1} /\ u[1] = m /\ messages' = messages \o u
  BY <1>3, <1>4, <1>5
<1>8. Addable(u)
  BY <1>4, <1>7 DEF Addable
<1>9. messages' \in Seq(Message) /\ WellFormed(messages')
  BY <1>3, <1>7, <1>8, WellFormedAdd
<1>10. ConvTypes'
  BY <1>5, <1>9 DEF MessagesInv, ConvTypes
<1>11. QED  BY <1>2, <1>6, <1>10, MessagesChanged

\* So do the user's operations keep shape and order, unless the history is
\* cleared in the middle of a turn.
LEMMA UserKeepsMessages == Inv /\ MessagesInv /\ UserC => MessagesInv'
<1> SUFFICES ASSUME Inv, MessagesInv, UserC PROVE MessagesInv'
  OBVIOUS
<1>1. TypeOK /\ ActiveTurn /\ ConvTypes
  BY DEF Inv, MessagesInv
<1>2. CASE SubmitPromptC
  <2>1. CASE MustWait
    <3>1. UNCHANGED convVars /\ UNCHANGED <<state, turn, pendingApproval, pendingReview>>
      BY <1>2, <2>1 DEF SubmitPromptC, SubmitPrompt, turnVars, approvalVars
    <3>2. QED  BY <3>1, MessagesKept
  <2>2. CASE ~MustWait
    <3>1. StartPrompt(submitted + 1) /\ StartC
      BY <1>2, <2>2 DEF SubmitPromptC, SubmitPrompt
    <3>2. QED  BY <1>1, <2>2, <3>1, StartKeepsMessages
  <2>3. QED  BY <2>1, <2>2
<1>3. CASE CancelCurrentTurnC
  <2>1. messages' = Discarded /\ start' = NoStart /\ UNCHANGED <<pendingCall, disturbed>>
    BY <1>3 DEF CancelCurrentTurnC
  <2>2. Pending' = {}
    BY <1>3 DEF CancelCurrentTurnC, CancelCurrentTurn, DropRequests, Pending
  <2>3. ConvTypes'
    BY <1>1, <2>1, DiscardedShape DEF ConvTypes
  <2>4. "clear" \notin disturbed' => AnswersFollow(messages')
    BY <1>1, <2>1, DiscardedShape DEF MessagesInv, Ordered
  <2>5. QED  BY <2>2, <2>3, <2>4, MessagesChanged
<1>4. CASE ClearHistoryC
  <2>1. /\ messages' = <<>> /\ UNCHANGED <<start, pendingCall, state, turn>>
        /\ disturbed' = IF turn = NoTurn THEN disturbed ELSE disturbed \union {"clear"}
    BY <1>4 DEF ClearHistoryC, ClearHistory
  <2>2. <<>> \in Seq(Message) /\ WellFormed(<<>>) /\ AnswersFollow(<<>>)
    <3>1. <<>> \in Seq(Message) /\ DOMAIN <<>> = {}
      OBVIOUS
    <3>2. QED  BY <3>1, FollowPlain DEF WellFormed
  <2>3. ConvTypes'
    BY <1>1, <2>1, <2>2 DEF ConvTypes
  <2>4. "clear" \notin disturbed' => state' # "PENDING_APPROVAL"
    BY <1>1, <2>1 DEF ActiveTurn
  <2>5. QED  BY <2>1, <2>2, <2>3, <2>4 DEF MessagesInv, Ordered
<1>5. CASE RestoreSessionMemoryC
  <2>1. /\ messages' = <<SystemMsg>> \o SummaryPair /\ start' = NoStart
        /\ UNCHANGED pendingCall
        /\ disturbed' \in {disturbed, disturbed \union {"load"}}
    BY <1>5 DEF RestoreSessionMemoryC
  <2>2. Pending' = {}
    BY <1>5 DEF RestoreSessionMemoryC, RestoreSessionMemory, DropRequests, Pending
  <2>3. ConvTypes'
    BY <1>1, <2>1, RestoredValid DEF ConvTypes
  <2>4. AnswersFollow(messages')
    BY <2>1, RestoredValid, FollowPlain
  <2>5. QED  BY <2>2, <2>3, <2>4, MessagesChanged
<1>6. ASSUME NEW id \in DOMAIN approvals, DecideC(id) PROVE MessagesInv'
  BY <1>1, <1>6, DecideKeepsMessages
<1>7. QED  BY <1>2, <1>3, <1>4, <1>5, <1>6 DEF UserC

\* The messages of a round: the one that asks, and the first n answers in order.
LEMMA RoundShape ==
  ASSUME turn \in Nat, rounds \in Nat, Response.calls \in Seq(CallKinds),
         NEW n \in 0..Len(Response.calls)
  PROVE  /\ Addable(Round(n)) /\ AnswersFollow(Round(n)) /\ Len(Round(n)) = n + 1
         /\ Round(n)[1].turn = turn /\ Len(Round(n)[1].calls) = Len(Response.calls)
         /\ \A k \in DOMAIN Response.calls : Round(n)[1].calls[k] = CallOf(k)
         /\ \A j \in 2..(n + 1) : Round(n)[j] = ToolMsg(turn, CallOf(j - 1))
<1> DEFINE r == Round(n)
           asked == [k \in DOMAIN Response.calls |-> CallOf(k)]
           m == AssistantMsg(turn, asked)
           answers == [k \in 1..n |-> ToolMsg(turn, CallOf(k))]
<1>1. Len(Response.calls) \in Nat /\ DOMAIN Response.calls = 1..Len(Response.calls) /\ n \in Nat
  OBVIOUS
<1>2. r \in Seq(Message) /\ \A k \in Nat : CallOf(k) \in CallId
  BY <1>1, RoundType
<1>3. Len(asked) = Len(Response.calls) /\ \A k \in DOMAIN Response.calls : asked[k] = CallOf(k)
  <2>1. asked \in Seq(CallId)
    BY <1>1, <1>2
  <2>2. QED  BY <1>1, <2>1
<1>4. m.kind = "assistant" /\ m.turn = turn /\ m.calls = asked
  BY DEF AssistantMsg
<1>5. Len(answers) = n /\ \A k \in 1..n : answers[k] = ToolMsg(turn, CallOf(k))
  BY <1>1
<1>6. Len(r) = n + 1 /\ DOMAIN r = 1..(n + 1) /\ r[1] = m
      /\ \A k \in 1..n : r[k + 1] = answers[k]
  <2>1. r = <<m>> \o answers
    BY DEF Round
  <2> HIDE DEF m, r
  <2>2. QED  BY <1>1, <2>1
<1> HIDE DEF r, asked, m, answers
<1>7. \A j \in 2..(n + 1) : r[j] = ToolMsg(turn, CallOf(j - 1))
  <2> TAKE j \in 2..(n + 1)
  <2>1. PICK k \in 1..n : k = j - 1 /\ j = k + 1
    BY <1>1
  <2>2. QED  BY <1>5, <1>6, <2>1
<1>8. \A c : ToolMsg(turn, c).kind = "tool" /\ ToolMsg(turn, c).calls = <<>>
  BY DEF ToolMsg
<1>9. Addable(r)
  <2>1. ASSUME NEW i \in DOMAIN r
        PROVE  r[i].kind # "system" /\ (r[i].calls # <<>> => r[i].kind = "assistant")
    <3>1. i = 1 \/ i \in 2..(n + 1)
      BY <1>1, <1>6
    <3>2. QED  BY <1>4, <1>6, <1>7, <1>8, <3>1
  <2>2. QED  BY <1>2, <2>1 DEF Addable
<1>10. AnswersFollow(r)
  <2>1. ASSUME NEW i \in DOMAIN r, r[i].kind = "tool"
        PROVE  \E a \in 1..(i - 1) : Answers(r, a, i)
    <3>1. i \in 2..(n + 1)
      BY <1>1, <1>4, <1>6, <2>1
    <3>2. i - 1 <= Len(r[1].calls)
      BY <1>1, <1>3, <1>4, <1>6, <3>1
    <3>3. ASSUME NEW j \in 2..i PROVE r[j] = ToolMsg(r[1].turn, r[1].calls[j - 1])
      <4>1. j \in 2..(n + 1) /\ j - 1 \in DOMAIN Response.calls
        BY <1>1, <3>1
      <4>2. QED  BY <1>3, <1>4, <1>6, <1>7, <4>1
    <3>4. Answers(r, 1, i)
      BY <3>2, <3>3 DEF Answers
    <3>5. 1 \in 1..(i - 1)
      BY <3>1
    <3>6. QED  BY <3>4, <3>5
  <2>2. QED  BY <2>1 DEF AnswersFollow
<1>11. QED  BY <1>3, <1>4, <1>6, <1>7, <1>9, <1>10 DEF r

\* Behind the answers to its first n calls, a response waits for the next one.
LEMMA RoundAwaits ==
  ASSUME turn \in Nat, rounds \in Nat, Response.calls \in Seq(CallKinds),
         NEW s \in Seq(Message), NEW n \in Nat, n < Len(Response.calls)
  PROVE  AwaitsAnswer(s \o Round(n), turn, CallOf(n + 1))
<1>1. n \in 0..Len(Response.calls) /\ Len(s) \in Nat /\ Len(Response.calls) \in Nat
      /\ DOMAIN Response.calls = 1..Len(Response.calls)
  OBVIOUS
<1> DEFINE r == Round(n)
           q == s \o r
<1>2. /\ r \in Seq(Message) /\ Len(r) = n + 1
      /\ r[1].turn = turn /\ Len(r[1].calls) = Len(Response.calls)
      /\ \A k \in DOMAIN Response.calls : r[1].calls[k] = CallOf(k)
      /\ \A j \in 2..(n + 1) : r[j] = ToolMsg(turn, CallOf(j - 1))
  BY <1>1, RoundShape DEF Addable
<1> HIDE DEF r
<1>3. /\ DOMAIN q = 1..(Len(s) + n + 1) /\ Len(q) = Len(s) + n + 1
      /\ \A j \in 1..(n + 1) : q[Len(s) + j] = r[j]
  <2>1. r \in Seq(Message) /\ Len(r) = n + 1
    BY <1>2
  <2>2. q \in Seq(Message) /\ Len(q) = Len(s) + Len(r) /\ \A j \in 1..Len(r) : q[Len(s) + j] = r[j]
    BY <2>1
  <2>3. QED  BY <1>1, <2>1, <2>2
<1> HIDE DEF q
<1>4. PICK a \in DOMAIN q : a = Len(s) + 1
  BY <1>1, <1>3
<1>5. q[a] = r[1]
  <2>1. 1 \in 1..(n + 1)
    OBVIOUS
  <2>2. QED  BY <1>3, <1>4, <2>1
<1>6. Len(q) - a = n
  BY <1>1, <1>3, <1>4
<1>7. Answers(q, a, Len(q))
  <2>1. Len(q) - a <= Len(q[a].calls)
    BY <1>1, <1>2, <1>5, <1>6
  <2>2. ASSUME NEW j \in (a + 1)..Len(q)
        PROVE  q[j] = ToolMsg(q[a].turn, q[a].calls[j - a])
    <3>1. PICK k \in 2..(n + 1) : j = Len(s) + k /\ k - 1 = j - a
      <4>1. j - Len(s) \in 2..(n + 1) /\ j = Len(s) + (j - Len(s))
            /\ (j - Len(s)) - 1 = j - a
        BY <1>1, <1>3, <1>4
      <4>2. QED  BY <4>1
    <3>2. k - 1 \in DOMAIN Response.calls /\ k \in 1..(n + 1)
      BY <1>1, <3>1
    <3>3. QED  BY <1>2, <1>3, <1>5, <3>1, <3>2
  <2>3. QED  BY <2>1, <2>2 DEF Answers
<1>8. q[a].calls[Len(q) - a + 1] = CallOf(n + 1)
  <2>1. n + 1 \in DOMAIN Response.calls
    BY <1>1
  <2>2. QED  BY <1>2, <1>5, <1>6, <2>1
<1>9. QED  BY <1>1, <1>2, <1>5, <1>6, <1>7, <1>8 DEF AwaitsAnswer, q, r

\* A turn that is no longer awaiting the user leaves the runtime in another state.
LEMMA ResponseSettles ==
  ASSUME HandleResponse,
         \/ FinishTurn \/ ExceedToolRounds \/ AllCallsDone
         \/ \E k \in DOMAIN Response.calls : AnsweredAtOnce(k) \/ CallRaises(k)
  PROVE  state' # "PENDING_APPROVAL"
<1>1. \A t, evs : Resubmit(t, evs) \/ CloseWithError(t, evs) => state' # "PENDING_APPROVAL"
  BY ResubmitOutcome
<1>2. CASE FinishTurn \/ ExceedToolRounds \/ AllCallsDone
  BY <1>1, <1>2 DEF FinishTurn, ExceedToolRounds, AllCallsDone
<1>3. ASSUME NEW k \in DOMAIN Response.calls, AnsweredAtOnce(k) \/ CallRaises(k)
      PROVE  state' # "PENDING_APPROVAL"
  BY <1>1, <1>3 DEF AnsweredAtOnce, CallRaises, CallFails, ExceedPlanRepairs, PlanInvalid,
                    PlanAutoApproved
<1>4. QED  BY <1>2, <1>3

\* What a response adds keeps shape and order: the calls it answers come first,
\* and the one it leaves to the user is the next.
LEMMA ResponseKeepsMessages == Inv /\ MessagesInv /\ HandleResponseC => MessagesInv'
<1> SUFFICES ASSUME Inv, MessagesInv, HandleResponseC PROVE MessagesInv'
  OBVIOUS
<1>1. /\ HandleResponse /\ turn # NoTurn /\ turn \in Nat /\ rounds \in Nat
      /\ Response.calls \in Seq(CallKinds)
  BY ResponseImplements, LiveTurn
<1>2. /\ ConvTypes /\ messages \in Seq(Message) /\ WellFormed(messages)
      /\ "clear" \notin disturbed => AnswersFollow(messages)
  BY DEF MessagesInv, ConvTypes, Ordered
<1>3. CASE FinishTurnC
  <2>1. <<>> \in Seq(CallId) /\ NoCall \in CallId
    BY DEF NoCall, CallId
  <2> DEFINE m == AssistantMsg(turn, <<>>)
             u == <<m>>
  <2>2. m \in Message /\ m.kind = "assistant"
    BY <1>1, <2>1 DEF AssistantMsg, Message
  <2>3. messages' = Append(messages, m) /\ UNCHANGED <<start, pendingCall, disturbed>>
    BY <1>3 DEF FinishTurnC
  <2> HIDE DEF m
  <2>4. u \in Seq(Message) /\ DOMAIN u = {1} /\ u[1] = m /\ messages' = messages \o u
    BY <1>2, <2>2, <2>3
  <2>5. Addable(u) /\ AnswersFollow(u)
    BY <2>2, <2>4, FollowPlain DEF Addable
  <2> HIDE DEF u
  <2>6. messages' \in Seq(Message) /\ WellFormed(messages')
    BY <1>2, <2>4, <2>5, WellFormedAdd
  <2>7. AnswersFollow(messages) => AnswersFollow(messages')
    BY <1>2, <2>4, <2>5, FollowJoin
  <2>8. state' # "PENDING_APPROVAL"
    BY <1>1, <1>3, ResponseSettles DEF FinishTurnC
  <2>9. ConvTypes'
    BY <1>2, <2>3, <2>6 DEF ConvTypes
  <2>10. QED  BY <1>2, <2>3, <2>7, <2>8, <2>9, MessagesChanged
<1>4. CASE ExceedToolRounds /\ UNCHANGED convVars
  <2>1. state' # "PENDING_APPROVAL"
    BY <1>1, <1>4, ResponseSettles
  <2>2. QED  BY <1>4, <2>1, MessagesKept
<1>5. ASSUME NEW n \in 0..Len(Response.calls), Record(n), pendingCall' \in CallId
      PROVE  ConvTypes' /\ ("clear" \notin disturbed' => AnswersFollow(messages'))
  <2>1. Addable(Round(n)) /\ AnswersFollow(Round(n))
    BY <1>1, RoundShape
  <2>2. messages' = messages \o Round(n) /\ UNCHANGED <<start, disturbed>>
    BY <1>5 DEF Record
  <2>3. Round(n) \in Seq(Message)
    BY <2>1 DEF Addable
  <2>4. messages \o Round(n) \in Seq(Message) /\ WellFormed(messages \o Round(n))
    BY <1>2, <2>1, WellFormedAdd
  <2>5. AnswersFollow(messages) => AnswersFollow(messages \o Round(n))
    BY <1>2, <2>1, <2>3, FollowJoin
  <2>6. ConvTypes'
    BY <1>2, <1>5, <2>2, <2>4 DEF ConvTypes
  <2>7. QED  BY <1>2, <2>2, <2>5, <2>6
<1>6. CASE AllCallsDone /\ Record(Len(Response.calls)) /\ UNCHANGED pendingCall
  <2>1. Len(Response.calls) \in 0..Len(Response.calls)
    BY <1>1
  <2>2. pendingCall' \in CallId
    BY <1>2, <1>6 DEF ConvTypes
  <2>3. state' # "PENDING_APPROVAL"
    BY <1>1, <1>6, ResponseSettles
  <2>4. QED  BY <1>5, <1>6, <2>1, <2>2, <2>3, MessagesChanged
<1>7. ASSUME NEW k \in DOMAIN Response.calls, HandleCallC(k) PROVE MessagesInv'
  <2>1. k \in 0..Len(Response.calls) /\ k - 1 \in 0..Len(Response.calls) /\ k \in Nat
    BY <1>1
  <2>2. CASE AnsweredAtOnce(k) /\ Record(k) /\ UNCHANGED pendingCall
    <3>1. pendingCall' \in CallId
      BY <1>2, <2>2 DEF ConvTypes
    <3>2. state' # "PENDING_APPROVAL"
      BY <1>1, <2>2, ResponseSettles
    <3>3. QED  BY <1>5, <2>1, <2>2, <3>1, <3>2, MessagesChanged
  <2>3. CASE CallRaises(k) /\ Record(k - 1) /\ UNCHANGED pendingCall
    <3>1. pendingCall' \in CallId
      BY <1>2, <2>3 DEF ConvTypes
    <3>2. state' # "PENDING_APPROVAL"
      BY <1>1, <2>3, ResponseSettles
    <3>3. QED  BY <1>5, <2>1, <2>3, <3>1, <3>2, MessagesChanged
  <2>4. CASE /\ AwaitApproval(k) \/ AwaitPlanReview(k)
             /\ Record(k - 1)
             /\ pendingCall' = CallOf(k)
    <3>1. PICK n \in Nat : n = k - 1 /\ n + 1 = k /\ n < Len(Response.calls)
                             /\ n \in 0..Len(Response.calls)
      BY <1>1, <2>1
    <3>2. pendingCall' \in CallId
      BY <1>1, <2>1, <2>4, RoundType
    <3>3. ConvTypes' /\ ("clear" \notin disturbed' => AnswersFollow(messages'))
      BY <1>5, <2>4, <3>1, <3>2
    <3>4. turn' = turn
      BY <2>4 DEF AwaitApproval, AwaitPlanReview
    <3>5. AwaitsAnswer(messages \o Round(n), turn, CallOf(n + 1))
      BY <1>1, <1>2, <3>1, RoundAwaits
    <3>6. AwaitsAnswer(messages', turn', pendingCall')
      BY <2>4, <3>1, <3>4, <3>5 DEF Record
    <3>7. QED  BY <3>3, <3>6 DEF MessagesInv, Ordered
  <2>5. QED  BY <1>7, <2>2, <2>3, <2>4 DEF HandleCallC
<1>8. QED  BY <1>3, <1>4, <1>6, <1>7 DEF HandleResponseC

\* So does a tick, the prompt it starts included.
LEMMA TickKeepsMessages == Inv /\ MessagesInv /\ TickC => MessagesInv'
<1> SUFFICES ASSUME Inv, MessagesInv, TickC PROVE MessagesInv'
  OBVIOUS
<1>1. CASE /\ TickBegin \/ DropStale \/ HandleDelta
           /\ UNCHANGED convVars
  <2>1. UNCHANGED <<state, turn, pendingApproval, pendingReview>>
    BY <1>1 DEF TickBegin, DropStale, HandleDelta, turnVars, approvalVars
  <2>2. QED  BY <1>1, <2>1, MessagesKept
<1>2. CASE HandleError /\ UNCHANGED convVars
  <2>1. \/ state' = "ERROR"
        \/ UNCHANGED <<state, turn, pendingApproval, pendingReview>>
    BY <1>2 DEF HandleError, approvalVars
  <2>2. QED  BY <1>2, <2>1, MessagesKept
<1>3. CASE HandleResponseC
  BY <1>3, ResponseKeepsMessages
<1>4. CASE TickEndC
  <2>1. CASE MustWait \/ queue = <<>>
    <3>1. UNCHANGED convVars /\ UNCHANGED <<state, turn, pendingApproval, pendingReview>>
      BY <1>4, <2>1 DEF TickEndC, TickEnd, PumpPromptQueue, turnVars, approvalVars
    <3>2. QED  BY <3>1, MessagesKept
  <2>2. CASE ~(MustWait \/ queue = <<>>)
    <3>1. StartPrompt(NextPrompt) /\ StartC
      BY <1>4, <2>2 DEF TickEndC, TickEnd, PumpPromptQueue
    <3>2. QED  BY <2>2, <3>1, StartKeepsMessages DEF Inv
  <2>3. QED  BY <2>1, <2>2
<1>5. QED  BY <1>1, <1>2, <1>3, <1>4 DEF TickC, ProcessEventC

\* Types, shape and order hold in every reachable state.
LEMMA MessagesInvHolds == SpecC => []MessagesInv
<1>1. InitC => MessagesInv
  BY InitMessages
<1>2. Inv /\ MessagesInv /\ [NextC]_allVars => MessagesInv'
  <2> SUFFICES ASSUME Inv, MessagesInv, [NextC]_allVars PROVE MessagesInv'
    OBVIOUS
  <2>1. CASE TickC
    BY <2>1, TickKeepsMessages
  <2>2. CASE WorkerC
    <3>1. UNCHANGED convVars /\ UNCHANGED <<state, turn, pendingApproval, pendingReview>>
      BY <2>2 DEF WorkerC, Worker, WorkerTake, WorkerReceive, WorkerPut, WorkerException,
                  turnVars, approvalVars
    <3>2. QED  BY <3>1, MessagesKept
  <2>3. CASE UserC
    BY <2>3, UserKeepsMessages
  <2>4. CASE UNCHANGED allVars
    <3>1. UNCHANGED convVars /\ UNCHANGED <<state, turn, pendingApproval, pendingReview>>
      BY <2>4 DEF allVars, vars, turnVars, approvalVars
    <3>2. QED  BY <3>1, MessagesKept
  <2>5. QED  BY <2>1, <2>2, <2>3, <2>4 DEF NextC
<1>3. SpecC => []Inv
  BY Implements, InvHolds, PTL
<1>4. QED  BY <1>1, <1>2, <1>3, PTL DEF SpecC

-----------------------------------------------------------------------------
(***************************************************************************)
(* What follows of it.                                                     *)
(***************************************************************************)

\* Every variable has its type in every reachable state, the messages included.
THEOREM TypeCorrectC == SpecC => []TypeOKC
<1>1. TypeOK /\ MessagesInv => TypeOKC
  BY DEF MessagesInv, ConvTypes, TypeOKC
<1>2. SpecC => []TypeOK
  BY Implements, TypeCorrect, PTL
<1>3. QED  BY <1>1, <1>2, MessagesInvHolds, PTL

\* However calls are executed, sent to the user, decided, failed or abandoned, and
\* however the conversation is repaired or compacted, a tool message stands right
\* behind the message that asked for it and the answers to the calls before it.
THEOREM AnswersInOrderHolds == SpecC => []AnswersInOrder
<1>1. MessagesInv => AnswersInOrder
  BY DEF MessagesInv, Ordered, AnswersFollow, Answers, AnswersInOrder
<1>2. QED  BY <1>1, MessagesInvHolds, PTL

\* A context that is sent for a valid conversation is valid, however much of it
\* has been evicted, and ends with the whole latest interaction.
THEOREM EvictionKeepsPairsHolds == SpecC => []EvictionKeepsPairs
<1>1. MessagesInv => EvictionKeepsPairs
  BY ContextSound DEF MessagesInv, ConvTypes, EvictionKeepsPairs
<1>2. QED  BY <1>1, MessagesInvHolds, PTL

\* Compacting a valid conversation gives a valid one, and it is done once.
THEOREM CompactionSoundHolds == SpecC => []CompactionSound
<1>1. MessagesInv => CompactionSound
  BY CompactedValid, CompactedOnce DEF MessagesInv, ConvTypes, CompactionSound
<1>2. QED  BY <1>1, MessagesInvHolds, PTL

\* A prompt that need not wait starts its turn, unless something has disturbed the
\* conversation: then it is not refused, and its compaction does not raise.
THEOREM PromptsStartHolds == SpecC => PromptsStart
<1>1. ASSUME TypeOK, ConvInv, MessagesInv, disturbed = {}, NEW p, StartPrompt(p), StartC
      PROVE  turns' = turns + 1 /\ state' # "IDLE"
  <2>1. ~RefuseC /\ ValidSequence(Recovered)
    <3>1. ValidSequence(Discarded)
      BY <1>1 DEF ConvInv
    <3>2. ~RefuseC
      BY <3>1 DEF RefuseC, Discarded
    <3>3. QED  BY <3>1, <3>2 DEF Recovered
  <2>2. BeginC
    BY <1>1, <2>1 DEF StartC
  <2>3. PICK t \in Nat : t = turns + 1
    BY <1>1 DEF TypeOK, TurnTypes
  <2> DEFINE prompted == Append(Recovered, UserMsg(t))
  <2>4. ConvTypes
    BY <1>1 DEF MessagesInv
  <2>5. turns' = turns + 1 /\ (state' = "IDLE" => CompactionMayRaise(prompted))
    BY <2>2, <2>3 DEF BeginC
  <2>6. PICK s : s = prompted
    OBVIOUS
  <2>7. s \in Seq(Message) /\ WellFormed(s) /\ ValidSequence(s)
    BY <2>1, <2>4, <2>6, PromptShape
  <2>8. ~CompactionMayRaise(s)
    BY <2>7, CompactedValid DEF CompactionMayRaise
  <2>9. QED  BY <2>5, <2>6, <2>8
<1>2. TypeOK /\ ConvInv /\ MessagesInv =>
        [/\ disturbed = {} /\ ~MustWait
         /\ SubmitPromptC \/ (TickEndC /\ queue # <<>>)
         => turns' = turns + 1 /\ state' # "IDLE"]_allVars
  <2> SUFFICES ASSUME TypeOK, ConvInv, MessagesInv, disturbed = {}, ~MustWait,
                      SubmitPromptC \/ (TickEndC /\ queue # <<>>)
               PROVE  turns' = turns + 1 /\ state' # "IDLE"
    OBVIOUS
  <2>1. CASE SubmitPromptC
    <3>1. StartPrompt(submitted + 1) /\ StartC
      BY <2>1 DEF SubmitPromptC, SubmitPrompt
    <3>2. QED  BY <1>1, <3>1
  <2>2. CASE TickEndC /\ queue # <<>>
    <3>1. StartPrompt(NextPrompt) /\ StartC
      BY <2>2 DEF TickEndC, TickEnd, PumpPromptQueue
    <3>2. QED  BY <1>1, <3>1
  <2>3. QED  BY <2>1, <2>2
<1>3. SpecC => []TypeOK
  BY Implements, TypeCorrect, PTL
<1>4. QED  BY <1>2, <1>3, ConvInvHolds, MessagesInvHolds, PTL DEF PromptsStart

\* The loop of validate_sequence (models.py:232-296) accepts exactly the conversations
\* in which every call is answered before anything else is said.
THEOREM LoopAgreesHolds == SpecC => []LoopAgrees
<1>1. MessagesInv => LoopAgrees
  BY LoopDecides DEF MessagesInv, ConvTypes, LoopAgrees
<1>2. QED  BY <1>1, MessagesInvHolds, PTL

-----------------------------------------------------------------------------
(***************************************************************************)
(* The turns of the conversation.  That a turn is kept whole or goes as a  *)
(* whole says nothing of where its messages stand: what makes it so is     *)
(* that the turns stand one behind the other, a user message in front of   *)
(* each, and the active turn, while its index is right, last.              *)
(***************************************************************************)

\* A turn has the same messages in a sequence and in what is behind it or in front.
LEMMA TurnInFront ==
  ASSUME NEW s \in Seq(Message), NEW r \in Seq(Message), NEW t, Len(r) <= Len(s),
         \A i \in 1..Len(r) : s[i] = r[i],
         \A i \in (Len(r) + 1)..Len(s) : s[i].turn # t
  PROVE  TurnMessages(s, t) = TurnMessages(r, t)
<1> DEFINE p == [i \in {j \in DOMAIN s : s[j].turn = t} |-> s[i]]
           q == [i \in {j \in DOMAIN r : r[j].turn = t} |-> r[i]]
<1>1. Len(r) \in Nat /\ Len(s) \in Nat /\ DOMAIN r = 1..Len(r) /\ DOMAIN s = 1..Len(s)
  OBVIOUS
<1>2. /\ \A i : i \in DOMAIN p <=> i \in 1..Len(s) /\ s[i].turn = t
      /\ \A i \in DOMAIN p : p[i] = s[i]
      /\ \A i : i \in DOMAIN q <=> i \in 1..Len(r) /\ r[i].turn = t
      /\ \A i \in DOMAIN q : q[i] = r[i]
  BY <1>1
<1> HIDE DEF p, q
<1>3. \A i \in DOMAIN p : i \notin (Len(r) + 1)..Len(s)
  BY <1>2
<1>4. InOrder(p, Len(s)) = InOrder(p, Len(r))
  BY <1>1, <1>3, InOrderIdle
<1>5. Agree(p, q, Len(r))
  BY <1>1, <1>2 DEF Agree
<1>6. InOrder(p, Len(r)) = InOrder(q, Len(r))
  BY <1>1, <1>5, InOrderAgree
<1>7. QED  BY <1>4, <1>6 DEF TurnMessages, p, q

LEMMA TurnBehind ==
  ASSUME NEW s \in Seq(Message), NEW r \in Seq(Message), NEW t, NEW n \in Nat,
         Len(s) = n + Len(r),
         \A i \in 1..Len(r) : s[n + i] = r[i],
         \A i \in 1..n : s[i].turn # t
  PROVE  TurnMessages(s, t) = TurnMessages(r, t)
<1> DEFINE p == [i \in {j \in DOMAIN s : s[j].turn = t} |-> s[i]]
           q == [i \in {j \in DOMAIN r : r[j].turn = t} |-> r[i]]
<1>1. PICK m \in Nat : m = Len(r) /\ Len(s) = n + m /\ DOMAIN r = 1..m /\ DOMAIN s = 1..(n + m)
  OBVIOUS
<1>2. /\ \A i : i \in DOMAIN p <=> i \in 1..(n + m) /\ s[i].turn = t
      /\ \A i \in DOMAIN p : p[i] = s[i]
      /\ \A i : i \in DOMAIN q <=> i \in 1..m /\ r[i].turn = t
      /\ \A i \in DOMAIN q : q[i] = r[i]
  BY <1>1
<1> HIDE DEF p, q
<1>3. \A i \in DOMAIN p : i \notin 1..n
  BY <1>2
<1>4. ASSUME NEW i \in 1..m
      PROVE  /\ n + i \in DOMAIN p <=> i \in DOMAIN q
             /\ i \in DOMAIN q => p[n + i] = q[i]
  <2>1. n + i \in 1..(n + m) /\ s[n + i] = r[i]
    BY <1>1
  <2>2. QED  BY <1>2, <2>1
<1>5. InOrder(p, n + m) = InOrder(q, m)
  BY <1>3, <1>4, InOrderShift, ZenonT(60)
<1>6. QED  BY <1>1, <1>5 DEF TurnMessages, p, q

\* A turn without messages.
LEMMA TurnAbsent ==
  ASSUME NEW s \in Seq(Message), NEW t, \A i \in DOMAIN s : s[i].turn # t
  PROVE  TurnMessages(s, t) = <<>>
<1>1. PICK r \in Seq(Message) : Len(r) = 0 /\ DOMAIN r = {}
  <2>1. <<>> \in Seq(Message) /\ Len(<<>>) = 0 /\ DOMAIN <<>> = {}
    OBVIOUS
  <2>2. QED  BY <2>1
<1>2. TurnMessages(s, t) = TurnMessages(r, t)
  <2>1. /\ Len(r) <= Len(s)
        /\ \A i \in 1..Len(r) : s[i] = r[i]
        /\ \A i \in (Len(r) + 1)..Len(s) : i \in DOMAIN s
    BY <1>1
  <2>2. QED  BY <2>1, TurnInFront
<1> DEFINE q == [i \in {j \in DOMAIN r : r[j].turn = t} |-> r[i]]
<1>3. TurnMessages(r, t) = InOrder(q, 0)
  BY <1>1 DEF TurnMessages
<1> HIDE DEF q
<1>4. InOrder(q, 0) = <<>>
  BY InOrderEmpty
<1>5. QED  BY <1>2, <1>3, <1>4

\* The turns stand one behind the other, each from a user message on; the summary
\* of former turns and the system message belong to none.
Layered(s) ==
  /\ \A i, j \in DOMAIN s :
       i < j /\ s[i].turn # 0 =>
         /\ s[i].turn <= s[j].turn
         /\ IsUser(s[j]) => s[i].turn < s[j].turn
  /\ \A i \in DOMAIN s : s[i].kind = "system" => s[i].turn = 0

\* All of the messages belong to the first n turns.
UpTo(s, n) == \A i \in DOMAIN s : s[i].turn <= n

\* The messages behind the first k belong to turn n, those in front to earlier ones.
LastFrom(s, k, n) == \A i \in DOMAIN s : IF i <= k THEN s[i].turn < n ELSE s[i].turn = n

\* Messages of turn t, none of which begins it.
Continues(s, t) ==
  /\ s \in Seq(Message)
  /\ \A i \in DOMAIN s : s[i].turn = t /\ s[i].kind \notin {"system", "user", "summary"}

\* Behind the earlier turns, the messages of the turn that comes last.
LEMMA LayeredAdd ==
  ASSUME NEW s \in Seq(Message), NEW n \in Nat, Layered(s), UpTo(s, n),
         NEW r, Continues(r, n)
  PROVE  s \o r \in Seq(Message) /\ Layered(s \o r) /\ UpTo(s \o r, n)
<1> DEFINE c == s \o r
<1>1. /\ r \in Seq(Message) /\ c \in Seq(Message) /\ DOMAIN c = 1..(Len(s) + Len(r))
      /\ Len(s) \in Nat /\ Len(r) \in Nat /\ DOMAIN s = 1..Len(s) /\ DOMAIN r = 1..Len(r)
      /\ \A i \in 1..Len(s) : c[i] = s[i]
      /\ \A i \in 1..Len(r) : c[Len(s) + i] = r[i]
  BY DEF Continues
<1> HIDE DEF c
<1>2. ASSUME NEW i \in DOMAIN c, i \notin DOMAIN s
      PROVE  c[i].turn = n /\ c[i].kind # "system" /\ ~IsUser(c[i])
  <2>1. PICK j \in DOMAIN r : c[i] = r[j]
    <3>1. i - Len(s) \in 1..Len(r) /\ i = Len(s) + (i - Len(s))
      BY <1>1, <1>2
    <3>2. QED  BY <1>1, <3>1
  <2>2. QED  BY <2>1 DEF Continues, IsUser
<1>3. \A i \in DOMAIN s : c[i] = s[i] /\ c[i].turn \in Nat
  <2>1. \A i \in DOMAIN s : c[i] = s[i] /\ s[i] \in Message
    BY <1>1
  <2>2. QED  BY <2>1 DEF Message
<1>4. UpTo(c, n)
  BY <1>2, <1>3 DEF UpTo
<1>5. ASSUME NEW i \in DOMAIN c, NEW j \in DOMAIN c, i < j, c[i].turn # 0
      PROVE  c[i].turn <= c[j].turn /\ (IsUser(c[j]) => c[i].turn < c[j].turn)
  <2>1. CASE j \in DOMAIN s
    <3>1. i \in DOMAIN s
      BY <1>1, <1>5, <2>1
    <3>2. QED  BY <1>3, <1>5, <2>1, <3>1 DEF Layered
  <2>2. CASE j \notin DOMAIN s
    BY <1>2, <1>4, <2>2 DEF UpTo
  <2>3. QED  BY <2>1, <2>2
<1>6. \A i \in DOMAIN c : c[i].kind = "system" => c[i].turn = 0
  BY <1>2, <1>3 DEF Layered
<1>7. QED  BY <1>1, <1>4, <1>5, <1>6 DEF c, Layered

\* A new prompt.
LEMMA LayeredPrompt ==
  ASSUME NEW s \in Seq(Message), NEW n \in Nat, Layered(s), UpTo(s, n),
         NEW t \in Nat, t = n + 1, NEW c, c = Append(s, UserMsg(t))
  PROVE  c \in Seq(Message) /\ Layered(c) /\ UpTo(c, t) /\ LastFrom(c, Len(s), t)
<1>1. t \in Nat /\ UserMsg(t) \in Message /\ UserMsg(t).turn = t /\ UserMsg(t).kind = "user"
  <2>1. t \in Nat
    OBVIOUS
  <2>2. UserMsg(t) \in Message
    BY <2>1, PlainTypes DEF UserMsg
  <2>3. QED  BY <2>1, <2>2 DEF UserMsg, Plain
<1>2. /\ c \in Seq(Message) /\ Len(c) = Len(s) + 1 /\ Len(s) \in Nat
      /\ DOMAIN c = 1..(Len(s) + 1) /\ DOMAIN s = 1..Len(s)
      /\ \A i \in 1..Len(s) : c[i] = s[i]
      /\ c[Len(s) + 1] = UserMsg(t)
  BY <1>1
<1>3. \A i \in 1..Len(s) : c[i].turn \in Nat /\ c[i].turn <= n
  <2>1. \A i \in 1..Len(s) : s[i] \in Message
    BY <1>2
  <2>2. QED  BY <1>2, <2>1 DEF Message, UpTo
<1>4. \A i \in 1..Len(s) : c[i].turn < t
  BY <1>3
<1>5. UpTo(c, t)
  <2>1. ASSUME NEW i \in DOMAIN c PROVE c[i].turn <= t
    <3>1. i \in 1..Len(s) \/ i = Len(s) + 1
      BY <1>2
    <3>2. QED  BY <1>1, <1>2, <1>3, <3>1
  <2>2. QED  BY <2>1 DEF UpTo
<1>6. ASSUME NEW i \in DOMAIN c, NEW j \in DOMAIN c, i < j, c[i].turn # 0
      PROVE  c[i].turn <= c[j].turn /\ (IsUser(c[j]) => c[i].turn < c[j].turn)
  <2>1. i \in 1..Len(s)
    BY <1>2, <1>6
  <2>2. CASE j \in 1..Len(s)
    BY <1>2, <1>6, <2>1, <2>2 DEF Layered
  <2>3. CASE j = Len(s) + 1
    BY <1>1, <1>2, <1>3, <2>1, <2>3
  <2>4. QED  BY <1>2, <2>2, <2>3
<1>7. ASSUME NEW i \in DOMAIN c, c[i].kind = "system" PROVE c[i].turn = 0
  <2>1. i \in 1..Len(s)
    BY <1>1, <1>2, <1>7
  <2>2. QED  BY <1>2, <1>7, <2>1 DEF Layered
<1>8. ASSUME NEW i \in DOMAIN c
      PROVE  IF i <= Len(s) THEN c[i].turn < t ELSE c[i].turn = t
  <2>1. i \in 1..Len(s) \/ (i = Len(s) + 1 /\ ~(i <= Len(s)))
    BY <1>2
  <2>2. QED  BY <1>1, <1>2, <1>4, <2>1
<1>9. QED  BY <1>2, <1>5, <1>6, <1>7, <1>8 DEF Layered, LastFrom

\* A beginning of the conversation.
LEMMA LayeredCut ==
  ASSUME NEW s \in Seq(Message), NEW n \in Nat, Layered(s), UpTo(s, n), NEW k \in 0..Len(s)
  PROVE  Layered(SubSeq(s, 1, k)) /\ UpTo(SubSeq(s, 1, k), n)
<1> DEFINE r == SubSeq(s, 1, k)
<1>1. r \in Seq(Message) /\ Len(r) = k /\ \A i \in 1..k : r[i] = s[i]
  BY CutAt
<1> SUFFICES Layered(r) /\ UpTo(r, n)
  OBVIOUS
<1> HIDE DEF r
<1>2. \A i \in DOMAIN r : i \in DOMAIN s /\ r[i] = s[i]
  BY <1>1
<1>3. QED  BY <1>2 DEF Layered, UpTo

\* Compaction cuts in front of a turn: what it keeps of a turn is all of it or nothing.
LEMMA CompactedWhole ==
  ASSUME NEW s \in Seq(Message), NEW n \in Nat, Compactable(s), Layered(s), UpTo(s, n)
  PROVE  /\ Compacted(s) \in Seq(Message) /\ Layered(Compacted(s)) /\ UpTo(Compacted(s), n)
         /\ \A t \in Nat \ {0} :
              TurnMessages(Compacted(s), t) \in {TurnMessages(s, t), <<>>}
<1>1. PICK h, k \in Seq(Message), m \in 0..Len(s) :
        /\ h = SystemPart(s) \o SummaryPair
        /\ Compacted(s) = h \o k /\ Compacted(s) \in Seq(Message)
        /\ m < Len(s) /\ Len(k) = Len(s) - m
        /\ \A i \in 1..(Len(s) - m) : k[i] = s[m + i]
        /\ IsUser(k[1])
  BY CompactedParts
<1>2. PICK y \in {0, 1} :
        /\ Len(h) = y + 2
        /\ y = 1 => h[1] = s[1] /\ s[1].kind = "system" /\ 1 \in DOMAIN s
        /\ h[y + 1] = Plain("summary", 0) /\ h[y + 2] = Plain("ack", 0)
  BY <1>1, CompactedHead
<1>3. \A i \in 1..Len(h) : h[i].turn = 0
  <2>1. ASSUME NEW i \in 1..Len(h) PROVE h[i].turn = 0
    <3>1. i = y + 1 \/ i = y + 2 \/ (i = 1 /\ y = 1)
      BY <1>2
    <3>2. s[1].kind = "system" /\ 1 \in DOMAIN s => s[1].turn = 0
      BY DEF Layered
    <3>3. Plain("summary", 0).turn = 0 /\ Plain("ack", 0).turn = 0
      BY DEF Plain
    <3>4. QED  BY <1>2, <3>1, <3>2, <3>3
  <2>2. QED  BY <2>1
<1> DEFINE c == h \o k
<1>4. /\ c \in Seq(Message) /\ Len(c) = Len(h) + Len(k) /\ DOMAIN c = 1..(Len(h) + Len(k))
      /\ Len(h) \in Nat /\ Len(k) \in Nat /\ DOMAIN k = 1..Len(k)
      /\ \A i \in 1..Len(h) : c[i] = h[i]
      /\ \A i \in 1..Len(k) : c[Len(h) + i] = k[i]
  OBVIOUS
<1> HIDE DEF c
<1>5. c = Compacted(s)
  BY <1>1 DEF c
<1>6. Len(s) \in Nat /\ DOMAIN s = 1..Len(s) /\ m \in Nat /\ \A i \in DOMAIN s : s[i].turn \in Nat
  <2>1. \A i \in DOMAIN s : s[i] \in Message
    OBVIOUS
  <2>2. QED  BY <2>1 DEF Message
<1>7. \A i \in 1..Len(k) : m + i \in DOMAIN s /\ k[i] = s[m + i]
  BY <1>1, <1>6
<1>8. ASSUME NEW i \in DOMAIN c, i \notin 1..Len(h)
      PROVE  \E j \in 1..Len(k) : i = Len(h) + j /\ c[i] = k[j]
  <2>1. i - Len(h) \in 1..Len(k) /\ i = Len(h) + (i - Len(h))
    BY <1>4, <1>8
  <2>2. QED  BY <1>4, <2>1
<1>9. ASSUME NEW i \in DOMAIN c, NEW j \in DOMAIN c, i < j, c[i].turn # 0
      PROVE  c[i].turn <= c[j].turn /\ (IsUser(c[j]) => c[i].turn < c[j].turn)
  <2>1. i \notin 1..Len(h)
    BY <1>3, <1>4, <1>9
  <2>2. j \notin 1..Len(h)
    BY <1>4, <1>9, <2>1
  <2>3. PICK a \in 1..Len(k), b \in 1..Len(k) :
          i = Len(h) + a /\ c[i] = k[a] /\ j = Len(h) + b /\ c[j] = k[b]
    BY <1>8, <2>1, <2>2
  <2>4. PICK u \in DOMAIN s, v \in DOMAIN s : u = m + a /\ v = m + b /\ k[a] = s[u] /\ k[b] = s[v]
    BY <1>7
  <2>5. u < v
    BY <1>4, <1>6, <1>9, <2>3, <2>4
  <2>6. QED  BY <1>9, <2>3, <2>4, <2>5 DEF Layered
<1>10. ASSUME NEW i \in DOMAIN c
       PROVE  (c[i].kind = "system" => c[i].turn = 0) /\ c[i].turn <= n
  <2>1. CASE i \in 1..Len(h)
    BY <1>3, <1>4, <2>1
  <2>2. CASE i \notin 1..Len(h)
    <3>1. PICK a \in 1..Len(k) : c[i] = k[a]
      BY <1>8, <2>2
    <3>2. PICK u \in DOMAIN s : k[a] = s[u]
      BY <1>7
    <3>3. QED  BY <3>1, <3>2 DEF Layered, UpTo
  <2>3. QED  BY <2>1, <2>2
<1>11. ASSUME NEW t \in Nat \ {0}
       PROVE  TurnMessages(c, t) \in {TurnMessages(s, t), <<>>}
  <2>1. PICK w \in DOMAIN s : w = m + 1 /\ IsUser(s[w])
    <3>1. 1 \in 1..Len(k) /\ k[1] = s[m + 1]
      BY <1>1, <1>6
    <3>2. QED  BY <1>1, <1>7, <3>1
  <2>2. TurnMessages(c, t) = TurnMessages(k, t)
    <3>1. PICK l \in Nat : l = Len(h)
      BY <1>4
    <3>2. /\ Len(c) = l + Len(k) /\ \A i \in 1..Len(k) : c[l + i] = k[i]
          /\ \A i \in 1..l : c[i].turn # t
      BY <1>3, <1>4, <3>1
    <3>3. QED  BY <1>4, <3>2, TurnBehind, ZenonT(60)
  <2>3. CASE \A i \in 1..m : s[i].turn # t
    <3>1. Len(s) = m + Len(k) /\ \A i \in 1..Len(k) : s[m + i] = k[i]
      BY <1>1, <1>6, <1>7
    <3>2. m \in Nat /\ \A i \in 1..m : s[i].turn # t
      BY <1>6, <2>3
    <3>3. TurnMessages(s, t) = TurnMessages(k, t)
      BY <3>1, <3>2, TurnBehind, ZenonT(60)
    <3>4. QED  BY <2>2, <3>3
  <2>4. ASSUME NEW i \in 1..m, s[i].turn = t PROVE TurnMessages(c, t) = <<>>
    <3>1. i \in DOMAIN s /\ i < w
      BY <1>6, <2>1
    <3>2. t < s[w].turn
      BY <2>1, <2>4, <3>1 DEF Layered
    <3>3. ASSUME NEW a \in DOMAIN k PROVE k[a].turn # t
      <4>1. a \in 1..Len(k)
        BY <1>4
      <4>2. PICK u \in DOMAIN s : u = m + a /\ k[a] = s[u]
        BY <1>7, <4>1
      <4>3. u = w \/ w < u
        BY <1>6, <2>1, <4>1, <4>2
      <4>4. s[w].turn <= s[u].turn
        <5>1. s[w].turn # 0 /\ s[w].turn \in Nat
          BY <1>6, <3>2
        <5>2. CASE u = w
          BY <5>1, <5>2
        <5>3. CASE w < u
          BY <5>1, <5>3 DEF Layered
        <5>4. QED  BY <4>3, <5>2, <5>3
      <4>5. s[w].turn \in Nat /\ s[u].turn \in Nat
        BY <1>6
      <4>6. QED  BY <3>2, <4>2, <4>4, <4>5
    <3>4. TurnMessages(k, t) = <<>>
      BY <3>3, TurnAbsent
    <3>5. QED  BY <2>2, <3>4
  <2>5. QED  BY <2>3, <2>4
<1>12. Layered(c) /\ UpTo(c, n)
  BY <1>9, <1>10 DEF Layered, UpTo
<1>13. QED  BY <1>4, <1>5, <1>11, <1>12

TurnsInv ==
  /\ Layered(messages) /\ UpTo(messages, turns)
  /\ turn # NoTurn => turn = turns
  /\ disturbed = {} /\ start # NoStart => LastFrom(messages, start, turns)

\* The messages of the turns that are over stay or go as a whole.
Whole(s) ==
  \A t \in (1..turns) \ {turn} : TurnMessages(s, t) \in {TurnMessages(messages, t), <<>>}

\* Nothing happens to the conversation, and no turn begins.
LEMMA TurnsStay ==
  ASSUME TurnsInv, UNCHANGED <<convVars, turns>>, turn' \in {turn, NoTurn}
  PROVE  TurnsInv' /\ Whole(messages')
BY DEF TurnsInv, convVars, Whole

\* The active turn, which is the last one, goes on.
LEMMA TurnGoesOn ==
  ASSUME TypeOK, ConvTypes, ConvInv, TurnsInv, turn # NoTurn,
         UNCHANGED <<start, disturbed, turns>>, turn' \in {turn, NoTurn},
         NEW r, Continues(r, turn), messages' = messages \o r
  PROVE  TurnsInv' /\ Whole(messages')
<1>1. turns \in Nat /\ turn = turns /\ messages \in Seq(Message) /\ r \in Seq(Message)
  BY DEF TypeOK, TurnTypes, ConvTypes, TurnsInv, Continues
<1>2. messages' \in Seq(Message) /\ Layered(messages') /\ UpTo(messages', turns)
  BY <1>1, LayeredAdd DEF TurnsInv
<1>3. /\ Len(messages') = Len(messages) + Len(r) /\ DOMAIN messages' = 1..Len(messages')
      /\ Len(messages) \in Nat /\ Len(r) \in Nat /\ DOMAIN messages = 1..Len(messages)
      /\ \A i \in 1..Len(messages) : messages'[i] = messages[i]
      /\ \A i \in 1..Len(r) : messages'[Len(messages) + i] = r[i]
  BY <1>1
<1>4. ASSUME NEW i \in (Len(messages) + 1)..Len(messages') PROVE messages'[i].turn = turns
  <2>1. PICK j \in 1..Len(r) : messages'[i] = r[j]
    <3>1. i - Len(messages) \in 1..Len(r) /\ i = Len(messages) + (i - Len(messages))
      BY <1>3
    <3>2. QED  BY <1>3, <3>1
  <2>2. QED  BY <1>1, <2>1 DEF Continues
<1>5. ASSUME disturbed = {}, start # NoStart, NEW i \in DOMAIN messages'
      PROVE  IF i <= start THEN messages'[i].turn < turns ELSE messages'[i].turn = turns
  <2>1. start \in 0..Len(messages)
    BY <1>5 DEF ConvInv
  <2>2. CASE i \in 1..Len(messages)
    BY <1>3, <1>5, <2>2 DEF TurnsInv, LastFrom
  <2>3. CASE i \in (Len(messages) + 1)..Len(messages')
    BY <1>3, <1>4, <2>1, <2>3
  <2>4. QED  BY <1>3, <2>2, <2>3
<1>6. TurnsInv'
  BY <1>1, <1>2, <1>5 DEF TurnsInv, LastFrom
<1>7. ASSUME NEW t \in (1..turns) \ {turn}
      PROVE  TurnMessages(messages', t) = TurnMessages(messages, t)
  <2>1. PICK s \in Seq(Message) : s = messages'
    BY <1>2
  <2>2. /\ Len(messages) <= Len(s)
        /\ \A i \in 1..Len(messages) : s[i] = messages[i]
        /\ \A i \in (Len(messages) + 1)..Len(s) : s[i].turn # t
    BY <1>1, <1>3, <1>4, <2>1
  <2>3. TurnMessages(s, t) = TurnMessages(messages, t)
    BY <1>1, <2>2, TurnInFront
  <2>4. QED  BY <2>1, <2>3
<1>8. QED  BY <1>6, <1>7 DEF Whole

\* The repair removes the messages of the turn that comes last, which is over when
\* there is no active turn, and nothing else.
LEMMA DiscardedWhole ==
  ASSUME TypeOK, ConvTypes, TurnsInv
  PROVE  /\ Discarded \in Seq(Message) /\ Layered(Discarded) /\ UpTo(Discarded, turns)
         /\ disturbed = {} => Whole(Discarded)
<1>1. turns \in Nat /\ messages \in Seq(Message) /\ Layered(messages) /\ UpTo(messages, turns)
  BY DEF TypeOK, TurnTypes, ConvTypes, TurnsInv
<1>2. CASE start # NoStart /\ start <= Len(messages)
  <2>1. start \in 0..Len(messages) /\ Discarded = SubSeq(messages, 1, start)
    BY <1>2 DEF ConvTypes, Discarded
  <2>2. PICK r \in Seq(Message) : /\ r = Discarded /\ Len(r) = start
                                  /\ \A i \in 1..start : r[i] = messages[i]
    BY <1>1, <2>1, CutAt
  <2>3. Layered(Discarded) /\ UpTo(Discarded, turns)
    BY <1>1, <2>1, LayeredCut
  <2>4. ASSUME disturbed = {}, NEW t \in (1..turns) \ {turn}
        PROVE  TurnMessages(r, t) \in {TurnMessages(messages, t), <<>>}
    <3>1. \A i \in DOMAIN messages :
            IF i <= start THEN messages[i].turn < turns ELSE messages[i].turn = turns
      BY <1>2, <2>4 DEF TurnsInv, LastFrom
    <3>2. CASE t = turns
      <4>1. ASSUME NEW i \in DOMAIN r PROVE r[i].turn # t
        <5>1. i \in 1..start /\ i \in DOMAIN messages /\ i <= start
          BY <1>1, <2>1, <2>2
        <5>2. r[i] = messages[i] /\ messages[i].turn < turns /\ messages[i] \in Message
          BY <1>1, <2>2, <3>1, <5>1
        <5>3. messages[i].turn \in Nat
          BY <5>2 DEF Message
        <5>4. QED  BY <1>1, <3>2, <5>2, <5>3
      <4>2. QED  BY <4>1, TurnAbsent
    <3>3. CASE t # turns
      <4>1. \A i \in (Len(r) + 1)..Len(messages) : messages[i].turn # t
        BY <1>1, <2>1, <2>2, <3>1, <3>3
      <4>2. Len(r) <= Len(messages) /\ \A i \in 1..Len(r) : messages[i] = r[i]
        BY <2>1, <2>2
      <4>3. TurnMessages(messages, t) = TurnMessages(r, t)
        BY <1>1, <4>1, <4>2, TurnInFront
      <4>4. QED  BY <4>3
    <3>4. QED  BY <3>2, <3>3
  <2>5. QED  BY <2>2, <2>3, <2>4 DEF Whole
<1>3. CASE ~(start # NoStart /\ start <= Len(messages))
  BY <1>1, <1>3 DEF Discarded, Whole
<1>4. QED  BY <1>2, <1>3

\* A prompt leaves the turns before it as they are, but for those that the repair or
\* the compaction removes.
LEMMA TurnBegins ==
  ASSUME TypeOK, ConvTypes, TurnsInv, NEW p, StartPrompt(p), StartC
  PROVE  /\ TurnsInv'
         /\ disturbed = {} \/ ValidSequence(messages) => Whole(messages')
<1>1. turns \in Nat /\ messages \in Seq(Message)
  BY DEF TypeOK, TurnTypes, ConvTypes
<1>2. CASE RefuseC
  <2>1. turn' = turn
    BY <1>1, <1>2 DEF RefuseC, StartPrompt, RefusePrompt, BeginTurn, turnVars
  <2>2. QED  BY <1>2, <2>1, TurnsStay DEF RefuseC
<1>3. CASE BeginC
  <2>1. PICK t \in Nat : t = turns + 1 /\ turns' = t /\ turn' = t
    BY <1>1, <1>3 DEF BeginC, StartPrompt, RefusePrompt, BeginTurn, turnVars
  <2>2. PICK s \in Seq(Message) :
          /\ s = Recovered /\ Layered(s) /\ UpTo(s, turns)
          /\ disturbed = {} \/ ValidSequence(messages) => Whole(s)
    <3>1. CASE ValidSequence(messages)
      BY <1>1, <3>1 DEF Recovered, TurnsInv, Whole
    <3>2. CASE ~ValidSequence(messages)
      BY <3>2, DiscardedWhole DEF Recovered
    <3>3. QED  BY <3>1, <3>2
  <2>3. PICK c : c = Append(s, UserMsg(t))
    OBVIOUS
  <2>4. c \in Seq(Message) /\ Layered(c) /\ UpTo(c, t) /\ LastFrom(c, Len(s), t)
    <3>1. PICK n \in Nat : n = turns
      BY <1>1
    <3>2. t = n + 1 /\ Layered(s) /\ UpTo(s, n)
      BY <2>1, <2>2, <3>1
    <3>3. QED  BY <2>3, <3>2, LayeredPrompt
  <2>5. \/ messages' = c /\ disturbed' \in {disturbed, disturbed \union {"compaction"}}
        \/ /\ Compactable(c) /\ messages' = Compacted(c)
           /\ disturbed' = disturbed \union {"compaction"}
    BY <1>3, <2>1, <2>2, <2>3 DEF BeginC
  <2>6. Compactable(c) =>
          /\ Layered(Compacted(c)) /\ UpTo(Compacted(c), t)
          /\ \A u \in Nat \ {0} : TurnMessages(Compacted(c), u) \in {TurnMessages(c, u), <<>>}
    BY <2>4, CompactedWhole
  <2>7. Layered(messages') /\ UpTo(messages', turns')
    BY <2>1, <2>4, <2>5, <2>6
  <2>8. disturbed' = {} => LastFrom(messages', start', turns')
    <3>1. disturbed' = {} => messages' = c /\ start' = Len(s)
      BY <1>3, <2>2, <2>5 DEF BeginC
    <3>2. QED  BY <2>1, <2>4, <3>1
  <2>9. TurnsInv'
    BY <2>1, <2>7, <2>8 DEF TurnsInv
  <2>10. ASSUME disturbed = {} \/ ValidSequence(messages), NEW u \in (1..turns) \ {turn}
         PROVE  TurnMessages(messages', u) \in {TurnMessages(messages, u), <<>>}
    <3>1. TurnMessages(s, u) \in {TurnMessages(messages, u), <<>>}
      BY <2>2, <2>10 DEF Whole
    <3>2. TurnMessages(c, u) = TurnMessages(s, u)
      <4>1. u # t /\ UserMsg(t).turn = t
        BY <1>1, <2>1 DEF UserMsg, Plain
      <4>2. PICK m \in Message : m = UserMsg(t)
        BY PlainTypes DEF UserMsg
      <4>3. /\ Len(s) <= Len(c) /\ \A i \in 1..Len(s) : c[i] = s[i]
            /\ \A i \in (Len(s) + 1)..Len(c) : c[i] = m
        BY <2>3, <4>2
      <4>4. \A i \in (Len(s) + 1)..Len(c) : c[i].turn # u
        BY <4>1, <4>2, <4>3
      <4>5. QED  BY <2>4, <4>3, <4>4, TurnInFront
    <3>3. u \in Nat \ {0}
      BY <1>1
    <3>4. QED  BY <2>5, <2>6, <3>1, <3>2, <3>3
  <2>11. QED  BY <2>9, <2>10 DEF Whole
<1>4. QED  BY <1>2, <1>3 DEF StartC

\* Initially there are neither turns nor messages.
LEMMA InitTurns == InitC => TurnsInv
<1> SUFFICES ASSUME InitC PROVE TurnsInv
  OBVIOUS
<1>1. messages = <<>> /\ start = NoStart /\ turn = NoTurn
  BY DEF InitC, Init
<1>2. DOMAIN <<>> = {}
  OBVIOUS
<1>3. QED  BY <1>1, <1>2 DEF TurnsInv, Layered, UpTo

\* What the guard of TurnsAreAtomic asks of a step.
Sane == disturbed # {} => ~CancelCurrentTurnC /\ ValidSequence(messages)

\* One message of the active turn.
LEMMA OneContinues ==
  ASSUME messages \in Seq(Message), NEW m \in Message, m.turn = turn,
         m.kind \in {"assistant", "tool"}, messages' = Append(messages, m)
  PROVE  \E r : Continues(r, turn) /\ messages' = messages \o r
<1>1. PICK r \in Seq(Message) : r = <<m>> /\ DOMAIN r = {1} /\ r[1] = m
  <2>1. <<m>> \in Seq(Message) /\ DOMAIN <<m>> = {1} /\ <<m>>[1] = m
    OBVIOUS
  <2>2. QED  BY <2>1
<1>2. Continues(r, turn)
  BY <1>1 DEF Continues
<1>3. messages' = messages \o r
  BY <1>1
<1>4. QED  BY <1>2, <1>3

\* The operations of the user.
LEMMA UserKeepsTurns ==
  ASSUME Inv, ConvInv, ConvTypes, TurnsInv, UserC
  PROVE  TurnsInv' /\ (Sane => Whole(messages'))
<1>1. /\ TypeOK /\ ActiveTurn /\ turns \in Nat /\ turn \in Nat /\ messages \in Seq(Message)
      /\ pendingCall \in CallId
  BY DEF Inv, TypeOK, TurnTypes, ConvTypes
<1>2. CASE SubmitPromptC
  <2>1. CASE MustWait
    <3>1. UNCHANGED <<convVars, turns>> /\ turn' = turn
      BY <1>2, <2>1 DEF SubmitPromptC, SubmitPrompt, turnVars
    <3>2. QED  BY <3>1, TurnsStay
  <2>2. CASE ~MustWait
    <3>1. StartPrompt(submitted + 1) /\ StartC
      BY <1>2, <2>2 DEF SubmitPromptC, SubmitPrompt
    <3>2. QED  BY <1>1, <3>1, TurnBegins DEF Sane
  <2>3. QED  BY <2>1, <2>2
<1>3. CASE CancelCurrentTurnC
  <2>1. messages' = Discarded /\ start' = NoStart /\ UNCHANGED <<turns, disturbed>>
    BY <1>3 DEF CancelCurrentTurnC, CancelCurrentTurn, AbandonTurn
  <2>2. turn' = NoTurn
    BY <1>3 DEF CancelCurrentTurnC, CancelCurrentTurn, AbandonTurn
  <2>3. Layered(Discarded) /\ UpTo(Discarded, turns) /\ (disturbed = {} => Whole(Discarded))
    BY <1>1, DiscardedWhole
  <2>4. TurnsInv'
    BY <2>1, <2>2, <2>3 DEF TurnsInv
  <2>5. QED  BY <1>3, <2>1, <2>3, <2>4 DEF Sane
<1>4. CASE ClearHistoryC
  <2>1. messages' = <<>> /\ UNCHANGED <<start, turn, turns>>
    BY <1>4 DEF ClearHistoryC, ClearHistory
  <2>2. <<>> \in Seq(Message) /\ DOMAIN <<>> = {}
    OBVIOUS
  <2>3. TurnsInv'
    BY <2>1, <2>2 DEF TurnsInv, Layered, UpTo, LastFrom
  <2>4. \A t : TurnMessages(<<>>, t) = <<>>
    BY <2>2, TurnAbsent
  <2>5. QED  BY <2>1, <2>3, <2>4 DEF Whole
<1>5. CASE RestoreSessionMemoryC
  <2>1. messages' = <<SystemMsg>> \o SummaryPair /\ start' = NoStart /\ UNCHANGED <<turn, turns>>
    BY <1>5 DEF RestoreSessionMemoryC, RestoreSessionMemory
  <2>2. PICK s \in Seq(Message) : s = messages' /\ \A i \in DOMAIN s : s[i].turn = 0
    <3>1. \A i \in DOMAIN (<<SystemMsg>> \o SummaryPair) :
            (<<SystemMsg>> \o SummaryPair)[i] \in {SystemMsg, Plain("summary", 0), Plain("ack", 0)}
      BY DEF SummaryPair
    <3>2. SystemMsg.turn = 0 /\ Plain("summary", 0).turn = 0 /\ Plain("ack", 0).turn = 0
      BY DEF SystemMsg, Plain
    <3>3. \A i \in DOMAIN (<<SystemMsg>> \o SummaryPair) : (<<SystemMsg>> \o SummaryPair)[i].turn = 0
      BY <3>1, <3>2
    <3>4. QED  BY <2>1, <3>3, RestoredValid
  <2>3. Layered(s) /\ UpTo(s, turns)
    BY <1>1, <2>2 DEF Layered, UpTo
  <2>4. TurnsInv'
    BY <2>1, <2>2, <2>3 DEF TurnsInv
  <2>5. \A t \in (1..turns) \ {turn} : TurnMessages(s, t) = <<>>
    <3>1. ASSUME NEW t \in (1..turns) \ {turn} PROVE TurnMessages(s, t) = <<>>
      <4>1. \A i \in DOMAIN s : s[i].turn # t
        BY <1>1, <2>2
      <4>2. QED  BY <4>1, TurnAbsent
    <3>2. QED  BY <3>1
  <2>6. QED  BY <2>2, <2>4, <2>5 DEF Whole
<1>6. ASSUME NEW id \in DOMAIN approvals, DecideC(id) PROVE TurnsInv' /\ Whole(messages')
  <2>1. /\ AnswerPendingCall /\ state = "PENDING_APPROVAL" /\ turns' = turns
        /\ Resubmit(turn, events) \/ CloseWithError(turn, events)
    BY <1>6 DEF DecideC, ApproveTool, RejectTool, ApprovePlan, RejectPlan, ToolRequest,
                PlanRequest
  <2>2. turn # NoTurn /\ turn' \in {turn, NoTurn}
    BY <1>1, <2>1, ResubmitOutcome DEF ActiveTurn
  <2>3. /\ ToolMsg(turn, pendingCall) \in Message /\ ToolMsg(turn, pendingCall).turn = turn
        /\ ToolMsg(turn, pendingCall).kind = "tool"
    BY <1>1 DEF ToolMsg, Message
  <2>4. PICK r : Continues(r, turn) /\ messages' = messages \o r
    BY <1>1, <2>1, <2>3, OneContinues DEF AnswerPendingCall
  <2>5. QED  BY <1>1, <2>1, <2>2, <2>4, TurnGoesOn DEF AnswerPendingCall
<1>7. QED  BY <1>2, <1>3, <1>4, <1>5, <1>6 DEF UserC

\* A response only adds messages of its turn.
LEMMA ResponseKeepsTurns ==
  ASSUME Inv, ConvInv, ConvTypes, TurnsInv, HandleResponseC
  PROVE  TurnsInv' /\ Whole(messages')
<1>1. /\ HandleResponse /\ turn # NoTurn /\ turn \in Nat /\ rounds \in Nat
      /\ Response.calls \in Seq(CallKinds) /\ turn' \in {turn, NoTurn}
  BY ResponseImplements, LiveTurn
<1>2. TypeOK /\ messages \in Seq(Message) /\ turns' = turns
  BY <1>1, ResponseOutcome DEF Inv, ConvTypes, LiveResponse
<1>3. CASE FinishTurnC
  <2>1. <<>> \in Seq(CallId) /\ NoCall \in CallId
    BY DEF NoCall, CallId
  <2>2. /\ AssistantMsg(turn, <<>>) \in Message /\ AssistantMsg(turn, <<>>).turn = turn
        /\ AssistantMsg(turn, <<>>).kind = "assistant"
    BY <1>1, <2>1 DEF AssistantMsg, Message
  <2>3. PICK r : Continues(r, turn) /\ messages' = messages \o r
    BY <1>2, <1>3, <2>2, OneContinues DEF FinishTurnC
  <2>4. QED  BY <1>1, <1>2, <1>3, <2>3, TurnGoesOn DEF FinishTurnC
<1>4. CASE ExceedToolRounds /\ UNCHANGED convVars
  BY <1>1, <1>2, <1>4, TurnsStay
<1>5. ASSUME NEW n \in 0..Len(Response.calls), Record(n)
      PROVE  TurnsInv' /\ Whole(messages')
  <2>1. PICK r : r = Round(n) /\ r \in Seq(Message) /\ DOMAIN r = 1..(n + 1)
                   /\ r[1] = AssistantMsg(turn, [k \in DOMAIN Response.calls |-> CallOf(k)])
                   /\ \A j \in 2..(n + 1) : r[j] = ToolMsg(turn, CallOf(j - 1))
    <3>1. Round(n) \in Seq(Message) /\ Len(Round(n)) = n + 1
          /\ \A j \in 2..(n + 1) : Round(n)[j] = ToolMsg(turn, CallOf(j - 1))
      BY <1>1, RoundShape DEF Addable
    <3> DEFINE asked == AssistantMsg(turn, [k \in DOMAIN Response.calls |-> CallOf(k)])
               answers == [k \in 1..n |-> ToolMsg(turn, CallOf(k))]
    <3>2. Round(n) = <<asked>> \o answers /\ Len(answers) = n
      BY <1>1 DEF Round
    <3> HIDE DEF asked, answers
    <3>3. Round(n)[1] = asked
      BY <1>1, <3>2
    <3>4. DOMAIN Round(n) = 1..(n + 1)
      BY <3>1
    <3>5. QED  BY <3>1, <3>3, <3>4 DEF asked
  <2>2. ASSUME NEW i \in DOMAIN r
        PROVE  r[i].turn = turn /\ r[i].kind \notin {"system", "user", "summary"}
    <3>1. i = 1 \/ i \in 2..(n + 1)
      BY <1>1, <2>1
    <3>2. \A calls, c : /\ AssistantMsg(turn, calls).turn = turn
                        /\ AssistantMsg(turn, calls).kind = "assistant"
                        /\ ToolMsg(turn, c).turn = turn /\ ToolMsg(turn, c).kind = "tool"
      BY DEF AssistantMsg, ToolMsg
    <3>3. QED  BY <2>1, <3>1, <3>2
  <2>3. Continues(r, turn) /\ messages' = messages \o r /\ UNCHANGED <<start, disturbed>>
    BY <1>5, <2>1, <2>2 DEF Continues, Record
  <2>4. QED  BY <1>1, <1>2, <2>3, TurnGoesOn
<1>6. CASE AllCallsDone /\ Record(Len(Response.calls)) /\ UNCHANGED pendingCall
  <2>1. Len(Response.calls) \in 0..Len(Response.calls)
    BY <1>1
  <2>2. QED  BY <1>5, <1>6, <2>1
<1>7. ASSUME NEW k \in DOMAIN Response.calls, HandleCallC(k)
      PROVE  TurnsInv' /\ Whole(messages')
  <2>1. k \in 0..Len(Response.calls) /\ k - 1 \in 0..Len(Response.calls)
    BY <1>1
  <2>2. Record(k) \/ Record(k - 1)
    BY <1>7 DEF HandleCallC
  <2>3. QED  BY <1>5, <2>1, <2>2
<1>8. QED  BY <1>3, <1>4, <1>6, <1>7 DEF HandleResponseC

\* A tick, the prompt it starts included.
LEMMA TickKeepsTurns ==
  ASSUME Inv, ConvInv, ConvTypes, TurnsInv, TickC
  PROVE  TurnsInv' /\ (Sane => Whole(messages'))
<1>1. TypeOK
  BY DEF Inv
<1>2. CASE /\ TickBegin \/ DropStale \/ HandleDelta \/ HandleError
           /\ UNCHANGED convVars
  <2>1. turn' \in {turn, NoTurn} /\ turns' = turns
    BY <1>2 DEF TickBegin, DropStale, HandleDelta, HandleError, turnVars
  <2>2. QED  BY <1>2, <2>1, TurnsStay
<1>3. CASE HandleResponseC
  BY <1>3, ResponseKeepsTurns
<1>4. CASE TickEndC
  <2>1. CASE MustWait \/ queue = <<>>
    <3>1. UNCHANGED <<convVars, turns>> /\ turn' = turn
      BY <1>4, <2>1 DEF TickEndC, TickEnd, PumpPromptQueue, turnVars
    <3>2. QED  BY <3>1, TurnsStay
  <2>2. CASE ~(MustWait \/ queue = <<>>)
    <3>1. StartPrompt(NextPrompt) /\ StartC
      BY <1>4, <2>2 DEF TickEndC, TickEnd, PumpPromptQueue
    <3>2. QED  BY <1>1, <3>1, TurnBegins DEF Sane
  <2>3. QED  BY <2>1, <2>2
<1>5. QED  BY <1>2, <1>3, <1>4 DEF TickC, ProcessEventC

\* A turn that is over is kept whole or goes as a whole, whatever happens to the
\* turns behind it: repair, cancellation, compaction, clearing or a restored memory.
THEOREM TurnsAreAtomicHolds == SpecC => TurnsAreAtomic
<1>1. InitC => TurnsInv
  BY InitTurns
<1>2. Inv /\ ConvInv /\ ConvTypes /\ TurnsInv /\ [NextC]_allVars
        => TurnsInv' /\ (Sane => Whole(messages'))
  <2> SUFFICES ASSUME Inv, ConvInv, ConvTypes, TurnsInv, [NextC]_allVars
               PROVE  TurnsInv' /\ (Sane => Whole(messages'))
    OBVIOUS
  <2>1. CASE TickC
    BY <2>1, TickKeepsTurns
  <2>2. CASE WorkerC
    <3>1. UNCHANGED <<convVars, turns>> /\ turn' = turn
      BY <2>2 DEF WorkerC, Worker, WorkerTake, WorkerReceive, WorkerPut, WorkerException,
                  turnVars
    <3>2. QED  BY <3>1, TurnsStay
  <2>3. CASE UserC
    BY <2>3, UserKeepsTurns
  <2>4. CASE UNCHANGED allVars
    <3>1. UNCHANGED <<convVars, turns>> /\ turn' = turn
      BY <2>4 DEF allVars, vars, turnVars
    <3>2. QED  BY <3>1, TurnsStay
  <2>5. QED  BY <2>1, <2>2, <2>3, <2>4 DEF NextC
<1>3. MessagesInv => ConvTypes
  BY DEF MessagesInv
<1>4. SpecC => []Inv
  BY Implements, InvHolds, PTL
<1>5. SpecC => []TurnsInv
  BY <1>1, <1>2, <1>3, <1>4, ConvInvHolds, MessagesInvHolds, PTL DEF SpecC
<1>6. Inv /\ ConvInv /\ ConvTypes /\ TurnsInv /\ [NextC]_allVars
        => [(disturbed # {} => ~CancelCurrentTurnC /\ ValidSequence(messages)) =>
              \A t \in (1..turns) \ {turn} :
                TurnMessages(messages', t) \in {TurnMessages(messages, t), <<>>}]_allVars
  BY <1>2 DEF Sane, Whole
<1>7. QED
  BY <1>3, <1>4, <1>5, <1>6, ConvInvHolds, MessagesInvHolds, PTL DEF SpecC, TurnsAreAtomic
=============================================================================
