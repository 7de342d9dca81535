------------------------ MODULE RuntimeConversation -------------------------
(***************************************************************************)
(* AgentRuntime with the conversation it leaves out.  Every action of      *)
(* AgentRuntime that touches the conversation is conjoined with what it    *)
(* does to the messages and to the index where the active turn starts;     *)
(* whether a prompt is refused, and whether its compaction raises, is no   *)
(* longer a free choice.  Names of actions end in C.                       *)
(***************************************************************************)
EXTENDS AgentRuntime, Conversation, Pieces

VARIABLES
  messages,     \* conversation.messages
  start,        \* _active_conversation_start, NoStart for None
  pendingCall,  \* the call id in the pending approval or plan review
  disturbed     \* history: what has ever put start and messages at odds

convVars == <<messages, start, pendingCall, disturbed>>
allVars  == <<vars, convVars>>

NoStart == -1

-----------------------------------------------------------------------------
(***************************************************************************)
(* Faulty variants of the definitions named in their comments.             *)
(***************************************************************************)

\* Discarded: the incomplete tail stays.
DiscardedNothing == messages

\* Recovered: an invalid history is used as it is.
RecoveredNothing == messages

\* Round: the answers come before the message that asked.
RoundBackwards(n) ==
  [k \in 1..n |-> ToolMsg(turn, <<turn, rounds + 1, k>>)]
    \o <<AssistantMsg(turn, [k \in DOMAIN Response.calls |-> <<turn, rounds + 1, k>>])>>

-----------------------------------------------------------------------------
InitC ==
  /\ Init
  /\ messages = <<>> /\ start = NoStart /\ pendingCall = NoCall /\ disturbed = {}

\* The conversation without its active turn, as far as start tells: all of it when
\* start is None or beyond the end.
Discarded ==
  IF start # NoStart /\ start <= Len(messages) THEN SubSeq(messages, 1, start) ELSE messages

\* What a prompt finds: the history, repaired if it is invalid.
Recovered == IF ValidSequence(messages) THEN messages ELSE Discarded

RefuseC ==
  /\ turns' = turns
  /\ ~ValidSequence(messages) /\ start = NoStart
  /\ UNCHANGED convVars

\* The index of the active turn is not adjusted to a compaction.
BeginC ==
  /\ turns' = turns + 1
  /\ ValidSequence(messages) \/ start # NoStart
  /\ start' = Len(Recovered)
  /\ LET prompted == Append(Recovered, UserMsg(turns + 1))
     IN  \/ /\ state' # "IDLE"
            /\ messages' = prompted
            /\ UNCHANGED disturbed
         \/ /\ state' # "IDLE"
            /\ Compaction
            /\ Compactable(prompted)
            /\ ValidSequence(Compacted(prompted))
            /\ messages' = Compacted(prompted)
            /\ disturbed' = disturbed \union {"compaction"}
         \/ /\ state' = "IDLE"
            /\ CompactionMayRaise(prompted)
            /\ messages' = prompted
            /\ disturbed' = disturbed \union {"compaction"}
  /\ UNCHANGED pendingCall

StartC == RefuseC \/ BeginC

SubmitPromptC ==
  /\ SubmitPrompt
  /\ IF MustWait THEN UNCHANGED convVars ELSE StartC

TickEndC ==
  /\ TickEnd
  /\ IF MustWait \/ queue = <<>> THEN UNCHANGED convVars ELSE StartC

\* Discards even when no turn is active: start still names the last one then.
CancelCurrentTurnC ==
  /\ CancelCurrentTurn
  /\ messages' = Discarded
  /\ start' = NoStart
  /\ UNCHANGED <<pendingCall, disturbed>>

ClearHistoryC ==
  /\ ClearHistory
  /\ messages' = <<>>
  /\ disturbed' = IF turn = NoTurn THEN disturbed ELSE disturbed \union {"clear"}
  /\ UNCHANGED <<start, pendingCall>>

RestoreSessionMemoryC ==
  /\ RestoreSessionMemory
  /\ messages' = <<SystemMsg>> \o SummaryPair
  /\ start' = NoStart
  /\ disturbed' = IF turn = NoTurn THEN disturbed ELSE disturbed \union {"load"}
  /\ UNCHANGED pendingCall

-----------------------------------------------------------------------------
\* A decided request adds the tool message of its call, whatever came of it.
AnswerPendingCall ==
  /\ messages' = Append(messages, ToolMsg(turn, pendingCall))
  /\ UNCHANGED <<start, pendingCall, disturbed>>

DecideC(id) ==
  \/ ApproveTool(id) /\ AnswerPendingCall
  \/ RejectTool(id) /\ AnswerPendingCall
  \/ ApprovePlan(id) /\ AnswerPendingCall
  \/ RejectPlan(id) /\ AnswerPendingCall

\* The response's message, and the tool messages of its first n calls.
CallOf(k) == <<turn, rounds + 1, k>>
Round(n) ==
  <<AssistantMsg(turn, [k \in DOMAIN Response.calls |-> CallOf(k)])>>
    \o [k \in 1..n |-> ToolMsg(turn, CallOf(k))]

Record(n) ==
  /\ messages' = messages \o Round(n)
  /\ UNCHANGED <<start, disturbed>>

\* A call that gets its tool message in the same handler: its result, or the
\* error that ends the turn.
AnsweredAtOnce(k) ==
  CallFails(k) \/ ExceedPlanRepairs(k) \/ PlanInvalid(k) \/ PlanAutoApproved(k)

HandleCallC(k) ==
  \/ AnsweredAtOnce(k) /\ Record(k) /\ UNCHANGED pendingCall
  \/ CallRaises(k) /\ Record(k - 1) /\ UNCHANGED pendingCall
  \/ /\ AwaitApproval(k) \/ AwaitPlanReview(k)
     /\ Record(k - 1)
     /\ pendingCall' = CallOf(k)

FinishTurnC ==
  /\ FinishTurn
  /\ messages' = Append(messages, AssistantMsg(turn, <<>>))
  /\ UNCHANGED <<start, pendingCall, disturbed>>

HandleResponseC ==
  /\ NextEvent
  /\ \/ FinishTurnC
     \/ ExceedToolRounds /\ UNCHANGED convVars
     \/ AllCallsDone /\ Record(Len(Response.calls)) /\ UNCHANGED pendingCall
     \/ \E k \in DOMAIN Response.calls : HandleCallC(k)

ProcessEventC ==
  \/ (DropStale \/ HandleDelta \/ HandleError) /\ UNCHANGED convVars
  \/ HandleResponseC

-----------------------------------------------------------------------------
TickC   == (TickBegin /\ UNCHANGED convVars) \/ ProcessEventC \/ TickEndC
WorkerC == Worker /\ UNCHANGED convVars
UserC   ==
  \/ SubmitPromptC \/ CancelCurrentTurnC \/ ClearHistoryC \/ RestoreSessionMemoryC
  \/ \E id \in DOMAIN approvals : DecideC(id)

NextC == TickC \/ WorkerC \/ UserC
SpecC == InitC /\ [][NextC]_allVars

-----------------------------------------------------------------------------
(***************************************************************************)
(* Properties.                                                             *)
(***************************************************************************)

\* The messages of turn t, in order.
TurnMessages(s, t) ==
  InOrder([i \in {j \in DOMAIN s : s[j].turn = t} |-> s[i]], Len(s))

\* Every variable has its type.
TypeOKC ==
  /\ TypeOK
  /\ messages \in Seq(Message)
  /\ start \in Nat \union {NoStart}
  /\ pendingCall \in CallId
  /\ disturbed \in SUBSET {"clear", "load", "compaction"}

\* What a cancellation or the next prompt would make of the conversation is valid
\* (runtime.py:489-503 and 1024-1032): whatever the active turn has left behind,
\* the repair removes all of it that is incomplete.  It holds as long as nothing
\* has put the index of the active turn at odds with the messages: a compaction,
\* or clearing or loading in the middle of a turn.
HistoryValid == disturbed = {} => ValidSequence(Discarded)

\* A prompt that needs not wait is started, never refused and never stranded by
\* its conversation, under the same condition.
PromptsStart ==
  [][/\ disturbed = {} /\ ~MustWait
     /\ SubmitPromptC \/ (TickEndC /\ queue # <<>>)
     => turns' = turns + 1 /\ state' # "IDLE"]_allVars

\* Tool messages stand right behind the assistant message that asked for them, in
\* the order of its calls, and nowhere else: whatever happens to a turn, its calls
\* are answered one after the other, each at most once.  Clearing the history
\* between a call and its answer is the exception.
AnswersInOrder ==
  "clear" \notin disturbed =>
    \A i \in DOMAIN messages :
      messages[i].kind = "tool" =>
        \E a \in 1..(i - 1) :
          /\ i - a <= Len(messages[a].calls)
          /\ \A j \in (a + 1)..i : messages[j] = ToolMsg(messages[a].turn, messages[a].calls[j - a])

\* A turn that is over is kept whole or goes as a whole: neither the repair of a
\* later turn nor compaction or clearing splits it (memory.py:867-870).  Repairs
\* and cancellations are the exception once the index of the active turn is at
\* odds with the messages.
TurnsAreAtomic ==
  [][(disturbed # {} => ~CancelCurrentTurnC /\ ValidSequence(messages)) =>
       \A t \in (1..turns) \ {turn} :
         TurnMessages(messages', t) \in {TurnMessages(messages, t), <<>>}]_allVars

\* However much the size guard evicts, a context of a valid conversation is valid,
\* begins with the one system message and ends with the whole latest interaction
\* (context_builder.py:244-252).
EvictionKeepsPairs ==
  ValidSequence(messages) =>
    \A c \in Contexts(messages) :
      /\ ValidSequence(c)
      /\ \A i \in DOMAIN c : c[i].kind = "system" <=> i = 1
      /\ \A i \in DOMAIN messages :
           (\A j \in DOMAIN messages : j >= i /\ IsUser(messages[j]) => j = i)
              /\ messages[i].kind # "system" /\ (\E j \in 1..i : IsUser(messages[j]))
           => messages[i] \in ToSet(c)

\* Compacting a valid conversation gives a valid one that need not be compacted
\* again: the summary never counts as a turn (memory.py:864-876).
CompactionSound ==
  ValidSequence(messages) /\ Compactable(messages) =>
    ValidSequence(Compacted(messages)) /\ ~Compactable(Compacted(messages))

\* The loop of validate_sequence decides what ValidSequence says.
LoopAgrees == CheckedByLoop(messages) <=> ValidSequence(messages)

-----------------------------------------------------------------------------
(***************************************************************************)
(* What the documentation says and the code does not keep.                 *)
(***************************************************************************)

Completed(t) == \E i \in DOMAIN messages :
                  messages[i].turn = t /\ messages[i].kind = "assistant" /\ messages[i].calls = <<>>

Kept(t) == Completed(t) => TurnMessages(messages', t) = TurnMessages(messages, t)

\* runtime.py:495: all completed history is preserved, by a cancellation too.
CompletedTurnsKept == [][CancelCurrentTurnC => \A t \in 1..turns : Kept(t)]_allVars
=============================================================================
