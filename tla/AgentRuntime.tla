---------------------------- MODULE AgentRuntime ----------------------------
(***************************************************************************)
(* The turn lifecycle of the Blender AI sidebar: agent/runtime.py with its *)
(* state machine, the prompt queue, the worker thread and the timer bridge *)
(* that carries the worker's events to the main thread.                    *)
(*                                                                         *)
(* Two threads run.  Blender's main thread executes the timer callback and *)
(* the user's operators, each to its end before the next one starts.  The  *)
(* worker thread talks to the provider.  They share the task queue, the    *)
(* event queue and the cancel event of each turn.                          *)
(*                                                                         *)
(* Abstracted: texts are counts of streamed deltas, tool calls are what    *)
(* the approval policy makes of them, and the conversation is left out: a  *)
(* prompt that it refuses, or an image it can no longer resolve, is a      *)
(* nondeterministic outcome of the operation that consults it.  Events     *)
(* that only inform the history and the console (PromptSubmittedEvent,     *)
(* ApprovalRequiredEvent and the like) take a place in a batch and change  *)
(* nothing, so a tick may drain fewer of the events modelled here.         *)
(***************************************************************************)
EXTENDS Naturals, Sequences

CONSTANTS
  MaxPrompts,     \* bound: prompts the user ever submits
  MaxDeltas,      \* bound: text deltas streamed for one provider request
  MaxCalls,       \* bound: tool calls in one provider response
  QueueSize,      \* PromptQueue.maxsize
  BatchSize,      \* TimerBridge.max_events_per_tick
  MaxToolRounds,  \* AgentRuntime.max_tool_rounds
  MaxPlanRepairs, \* AgentRuntime.max_plan_repairs
  ImageLoss,      \* whether an image of the conversation may be gone from the cache
  Compaction,     \* whether the conversation is long enough to be pruned or compacted
  FileLoads       \* whether the user loads files that carry a session memory

ASSUME ConstantsAssumption ==
  /\ MaxPrompts \in Nat /\ MaxDeltas \in Nat /\ MaxCalls \in Nat
  /\ QueueSize \in Nat /\ BatchSize \in Nat \ {0}
  /\ MaxToolRounds \in Nat /\ MaxPlanRepairs \in Nat
  /\ ImageLoss \in BOOLEAN /\ Compaction \in BOOLEAN /\ FileLoads \in BOOLEAN

VARIABLES
  state,           \* the state machine's current state
  turns,           \* _turn_counter
  turn,            \* _current_turn_id, NoTurn for None
  cancelled,       \* the turns whose cancel event is set
  rounds,          \* _current_tool_round
  repairs,         \* _current_plan_repairs
  planFailed,      \* a PLAN_EXECUTION_FAILED result is among _current_tool_results
  streaming,       \* deltas in _streaming_text
  pendingApproval, \* id of _pending_approval, NoId for None
  pendingReview,   \* id of _pending_plan_review, NoId for None
  approvals,       \* every approval request ever issued, indexed by its id
  prompt,          \* _current_prompt
  submitted,       \* prompts the user has submitted
  queue,           \* the prompt queue
  tasks,           \* the worker's task queue
  working,         \* turn of the task the worker is serving
  streamed,        \* deltas of that task so far
  held,            \* events the worker has decided to put and not put yet
  events,          \* the thread-safe event queue, drained events included
  ticking,         \* the timer callback is running
  drained,         \* how many events at the head of the queue this tick has taken
  touched,         \* history: what reset the active turn's counters from outside
  repairsRun       \* history: repair plans the active turn has let through

turnVars     == <<turns, turn, cancelled, prompt, touched>>
budgetVars   == <<rounds, repairs, planFailed, repairsRun>>
approvalVars == <<pendingApproval, pendingReview, approvals>>
promptVars   == <<submitted, queue>>
workerVars   == <<working, streamed, held>>
tickVars     == <<ticking, drained>>
vars == <<state, turnVars, budgetVars, streaming, approvalVars, promptVars,
          tasks, workerVars, events, tickVars>>

-----------------------------------------------------------------------------
States == {"IDLE", "PROCESSING", "PENDING_APPROVAL", "EXECUTING_TOOL", "ERROR"}
Busy   == {"PROCESSING", "PENDING_APPROVAL", "EXECUTING_TOOL"}

AllowedTransitions ==
  [s \in States |->
     CASE s = "IDLE"             -> {"PROCESSING"}
       [] s = "PROCESSING"       -> {"EXECUTING_TOOL", "PENDING_APPROVAL", "IDLE", "ERROR"}
       [] s = "PENDING_APPROVAL" -> {"EXECUTING_TOOL", "PROCESSING", "IDLE", "ERROR"}
       [] s = "EXECUTING_TOOL"   -> {"PROCESSING", "ERROR"}
       [] OTHER                  -> {"IDLE"}]

NoTurn == 0
NoId   == 0

\* What the approval policy makes of a tool call: it runs at once, it waits for
\* the user, or it is a propose_plan call that opens a plan review.
CallKinds == {"auto", "gated", "plan"}
Responses == UNION {[1..n -> CallKinds] : n \in 0..MaxCalls}

Event == [kind : {"delta", "response", "error"}, turn : Nat, calls : Seq(CallKinds), text : Nat]
Delta(t)       == [kind |-> "delta", turn |-> t, calls |-> <<>>, text |-> 1]
Answer(t, c, n) == [kind |-> "response", turn |-> t, calls |-> c, text |-> n]
Failure(t)     == [kind |-> "error", turn |-> t, calls |-> <<>>, text |-> 0]

Approval == [turn : Nat, status : {"open", "executed", "rejected", "void"}]
Request(t, status) == [turn |-> t, status |-> status]
NextId   == Len(approvals) + 1
Settle(id, status) == [approvals EXCEPT ![id].status = status]

\* No request stays open.
VoidOpen ==
  [i \in DOMAIN approvals |->
     IF approvals[i].status = "open" THEN [approvals[i] EXCEPT !.status = "void"]
                                     ELSE approvals[i]]

-----------------------------------------------------------------------------
(***************************************************************************)
(* Faulty variants: each is what a plausible defect would make of the      *)
(* definition named in its comment.  No behaviour uses them; the           *)
(* properties below are tested against them.                               *)
(***************************************************************************)

\* DropRequests: cancelling forgets the plan review.
DropToolRequest == pendingApproval' = NoId /\ approvals' = VoidOpen /\ UNCHANGED pendingReview

\* CloseWithError: the failed turn stays the active one.
CloseKeepingTurn(t, evs) ==
  state' = "ERROR" /\ events' = Append(evs, Failure(t)) /\ UNCHANGED <<turn, tasks>>

\* QueueHasRoom: one prompt too many.
QueueHasRoomForOneMore == Len(queue) <= QueueSize

\* NextPrompt: the newest prompt starts first.
NewestPrompt == queue[Len(queue)]

\* AbandonTurn: the state machine is not reset.
AbandonTurnOnly == cancelled' = cancelled \union {turn} /\ turn' = NoTurn /\ UNCHANGED state

\* Names: any id decides the pending request.
NamesAny(id, pending) == pending # NoId

\* Stale: events are filtered only while no turn is active.
StaleWithoutTurn(e) == turn = NoTurn

\* CountRound: the tool rounds are not counted.
ForgetRound == UNCHANGED rounds

\* ClearStreaming: the text of a round runs on into the next one.
KeepStreaming == UNCHANGED streaming

\* RepairsLeft: one repair too many.
RepairsLeftForOneMore == repairs <= MaxPlanRepairs

\* TickBegin: the batch is filled before the queue is asked for its length.
TickBeginAnyway ==
  /\ ~ticking
  /\ \E n \in 0..BatchSize : drained' = n
  /\ ticking' = TRUE
  /\ UNCHANGED <<state, turnVars, budgetVars, streaming, approvalVars, promptVars, tasks,
                 workerVars, events>>

-----------------------------------------------------------------------------
Init ==
  /\ state = "IDLE" /\ turns = 0 /\ turn = NoTurn /\ cancelled = {}
  /\ rounds = 0 /\ repairs = 0 /\ planFailed = FALSE /\ streaming = 0
  /\ pendingApproval = NoId /\ pendingReview = NoId /\ approvals = <<>>
  /\ prompt = 0 /\ submitted = 0 /\ queue = <<>>
  /\ tasks = <<>> /\ working = NoTurn /\ streamed = 0 /\ held = <<>>
  /\ events = <<>> /\ ticking = FALSE /\ drained = 0
  /\ touched = {} /\ repairsRun = 0

-----------------------------------------------------------------------------
(***************************************************************************)
(* Ends of a handler.  evs is the event queue as the handler leaves it.    *)
(***************************************************************************)

\* Every terminal failure: state ERROR, an AgentErrorEvent, no active turn.
CloseWithError(t, evs) ==
  /\ state' = "ERROR"
  /\ turn' = NoTurn
  /\ events' = Append(evs, Failure(t))
  /\ UNCHANGED tasks

\* Build the next context and hand the turn back to the worker, or fail on an
\* image that is no longer in the cache.
Resubmit(t, evs) ==
  \/ /\ state' = "PROCESSING"
     /\ tasks' = Append(tasks, t)
     /\ events' = evs
     /\ UNCHANGED turn
  \/ /\ ImageLoss
     /\ CloseWithError(t, evs)

-----------------------------------------------------------------------------
(***************************************************************************)
(* Prompts.                                                                *)
(***************************************************************************)

\* The conversation refuses the prompt: the state machine has been reset, and
\* nothing else has changed when the ValueError leaves _start_prompt.
RefusePrompt ==
  /\ state' = IF state = "ERROR" THEN "IDLE" ELSE state
  /\ UNCHANGED <<turnVars, budgetVars, streaming, tasks, events>>

\* A missing image here leaves the turn active in state ERROR, unlike every
\* other failure.  A ValueError out of the compaction of an invalid conversation
\* leaves it active in state IDLE, with nothing submitted.
BeginTurn(p) ==
  /\ turns' = turns + 1
  /\ turn' = turns + 1
  /\ prompt' = p
  /\ rounds' = 0 /\ repairs' = 0 /\ planFailed' = FALSE /\ streaming' = 0
  /\ touched' = {} /\ repairsRun' = 0
  /\ \/ /\ state' = "PROCESSING"
        /\ tasks' = Append(tasks, turns + 1)
        /\ UNCHANGED events
     \/ /\ ImageLoss
        /\ state' = "ERROR"
        /\ events' = Append(events, Failure(turns + 1))
        /\ UNCHANGED tasks
     \/ /\ Compaction
        /\ state' = "IDLE"
        /\ UNCHANGED <<tasks, events>>
  /\ UNCHANGED cancelled

StartPrompt(p) == RefusePrompt \/ BeginTurn(p)

MustWait == turn # NoTurn \/ state \in Busy

QueueHasRoom == Len(queue) < QueueSize

SubmitPrompt ==
  /\ ~ticking
  /\ submitted < MaxPrompts
  /\ submitted' = submitted + 1
  /\ \/ /\ MustWait
        /\ QueueHasRoom
        /\ queue' = Append(queue, submitted + 1)
        /\ UNCHANGED <<state, turnVars, budgetVars, streaming, tasks, events>>
     \/ /\ MustWait            \* OverflowError, reported to the user
        /\ ~QueueHasRoom
        /\ UNCHANGED <<state, turnVars, budgetVars, streaming, tasks, events, queue>>
     \/ /\ ~MustWait
        /\ StartPrompt(submitted + 1)
        /\ UNCHANGED queue
  /\ UNCHANGED <<approvalVars, workerVars, tickVars>>

NextPrompt == Head(queue)

\* The last act of a tick.  A queued prompt that is refused is lost.
PumpPromptQueue ==
  IF ~MustWait /\ queue # <<>>
    THEN /\ queue' = Tail(queue)
         /\ StartPrompt(NextPrompt)
    ELSE UNCHANGED <<state, turnVars, budgetVars, streaming, tasks, events, queue>>

-----------------------------------------------------------------------------
(***************************************************************************)
(* The user's other operations.                                            *)
(***************************************************************************)

DropRequests == pendingApproval' = NoId /\ pendingReview' = NoId /\ approvals' = VoidOpen
AbandonTurn  == cancelled' = cancelled \union {turn} /\ turn' = NoTurn /\ state' = "IDLE"

\* The HUD's cancel button calls this in every state.
CancelCurrentTurn ==
  /\ ~ticking
  /\ DropRequests
  /\ repairs' = 0
  /\ IF turn # NoTurn
       THEN AbandonTurn
       ELSE UNCHANGED <<cancelled, turn, state>>
  /\ UNCHANGED <<turns, prompt, touched, rounds, planFailed, repairsRun, streaming,
                 promptVars, tasks, workerVars, events, tickVars>>

Names(id, pending) == pending # NoId /\ pending = id

\* The guards approve and reject share; id is the one on the user's screen.
ToolRequest(id) ==
  /\ ~ticking
  /\ state = "PENDING_APPROVAL"
  /\ Names(id, pendingApproval)
  /\ approvals[pendingApproval].turn = turn
  /\ turn \notin cancelled
  /\ pendingApproval' = NoId
  /\ UNCHANGED pendingReview

ApproveTool(id) ==
  /\ ToolRequest(id)
  /\ approvals' = Settle(id, "executed")
  /\ Resubmit(turn, events) \/ CloseWithError(turn, events)
  /\ UNCHANGED <<turns, cancelled, prompt, touched, budgetVars, streaming, promptVars,
                 workerVars, tickVars>>

RejectTool(id) ==
  /\ ToolRequest(id)
  /\ approvals' = Settle(id, "rejected")
  /\ Resubmit(turn, events)
  /\ UNCHANGED <<turns, cancelled, prompt, touched, budgetVars, streaming, promptVars,
                 workerVars, tickVars>>

PlanRequest(id) ==
  /\ ~ticking
  /\ state = "PENDING_APPROVAL"
  /\ Names(id, pendingReview)
  /\ approvals[pendingReview].turn = turn
  /\ approvals[id].status \notin {"executed", "rejected"}  \* _consumed_plan_tokens
  /\ turn \notin cancelled
  /\ pendingReview' = NoId
  /\ UNCHANGED pendingApproval

\* A plan that fails is reported to the model, the turn goes on.
ApprovePlan(id) ==
  /\ PlanRequest(id)
  /\ approvals' = Settle(id, "executed")
  /\ \E failed \in BOOLEAN : planFailed' = (planFailed \/ failed)
  /\ Resubmit(turn, events)
  /\ UNCHANGED <<turns, cancelled, prompt, touched, rounds, repairs, repairsRun, streaming,
                 promptVars, workerVars, tickVars>>

RejectPlan(id) ==
  /\ PlanRequest(id)
  /\ approvals' = Settle(id, "rejected")
  /\ Resubmit(turn, events)
  /\ UNCHANGED <<turns, cancelled, prompt, touched, budgetVars, streaming, promptVars,
                 workerVars, tickVars>>

\* No guard on the state: the operator is offered while a turn runs.
ClearHistory ==
  /\ ~ticking
  /\ prompt' = 0
  /\ repairs' = 0
  /\ queue' = <<>>
  /\ touched' = IF turn = NoTurn THEN touched ELSE touched \union {"clear"}
  /\ UNCHANGED <<state, turns, turn, cancelled, rounds, planFailed, repairsRun, streaming,
                 approvalVars, submitted, tasks, workerVars, events, tickVars>>

\* load_post of a file that carries a session memory; the turn that was active
\* in the previous file is neither cancelled nor closed.  Bound: one load a turn.
RestoreSessionMemory ==
  /\ ~ticking
  /\ FileLoads
  /\ "load" \notin touched
  /\ DropRequests
  /\ rounds' = 0 /\ repairs' = 0 /\ planFailed' = FALSE /\ streaming' = 0
  /\ touched' = IF turn = NoTurn THEN touched ELSE touched \union {"load"}
  /\ UNCHANGED <<state, turns, turn, cancelled, prompt, repairsRun, promptVars, tasks,
                 workerVars, events, tickVars>>

-----------------------------------------------------------------------------
(***************************************************************************)
(* The worker thread.                                                      *)
(***************************************************************************)

WorkerTake ==
  /\ working = NoTurn
  /\ tasks # <<>>
  /\ tasks' = Tail(tasks)
  /\ working' = IF Head(tasks) \in cancelled THEN NoTurn ELSE Head(tasks)
  /\ streamed' = 0
  /\ UNCHANGED <<state, turnVars, budgetVars, streaming, approvalVars, promptVars, held,
                 events, tickVars>>

\* The worker looks at the cancel event, then goes on to put what it received:
\* a cancellation in between is not noticed.
WorkerReceive ==
  /\ working # NoTurn
  /\ held = <<>>
  /\ IF working \in cancelled
       THEN working' = NoTurn /\ UNCHANGED held
       ELSE /\ \/ streamed < MaxDeltas /\ held' = <<Delta(working)>>
               \/ held' = <<Failure(working)>>
               \/ \E calls \in Responses : held' = <<Answer(working, calls, streamed)>>
            /\ UNCHANGED working
  /\ UNCHANGED <<state, turnVars, budgetVars, streaming, approvalVars, promptVars, tasks,
                 streamed, events, tickVars>>

WorkerPut ==
  /\ held # <<>>
  /\ events' = Append(events, held[1])
  /\ held' = <<>>
  /\ IF held[1].kind = "delta"
       THEN streamed' = streamed + 1 /\ UNCHANGED working
       ELSE working' = NoTurn /\ UNCHANGED streamed
  /\ UNCHANGED <<state, turnVars, budgetVars, streaming, approvalVars, promptVars, tasks,
                 tickVars>>

\* An exception out of the provider is reported without a look at the cancel event.
WorkerException ==
  /\ working # NoTurn
  /\ held = <<>>
  /\ events' = Append(events, Failure(working))
  /\ working' = NoTurn
  /\ UNCHANGED <<state, turnVars, budgetVars, streaming, approvalVars, promptVars, tasks,
                 streamed, held, tickVars>>

-----------------------------------------------------------------------------
(***************************************************************************)
(* The timer callback: drain a batch, process it, pump the prompt queue.   *)
(***************************************************************************)

TickBegin ==
  /\ ~ticking
  /\ ticking' = TRUE
  /\ \E n \in 0..BatchSize :
       /\ n <= Len(events)
       /\ events # <<>> => n > 0
       /\ drained' = n
  /\ UNCHANGED <<state, turnVars, budgetVars, streaming, approvalVars, promptVars, tasks,
                 workerVars, events>>

TickEnd ==
  /\ ticking
  /\ drained = 0
  /\ PumpPromptQueue
  /\ ticking' = FALSE
  /\ UNCHANGED <<submitted, approvalVars, workerVars, drained>>

\* An exception out of process_event ends the tick: the rest of the batch is
\* lost and the prompt queue is not pumped.
AbortTick ==
  /\ events' = SubSeq(events, drained + 1, Len(events))
  /\ drained' = 0
  /\ ticking' = FALSE

NextEvent ==
  /\ ticking
  /\ drained > 0

Consume == drained' = drained - 1 /\ UNCHANGED ticking

Stale(e) == e.turn # turn

DropStale ==
  /\ NextEvent
  /\ Stale(Head(events))
  /\ Consume
  /\ events' = Tail(events)
  /\ UNCHANGED <<state, turnVars, budgetVars, streaming, approvalVars, promptVars, tasks,
                 workerVars>>

Live(kind) ==
  /\ NextEvent
  /\ ~Stale(Head(events))
  /\ Head(events).kind = kind

HandleDelta ==
  /\ Live("delta")
  /\ Consume
  /\ events' = Tail(events)
  /\ streaming' = streaming + 1
  /\ UNCHANGED <<state, turnVars, budgetVars, approvalVars, promptVars, tasks, workerVars>>

HandleError ==
  /\ Live("error")
  /\ IF "ERROR" \in AllowedTransitions[state]
       THEN /\ state' = "ERROR"
            /\ turn' = NoTurn
            /\ Consume
            /\ events' = Tail(events)
       ELSE AbortTick /\ UNCHANGED <<state, turn>>
  /\ UNCHANGED <<turns, cancelled, prompt, touched, budgetVars, streaming, approvalVars,
                 promptVars, tasks, workerVars>>

-----------------------------------------------------------------------------
(***************************************************************************)
(* A provider response.  Its calls are executed in order until one of them *)
(* fails, needs the user, or is a plan: the calls behind that one are      *)
(* dropped.                                                                *)
(***************************************************************************)

Response == Head(events)
Rest     == Tail(events)

\* The turn passes the cancellation check by ActiveTurn; by OneOutstanding it is
\* PROCESSING, from where every transition below is allowed.
LiveResponse ==
  /\ Live("response")
  /\ turn \notin cancelled
  /\ UNCHANGED <<turns, cancelled, prompt, touched, promptVars, workerVars>>

\* Faulty variant of FinishTurn: the turn stays the active one.
FinishKeepingTurn ==
  /\ LiveResponse
  /\ Response.calls = <<>>
  /\ state' = "IDLE"
  /\ streaming' = 0
  /\ Consume
  /\ events' = Rest
  /\ UNCHANGED <<turn, budgetVars, approvalVars, tasks>>

FinishTurn ==
  /\ LiveResponse
  /\ Response.calls = <<>>
  /\ state' = "IDLE"
  /\ turn' = NoTurn
  /\ streaming' = 0
  /\ Consume
  /\ events' = Rest
  /\ UNCHANGED <<budgetVars, approvalVars, tasks>>

CountRound == rounds' = rounds + 1

\* The loop guard fires before the response is looked at.
ExceedToolRounds ==
  /\ LiveResponse
  /\ Response.calls # <<>>
  /\ rounds >= MaxToolRounds
  /\ CountRound
  /\ CloseWithError(Response.turn, Rest)
  /\ Consume
  /\ UNCHANGED <<repairs, planFailed, repairsRun, streaming, approvalVars>>

ClearStreaming == streaming' = 0

\* The calls before the k-th have been executed with success.
ReachCall(k) ==
  /\ LiveResponse
  /\ rounds < MaxToolRounds
  /\ CountRound
  /\ ClearStreaming
  /\ \A i \in 1..(k - 1) : Response.calls[i] = "auto"

AllCallsDone ==
  /\ Response.calls # <<>>
  /\ ReachCall(Len(Response.calls) + 1)
  /\ Resubmit(Response.turn, Rest)
  /\ Consume
  /\ UNCHANGED <<repairs, planFailed, repairsRun, approvalVars>>

CallFails(k) ==
  /\ ReachCall(k)
  /\ Response.calls[k] = "auto"
  /\ CloseWithError(Response.turn, Rest)
  /\ Consume
  /\ UNCHANGED <<repairs, planFailed, repairsRun, approvalVars>>

\* An exception escapes the handler between the two transitions around the call: out
\* of visual_verify, whose image is gone, or out of the change set of a modifier that
\* was called with null for a number.
CallRaises(k) ==
  /\ ReachCall(k)
  /\ Response.calls[k] = "auto"
  /\ state' = "EXECUTING_TOOL"
  /\ AbortTick
  /\ UNCHANGED <<turn, repairs, planFailed, repairsRun, approvalVars, tasks>>

AwaitApproval(k) ==
  /\ ReachCall(k)
  /\ Response.calls[k] = "gated"
  /\ pendingApproval' = NextId
  /\ approvals' = Append(approvals, Request(Response.turn, "open"))
  /\ state' = "PENDING_APPROVAL"
  /\ Consume
  /\ events' = Rest
  /\ UNCHANGED <<turn, repairs, planFailed, repairsRun, pendingReview, tasks>>

RepairsLeft == repairs < MaxPlanRepairs

ExceedPlanRepairs(k) ==
  /\ ReachCall(k)
  /\ Response.calls[k] = "plan"
  /\ planFailed
  /\ ~RepairsLeft
  /\ CloseWithError(Response.turn, Rest)
  /\ Consume
  /\ UNCHANGED <<repairs, planFailed, repairsRun, approvalVars>>

\* A plan call gets past the repair guard; a plan after a failed one is a repair.
ReachPlan(k) ==
  /\ ReachCall(k)
  /\ Response.calls[k] = "plan"
  /\ planFailed => RepairsLeft
  /\ repairs' = IF planFailed THEN repairs + 1 ELSE repairs
  /\ repairsRun' = IF planFailed THEN repairsRun + 1 ELSE repairsRun
  /\ Consume

PlanInvalid(k) ==
  /\ ReachPlan(k)
  /\ CloseWithError(Response.turn, Rest)
  /\ UNCHANGED <<planFailed, approvalVars>>

\* A plan of READ_ONLY or LOW overall risk is approved by the runtime itself.
PlanAutoApproved(k) ==
  /\ ReachPlan(k)
  /\ \E failed \in BOOLEAN : planFailed' = (planFailed \/ failed)
  /\ approvals' = Append(approvals, Request(turn, "executed"))
  /\ Resubmit(turn, Rest)
  /\ UNCHANGED <<pendingApproval, pendingReview>>

AwaitPlanReview(k) ==
  /\ ReachPlan(k)
  /\ pendingReview' = NextId
  /\ approvals' = Append(approvals, Request(turn, "open"))
  /\ state' = "PENDING_APPROVAL"
  /\ events' = Rest
  /\ UNCHANGED <<turn, planFailed, pendingApproval, tasks>>

HandleCall(k) ==
  \/ CallFails(k) \/ CallRaises(k) \/ AwaitApproval(k) \/ ExceedPlanRepairs(k)
  \/ PlanInvalid(k) \/ PlanAutoApproved(k) \/ AwaitPlanReview(k)

HandleResponse ==
  /\ NextEvent
  /\ \/ FinishTurn
     \/ ExceedToolRounds
     \/ AllCallsDone
     \/ \E k \in DOMAIN Response.calls : HandleCall(k)

-----------------------------------------------------------------------------
ProcessEvent == DropStale \/ HandleDelta \/ HandleError \/ HandleResponse
Tick == TickBegin \/ ProcessEvent \/ TickEnd
Worker == WorkerTake \/ WorkerReceive \/ WorkerPut \/ WorkerException

Decide(id) == ApproveTool(id) \/ RejectTool(id) \/ ApprovePlan(id) \/ RejectPlan(id)
User ==
  \/ SubmitPrompt \/ CancelCurrentTurn \/ ClearHistory \/ RestoreSessionMemory
  \/ \E id \in DOMAIN approvals : Decide(id)

Next == Tick \/ Worker \/ User

Spec == Init /\ [][Next]_vars

\* Blender keeps calling the registered timer, and the worker thread keeps
\* running: every provider request ends, by its answer or by the HTTP timeout.
\* Nothing obliges the user to act.
Fairness == WF_vars(Tick) /\ WF_vars(Worker)
FairSpec == Spec /\ Fairness

-----------------------------------------------------------------------------
(***************************************************************************)
(* Properties.                                                             *)
(***************************************************************************)

Prompts == 1..MaxPrompts

TurnTypes ==
  /\ state \in States
  /\ turns \in Nat /\ turn \in 0..turns
  /\ cancelled \in SUBSET (1..turns)
  /\ touched \in SUBSET {"clear", "load"}

BudgetTypes ==
  /\ rounds \in Nat /\ repairs \in Nat /\ planFailed \in BOOLEAN
  /\ repairsRun \in Nat /\ streaming \in Nat

RequestTypes ==
  /\ approvals \in Seq(Approval)
  /\ pendingApproval \in 0..Len(approvals) /\ pendingReview \in 0..Len(approvals)

PromptTypes ==
  /\ submitted \in 0..MaxPrompts /\ prompt \in 0..submitted
  /\ queue \in Seq(1..submitted) /\ Len(queue) <= QueueSize

WorkTypes ==
  /\ tasks \in Seq(0..turns)
  /\ working \in 0..turns /\ streamed \in Nat
  /\ held \in Seq(Event) /\ Len(held) <= 1

EventTypes ==
  /\ events \in Seq(Event)
  /\ ticking \in BOOLEAN /\ drained \in 0..Len(events)

\* Every variable has its type; the prompt queue keeps its capacity, a request
\* that is pending exists, and a tick holds no more events than were queued.
TypeOK == TurnTypes /\ BudgetTypes /\ RequestTypes /\ PromptTypes /\ WorkTypes /\ EventTypes

Pending == {pendingApproval, pendingReview} \ {NoId}

\* The two pending slots, the state and the turn always tell the same story: a
\* request that is pending is open, belongs to the active turn and is awaited,
\* it is the only one, no other request is open, and the runtime awaits the
\* user only for a request he can still decide.  The exception is a turn whose
\* file was replaced: restore_session_memory drops its request and not its state.
PendingMatchesState ==
  /\ pendingApproval = NoId \/ pendingReview = NoId
  /\ \A id \in Pending : approvals[id] = Request(turn, "open")
  /\ \A id \in DOMAIN approvals : approvals[id].status = "open" => id \in Pending
  /\ Pending # {} => state = "PENDING_APPROVAL"
  /\ state = "PENDING_APPROVAL" /\ "load" \notin touched => Pending # {}

\* The state a turn is in is known from outside: without an active turn the
\* runtime rests, and an idle runtime has none, so that pump_prompt_queue and
\* submit_prompt never start a turn on top of another; a turn that is active has
\* not been cancelled.  The exception is a turn whose compaction raised.
ActiveTurn ==
  /\ turn = NoTurn => state \in {"IDLE", "ERROR"}
  /\ state = "IDLE" /\ ~Compaction => turn = NoTurn
  /\ turn \notin cancelled

\* Every event names a turn that has begun, and what the worker is about to put
\* belongs to the turn it serves.
SignalTurns ==
  /\ \A i \in DOMAIN events : events[i].turn \in 1..turns
  /\ held # <<>> => working # NoTurn /\ held[1].turn = working

\* The places where the unfinished provider request of turn t can be.
InTasks(t)   == {<<"task", i>> : i \in {j \in DOMAIN tasks : tasks[j] = t}}
InWorker(t)  == IF working = t THEN {<<"worker", 0>>} ELSE {}
InEvents(t)  == {<<"event", i>> : i \in {j \in DOMAIN events :
                                            events[j].turn = t /\ events[j].kind # "delta"}}
Outstanding(t) == InTasks(t) \union InWorker(t) \union InEvents(t)

\* A processing turn waits for exactly one provider request, which is queued, in
\* the worker's hands or answered by an event not handled yet; any other active
\* turn waits for none, so no answer ever finds the state machine in a state it
\* may not leave.  The exception is the AgentErrorEvent of a prompt whose image
\* was missing: it meets the turn in state ERROR.
OneOutstanding ==
  turn # NoTurn =>
    /\ \A x, y \in Outstanding(turn) : x = y
    /\ state = "PROCESSING" <=> Outstanding(turn) # {} /\ state # "ERROR"
    /\ state = "ERROR" => /\ InTasks(turn) = {} /\ InWorker(turn) = {}
                          /\ \A i \in DOMAIN events :
                               events[i].turn = turn => events[i].kind = "error"

\* The text shown for an answer is the text the worker streamed for it, no
\* delta lost and none of another turn or of an earlier round mixed in, unless a
\* file load emptied it on the way.
StreamedTextIsWhole ==
  \A i \in DOMAIN events :
    /\ events[i].kind = "response"
    /\ events[i].turn = turn
    /\ \A j \in 1..(i - 1) : events[j].turn # turn \/ events[j].kind # "delta"
    /\ "load" \notin touched
    => streaming = events[i].text

\* The repair budget of a turn (ARCHITECTURE.md, Repair Budget Guard) as far as
\* the code keeps it: nobody cleared the history or loaded a file meanwhile.
RepairBudgetKept == touched = {} => repairsRun <= MaxPlanRepairs

\* An approval request is decided at most once, and by an id that was open: what
\* was executed, rejected or withdrawn is never executed afterwards.
ApprovalSingleUse ==
  [][\A id \in DOMAIN approvals :
       /\ id \in DOMAIN approvals'
       /\ approvals'[id] # approvals[id] =>
            /\ approvals[id].status = "open"
            /\ approvals'[id].turn = approvals[id].turn]_vars

\* Cancelling is final: a cancelled turn is never active again, no provider
\* request is submitted for it, and no request of it is opened or executed.
CancelledIsFinal ==
  [][\A t \in cancelled :
       /\ t \in cancelled' /\ turn' # t
       /\ \A i \in DOMAIN tasks' :
            tasks'[i] = t => \E j \in DOMAIN tasks : tasks[j] = t /\ i <= j
       /\ \A id \in DOMAIN approvals' :
            approvals'[id].turn = t /\ approvals'[id].status \in {"open", "executed"}
              => id \in DOMAIN approvals /\ approvals'[id] = approvals[id]]_vars

\* A prompt that leaves the queue to start is the oldest one waiting.
QueueInOrder ==
  [][turns' # turns /\ Len(queue') < Len(queue)
       => \A i \in DOMAIN queue : prompt' <= queue[i]]_vars

Waiting(p) == \E i \in DOMAIN queue : queue[i] = p

\* An exception left the turn between the two transitions around a call: it is active,
\* waits for nothing, and only a cancellation ends it.
Stranded == state = "EXECUTING_TOOL"

\* Prompts submitted while another turn is active are processed automatically
\* (README.md:228), except behind a turn that an exception stranded (runtime.py:293),
\* of which that line says nothing.  A prompt never waits for good: again and
\* again it has left the queue, or the user has a request to decide, or a turn to
\* cancel (pump_prompt_queue, TimerBridge.tick).
QueueMoves == \A p \in Prompts : []<>(~Waiting(p) \/ Pending # {} \/ Stranded)

\* The provider never keeps the user waiting for good: a processing turn ends, comes
\* to a request for approval or is stranded by an exception of its own call, however
\* many tool rounds the model asks for.
TurnSettles == state = "PROCESSING" ~> (turn = NoTurn \/ Pending # {} \/ Stranded)
=============================================================================
