------------------------- MODULE AgentRuntimeProofs -------------------------
(***************************************************************************)
(* Theorems about AgentRuntime for every value of its constants: types and *)
(* turns first, then the requests a turn has made to the provider and to   *)
(* the user, the text streamed for it, and the order in which prompts      *)
(* leave the queue.                                                        *)
(***************************************************************************)
EXTENDS AgentRuntime, FiniteSetTheorems, SequenceTheorems, TLAPS

USE DEF NoTurn, NoId

-----------------------------------------------------------------------------
(***************************************************************************)
(* What the helpers return.                                                *)
(***************************************************************************)

\* The worker streams only events of the declared shape.
LEMMA SignalShapes ==
  ASSUME NEW t \in Nat
  PROVE  Delta(t) \in Event /\ Failure(t) \in Event
<1>1. <<>> \in Seq(CallKinds)
  OBVIOUS
<1>2. QED  BY <1>1 DEF Event, Delta, Failure

\* An answer to a provider request is an event.
LEMMA AnswerShape ==
  ASSUME NEW t \in Nat, NEW n \in Nat, NEW c \in Responses
  PROVE  Answer(t, c, n) \in Event
<1>1. c \in Seq(CallKinds)
  <2>1. PICK m \in 0..MaxCalls : c \in [1..m -> CallKinds]
    BY DEF Responses
  <2>2. m \in Nat
    BY ConstantsAssumption
  <2>3. QED  BY <2>1, <2>2
<1>2. QED  BY <1>1 DEF Event, Answer

\* What an abandoned tick leaves is the part of the queue it had not drained.
LEMMA AbortedQueue ==
  ASSUME events \in Seq(Event), drained \in 0..Len(events)
  PROVE  /\ SubSeq(events, drained + 1, Len(events)) \in Seq(Event)
         /\ Len(SubSeq(events, drained + 1, Len(events))) = Len(events) - drained
         /\ \A i \in 1..(Len(events) - drained) :
              SubSeq(events, drained + 1, Len(events))[i] = events[i + drained]
<1>1. \A i \in (drained + 1)..Len(events) : events[i] \in Event
  OBVIOUS
<1>2. drained + 1 \in Int /\ Len(events) \in Int
  OBVIOUS
<1>3. QED  BY <1>1, <1>2, SubSeqProperties

\* An abandoned tick keeps the types of the event queue.
LEMMA AbortTickTypes ==
  ASSUME EventTypes, AbortTick
  PROVE  EventTypes'
<1>1. events \in Seq(Event) /\ Len(events) \in Nat /\ drained \in 0..Len(events)
  BY DEF EventTypes
<1>2. /\ events' = SubSeq(events, drained + 1, Len(events))
      /\ drained' = 0 /\ ticking' = FALSE
  BY DEF AbortTick
<1>3. events' \in Seq(Event)
  BY <1>1, <1>2, AbortedQueue
<1>4. drained' \in 0..Len(events')
  BY <1>2, <1>3
<1>5. QED  BY <1>2, <1>3, <1>4 DEF EventTypes

\* Handing a turn back to the worker, or closing it, adds at most one task of
\* that turn and one failure of it.
LEMMA ResubmitOutcome ==
  ASSUME NEW t, NEW evs, Resubmit(t, evs) \/ CloseWithError(t, evs)
  PROVE  \/ /\ state' = "PROCESSING" /\ turn' = turn
            /\ tasks' = Append(tasks, t) /\ events' = evs
         \/ /\ state' = "ERROR" /\ turn' = NoTurn
            /\ tasks' = tasks /\ events' = Append(evs, Failure(t))
BY Zenon DEF Resubmit, CloseWithError

\* Starting a prompt is refused without effect, or begins the next turn.
LEMMA StartPromptOutcome ==
  ASSUME NEW p, StartPrompt(p)
  PROVE  \/ /\ state' = IF state = "ERROR" THEN "IDLE" ELSE state
            /\ UNCHANGED <<turns, turn, cancelled, prompt, touched, rounds, repairs, planFailed,
                           repairsRun, streaming, tasks, events>>
         \/ /\ turns' = turns + 1 /\ turn' = turns + 1 /\ prompt' = p
            /\ rounds' = 0 /\ repairs' = 0 /\ planFailed' = FALSE /\ streaming' = 0
            /\ touched' = {} /\ repairsRun' = 0 /\ cancelled' = cancelled
            /\ \/ state' = "PROCESSING" /\ tasks' = Append(tasks, turns + 1) /\ events' = events
               \/ /\ state' = "ERROR" /\ tasks' = tasks
                  /\ events' = Append(events, Failure(turns + 1))
               \/ /\ Compaction /\ state' = "IDLE" /\ tasks' = tasks /\ events' = events
BY DEF StartPrompt, RefusePrompt, BeginTurn, turnVars, budgetVars

\* Settling a request changes its status and keeps the log's shape.
LEMMA SettleType ==
  ASSUME approvals \in Seq(Approval), NEW id \in DOMAIN approvals,
         NEW status \in {"open", "executed", "rejected", "void"}
  PROVE  Settle(id, status) \in Seq(Approval) /\ Len(Settle(id, status)) = Len(approvals)
<1>1. id \in 1..Len(approvals) /\ approvals[id] \in Approval
  OBVIOUS
<1>2. [approvals[id] EXCEPT !.status = status] \in Approval
  BY <1>1 DEF Approval
<1>3. Settle(id, status) = [approvals EXCEPT ![id] = [approvals[id] EXCEPT !.status = status]]
  BY DEF Settle
<1>4. QED  BY <1>1, <1>2, <1>3, ExceptSeq

\* Withdrawing the open requests keeps the log's shape.
LEMMA VoidOpenType ==
  ASSUME approvals \in Seq(Approval)
  PROVE  VoidOpen \in Seq(Approval) /\ Len(VoidOpen) = Len(approvals)
<1>1. DOMAIN approvals = 1..Len(approvals) /\ Len(approvals) \in Nat
  OBVIOUS
<1>2. \A r \in Approval : [r EXCEPT !.status = "void"] \in Approval
  BY DEF Approval
<1>3. \A i \in 1..Len(approvals) : approvals[i] \in Approval
  OBVIOUS
<1>4. VoidOpen \in [1..Len(approvals) -> Approval]
  BY <1>1, <1>2, <1>3, Zenon DEF VoidOpen
<1>5. QED  BY <1>1, <1>4

\* A new request takes the next id.
LEMMA RequestType ==
  ASSUME approvals \in Seq(Approval), NEW t \in Nat,
         NEW status \in {"open", "executed", "rejected", "void"}
  PROVE  /\ Append(approvals, Request(t, status)) \in Seq(Approval)
         /\ Len(Append(approvals, Request(t, status))) = NextId
         /\ NextId \in Nat \ {0} /\ NextId > Len(approvals)
BY DEF Request, Approval, NextId

-----------------------------------------------------------------------------
(***************************************************************************)
(* Type correctness.  Groups of variables that an action leaves alone keep *)
(* their types together.                                                   *)
(***************************************************************************)

\* The initial state has its types.
LEMMA InitTypes == Init => TypeOK
<1> SUFFICES ASSUME Init PROVE TypeOK
  OBVIOUS
<1> USE ConstantsAssumption DEF Init, ConstantsAssumption
<1>1. /\ <<>> \in Seq(Approval) /\ <<>> \in Seq(1..0) /\ <<>> \in Seq(Event)
      /\ <<>> \in Seq(0..0) /\ Len(<<>>) = 0
  BY EmptySeq
<1>2. 0 \in Nat /\ 0 \in 0..0 /\ 0 \in 0..MaxPrompts /\ 0 <= QueueSize
  OBVIOUS
<1>3. TurnTypes /\ BudgetTypes
  <2>1. {} \in SUBSET (1..turns) /\ {} \in SUBSET {"clear", "load"}
    OBVIOUS
  <2>2. QED  BY <1>2, <2>1, Zenon DEF TurnTypes, BudgetTypes, States
<1>4. RequestTypes /\ PromptTypes
  BY <1>1, <1>2 DEF RequestTypes, PromptTypes
<1>5. WorkTypes
  BY <1>1, <1>2 DEF WorkTypes
<1>6. EventTypes
  BY <1>1, <1>2 DEF EventTypes
<1>7. QED  BY <1>3, <1>4, <1>5, <1>6 DEF TypeOK

\* The prompt that starts has a number below p, whatever becomes of it.
LEMMA StartPromptTypes ==
  ASSUME TypeOK, NEW p \in Nat, StartPrompt(p)
  PROVE  /\ TurnTypes' /\ BudgetTypes'
         /\ prompt' \in {prompt, p}
         /\ turns' \in Nat /\ turns <= turns'
         /\ tasks' \in Seq(0..turns')
         /\ events' \in Seq(Event) /\ Len(events') >= Len(events)
<1>1. turns \in Nat /\ Len(events) \in Nat /\ tasks \in Seq(0..turns) /\ events \in Seq(Event)
  BY DEF TypeOK, TurnTypes, WorkTypes, EventTypes
<1>2. Failure(turns + 1) \in Event
  BY <1>1, SignalShapes
<1>3. /\ Append(events, Failure(turns + 1)) \in Seq(Event)
      /\ Len(Append(events, Failure(turns + 1))) = Len(events) + 1
  BY <1>1, <1>2, AppendProperties
<1>4. tasks \in Seq(0..(turns + 1))
  <2>1. 0..turns \subseteq 0..(turns + 1)
    BY <1>1
  <2>2. QED  BY <1>1, <2>1, SeqMonotonic
<1>5. Append(tasks, turns + 1) \in Seq(0..(turns + 1))
  <2>1. turns + 1 \in 0..(turns + 1)
    BY <1>1
  <2>2. QED  BY <1>4, <2>1, AppendProperties
<1>6. \/ /\ UNCHANGED <<turns, turn, cancelled, prompt, touched, rounds, repairs, planFailed,
                      repairsRun, streaming>>
         /\ state' \in {state, "IDLE"}
      \/ /\ turns' = turns + 1 /\ turn' = turns + 1 /\ prompt' = p
         /\ rounds' = 0 /\ repairs' = 0 /\ planFailed' = FALSE /\ streaming' = 0
         /\ touched' = {} /\ repairsRun' = 0 /\ cancelled' = cancelled
         /\ state' \in {"PROCESSING", "ERROR", "IDLE"}
  BY DEF StartPrompt, RefusePrompt, BeginTurn, turnVars, budgetVars
<1>7. TurnTypes' /\ BudgetTypes' /\ prompt' \in {prompt, p} /\ turns' \in Nat /\ turns <= turns'
  <2>1. /\ state \in States /\ turn \in 0..turns /\ cancelled \subseteq 1..turns
        /\ touched \subseteq {"clear", "load"} /\ rounds \in Nat /\ repairs \in Nat
        /\ planFailed \in BOOLEAN /\ repairsRun \in Nat /\ streaming \in Nat
    BY DEF TypeOK, TurnTypes, BudgetTypes
  <2>2. state' \in States
    BY <1>6, <2>1 DEF States
  <2>3. CASE turns' = turns
    <3>1. UNCHANGED <<turns, turn, cancelled, prompt, touched, rounds, repairs, planFailed,
                      repairsRun, streaming>>
      BY <1>1, <1>6, <2>3
    <3>2. QED  BY <1>1, <2>1, <2>2, <3>1 DEF TurnTypes, BudgetTypes
  <2>4. CASE turns' = turns + 1
    <3>1. /\ turn' = turns + 1 /\ prompt' = p
          /\ rounds' = 0 /\ repairs' = 0 /\ planFailed' = FALSE /\ streaming' = 0
          /\ touched' = {} /\ repairsRun' = 0 /\ cancelled' = cancelled
      BY <1>1, <1>6, <2>4
    <3>2. BudgetTypes'
      BY <3>1 DEF BudgetTypes
    <3>3. turns' \in Nat /\ turn' \in 0..turns' /\ turns <= turns'
      BY <1>1, <2>4, <3>1
    <3>4. cancelled' \subseteq 1..turns' /\ touched' \subseteq {"clear", "load"}
      BY <1>1, <2>1, <2>4, <3>1
    <3>5. QED  BY <2>2, <3>1, <3>2, <3>3, <3>4 DEF TurnTypes
  <2>5. QED  BY <1>6, <2>3, <2>4
<1>8. tasks' \in Seq(0..turns')
  BY <1>1, <1>4, <1>5, StartPromptOutcome, Zenon
<1>9. events' \in Seq(Event) /\ Len(events') >= Len(events)
  <2>1. events' = events \/ events' = Append(events, Failure(turns + 1))
    BY StartPromptOutcome, Zenon
  <2>2. QED  BY <1>1, <1>3, <2>1
<1>10. QED  BY <1>7, <1>8, <1>9

\* Handing a turn back, or closing it, keeps the types of what it changes.
LEMMA ResubmitTypes ==
  ASSUME TypeOK, NEW t \in 0..turns, NEW evs \in Seq(Event),
         Resubmit(t, evs) \/ CloseWithError(t, evs)
  PROVE  /\ state' \in States /\ turn' \in 0..turns
         /\ tasks' \in Seq(0..turns)
         /\ events' \in Seq(Event) /\ Len(events') >= Len(evs)
<1>1. Failure(t) \in Event /\ Len(evs) \in Nat
  BY SignalShapes DEF TypeOK, TurnTypes
<1>2. /\ Append(evs, Failure(t)) \in Seq(Event)
      /\ Len(Append(evs, Failure(t))) >= Len(evs)
  BY <1>1, AppendProperties
<1>3. tasks \in Seq(0..turns) /\ Append(tasks, t) \in Seq(0..turns)
  BY AppendProperties DEF TypeOK, WorkTypes
<1>4. state' \in States /\ turn' \in 0..turns
  BY ResubmitOutcome DEF TypeOK, TurnTypes, States
<1>5. tasks' \in Seq(0..turns)
  BY <1>3, ResubmitOutcome, Zenon
<1>6. events' \in Seq(Event) /\ Len(events') >= Len(evs)
  <2>1. events' = evs \/ events' = Append(evs, Failure(t))
    BY ResubmitOutcome, Zenon
  <2>2. QED  BY <1>1, <1>2, <2>1
<1>7. QED  BY <1>4, <1>5, <1>6

\* Every step the worker takes keeps every variable in its type.
LEMMA WorkerTypes == TypeOK /\ Worker => TypeOK'
<1> SUFFICES ASSUME TypeOK, Worker PROVE TypeOK'
  OBVIOUS
<1>1. /\ UNCHANGED <<state, turns, turn, cancelled, prompt, touched, rounds, repairs, planFailed,
                     repairsRun, streaming, pendingApproval, pendingReview, approvals,
                     submitted, queue, ticking, drained>>
  BY DEF Worker, WorkerTake, WorkerReceive, WorkerPut, WorkerException,
         turnVars, budgetVars, approvalVars, promptVars, tickVars
<1>2. TurnTypes' /\ BudgetTypes' /\ RequestTypes' /\ PromptTypes'
  BY <1>1 DEF TypeOK, TurnTypes, BudgetTypes, RequestTypes, PromptTypes
<1>3. /\ turns \in Nat /\ tasks \in Seq(0..turns) /\ working \in 0..turns /\ working \in Nat
      /\ streamed \in Nat /\ held \in Seq(Event) /\ Len(held) <= 1
      /\ events \in Seq(Event) /\ ticking \in BOOLEAN /\ drained \in 0..Len(events)
  BY DEF TypeOK, TurnTypes, WorkTypes, EventTypes
<1>4. CASE WorkerTake
  <2>1. Tail(tasks) \in Seq(0..turns) /\ Head(tasks) \in 0..turns
    BY <1>3, <1>4, HeadTailProperties DEF WorkerTake
  <2>2. WorkTypes'
    BY <1>1, <1>3, <1>4, <2>1 DEF WorkerTake, WorkTypes
  <2>3. EventTypes'
    BY <1>1, <1>3, <1>4 DEF WorkerTake, EventTypes
  <2>4. QED  BY <1>2, <2>2, <2>3 DEF TypeOK
<1>5. CASE WorkerReceive
  <2>1. \A e \in Event : <<e>> \in Seq(Event) /\ Len(<<e>>) = 1
    OBVIOUS
  <2>2. /\ Delta(working) \in Event /\ Failure(working) \in Event
        /\ \A c \in Responses : Answer(working, c, streamed) \in Event
    BY <1>3, SignalShapes, AnswerShape
  <2>3. held' = held \/ \E e \in Event : held' = <<e>>
    BY <1>5, <2>2, Zenon DEF WorkerReceive
  <2>4. held' \in Seq(Event) /\ Len(held') <= 1
    <3>1. CASE held' = held
      BY <1>3, <3>1
    <3>2. CASE \E e \in Event : held' = <<e>>
      <4>1. PICK e \in Event : held' = <<e>>
        BY <3>2
      <4>2. <<e>> \in Seq(Event) /\ Len(<<e>>) <= 1
        BY <2>1
      <4>3. QED  BY <4>1, <4>2
    <3>3. QED  BY <2>3, <3>1, <3>2
  <2>5. working' \in 0..turns
    BY <1>3, <1>5 DEF WorkerReceive
  <2>6. WorkTypes' /\ EventTypes'
    BY <1>1, <1>3, <1>5, <2>4, <2>5 DEF WorkerReceive, WorkTypes, EventTypes
  <2>7. QED  BY <1>2, <2>6 DEF TypeOK
<1>6. CASE WorkerPut
  <2>1. held[1] \in Event
    BY <1>3, <1>6 DEF WorkerPut
  <2>2. events' \in Seq(Event) /\ Len(events') = Len(events) + 1
    BY <1>3, <1>6, <2>1, AppendProperties DEF WorkerPut
  <2>3. EventTypes'
    BY <1>1, <1>3, <2>2 DEF EventTypes
  <2>4. WorkTypes'
    BY <1>1, <1>3, <1>6 DEF WorkerPut, WorkTypes
  <2>5. QED  BY <1>2, <2>3, <2>4 DEF TypeOK
<1>7. CASE WorkerException
  <2>1. Failure(working) \in Event
    BY <1>3, SignalShapes
  <2>2. events' \in Seq(Event) /\ Len(events') = Len(events) + 1
    BY <1>3, <1>7, <2>1, AppendProperties DEF WorkerException
  <2>3. EventTypes'
    BY <1>1, <1>3, <2>2 DEF EventTypes
  <2>4. WorkTypes'
    BY <1>1, <1>3, <1>7 DEF WorkerException, WorkTypes
  <2>5. QED  BY <1>2, <2>3, <2>4 DEF TypeOK
<1>8. QED  BY <1>4, <1>5, <1>6, <1>7 DEF Worker

\* Every operation of the user keeps every variable in its type.
LEMMA UserTypes == TypeOK /\ User => TypeOK'
<1> SUFFICES ASSUME TypeOK, User PROVE TypeOK'
  OBVIOUS
<1>1. TurnTypes /\ BudgetTypes /\ RequestTypes /\ PromptTypes /\ WorkTypes /\ EventTypes
  BY DEF TypeOK
<1>2. CASE SubmitPrompt
  <2>1. UNCHANGED <<pendingApproval, pendingReview, approvals, working, streamed, held,
                    ticking, drained>>
    BY <1>2 DEF SubmitPrompt, approvalVars, workerVars, tickVars
  <2>2. RequestTypes'
    BY <1>1, <2>1 DEF RequestTypes
  <2>3. /\ submitted \in Nat /\ submitted' = submitted + 1 /\ submitted + 1 \in 1..submitted'
        /\ prompt \in 0..submitted /\ submitted' \in 0..MaxPrompts
    BY <1>1, <1>2, ConstantsAssumption DEF ConstantsAssumption, SubmitPrompt, PromptTypes
  <2>4. queue' \in Seq(1..submitted') /\ Len(queue') <= QueueSize
    <3>1. queue \in Seq(1..submitted') /\ Len(queue) <= QueueSize /\ QueueSize \in Nat
      <4>1. queue \in Seq(1..submitted) /\ Len(queue) <= QueueSize /\ QueueSize \in Nat
        BY <1>1, ConstantsAssumption DEF ConstantsAssumption, PromptTypes
      <4>2. 1..submitted \subseteq 1..submitted'
        BY <2>3
      <4>3. QED  BY <4>1, <4>2, SeqMonotonic
    <3>2. /\ Append(queue, submitted + 1) \in Seq(1..submitted')
          /\ Len(Append(queue, submitted + 1)) = Len(queue) + 1
      BY <2>3, <3>1, AppendProperties
    <3>3. \/ queue' = Append(queue, submitted + 1) /\ Len(queue) < QueueSize
          \/ queue' = queue
      BY <1>2 DEF SubmitPrompt, QueueHasRoom
    <3>4. Len(queue) \in Nat
      BY <3>1
    <3>5. CASE queue' = queue
      BY <3>1, <3>5
    <3>6. CASE queue' = Append(queue, submitted + 1) /\ Len(queue) < QueueSize
      <4>1. Len(queue) + 1 <= QueueSize
        BY <3>1, <3>4, <3>6
      <4>2. QED  BY <3>2, <3>6, <4>1
    <3>7. QED  BY <3>3, <3>5, <3>6
  <2>5. CASE StartPrompt(submitted + 1)
    <3>1. /\ TurnTypes' /\ BudgetTypes' /\ prompt' \in {prompt, submitted + 1}
          /\ turns' \in Nat /\ turns <= turns' /\ tasks' \in Seq(0..turns')
          /\ events' \in Seq(Event) /\ Len(events') >= Len(events)
      BY <2>3, <2>5, StartPromptTypes
    <3>2. PromptTypes'
      BY <2>3, <2>4, <3>1 DEF PromptTypes
    <3>3. WorkTypes'
      BY <1>1, <2>1, <3>1 DEF TurnTypes, WorkTypes
    <3>4. EventTypes'
      BY <1>1, <2>1, <3>1 DEF EventTypes
    <3>5. QED  BY <2>2, <3>1, <3>2, <3>3, <3>4 DEF TypeOK
  <2>6. CASE UNCHANGED <<state, turnVars, budgetVars, streaming, tasks, events>>
    <3>1. TurnTypes' /\ BudgetTypes'
      BY <1>1, <2>6 DEF TurnTypes, BudgetTypes, turnVars, budgetVars
    <3>2. PromptTypes'
      BY <2>3, <2>4, <2>6 DEF PromptTypes, turnVars
    <3>3. WorkTypes' /\ EventTypes'
      BY <1>1, <2>1, <2>6 DEF WorkTypes, EventTypes, turnVars
    <3>4. QED  BY <2>2, <3>1, <3>2, <3>3 DEF TypeOK
  <2>7. QED  BY <1>2, <2>5, <2>6 DEF SubmitPrompt
<1>3. CASE CancelCurrentTurn
  <2>1. UNCHANGED <<turns, prompt, touched, rounds, planFailed, repairsRun, streaming, submitted,
                    queue, tasks, working, streamed, held, events, ticking, drained>>
    BY <1>3 DEF CancelCurrentTurn, promptVars, workerVars, tickVars
  <2>2. PromptTypes' /\ WorkTypes' /\ EventTypes'
    BY <1>1, <2>1 DEF PromptTypes, WorkTypes, EventTypes
  <2>3. BudgetTypes'
    BY <1>1, <1>3, <2>1 DEF CancelCurrentTurn, BudgetTypes
  <2>4. RequestTypes'
    BY <1>1, <1>3, VoidOpenType DEF CancelCurrentTurn, DropRequests, RequestTypes
  <2>5. TurnTypes'
    <3>1. CASE turn = NoTurn
      BY <1>1, <1>3, <2>1, <3>1 DEF CancelCurrentTurn, TurnTypes
    <3>2. CASE turn # NoTurn
      <4>1. turn \in 1..turns
        BY <1>1, <3>2 DEF TurnTypes
      <4>2. cancelled' = cancelled \union {turn} /\ turn' = NoTurn /\ state' = "IDLE"
        BY <1>3, <3>2 DEF CancelCurrentTurn, AbandonTurn
      <4>3. QED  BY <1>1, <2>1, <4>1, <4>2 DEF TurnTypes, States
    <3>3. QED  BY <3>1, <3>2
  <2>6. QED  BY <2>2, <2>3, <2>4, <2>5 DEF TypeOK
<1>4. CASE ClearHistory
  <2>1. UNCHANGED <<state, turns, turn, cancelled, rounds, planFailed, repairsRun, streaming,
                    pendingApproval, pendingReview, approvals, submitted, tasks, working,
                    streamed, held, events, ticking, drained>>
    BY <1>4 DEF ClearHistory, approvalVars, workerVars, tickVars
  <2>2. RequestTypes' /\ WorkTypes' /\ EventTypes'
    BY <1>1, <2>1 DEF RequestTypes, WorkTypes, EventTypes
  <2>3. BudgetTypes'
    BY <1>1, <1>4, <2>1 DEF ClearHistory, BudgetTypes
  <2>4. PromptTypes'
    <3>1. <<>> \in Seq(1..submitted) /\ Len(<<>>) = 0 /\ QueueSize \in Nat /\ MaxPrompts \in Nat
      BY ConstantsAssumption DEF ConstantsAssumption
    <3>2. QED  BY <1>1, <1>4, <2>1, <3>1 DEF ClearHistory, PromptTypes
  <2>5. TurnTypes'
    BY <1>1, <1>4, <2>1 DEF ClearHistory, TurnTypes
  <2>6. QED  BY <2>2, <2>3, <2>4, <2>5 DEF TypeOK
<1>5. CASE RestoreSessionMemory
  <2>1. UNCHANGED <<state, turns, turn, cancelled, prompt, repairsRun, submitted, queue, tasks,
                    working, streamed, held, events, ticking, drained>>
    BY <1>5 DEF RestoreSessionMemory, promptVars, workerVars, tickVars
  <2>2. PromptTypes' /\ WorkTypes' /\ EventTypes'
    BY <1>1, <2>1 DEF PromptTypes, WorkTypes, EventTypes
  <2>3. BudgetTypes'
    BY <1>1, <1>5, <2>1 DEF RestoreSessionMemory, BudgetTypes
  <2>4. RequestTypes'
    BY <1>1, <1>5, VoidOpenType DEF RestoreSessionMemory, DropRequests, RequestTypes
  <2>5. TurnTypes'
    BY <1>1, <1>5, <2>1 DEF RestoreSessionMemory, TurnTypes
  <2>6. QED  BY <2>2, <2>3, <2>4, <2>5 DEF TypeOK
<1>6. ASSUME NEW id \in DOMAIN approvals, Decide(id) PROVE TypeOK'
  <2>1. /\ turns \in Nat /\ turn \in 0..turns /\ events \in Seq(Event)
        /\ Len(events) \in Nat /\ drained \in 0..Len(events)
    BY <1>1 DEF TurnTypes, EventTypes
  <2>2. Resubmit(turn, events) \/ CloseWithError(turn, events)
    BY <1>6 DEF Decide, ApproveTool, RejectTool, ApprovePlan, RejectPlan
  <2>3. /\ state' \in States /\ turn' \in 0..turns /\ tasks' \in Seq(0..turns)
        /\ events' \in Seq(Event) /\ Len(events') >= Len(events)
    BY <2>1, <2>2, ResubmitTypes
  <2>4. UNCHANGED <<turns, cancelled, prompt, touched, rounds, repairs, repairsRun, streaming,
                    submitted, queue, working, streamed, held, ticking, drained>>
    BY <1>6 DEF Decide, ApproveTool, RejectTool, ApprovePlan, RejectPlan,
                budgetVars, promptVars, workerVars, tickVars
  <2>5. RequestTypes'
    <3>1. \E status \in {"executed", "rejected"} : approvals' = Settle(id, status)
      BY <1>6 DEF Decide, ApproveTool, RejectTool, ApprovePlan, RejectPlan
    <3>2. approvals' \in Seq(Approval) /\ Len(approvals') = Len(approvals)
      BY <1>1, <3>1, SettleType DEF RequestTypes
    <3>3. pendingApproval' \in {pendingApproval, NoId} /\ pendingReview' \in {pendingReview, NoId}
      BY <1>6 DEF Decide, ApproveTool, RejectTool, ApprovePlan, RejectPlan, ToolRequest, PlanRequest
    <3>4. Len(approvals) \in Nat
      BY <1>1 DEF RequestTypes
    <3>5. QED  BY <1>1, <3>2, <3>3, <3>4 DEF RequestTypes
  <2>6. BudgetTypes'
    <3>1. planFailed' \in BOOLEAN
      BY <1>1, <1>6 DEF Decide, ApproveTool, RejectTool, ApprovePlan, RejectPlan, BudgetTypes, budgetVars
    <3>2. QED  BY <1>1, <2>4, <3>1 DEF BudgetTypes
  <2>7. TurnTypes' /\ PromptTypes'
    BY <1>1, <2>3, <2>4 DEF TurnTypes, PromptTypes
  <2>8. WorkTypes' /\ EventTypes'
    BY <1>1, <2>1, <2>3, <2>4 DEF WorkTypes, EventTypes
  <2>9. QED  BY <2>5, <2>6, <2>7, <2>8 DEF TypeOK
<1>7. QED  BY <1>2, <1>3, <1>4, <1>5, <1>6 DEF User

\* The event a tick handles next, and what is left behind it.
LEMMA NextEventTypes ==
  ASSUME EventTypes, NextEvent
  PROVE  /\ events # <<>> /\ Head(events) \in Event /\ Head(events) = events[1]
         /\ Rest \in Seq(Event) /\ Len(Rest) = Len(events) - 1 /\ Len(Rest) \in Nat
         /\ \A i \in 1..Len(Rest) : Rest[i] = events[i + 1]
         /\ drained - 1 \in 0..Len(Rest)
<1>1. events \in Seq(Event) /\ drained \in 1..Len(events)
  BY DEF EventTypes, NextEvent
<1>2. events # <<>> /\ Head(events) = events[1] /\ Len(events) \in Nat
  BY <1>1
<1>3. QED  BY <1>1, <1>2, HeadTailProperties DEF Rest

\* What a response does to the turn and to the queues: the turn goes back to the
\* worker or fails, or it ends or waits, or the tick breaks off.
LEMMA ResponseOutcome ==
  ASSUME HandleResponse
  PROVE  /\ LiveResponse
         /\ \/ Consume /\ (Resubmit(turn, Rest) \/ CloseWithError(turn, Rest))
            \/ /\ Consume /\ events' = Rest /\ UNCHANGED tasks
               /\ \/ state' = "IDLE" /\ turn' = NoTurn
                  \/ state' = "PENDING_APPROVAL" /\ turn' = turn
            \/ AbortTick /\ state' = "EXECUTING_TOOL" /\ UNCHANGED <<turn, tasks>>
<1>1. LiveResponse => Response.turn = turn
  BY DEF LiveResponse, Live, Stale, Response
<1>2. CASE FinishTurn
  BY <1>2 DEF FinishTurn
<1>3. CASE ExceedToolRounds
  BY <1>1, <1>3 DEF ExceedToolRounds
<1>4. CASE AllCallsDone
  BY <1>1, <1>4 DEF AllCallsDone, ReachCall
<1>5. ASSUME NEW k \in DOMAIN Response.calls, HandleCall(k)
      PROVE  /\ LiveResponse
             /\ \/ Consume /\ (Resubmit(turn, Rest) \/ CloseWithError(turn, Rest))
                \/ /\ Consume /\ events' = Rest /\ UNCHANGED tasks
                   /\ state' = "PENDING_APPROVAL" /\ turn' = turn
                \/ AbortTick /\ state' = "EXECUTING_TOOL" /\ UNCHANGED <<turn, tasks>>
  BY <1>1, <1>5 DEF HandleCall, CallFails, CallRaises, AwaitApproval, ExceedPlanRepairs,
       PlanInvalid, PlanAutoApproved, AwaitPlanReview, ReachPlan, ReachCall
<1>6. QED  BY <1>2, <1>3, <1>4, <1>5 DEF HandleResponse

\* What a response does to the requests: at most one more, and only an open one
\* becomes pending and is awaited.
LEMMA ResponseRequests ==
  ASSUME HandleResponse
  PROVE  \/ /\ UNCHANGED <<approvals, pendingApproval, pendingReview>>
            /\ state' # "PENDING_APPROVAL"
         \/ /\ approvals' = Append(approvals, Request(turn, "executed"))
            /\ UNCHANGED <<pendingApproval, pendingReview>>
            /\ state' # "PENDING_APPROVAL"
         \/ /\ approvals' = Append(approvals, Request(turn, "open"))
            /\ state' = "PENDING_APPROVAL"
            /\ \/ pendingApproval' = NextId /\ UNCHANGED pendingReview
               \/ pendingReview' = NextId /\ UNCHANGED pendingApproval
<1> USE DEF approvalVars, Resubmit, CloseWithError
<1>1. LiveResponse => Response.turn = turn
  BY DEF LiveResponse, Live, Stale, Response
<1>2. CASE FinishTurn \/ ExceedToolRounds \/ AllCallsDone
  BY <1>2 DEF FinishTurn, ExceedToolRounds, AllCallsDone
<1>3. CASE \E k \in DOMAIN Response.calls : HandleCall(k)
  <2>1. PICK k \in DOMAIN Response.calls : HandleCall(k)
    BY <1>3
  <2>2. CASE CallFails(k) \/ CallRaises(k) \/ ExceedPlanRepairs(k) \/ PlanInvalid(k)
    BY <2>2 DEF CallFails, CallRaises, ExceedPlanRepairs, PlanInvalid
  <2>3. CASE PlanAutoApproved(k)
    BY <2>3 DEF PlanAutoApproved
  <2>4. CASE AwaitPlanReview(k)
    BY <2>4 DEF AwaitPlanReview
  <2>5. CASE AwaitApproval(k)
    BY <1>1, <2>5 DEF AwaitApproval, ReachCall
  <2>6. QED  BY <2>1, <2>2, <2>3, <2>4, <2>5 DEF HandleCall
<1>4. QED  BY <1>2, <1>3 DEF HandleResponse

\* Counters only ever move within their type.
LEMMA ResponseBudget ==
  ASSUME BudgetTypes, HandleResponse
  PROVE  BudgetTypes'
<1> USE DEF BudgetTypes, budgetVars, ReachPlan, ReachCall, CountRound, ClearStreaming
<1>1. CASE FinishTurn
  BY <1>1 DEF FinishTurn
<1>2. CASE ExceedToolRounds
  BY <1>2 DEF ExceedToolRounds
<1>3. CASE AllCallsDone
  BY <1>3 DEF AllCallsDone
<1>4. ASSUME NEW k \in DOMAIN Response.calls, HandleCall(k) PROVE BudgetTypes'
  <2>1. CASE CallFails(k)
    BY <2>1 DEF CallFails
  <2>2. CASE CallRaises(k)
    BY <2>2 DEF CallRaises
  <2>3. CASE AwaitApproval(k)
    BY <2>3 DEF AwaitApproval
  <2>4. CASE ExceedPlanRepairs(k)
    BY <2>4 DEF ExceedPlanRepairs
  <2>5. CASE PlanInvalid(k)
    BY <2>5 DEF PlanInvalid
  <2>6. CASE PlanAutoApproved(k)
    BY <2>6 DEF PlanAutoApproved
  <2>7. CASE AwaitPlanReview(k)
    BY <2>7 DEF AwaitPlanReview
  <2>8. QED  BY <1>4, <2>1, <2>2, <2>3, <2>4, <2>5, <2>6, <2>7 DEF HandleCall
<1>5. QED  BY <1>1, <1>2, <1>3, <1>4 DEF HandleResponse

\* Every outcome of a response keeps every variable in its type.
LEMMA HandleResponseTypes == TypeOK /\ HandleResponse => TypeOK'
<1> SUFFICES ASSUME TypeOK, HandleResponse PROVE TypeOK'
  OBVIOUS
<1>1. TurnTypes /\ BudgetTypes /\ RequestTypes /\ PromptTypes /\ WorkTypes /\ EventTypes
  BY DEF TypeOK
<1>2. /\ turns \in Nat /\ turn \in 0..turns /\ turn \in Nat /\ state \in States
      /\ tasks \in Seq(0..turns) /\ drained \in Nat
      /\ Rest \in Seq(Event) /\ Len(Rest) \in Nat /\ drained - 1 \in 0..Len(Rest)
      /\ ticking \in BOOLEAN /\ events \in Seq(Event) /\ drained \in 0..Len(events)
  <2>1. NextEvent
    BY DEF HandleResponse
  <2>2. QED  BY <1>1, <2>1, NextEventTypes DEF TurnTypes, WorkTypes, EventTypes
<1>3. UNCHANGED <<turns, cancelled, prompt, touched, submitted, queue, working, streamed, held>>
  BY ResponseOutcome DEF LiveResponse, promptVars, workerVars
<1>4. BudgetTypes' /\ PromptTypes'
  BY <1>1, <1>3, ResponseBudget DEF PromptTypes
<1>5. RequestTypes'
  <2>1. /\ approvals \in Seq(Approval) /\ Len(approvals) \in Nat
        /\ pendingApproval \in 0..Len(approvals) /\ pendingReview \in 0..Len(approvals)
    BY <1>1 DEF RequestTypes
  <2>2. CASE UNCHANGED <<approvals, pendingApproval, pendingReview>>
    BY <1>1, <2>2 DEF RequestTypes
  <2>3. ASSUME NEW status \in {"open", "executed"},
               approvals' = Append(approvals, Request(turn, status)),
               pendingApproval' \in {pendingApproval, NextId},
               pendingReview' \in {pendingReview, NextId}
        PROVE  RequestTypes'
    <3>1. /\ approvals' \in Seq(Approval) /\ Len(approvals') = NextId
          /\ NextId \in Nat \ {0} /\ NextId > Len(approvals)
      BY <1>2, <2>1, <2>3, RequestType
    <3>2. QED  BY <2>1, <2>3, <3>1 DEF RequestTypes
  <2>4. QED  BY <2>2, <2>3, ResponseRequests
<1>6. /\ state' \in States /\ turn' \in 0..turns /\ tasks' \in Seq(0..turns)
      /\ events' \in Seq(Event) /\ ticking' \in BOOLEAN /\ drained' \in 0..Len(events')
  <2>1. CASE Consume /\ (Resubmit(turn, Rest) \/ CloseWithError(turn, Rest))
    <3>1. /\ state' \in States /\ turn' \in 0..turns /\ tasks' \in Seq(0..turns)
          /\ events' \in Seq(Event) /\ Len(events') >= Len(Rest)
      BY <1>2, <2>1, ResubmitTypes
    <3>2. Len(events') \in Nat /\ drained' = drained - 1 /\ ticking' = ticking
      BY <2>1, <3>1 DEF Consume
    <3>3. QED  BY <1>2, <3>1, <3>2
  <2>2. CASE /\ Consume /\ events' = Rest /\ UNCHANGED tasks
             /\ turn' \in {turn, NoTurn} /\ state' \in States
    BY <1>2, <2>2 DEF Consume
  <2>3. CASE AbortTick /\ state' = "EXECUTING_TOOL" /\ UNCHANGED <<turn, tasks>>
    <3>1. events' \in Seq(Event) /\ ticking' \in BOOLEAN /\ drained' \in 0..Len(events')
      BY <1>1, <2>3, AbortTickTypes DEF EventTypes
    <3>2. QED  BY <1>2, <2>3, <3>1 DEF States
  <2>4. QED  BY <2>1, <2>2, <2>3, ResponseOutcome DEF States
<1>7. TurnTypes' /\ WorkTypes' /\ EventTypes'
  BY <1>1, <1>3, <1>6 DEF TurnTypes, WorkTypes, EventTypes
<1>8. QED  BY <1>4, <1>5, <1>7 DEF TypeOK

\* Every step of the timer callback keeps every variable in its type.
LEMMA TickTypes == TypeOK /\ Tick => TypeOK'
<1> SUFFICES ASSUME TypeOK, Tick PROVE TypeOK'
  OBVIOUS
<1>1. TurnTypes /\ BudgetTypes /\ RequestTypes /\ PromptTypes /\ WorkTypes /\ EventTypes
  BY DEF TypeOK
<1>2. CASE TickBegin
  <2>1. UNCHANGED <<state, turns, turn, cancelled, prompt, touched, rounds, repairs, planFailed,
                    repairsRun, streaming, pendingApproval, pendingReview, approvals, submitted,
                    queue, tasks, working, streamed, held, events>>
    BY <1>2 DEF TickBegin, turnVars, budgetVars, approvalVars, promptVars, workerVars
  <2>2. TurnTypes' /\ BudgetTypes' /\ RequestTypes' /\ PromptTypes' /\ WorkTypes'
    BY <1>1, <2>1 DEF TurnTypes, BudgetTypes, RequestTypes, PromptTypes, WorkTypes
  <2>3. EventTypes'
    <3>1. events \in Seq(Event) /\ Len(events) \in Nat /\ ticking' = TRUE
      BY <1>1, <1>2 DEF EventTypes, TickBegin
    <3>2. drained' \in 0..Len(events)
      BY <1>2, <3>1, ConstantsAssumption DEF TickBegin, ConstantsAssumption
    <3>3. QED  BY <2>1, <3>1, <3>2 DEF EventTypes
  <2>4. QED  BY <2>2, <2>3 DEF TypeOK
<1>3. CASE TickEnd
  <2>1. UNCHANGED <<submitted, pendingApproval, pendingReview, approvals, working, streamed, held,
                    drained>>
    BY <1>3 DEF TickEnd, approvalVars, workerVars
  <2>2. RequestTypes' /\ drained' = 0 /\ ticking' = FALSE
    BY <1>1, <1>3, <2>1 DEF RequestTypes, TickEnd
  <2>3. CASE queue # <<>> /\ queue' = Tail(queue) /\ StartPrompt(Head(queue))
    <3>1. /\ queue \in Seq(1..submitted) /\ Len(queue) <= QueueSize /\ Len(queue) \in Nat
          /\ QueueSize \in Nat /\ submitted \in Nat /\ prompt \in 0..submitted
      BY <1>1, ConstantsAssumption DEF PromptTypes, ConstantsAssumption
    <3>2. /\ Head(queue) \in 1..submitted /\ Tail(queue) \in Seq(1..submitted)
          /\ Len(Tail(queue)) = Len(queue) - 1
      BY <2>3, <3>1, HeadTailProperties
    <3>3. /\ TurnTypes' /\ BudgetTypes' /\ prompt' \in {prompt, Head(queue)}
          /\ turns' \in Nat /\ turns <= turns' /\ tasks' \in Seq(0..turns')
          /\ events' \in Seq(Event) /\ Len(events') >= Len(events)
      BY <2>3, <3>1, <3>2, StartPromptTypes
    <3>4. prompt' \in 0..submitted
      BY <3>1, <3>2, <3>3
    <3>5. PromptTypes'
      BY <1>1, <2>1, <2>3, <3>1, <3>2, <3>4 DEF PromptTypes
    <3>6. WorkTypes'
      BY <1>1, <2>1, <3>3 DEF TurnTypes, WorkTypes
    <3>7. EventTypes'
      <4>1. Len(events') \in Nat
        BY <3>3
      <4>2. drained' = 0 /\ 0 \in 0..Len(events')
        BY <2>2, <4>1
      <4>3. events' \in Seq(Event) /\ ticking' \in BOOLEAN
        BY <2>2, <3>3
      <4>4. QED  BY <4>2, <4>3 DEF EventTypes
    <3>8. QED  BY <2>2, <3>3, <3>5, <3>6, <3>7 DEF TypeOK
  <2>4. CASE UNCHANGED <<state, turnVars, budgetVars, streaming, tasks, events, queue>>
    <3>1. TurnTypes' /\ BudgetTypes'
      BY <1>1, <2>4 DEF TurnTypes, BudgetTypes, turnVars, budgetVars
    <3>2. PromptTypes' /\ WorkTypes'
      <4>1. UNCHANGED <<turns, prompt, tasks, queue>>
        BY <2>4 DEF turnVars
      <4>2. QED  BY <1>1, <2>1, <4>1 DEF PromptTypes, WorkTypes
    <3>3. EventTypes'
      BY <1>1, <2>1, <2>2, <2>4 DEF EventTypes
    <3>4. QED  BY <2>2, <3>1, <3>2, <3>3 DEF TypeOK
  <2>5. QED  BY <1>3, <2>3, <2>4 DEF TickEnd, PumpPromptQueue, NextPrompt
<1>4. CASE DropStale \/ HandleDelta \/ HandleError
  <2>1. /\ events \in Seq(Event) /\ drained \in 0..Len(events) /\ ticking \in BOOLEAN
        /\ Rest \in Seq(Event) /\ Len(Rest) \in Nat /\ drained - 1 \in 0..Len(Rest)
    <3>1. NextEvent
      BY <1>4 DEF DropStale, HandleDelta, HandleError, Live
    <3>2. QED  BY <1>1, <3>1, NextEventTypes DEF EventTypes
  <2>2. UNCHANGED <<turns, cancelled, prompt, touched, rounds, repairs, planFailed, repairsRun,
                    pendingApproval, pendingReview, approvals, submitted, queue, tasks, working,
                    streamed, held>>
    BY <1>4 DEF DropStale, HandleDelta, HandleError, turnVars, budgetVars, approvalVars,
                promptVars, workerVars
  <2>3. RequestTypes' /\ PromptTypes' /\ WorkTypes'
    BY <1>1, <2>2 DEF RequestTypes, PromptTypes, WorkTypes
  <2>4. BudgetTypes'
    <3>1. streaming' \in {streaming, streaming + 1}
      BY <1>4 DEF DropStale, HandleDelta, HandleError
    <3>2. QED  BY <1>1, <2>2, <3>1 DEF BudgetTypes
  <2>5. TurnTypes'
    <3>1. state' \in {state, "ERROR"} /\ turn' \in {turn, NoTurn}
      BY <1>4 DEF DropStale, HandleDelta, HandleError, turnVars
    <3>2. QED  BY <1>1, <2>2, <3>1 DEF TurnTypes, States
  <2>6. EventTypes'
    <3>1. CASE Consume /\ events' = Rest
      BY <2>1, <3>1 DEF Consume, EventTypes
    <3>2. CASE AbortTick
      BY <1>1, <3>2, AbortTickTypes
    <3>3. QED  BY <1>4, <3>1, <3>2 DEF DropStale, HandleDelta, HandleError, Rest
  <2>7. QED  BY <2>3, <2>4, <2>5, <2>6 DEF TypeOK
<1>5. CASE HandleResponse
  BY <1>5, HandleResponseTypes
<1>6. QED  BY <1>2, <1>3, <1>4, <1>5 DEF Tick, ProcessEvent

\* A stuttering step keeps every variable in its type.
LEMMA StutterTypes == TypeOK /\ UNCHANGED vars => TypeOK'
BY DEF TypeOK, TurnTypes, BudgetTypes, RequestTypes, PromptTypes, WorkTypes, EventTypes,
       vars, turnVars, budgetVars, approvalVars, promptVars, workerVars, tickVars

\* Every variable has its type in every reachable state, whatever the bounds.
THEOREM TypeCorrect == Spec => []TypeOK
<1>1. Init => TypeOK
  BY InitTypes
<1>2. TypeOK /\ [Next]_vars => TypeOK'
  <2> SUFFICES ASSUME TypeOK, [Next]_vars PROVE TypeOK'
    OBVIOUS
  <2>1. CASE Tick
    BY <2>1, TickTypes
  <2>2. CASE Worker
    BY <2>2, WorkerTypes
  <2>3. CASE User
    BY <2>3, UserTypes
  <2>4. CASE UNCHANGED vars
    BY <2>4, StutterTypes
  <2>5. QED  BY <2>1, <2>2, <2>3, <2>4 DEF Next
<1>3. QED  BY <1>1, <1>2, PTL DEF Spec

-----------------------------------------------------------------------------
(***************************************************************************)
(* The active turn.  ActiveTurn needs SignalTurns: a response must never   *)
(* match the absence of a turn, or it would hand no turn to the worker.    *)
(***************************************************************************)

\* Every event of evs names one of the first n turns.
AllFrom(evs, n) == \A i \in 1..Len(evs) : evs[i].turn \in 1..n

\* Putting an event of a turn that has begun keeps them all so.
LEMMA AllFromAppend ==
  ASSUME NEW evs \in Seq(Event), NEW e \in Event, NEW n \in Nat,
         AllFrom(evs, n), e.turn \in 1..n
  PROVE  AllFrom(Append(evs, e), n)
<1>1. /\ Len(evs) \in Nat /\ Len(Append(evs, e)) = Len(evs) + 1
      /\ \A i \in 1..Len(evs) : Append(evs, e)[i] = evs[i]
      /\ Append(evs, e)[Len(evs) + 1] = e
  BY AppendProperties
<1>2. \A i \in 1..(Len(evs) + 1) : i \in 1..Len(evs) \/ i = Len(evs) + 1
  BY <1>1
<1>3. QED  BY <1>1, <1>2, Zenon DEF AllFrom

\* What SignalTurns says of the event queue, by its indices.
LEMMA SignalsAreFrom ==
  ASSUME TypeOK
  PROVE  /\ SignalTurns <=> /\ AllFrom(events, turns)
                            /\ held # <<>> => working # NoTurn /\ held[1].turn = working
         /\ events \in Seq(Event) /\ turns \in Nat
<1>1. events \in Seq(Event) /\ turns \in Nat /\ DOMAIN events = 1..Len(events)
  BY DEF TypeOK, TurnTypes, EventTypes
<1>2. QED  BY <1>1 DEF SignalTurns, AllFrom

\* The converse, for the state after a step.
LEMMA SignalsAreFromNext ==
  ASSUME TypeOK', AllFrom(events', turns'),
         held' # <<>> => working' # NoTurn /\ held'[1].turn = working'
  PROVE  SignalTurns'
<1>1. events' \in Seq(Event) /\ DOMAIN events' = 1..Len(events')
  BY DEF TypeOK, EventTypes
<1>2. QED  BY <1>1 DEF SignalTurns, AllFrom

\* A prompt starts only when no turn is active, and its turn is a new one.
LEMMA StartPromptTurn ==
  ASSUME TypeOK, ActiveTurn, SignalTurns, ~MustWait, NEW p, StartPrompt(p)
  PROVE  ActiveTurn' /\ AllFrom(events', turns')
<1>1. /\ turns \in Nat /\ cancelled \subseteq 1..turns /\ state \in States
      /\ events \in Seq(Event) /\ AllFrom(events, turns)
  BY SignalsAreFrom DEF TypeOK, TurnTypes
<1>2. turn = NoTurn /\ state \in {"IDLE", "ERROR"}
  BY DEF MustWait, ActiveTurn
<1>3. CASE /\ state' = IF state = "ERROR" THEN "IDLE" ELSE state
           /\ UNCHANGED <<turns, turn, cancelled, events>>
  BY <1>1, <1>2, <1>3 DEF ActiveTurn
<1>4. CASE /\ turns' = turns + 1 /\ turn' = turns + 1 /\ cancelled' = cancelled
           /\ \/ state' = "PROCESSING" /\ events' = events
              \/ state' = "ERROR" /\ events' = Append(events, Failure(turns + 1))
              \/ Compaction /\ state' = "IDLE" /\ events' = events
  <2>1. ActiveTurn'
    <3>1. turns + 1 # NoTurn /\ turns + 1 \notin cancelled
      BY <1>1
    <3>2. QED  BY <1>4, <3>1 DEF ActiveTurn
  <2>2. AllFrom(events, turns + 1)
    BY <1>1 DEF AllFrom
  <2>3. /\ Failure(turns + 1) \in Event /\ Failure(turns + 1).turn \in 1..(turns + 1)
        /\ turns + 1 \in Nat
    BY <1>1, SignalShapes DEF Failure
  <2>4. AllFrom(Append(events, Failure(turns + 1)), turns + 1)
    BY <1>1, <2>2, <2>3, AllFromAppend
  <2>5. QED  BY <1>4, <2>1, <2>2, <2>4
<1>5. QED  BY <1>3, <1>4, StartPromptOutcome

\* A turn that is handed back or closed was active.
LEMMA ResubmitTurn ==
  ASSUME TypeOK, ActiveTurn, turn # NoTurn, NEW evs \in Seq(Event), AllFrom(evs, turns),
         Resubmit(turn, evs) \/ CloseWithError(turn, evs), UNCHANGED <<turns, cancelled>>
  PROVE  ActiveTurn' /\ AllFrom(events', turns')
<1>1. turns \in Nat /\ turn \in 1..turns /\ cancelled \subseteq 1..turns
  BY DEF TypeOK, TurnTypes
<1>2. Failure(turn) \in Event /\ Failure(turn).turn \in 1..turns
  BY <1>1, SignalShapes DEF Failure
<1>3. AllFrom(Append(evs, Failure(turn)), turns)
  BY <1>1, <1>2, AllFromAppend
<1>4. CASE state' = "PROCESSING" /\ turn' = turn /\ events' = evs
  BY <1>4 DEF ActiveTurn
<1>5. CASE state' = "ERROR" /\ turn' = NoTurn /\ events' = Append(evs, Failure(turn))
  <2>1. NoTurn \notin cancelled
    BY <1>1
  <2>2. QED  BY <1>3, <1>5, <2>1 DEF ActiveTurn
<1>6. QED  BY <1>4, <1>5, ResubmitOutcome

\* The worker does not touch the turn, and its events name the turn it serves.
LEMMA WorkerKeepsTurn == TypeOK /\ ActiveTurn /\ SignalTurns /\ Worker => ActiveTurn' /\ SignalTurns'
<1> SUFFICES ASSUME TypeOK, ActiveTurn, SignalTurns, Worker PROVE ActiveTurn' /\ SignalTurns'
  OBVIOUS
<1>1. UNCHANGED <<state, turns, turn, cancelled>>
  BY DEF Worker, WorkerTake, WorkerReceive, WorkerPut, WorkerException, turnVars
<1>2. ActiveTurn'
  BY <1>1 DEF ActiveTurn
<1>3. TypeOK'
  BY WorkerTypes
<1>4. /\ turns \in Nat /\ events \in Seq(Event) /\ AllFrom(events, turns)
      /\ working \in 0..turns /\ held \in Seq(Event) /\ Len(held) <= 1
      /\ held # <<>> => working # NoTurn /\ held[1].turn = working
  BY SignalsAreFrom DEF TypeOK, WorkTypes
<1>5. SUFFICES /\ AllFrom(events', turns)
               /\ held' # <<>> => working' # NoTurn /\ held'[1].turn = working'
  BY <1>1, <1>2, <1>3, SignalsAreFromNext
<1>6. CASE WorkerTake
  BY <1>4, <1>6 DEF WorkerTake
<1>7. CASE WorkerReceive
  <2>1. held = <<>> /\ working # NoTurn /\ events' = events
    BY <1>7 DEF WorkerReceive
  <2>2. \/ held' = held
        \/ working' = working /\ \E e \in Event : held' = <<e>> /\ e.turn = working
    <3>1. working \in Nat /\ streamed \in Nat
      BY <1>4 DEF TypeOK, WorkTypes
    <3>2. /\ Delta(working) \in Event /\ Delta(working).turn = working
          /\ Failure(working) \in Event /\ Failure(working).turn = working
      BY <3>1, SignalShapes DEF Delta, Failure
    <3>3. \A c \in Responses : /\ Answer(working, c, streamed) \in Event
                              /\ Answer(working, c, streamed).turn = working
      BY <3>1, AnswerShape DEF Answer
    <3>4. QED  BY <1>7, <3>2, <3>3, Zenon DEF WorkerReceive
  <2>3. QED  BY <1>4, <2>1, <2>2
<1>8. CASE WorkerPut
  <2>1. held[1] \in Event /\ held[1].turn \in 1..turns
    BY <1>4, <1>8 DEF WorkerPut
  <2>2. AllFrom(Append(events, held[1]), turns)
    BY <1>4, <2>1, AllFromAppend
  <2>3. QED  BY <1>8, <2>2 DEF WorkerPut
<1>9. CASE WorkerException
  <2>1. Failure(working) \in Event /\ Failure(working).turn \in 1..turns
    BY <1>4, <1>9, SignalShapes DEF WorkerException, Failure
  <2>2. AllFrom(Append(events, Failure(working)), turns)
    BY <1>4, <2>1, AllFromAppend
  <2>3. QED  BY <1>9, <2>2 DEF WorkerException
<1>10. QED  BY <1>6, <1>7, <1>8, <1>9 DEF Worker

\* No operation of the user starts a turn on top of another.
LEMMA UserKeepsTurn == TypeOK /\ ActiveTurn /\ SignalTurns /\ User => ActiveTurn' /\ SignalTurns'
<1> SUFFICES ASSUME TypeOK, ActiveTurn, SignalTurns, User PROVE ActiveTurn' /\ SignalTurns'
  OBVIOUS
<1>1. TypeOK'
  BY UserTypes
<1>2. /\ turns \in Nat /\ turn \in 0..turns /\ cancelled \subseteq 1..turns /\ state \in States
      /\ events \in Seq(Event) /\ AllFrom(events, turns)
      /\ held # <<>> => working # NoTurn /\ held[1].turn = working
  BY SignalsAreFrom DEF TypeOK, TurnTypes
<1>3. UNCHANGED <<working, held>>
  BY DEF User, SubmitPrompt, CancelCurrentTurn, ClearHistory, RestoreSessionMemory, Decide,
         ApproveTool, RejectTool, ApprovePlan, RejectPlan, workerVars
<1>4. SUFFICES ActiveTurn' /\ AllFrom(events', turns')
  BY <1>1, <1>2, <1>3, SignalsAreFromNext
<1>5. CASE SubmitPrompt
  <2>1. CASE ~MustWait /\ StartPrompt(submitted + 1)
    BY <2>1, StartPromptTurn
  <2>2. CASE UNCHANGED <<state, turnVars, budgetVars, streaming, tasks, events>>
    BY <1>2, <2>2 DEF ActiveTurn, turnVars
  <2>3. QED  BY <1>5, <2>1, <2>2 DEF SubmitPrompt
<1>6. CASE CancelCurrentTurn
  <2>1. turns' = turns /\ events' = events
    BY <1>6 DEF CancelCurrentTurn
  <2>2. CASE turn = NoTurn
    BY <1>2, <1>6, <2>1, <2>2 DEF CancelCurrentTurn, ActiveTurn
  <2>3. CASE turn # NoTurn
    <3>1. cancelled' = cancelled \union {turn} /\ turn' = NoTurn /\ state' = "IDLE"
      BY <1>6, <2>3 DEF CancelCurrentTurn, AbandonTurn
    <3>2. NoTurn \notin cancelled'
      BY <1>2, <2>3, <3>1
    <3>3. QED  BY <1>2, <2>1, <3>1, <3>2 DEF ActiveTurn
  <2>4. QED  BY <2>2, <2>3
<1>7. CASE ClearHistory \/ RestoreSessionMemory
  <2>1. UNCHANGED <<state, turns, turn, cancelled, events>>
    BY <1>7 DEF ClearHistory, RestoreSessionMemory
  <2>2. QED  BY <1>2, <2>1 DEF ActiveTurn
<1>8. ASSUME NEW id \in DOMAIN approvals, Decide(id) PROVE ActiveTurn' /\ AllFrom(events', turns')
  <2>1. state = "PENDING_APPROVAL"
    BY <1>8 DEF Decide, ApproveTool, RejectTool, ApprovePlan, RejectPlan, ToolRequest, PlanRequest
  <2>2. turn # NoTurn
    BY <2>1 DEF ActiveTurn
  <2>3. /\ Resubmit(turn, events) \/ CloseWithError(turn, events)
        /\ UNCHANGED <<turns, cancelled>>
    BY <1>8 DEF Decide, ApproveTool, RejectTool, ApprovePlan, RejectPlan
  <2>4. QED  BY <1>2, <2>2, <2>3, ResubmitTurn
<1>9. QED  BY <1>5, <1>6, <1>7, <1>8 DEF User

\* No part of a tick starts a turn on top of another or revives a cancelled one.
LEMMA TickKeepsTurn == TypeOK /\ ActiveTurn /\ SignalTurns /\ Tick => ActiveTurn' /\ SignalTurns'
<1> SUFFICES ASSUME TypeOK, ActiveTurn, SignalTurns, Tick PROVE ActiveTurn' /\ SignalTurns'
  OBVIOUS
<1>1. TypeOK'
  BY TickTypes
<1>2. /\ turns \in Nat /\ turn \in 0..turns /\ cancelled \subseteq 1..turns /\ state \in States
      /\ events \in Seq(Event) /\ AllFrom(events, turns) /\ EventTypes
      /\ drained \in 0..Len(events) /\ Len(events) \in Nat
      /\ held # <<>> => working # NoTurn /\ held[1].turn = working
  BY SignalsAreFrom DEF TypeOK, TurnTypes, EventTypes
<1>3. UNCHANGED <<working, held>>
  <2>1. CASE TickBegin \/ TickEnd \/ DropStale \/ HandleDelta \/ HandleError
    BY <2>1 DEF TickBegin, TickEnd, DropStale, HandleDelta, HandleError, workerVars
  <2>2. CASE HandleResponse
    BY <2>2, ResponseOutcome DEF LiveResponse, workerVars
  <2>3. QED  BY <2>1, <2>2 DEF Tick, ProcessEvent
<1>4. SUFFICES ActiveTurn' /\ AllFrom(events', turns')
  BY <1>1, <1>2, <1>3, SignalsAreFromNext
<1>5. NextEvent => AllFrom(Rest, turns)
  <2>1. SUFFICES ASSUME NextEvent PROVE AllFrom(Rest, turns)
    OBVIOUS
  <2>2. /\ Len(Rest) = Len(events) - 1
        /\ \A i \in 1..Len(Rest) : Rest[i] = events[i + 1]
    BY <1>2, <2>1, NextEventTypes
  <2>3. \A i \in 1..Len(Rest) : i + 1 \in 1..Len(events)
    BY <1>2, <2>2
  <2>4. QED  BY <1>2, <2>2, <2>3 DEF AllFrom
<1>6. AbortTick => AllFrom(events', turns)
  <2>1. SUFFICES ASSUME AbortTick PROVE AllFrom(events', turns)
    OBVIOUS
  <2>2. /\ Len(events') = Len(events) - drained
        /\ \A i \in 1..(Len(events) - drained) : events'[i] = events[i + drained]
    BY <1>2, <2>1, AbortedQueue DEF AbortTick
  <2>3. \A i \in 1..(Len(events) - drained) : i + drained \in 1..Len(events)
    BY <1>2
  <2>4. QED  BY <1>2, <2>2, <2>3 DEF AllFrom
<1>7. CASE TickBegin
  <2>1. UNCHANGED <<state, turns, turn, cancelled, events>>
    BY <1>7 DEF TickBegin, turnVars
  <2>2. QED  BY <1>2, <2>1 DEF ActiveTurn
<1>8. CASE TickEnd
  <2>1. CASE ~MustWait /\ StartPrompt(NextPrompt)
    BY <2>1, StartPromptTurn
  <2>2. CASE UNCHANGED <<state, turnVars, events>>
    BY <1>2, <2>2 DEF ActiveTurn, turnVars
  <2>3. QED  BY <1>8, <2>1, <2>2 DEF TickEnd, PumpPromptQueue
<1>9. CASE DropStale \/ HandleDelta
  <2>1. NextEvent /\ events' = Rest /\ UNCHANGED <<state, turns, turn, cancelled>>
    BY <1>9 DEF DropStale, HandleDelta, Live, turnVars, Rest
  <2>2. QED  BY <1>5, <2>1 DEF ActiveTurn
<1>10. CASE HandleError
  <2>1. NextEvent /\ UNCHANGED <<turns, cancelled>>
    BY <1>10 DEF HandleError, Live
  <2>2. CASE state' = "ERROR" /\ turn' = NoTurn /\ events' = Rest
    BY <1>2, <1>5, <2>1, <2>2 DEF ActiveTurn
  <2>3. CASE AbortTick /\ UNCHANGED <<state, turn>>
    BY <1>6, <2>1, <2>3 DEF ActiveTurn
  <2>4. QED  BY <1>10, <2>2, <2>3 DEF HandleError, Rest
<1>11. CASE HandleResponse
  <2>1. NextEvent /\ UNCHANGED <<turns, cancelled>> /\ Head(events).turn = turn
    BY <1>11, ResponseOutcome DEF LiveResponse, Live, Stale
  <2>2. turn # NoTurn
    <3>1. events[1].turn = turn /\ 1 \in 1..Len(events)
      BY <1>2, <2>1, NextEventTypes
    <3>2. QED  BY <1>2, <3>1 DEF AllFrom
  <2>3. Rest \in Seq(Event)
    BY <1>2, <2>1, NextEventTypes
  <2>4. CASE Resubmit(turn, Rest) \/ CloseWithError(turn, Rest)
    BY <1>5, <2>1, <2>2, <2>3, <2>4, ResubmitTurn
  <2>5. CASE /\ events' = Rest
             /\ \/ state' = "IDLE" /\ turn' = NoTurn
                \/ state' = "PENDING_APPROVAL" /\ turn' = turn
    BY <1>2, <1>5, <2>1, <2>2, <2>5 DEF ActiveTurn
  <2>6. CASE AbortTick /\ state' = "EXECUTING_TOOL" /\ turn' = turn
    BY <1>6, <2>1, <2>2, <2>6 DEF ActiveTurn
  <2>7. QED  BY <1>11, <2>4, <2>5, <2>6, ResponseOutcome
<1>12. QED  BY <1>7, <1>8, <1>9, <1>10, <1>11 DEF Tick, ProcessEvent

\* The inductive invariant that ActiveTurn needs.
Inv == TypeOK /\ ActiveTurn /\ SignalTurns

\* It holds in every reachable state.
LEMMA InvHolds == Spec => []Inv
<1>1. Init => Inv
  <2>1. Init => TypeOK
    BY InitTypes
  <2>2. Init => ActiveTurn /\ SignalTurns
    BY DEF Init, ActiveTurn, SignalTurns
  <2>3. QED  BY <2>1, <2>2 DEF Inv
<1>2. Inv /\ [Next]_vars => Inv'
  <2> SUFFICES ASSUME Inv, [Next]_vars PROVE Inv'
    OBVIOUS
  <2> USE DEF Inv
  <2>1. CASE Tick
    BY <2>1, TickTypes, TickKeepsTurn
  <2>2. CASE Worker
    BY <2>2, WorkerTypes, WorkerKeepsTurn
  <2>3. CASE User
    BY <2>3, UserTypes, UserKeepsTurn
  <2>4. CASE UNCHANGED vars
    BY <2>4, StutterTypes DEF ActiveTurn, SignalTurns, vars, turnVars, workerVars
  <2>5. QED  BY <2>1, <2>2, <2>3, <2>4 DEF Next
<1>3. QED  BY <1>1, <1>2, PTL DEF Spec

\* Whatever the order of ticks, worker steps and operations of the user, a turn
\* is never started on top of another and a cancelled turn is never active.
THEOREM ActiveTurnHolds == Spec => []ActiveTurn
<1>1. Inv => ActiveTurn
  BY DEF Inv
<1>2. QED  BY <1>1, InvHolds, PTL

-----------------------------------------------------------------------------
(***************************************************************************)
(* Where the provider request of a turn is.                                *)
(***************************************************************************)

NotQueued(ts, t)  == \A i \in 1..Len(ts) : ts[i] # t
QueuedOnce(ts, t) == \A i, j \in 1..Len(ts) : ts[i] = t /\ ts[j] = t => i = j

\* e ends the request of turn t.
Final(e, t) == e.turn = t /\ e.kind # "delta"

NotAnswered(evs, t)  == \A i \in 1..Len(evs) : ~Final(evs[i], t)
AnsweredOnce(evs, t) == \A i, j \in 1..Len(evs) : Final(evs[i], t) /\ Final(evs[j], t) => i = j
OnlyErrors(evs, t)   == \A i \in 1..Len(evs) : evs[i].turn = t => evs[i].kind = "error"

\* The stations of turn t's request: none, in the task queue, in the worker's
\* hands, in the event queue; and the turn whose prompt had lost its image.
Quiet(t)    == NotQueued(tasks, t) /\ working # t /\ NotAnswered(events, t)
Queued(t)   == /\ QueuedOnce(tasks, t) /\ ~NotQueued(tasks, t)
               /\ working # t /\ NotAnswered(events, t)
Served(t)   == NotQueued(tasks, t) /\ working = t /\ NotAnswered(events, t)
Answered(t) == /\ NotQueued(tasks, t) /\ working # t
               /\ AnsweredOnce(events, t) /\ ~NotAnswered(events, t)
Failed(t)   == /\ NotQueued(tasks, t) /\ working # t
               /\ AnsweredOnce(events, t) /\ OnlyErrors(events, t)

\* The active turn's request is where its state says.
RequestInv ==
  turn # NoTurn =>
    /\ state = "PROCESSING" => Queued(turn) \/ Served(turn) \/ Answered(turn)
    /\ state = "ERROR" => Failed(turn)
    /\ state \notin {"PROCESSING", "ERROR"} => Quiet(turn)

\* A turn that was not queued is queued once when it is added.
LEMMA TaskAdded ==
  ASSUME NEW n \in Nat, NEW ts \in Seq(0..n), NEW t \in 0..n, NotQueued(ts, t)
  PROVE  QueuedOnce(Append(ts, t), t) /\ ~NotQueued(Append(ts, t), t)
<1>1. /\ Len(ts) \in Nat /\ Len(Append(ts, t)) = Len(ts) + 1
      /\ \A i \in 1..Len(ts) : Append(ts, t)[i] = ts[i]
      /\ Append(ts, t)[Len(ts) + 1] = t
  BY AppendProperties
<1>2. QED  BY <1>1 DEF NotQueued, QueuedOnce

\* Taking the first task takes the turn it names out of the queue.
LEMMA TaskTaken ==
  ASSUME NEW n \in Nat, NEW ts \in Seq(0..n), ts # <<>>, NEW t \in 0..n
  PROVE  /\ NotQueued(ts, t) => NotQueued(Tail(ts), t) /\ Head(ts) # t
         /\ QueuedOnce(ts, t) /\ Head(ts) = t => NotQueued(Tail(ts), t)
         /\ QueuedOnce(ts, t) /\ ~NotQueued(ts, t) /\ Head(ts) # t
              => QueuedOnce(Tail(ts), t) /\ ~NotQueued(Tail(ts), t)
<1>1. /\ Len(ts) \in Nat \ {0} /\ Head(ts) = ts[1] /\ Len(Tail(ts)) = Len(ts) - 1
      /\ \A i \in 1..Len(Tail(ts)) : Tail(ts)[i] = ts[i + 1]
  BY HeadTailProperties
<1>2. \A i \in 1..Len(Tail(ts)) : i + 1 \in 1..Len(ts) /\ i + 1 # 1
  BY <1>1
<1>3. \A i \in 1..Len(ts) : i = 1 \/ i - 1 \in 1..Len(Tail(ts))
  BY <1>1
<1>4. \A i \in 1..Len(ts) : i # 1 => Tail(ts)[i - 1] = ts[i]
  <2>1. TAKE i \in 1..Len(ts)
  <2>2. HAVE i # 1
  <2>3. i - 1 \in 1..Len(Tail(ts)) /\ (i - 1) + 1 = i
    BY <1>1, <1>3, <2>2
  <2>4. QED  BY <1>1, <2>3
<1>5. NotQueued(ts, t) => NotQueued(Tail(ts), t) /\ Head(ts) # t
  BY <1>1, <1>2 DEF NotQueued
<1>6. QueuedOnce(ts, t) /\ Head(ts) = t => NotQueued(Tail(ts), t)
  BY <1>1, <1>2 DEF NotQueued, QueuedOnce
<1>7. QueuedOnce(ts, t) => QueuedOnce(Tail(ts), t)
  BY <1>1, <1>2 DEF QueuedOnce
<1>8. ~NotQueued(ts, t) /\ Head(ts) # t => ~NotQueued(Tail(ts), t)
  BY <1>1, <1>3, <1>4 DEF NotQueued
<1>9. QED  BY <1>5, <1>6, <1>7, <1>8

\* An event is put behind the others.
LEMMA EventPut ==
  ASSUME NEW evs \in Seq(Event), NEW e \in Event, NEW t \in Nat
  PROVE  /\ NotAnswered(evs, t) /\ Final(e, t)
              => AnsweredOnce(Append(evs, e), t) /\ ~NotAnswered(Append(evs, e), t)
         /\ ~Final(e, t) =>
              /\ NotAnswered(Append(evs, e), t) <=> NotAnswered(evs, t)
              /\ AnsweredOnce(evs, t) => AnsweredOnce(Append(evs, e), t)
         /\ OnlyErrors(evs, t) /\ (e.turn = t => e.kind = "error")
              => OnlyErrors(Append(evs, e), t)
<1>1. /\ Len(evs) \in Nat /\ Len(Append(evs, e)) = Len(evs) + 1
      /\ \A i \in 1..Len(evs) : Append(evs, e)[i] = evs[i]
      /\ Append(evs, e)[Len(evs) + 1] = e
  BY AppendProperties
<1>2. /\ \A i \in 1..Len(evs) : i \in 1..(Len(evs) + 1)
      /\ Len(evs) + 1 \in 1..(Len(evs) + 1)
      /\ \A i \in 1..(Len(evs) + 1) : i \in 1..Len(evs) \/ i = Len(evs) + 1
  BY <1>1
<1>3. QED  BY <1>1, <1>2, Zenon DEF NotAnswered, AnsweredOnce, OnlyErrors

\* The first event is handled.
LEMMA EventHandled ==
  ASSUME EventTypes, NextEvent, NEW t \in Nat
  PROVE  /\ NotAnswered(events, t) => NotAnswered(Rest, t) /\ ~Final(Head(events), t)
         /\ AnsweredOnce(events, t) => AnsweredOnce(Rest, t)
         /\ AnsweredOnce(events, t) /\ Final(Head(events), t) => NotAnswered(Rest, t)
         /\ ~NotAnswered(events, t) /\ ~Final(Head(events), t) => ~NotAnswered(Rest, t)
         /\ OnlyErrors(events, t) => OnlyErrors(Rest, t)
<1>1. /\ Len(events) \in Nat /\ 1 \in 1..Len(events) /\ Head(events) = events[1]
      /\ Len(Rest) = Len(events) - 1
      /\ \A i \in 1..Len(Rest) : Rest[i] = events[i + 1]
  BY NextEventTypes DEF EventTypes
<1>2. \A i \in 1..Len(Rest) : i + 1 \in 1..Len(events) /\ i + 1 # 1
  BY <1>1
<1>3. \A i, j \in 1..Len(Rest) : i + 1 = j + 1 => i = j
  BY <1>1
<1>4. \A i \in 1..Len(events) : i # 1 => i - 1 \in 1..Len(Rest) /\ Rest[i - 1] = events[i]
  <2>1. TAKE i \in 1..Len(events)
  <2>2. HAVE i # 1
  <2>3. i - 1 \in 1..Len(Rest) /\ (i - 1) + 1 = i
    BY <1>1, <2>2
  <2>4. QED  BY <1>1, <2>3
<1>5. NotAnswered(events, t) => NotAnswered(Rest, t) /\ ~Final(Head(events), t)
  BY <1>1, <1>2, Zenon DEF NotAnswered
<1>6. AnsweredOnce(events, t) => AnsweredOnce(Rest, t)
  BY <1>1, <1>2, <1>3, Zenon DEF AnsweredOnce
<1>7. AnsweredOnce(events, t) /\ Final(Head(events), t) => NotAnswered(Rest, t)
  BY <1>1, <1>2, Zenon DEF AnsweredOnce, NotAnswered
<1>8. ~NotAnswered(events, t) /\ ~Final(Head(events), t) => ~NotAnswered(Rest, t)
  BY <1>1, <1>4, Zenon DEF NotAnswered
<1>9. OnlyErrors(events, t) => OnlyErrors(Rest, t)
  BY <1>1, <1>2, Zenon DEF OnlyErrors
<1>10. QED  BY <1>5, <1>6, <1>7, <1>8, <1>9

\* The rest of a batch is lost.
LEMMA EventsLost ==
  ASSUME EventTypes, NextEvent, AbortTick, NEW t \in Nat
  PROVE  /\ AnsweredOnce(events, t) /\ Final(Head(events), t) => NotAnswered(events', t)
         /\ AnsweredOnce(events, t) => AnsweredOnce(events', t)
         /\ OnlyErrors(events, t) => OnlyErrors(events', t)
<1>1. /\ events \in Seq(Event) /\ Len(events) \in Nat /\ drained \in 1..Len(events)
      /\ Head(events) = events[1] /\ 1 \in 1..Len(events)
  BY NextEventTypes DEF EventTypes, NextEvent
<1>2. /\ Len(events') = Len(events) - drained
      /\ \A i \in 1..Len(events') : events'[i] = events[i + drained]
  BY <1>1, AbortedQueue DEF AbortTick
<1>3. \A i \in 1..Len(events') : i + drained \in 1..Len(events) /\ i + drained # 1
  BY <1>1, <1>2
<1>4. \A i, j \in 1..Len(events') : i + drained = j + drained => i = j
  BY <1>1, <1>2
<1>5. QED  BY <1>1, <1>2, <1>3, <1>4, Zenon DEF NotAnswered, AnsweredOnce, OnlyErrors

\* Nothing of the next turn is anywhere before it begins.
LEMMA NextTurnFresh ==
  ASSUME Inv
  PROVE  /\ Quiet(turns + 1) /\ turns + 1 # NoTurn /\ turns + 1 \in Nat
         /\ \A i \in 1..Len(events) : events[i].turn # turns + 1
<1>1. /\ turns \in Nat /\ tasks \in Seq(0..turns) /\ working \in 0..turns
      /\ AllFrom(events, turns)
  BY SignalsAreFrom DEF Inv, TypeOK, TurnTypes, WorkTypes
<1>2. NotQueued(tasks, turns + 1)
  <2>1. \A i \in 1..Len(tasks) : tasks[i] \in 0..turns
    BY <1>1
  <2>2. QED  BY <1>1, <2>1 DEF NotQueued
<1>3. \A i \in 1..Len(events) : events[i].turn # turns + 1
  BY <1>1 DEF AllFrom
<1>4. QED  BY <1>1, <1>2, <1>3 DEF Quiet, NotAnswered, Final

\* A turn without a request is handed to the worker with one, or closed.
LEMMA ResubmitRequest ==
  ASSUME TypeOK, NEW evs, NotQueued(tasks, turn), working # turn, NotAnswered(evs, turn),
         Resubmit(turn, evs) \/ CloseWithError(turn, evs), UNCHANGED working
  PROVE  RequestInv'
<1>1. CASE turn' = NoTurn
  BY <1>1 DEF RequestInv
<1>2. CASE /\ state' = "PROCESSING" /\ turn' = turn
           /\ tasks' = Append(tasks, turn) /\ events' = evs
  <2>1. turns \in Nat /\ tasks \in Seq(0..turns) /\ turn \in 0..turns
    BY DEF TypeOK, TurnTypes, WorkTypes
  <2>2. QueuedOnce(tasks', turn) /\ ~NotQueued(tasks', turn)
    BY <1>2, <2>1, TaskAdded
  <2>3. Queued(turn)'
    BY <1>2, <2>2 DEF Queued
  <2>4. QED  BY <1>2, <2>3 DEF RequestInv
<1>3. QED  BY <1>1, <1>2, ResubmitOutcome

\* A prompt that starts makes the first request of its turn, or none.
LEMMA StartPromptRequest ==
  ASSUME Inv, ~MustWait, NEW p, StartPrompt(p), UNCHANGED working
  PROVE  RequestInv'
<1>1. turn = NoTurn
  BY DEF MustWait
<1>2. /\ turns \in Nat /\ tasks \in Seq(0..turns) /\ events \in Seq(Event)
      /\ turns + 1 \in Nat /\ tasks \in Seq(0..(turns + 1)) /\ turns + 1 \in 0..(turns + 1)
  <2>1. turns \in Nat /\ tasks \in Seq(0..turns) /\ events \in Seq(Event)
    BY DEF Inv, TypeOK, TurnTypes, WorkTypes, EventTypes
  <2>2. 0..turns \subseteq 0..(turns + 1)
    BY <2>1
  <2>3. QED  BY <2>1, <2>2, SeqMonotonic
<1>3. /\ NotQueued(tasks, turns + 1) /\ working # turns + 1 /\ NotAnswered(events, turns + 1)
      /\ OnlyErrors(events, turns + 1)
  BY NextTurnFresh DEF Quiet, OnlyErrors
<1>4. CASE turn' = turn
  BY <1>1, <1>4 DEF RequestInv
<1>5. CASE /\ turn' = turns + 1
           /\ state' = "PROCESSING" /\ tasks' = Append(tasks, turns + 1) /\ events' = events
  <2>1. QueuedOnce(tasks', turns + 1) /\ ~NotQueued(tasks', turns + 1)
    BY <1>2, <1>3, <1>5, TaskAdded
  <2>2. Queued(turn)'
    BY <1>3, <1>5, <2>1 DEF Queued
  <2>3. QED  BY <1>5, <2>2 DEF RequestInv
<1>6. CASE /\ turn' = turns + 1
           /\ state' = "ERROR" /\ tasks' = tasks /\ events' = Append(events, Failure(turns + 1))
  <2>1. /\ Failure(turns + 1) \in Event /\ Final(Failure(turns + 1), turns + 1)
        /\ Failure(turns + 1).kind = "error"
    BY <1>2, SignalShapes DEF Failure, Final
  <2>2. AnsweredOnce(events', turns + 1) /\ OnlyErrors(events', turns + 1)
    BY <1>2, <1>3, <1>6, <2>1, EventPut
  <2>3. Failed(turn)'
    BY <1>3, <1>6, <2>2 DEF Failed
  <2>4. QED  BY <1>6, <2>3 DEF RequestInv
<1>7. CASE turn' = turns + 1 /\ state' = "IDLE" /\ tasks' = tasks /\ events' = events
  <2>1. Quiet(turn)'
    BY <1>3, <1>7 DEF Quiet
  <2>2. QED  BY <1>7, <2>1 DEF RequestInv
<1>8. QED  BY <1>4, <1>5, <1>6, <1>7, StartPromptOutcome

\* The worker carries the active turn's request from station to station.
LEMMA WorkerKeepsRequest == Inv /\ RequestInv /\ Worker => RequestInv'
<1> SUFFICES ASSUME Inv, RequestInv, Worker, turn # NoTurn PROVE RequestInv'
  BY DEF RequestInv, Worker, WorkerTake, WorkerReceive, WorkerPut, WorkerException, turnVars
<1>1. UNCHANGED <<state, turn>>
  BY DEF Worker, WorkerTake, WorkerReceive, WorkerPut, WorkerException, turnVars
<1>2. /\ turns \in Nat /\ turn \in 0..turns /\ turn \in Nat /\ turn \notin cancelled
      /\ tasks \in Seq(0..turns) /\ working \in 0..turns /\ working \in Nat
      /\ held \in Seq(Event) /\ events \in Seq(Event)
      /\ held # <<>> => working # NoTurn /\ held[1].turn = working
  BY SignalsAreFrom DEF Inv, TypeOK, TurnTypes, WorkTypes, EventTypes, ActiveTurn
<1>3. SUFFICES /\ Queued(turn) => Queued(turn)' \/ Served(turn)'
               /\ Served(turn) => Served(turn)' \/ Answered(turn)'
               /\ Answered(turn) => Answered(turn)'
               /\ Failed(turn) => Failed(turn)'
               /\ Quiet(turn) => Quiet(turn)'
  BY <1>1 DEF RequestInv
<1>4. CASE WorkerTake
  <2>1. /\ working = NoTurn /\ tasks # <<>> /\ tasks' = Tail(tasks) /\ UNCHANGED events
        /\ working' = IF Head(tasks) \in cancelled THEN NoTurn ELSE Head(tasks)
    BY <1>4 DEF WorkerTake
  <2>2. CASE Head(tasks) = turn
    <3>1. working' = turn /\ ~NotQueued(tasks, turn)
      BY <1>2, <2>1, <2>2, TaskTaken
    <3>2. QueuedOnce(tasks, turn) => NotQueued(tasks', turn)
      BY <1>2, <2>1, <2>2, TaskTaken
    <3>3. QED  BY <1>1, <2>1, <3>1, <3>2 DEF Queued, Served, Answered, Failed, Quiet
  <2>3. CASE Head(tasks) # turn
    <3>1. working' # turn
      BY <2>1, <2>3
    <3>2. /\ NotQueued(tasks, turn) => NotQueued(tasks', turn)
          /\ QueuedOnce(tasks, turn) /\ ~NotQueued(tasks, turn)
               => QueuedOnce(tasks', turn) /\ ~NotQueued(tasks', turn)
      BY <1>2, <2>1, <2>3, TaskTaken
    <3>3. QED  BY <1>1, <2>1, <3>1, <3>2 DEF Queued, Served, Answered, Failed, Quiet
  <2>4. QED  BY <2>2, <2>3
<1>5. CASE WorkerReceive
  <2>1. working' = working \/ (working \in cancelled /\ working' = NoTurn)
    BY <1>5 DEF WorkerReceive
  <2>2. working' = turn <=> working = turn
    BY <1>2, <2>1
  <2>3. UNCHANGED <<tasks, events>>
    BY <1>5 DEF WorkerReceive
  <2>4. QED  BY <1>1, <2>2, <2>3 DEF Queued, Served, Answered, Failed, Quiet
<1>6. ASSUME NEW e \in Event, e.turn = working, events' = Append(events, e), tasks' = tasks,
             working # NoTurn,
             working' = IF e.kind = "delta" THEN working ELSE NoTurn
      PROVE  /\ Queued(turn) => Queued(turn)'
             /\ Served(turn) => Served(turn)' \/ Answered(turn)'
             /\ Answered(turn) => Answered(turn)'
             /\ Failed(turn) => Failed(turn)'
             /\ Quiet(turn) => Quiet(turn)'
  <2>1. CASE Final(e, turn)
    <3>1. working = turn /\ working' # turn
      BY <1>6, <2>1 DEF Final
    <3>2. NotAnswered(events, turn) => AnsweredOnce(events', turn) /\ ~NotAnswered(events', turn)
      BY <1>2, <1>6, <2>1, EventPut
    <3>3. QED  BY <1>1, <1>6, <3>1, <3>2 DEF Queued, Served, Answered, Failed, Quiet
  <2>2. CASE ~Final(e, turn)
    <3>1. working' = turn <=> working = turn
      BY <1>6, <2>2 DEF Final
    <3>2. /\ NotAnswered(events', turn) <=> NotAnswered(events, turn)
          /\ AnsweredOnce(events, turn) => AnsweredOnce(events', turn)
      BY <1>2, <1>6, <2>2, EventPut
    <3>3. working # turn /\ OnlyErrors(events, turn) => OnlyErrors(events', turn)
      BY <1>2, <1>6, EventPut
    <3>4. QED  BY <1>1, <1>6, <3>1, <3>2, <3>3 DEF Queued, Served, Answered, Failed, Quiet
  <2>3. QED  BY <2>1, <2>2
<1>7. CASE WorkerPut
  <2>1. held[1] \in Event /\ held[1].turn = working /\ working # NoTurn
    BY <1>2, <1>7 DEF WorkerPut
  <2>2. /\ events' = Append(events, held[1]) /\ tasks' = tasks
        /\ working' = IF held[1].kind = "delta" THEN working ELSE NoTurn
    BY <1>7 DEF WorkerPut
  <2>3. QED  BY <1>6, <2>1, <2>2
<1>8. CASE WorkerException
  <2>1. /\ Failure(working) \in Event /\ Failure(working).turn = working
        /\ Failure(working).kind = "error"
    BY <1>2, SignalShapes DEF Failure
  <2>2. /\ events' = Append(events, Failure(working)) /\ tasks' = tasks
        /\ working # NoTurn /\ working' = NoTurn
    BY <1>8 DEF WorkerException
  <2>3. QED  BY <1>6, <2>1, <2>2
<1>9. QED  BY <1>4, <1>5, <1>7, <1>8 DEF Worker

\* The user's operations submit a request only for a turn that has none.
LEMMA UserKeepsRequest == Inv /\ RequestInv /\ User => RequestInv'
<1> SUFFICES ASSUME Inv, RequestInv, User PROVE RequestInv'
  OBVIOUS
<1>1. UNCHANGED working
  BY DEF User, SubmitPrompt, CancelCurrentTurn, ClearHistory, RestoreSessionMemory, Decide,
         ApproveTool, RejectTool, ApprovePlan, RejectPlan, workerVars
<1>2. ASSUME UNCHANGED <<state, turn, tasks, events>> PROVE RequestInv'
  BY <1>1, <1>2 DEF RequestInv, Queued, Served, Answered, Failed, Quiet
<1>3. CASE SubmitPrompt
  <2>1. CASE ~MustWait /\ StartPrompt(submitted + 1)
    BY <1>1, <2>1, StartPromptRequest
  <2>2. CASE UNCHANGED <<state, turnVars, budgetVars, streaming, tasks, events>>
    BY <1>2, <2>2 DEF turnVars
  <2>3. QED  BY <1>3, <2>1, <2>2 DEF SubmitPrompt
<1>4. CASE CancelCurrentTurn
  <2>1. turn' = NoTurn
    BY <1>4 DEF CancelCurrentTurn, AbandonTurn
  <2>2. QED  BY <2>1 DEF RequestInv
<1>5. CASE ClearHistory \/ RestoreSessionMemory
  BY <1>2, <1>5 DEF ClearHistory, RestoreSessionMemory
<1>6. ASSUME NEW id \in DOMAIN approvals, Decide(id) PROVE RequestInv'
  <2>1. /\ state = "PENDING_APPROVAL"
        /\ Resubmit(turn, events) \/ CloseWithError(turn, events)
    BY <1>6 DEF Decide, ApproveTool, RejectTool, ApprovePlan, RejectPlan, ToolRequest, PlanRequest
  <2>2. Quiet(turn)
    BY <2>1 DEF RequestInv, Inv, ActiveTurn
  <2>3. QED  BY <1>1, <2>1, <2>2, ResubmitRequest DEF Quiet, Inv
<1>7. QED  BY <1>3, <1>4, <1>5, <1>6 DEF User

\* A response that is handled was the only request of a processing turn.
LEMMA HandledResponse ==
  ASSUME Inv, RequestInv, HandleResponse
  PROVE  /\ turn # NoTurn /\ turn \in Nat /\ state = "PROCESSING" /\ EventTypes /\ NextEvent
         /\ Final(Head(events), turn) /\ Answered(turn)
<1>1. /\ NextEvent /\ Head(events).turn = turn /\ Head(events).kind = "response"
  BY ResponseOutcome DEF LiveResponse, Live, Stale
<1>2. /\ turns \in Nat /\ turn \in Nat /\ EventTypes /\ AllFrom(events, turns)
  BY SignalsAreFrom DEF Inv, TypeOK, TurnTypes
<1>3. Head(events) = events[1] /\ 1 \in 1..Len(events)
  BY <1>1, <1>2, NextEventTypes DEF EventTypes
<1>4. turn # NoTurn
  BY <1>1, <1>2, <1>3 DEF AllFrom
<1>5. Final(Head(events), turn) /\ ~NotAnswered(events, turn) /\ ~OnlyErrors(events, turn)
  BY <1>1, <1>3 DEF Final, NotAnswered, OnlyErrors
<1>6. QED
  BY <1>1, <1>2, <1>4, <1>5 DEF RequestInv, Queued, Served, Answered, Failed, Quiet

\* A tick takes the answer of the active turn and decides what comes next.
LEMMA TickKeepsRequest == Inv /\ RequestInv /\ Tick => RequestInv'
<1> SUFFICES ASSUME Inv, RequestInv, Tick PROVE RequestInv'
  OBVIOUS
<1>1. TypeOK /\ EventTypes /\ turn \in Nat /\ state \in States
  BY DEF Inv, TypeOK, TurnTypes
<1>2. CASE TickBegin
  <2>1. UNCHANGED <<state, turn, tasks, working, events>>
    BY <1>2 DEF TickBegin, turnVars, workerVars
  <2>2. QED  BY <2>1 DEF RequestInv, Queued, Served, Answered, Failed, Quiet
<1>3. CASE TickEnd
  <2>1. UNCHANGED working
    BY <1>3 DEF TickEnd, workerVars
  <2>2. CASE ~MustWait /\ StartPrompt(NextPrompt)
    BY <2>1, <2>2, StartPromptRequest
  <2>3. CASE UNCHANGED <<state, turnVars, budgetVars, streaming, tasks, events, queue>>
    BY <2>1, <2>3 DEF RequestInv, Queued, Served, Answered, Failed, Quiet, turnVars
  <2>4. QED  BY <1>3, <2>2, <2>3 DEF TickEnd, PumpPromptQueue
<1>4. CASE DropStale \/ HandleDelta
  <2>1. /\ NextEvent /\ events' = Rest /\ UNCHANGED <<state, turn, tasks, working>>
        /\ ~Final(Head(events), turn)
    BY <1>4 DEF DropStale, HandleDelta, Live, Stale, Final, turnVars, workerVars, Rest
  <2>2. /\ NotAnswered(events, turn) <=> NotAnswered(Rest, turn)
        /\ AnsweredOnce(events, turn) => AnsweredOnce(Rest, turn)
        /\ OnlyErrors(events, turn) => OnlyErrors(Rest, turn)
    BY <1>1, <2>1, EventHandled
  <2>3. QED  BY <2>1, <2>2 DEF RequestInv, Queued, Served, Answered, Failed, Quiet
<1>5. CASE HandleError
  <2>1. CASE turn' = NoTurn
    BY <2>1 DEF RequestInv
  <2>2. CASE /\ "ERROR" \notin AllowedTransitions[state] /\ AbortTick
             /\ UNCHANGED <<state, turn>> /\ turn # NoTurn
    <3>1. /\ NextEvent /\ Head(events).turn = turn /\ Head(events).kind = "error"
          /\ UNCHANGED <<tasks, working>>
      BY <1>5 DEF HandleError, Live, Stale, workerVars
    <3>2. Final(Head(events), turn)
      BY <3>1 DEF Final
    <3>3. state \in {"IDLE", "ERROR"}
      BY <1>1, <2>2 DEF States, AllowedTransitions
    <3>4. ~NotAnswered(events, turn)
      BY <1>1, <3>1, <3>2, EventHandled
    <3>5. state = "ERROR" /\ Failed(turn)
      BY <2>2, <3>3, <3>4 DEF RequestInv, Quiet
    <3>6. AnsweredOnce(events', turn) /\ OnlyErrors(events', turn)
      BY <1>1, <2>2, <3>1, <3>5, EventsLost DEF Failed
    <3>7. Failed(turn)'
      BY <2>2, <3>1, <3>5, <3>6 DEF Failed
    <3>8. QED  BY <2>2, <3>5, <3>7 DEF RequestInv
  <2>3. QED  BY <1>5, <2>1, <2>2 DEF HandleError
<1>6. CASE HandleResponse
  <2>1. /\ turn # NoTurn /\ NextEvent /\ Final(Head(events), turn)
        /\ NotQueued(tasks, turn) /\ working # turn /\ AnsweredOnce(events, turn)
    BY <1>6, HandledResponse DEF Answered
  <2>2. NotAnswered(Rest, turn) /\ UNCHANGED working
    BY <1>1, <1>6, <2>1, EventHandled, ResponseOutcome DEF LiveResponse, workerVars
  <2>3. CASE Resubmit(turn, Rest) \/ CloseWithError(turn, Rest)
    BY <1>1, <2>1, <2>2, <2>3, ResubmitRequest
  <2>4. CASE events' = Rest /\ UNCHANGED tasks /\ state' = "PENDING_APPROVAL" /\ turn' = turn
    BY <2>1, <2>2, <2>4 DEF RequestInv, Quiet
  <2>5. CASE turn' = NoTurn
    BY <2>5 DEF RequestInv
  <2>6. CASE AbortTick /\ state' = "EXECUTING_TOOL" /\ UNCHANGED <<turn, tasks>>
    <3>1. NotAnswered(events', turn)
      BY <1>1, <2>1, <2>6, EventsLost
    <3>2. QED  BY <2>1, <2>2, <2>6, <3>1 DEF RequestInv, Quiet
  <2>7. QED  BY <1>6, <2>3, <2>4, <2>5, <2>6, ResponseOutcome
<1>7. QED  BY <1>2, <1>3, <1>4, <1>5, <1>6 DEF Tick, ProcessEvent

\* The inductive invariant: where the request of the active turn is, next to the
\* types and to what ActiveTurn needs.
InvR == Inv /\ RequestInv

\* It holds in every reachable state.
LEMMA InvRHolds == Spec => []InvR
<1>1. Init => RequestInv
  BY DEF Init, RequestInv
<1>2. Inv /\ RequestInv /\ [Next]_vars => RequestInv'
  <2> SUFFICES ASSUME Inv, RequestInv, [Next]_vars PROVE RequestInv'
    OBVIOUS
  <2>1. CASE Tick
    BY <2>1, TickKeepsRequest
  <2>2. CASE Worker
    BY <2>2, WorkerKeepsRequest
  <2>3. CASE User
    BY <2>3, UserKeepsRequest
  <2>4. CASE UNCHANGED vars
    BY <2>4 DEF RequestInv, Queued, Served, Answered, Failed, Quiet, vars, turnVars, workerVars
  <2>5. QED  BY <2>1, <2>2, <2>3, <2>4 DEF Next
<1>3. QED  BY <1>1, <1>2, InvHolds, PTL DEF Spec, InvR

\* The three places of OneOutstanding, by what the invariant says of them.
LEMMA Places ==
  ASSUME TypeOK, NEW t \in Nat
  PROVE  /\ InTasks(t) = {} <=> NotQueued(tasks, t)
         /\ InWorker(t) = {} <=> working # t
         /\ InEvents(t) = {} <=> NotAnswered(events, t)
         /\ QueuedOnce(tasks, t) => \A x, y \in InTasks(t) : x = y
         /\ \A x, y \in InWorker(t) : x = y
         /\ AnsweredOnce(events, t) => \A x, y \in InEvents(t) : x = y
<1>1. DOMAIN tasks = 1..Len(tasks) /\ DOMAIN events = 1..Len(events)
  BY DEF TypeOK, WorkTypes, EventTypes
<1>2. \A x : x \in InTasks(t) <=> \E i \in 1..Len(tasks) : tasks[i] = t /\ x = <<"task", i>>
  BY <1>1, Zenon DEF InTasks
<1>3. \A x : x \in InEvents(t) <=>
               \E i \in 1..Len(events) : Final(events[i], t) /\ x = <<"event", i>>
  BY <1>1, Zenon DEF InEvents, Final
<1>4. InTasks(t) = {} <=> NotQueued(tasks, t)
  BY <1>2, Zenon DEF NotQueued
<1>5. InEvents(t) = {} <=> NotAnswered(events, t)
  BY <1>3, Zenon DEF NotAnswered
<1>6. ASSUME QueuedOnce(tasks, t), NEW x \in InTasks(t), NEW y \in InTasks(t) PROVE x = y
  <2>1. PICK i \in 1..Len(tasks) : tasks[i] = t /\ x = <<"task", i>>
    BY <1>2
  <2>2. PICK j \in 1..Len(tasks) : tasks[j] = t /\ y = <<"task", j>>
    BY <1>2
  <2>3. i = j
    BY <1>6, <2>1, <2>2 DEF QueuedOnce
  <2>4. QED  BY <2>1, <2>2, <2>3
<1>7. ASSUME AnsweredOnce(events, t), NEW x \in InEvents(t), NEW y \in InEvents(t) PROVE x = y
  <2>1. PICK i \in 1..Len(events) : Final(events[i], t) /\ x = <<"event", i>>
    BY <1>3
  <2>2. PICK j \in 1..Len(events) : Final(events[j], t) /\ y = <<"event", j>>
    BY <1>3
  <2>3. i = j
    BY <1>7, <2>1, <2>2 DEF AnsweredOnce
  <2>4. QED  BY <2>1, <2>2, <2>3
<1>8. (InWorker(t) = {} <=> working # t) /\ \A x, y \in InWorker(t) : x = y
  BY DEF InWorker
<1>9. QED  BY <1>4, <1>5, <1>6, <1>7, <1>8

\* However ticks, worker steps, decisions, cancellations and file loads
\* interleave, the active turn has exactly one provider request while it is
\* processing and none otherwise, so that no answer finds the state machine in a
\* state it may not leave.
THEOREM OneOutstandingHolds == Spec => []OneOutstanding
<1>1. InvR => OneOutstanding
  <2> SUFFICES ASSUME InvR, turn # NoTurn
               PROVE  /\ \A x, y \in Outstanding(turn) : x = y
                      /\ state = "PROCESSING" <=> Outstanding(turn) # {} /\ state # "ERROR"
                      /\ state = "ERROR" => /\ InTasks(turn) = {} /\ InWorker(turn) = {}
                                            /\ \A i \in DOMAIN events :
                                                 events[i].turn = turn => events[i].kind = "error"
    BY DEF OneOutstanding
  <2>1. /\ TypeOK /\ turn \in Nat /\ DOMAIN events = 1..Len(events)
        /\ state = "PROCESSING" => Queued(turn) \/ Served(turn) \/ Answered(turn)
        /\ state = "ERROR" => Failed(turn)
        /\ state \notin {"PROCESSING", "ERROR"} => Quiet(turn)
    BY DEF InvR, Inv, TypeOK, TurnTypes, EventTypes, RequestInv
  <2>2. /\ InTasks(turn) = {} <=> NotQueued(tasks, turn)
        /\ InWorker(turn) = {} <=> working # turn
        /\ InEvents(turn) = {} <=> NotAnswered(events, turn)
        /\ QueuedOnce(tasks, turn) => \A x, y \in InTasks(turn) : x = y
        /\ \A x, y \in InWorker(turn) : x = y
        /\ AnsweredOnce(events, turn) => \A x, y \in InEvents(turn) : x = y
    BY <2>1, Places
  <2>3. Outstanding(turn) = InTasks(turn) \union InWorker(turn) \union InEvents(turn)
    BY DEF Outstanding
  <2>4. CASE state = "PROCESSING"
    <3>1. CASE Queued(turn)
      <4>1. Outstanding(turn) = InTasks(turn) /\ InTasks(turn) # {}
        BY <2>2, <2>3, <3>1 DEF Queued
      <4>2. QED  BY <2>2, <2>4, <3>1, <4>1, Zenon DEF Queued
    <3>2. CASE Served(turn)
      <4>1. Outstanding(turn) = InWorker(turn) /\ InWorker(turn) # {}
        BY <2>2, <2>3, <3>2 DEF Served
      <4>2. QED  BY <2>2, <2>4, <4>1
    <3>3. CASE Answered(turn)
      <4>1. Outstanding(turn) = InEvents(turn) /\ InEvents(turn) # {}
        BY <2>2, <2>3, <3>3 DEF Answered
      <4>2. QED  BY <2>2, <2>4, <3>3, <4>1, Zenon DEF Answered
    <3>4. QED  BY <2>1, <2>4, <3>1, <3>2, <3>3
  <2>5. CASE state = "ERROR"
    <3>1. Outstanding(turn) = InEvents(turn) /\ InTasks(turn) = {} /\ InWorker(turn) = {}
      BY <2>1, <2>2, <2>3, <2>5 DEF Failed
    <3>2. \A x, y \in Outstanding(turn) : x = y
      BY <2>1, <2>2, <2>5, <3>1, Zenon DEF Failed
    <3>3. \A i \in DOMAIN events : events[i].turn = turn => events[i].kind = "error"
      BY <2>1, <2>5 DEF Failed, OnlyErrors
    <3>4. QED  BY <2>5, <3>1, <3>2, <3>3
  <2>6. CASE state \notin {"PROCESSING", "ERROR"}
    BY <2>1, <2>2, <2>3, <2>6 DEF Quiet
  <2>7. QED  BY <2>4, <2>5, <2>6
<1>2. QED  BY <1>1, InvRHolds, PTL

-----------------------------------------------------------------------------
(***************************************************************************)
(* The requests to the user.  PendingMatchesState needs RequestInv: an     *)
(* answer that reached a waiting turn would open a second request, or      *)
(* close the turn under the first.                                         *)
(***************************************************************************)

NoneOpen(requests) == \A id \in DOMAIN requests : requests[id].status # "open"

\* The slots of the pending requests, one by one.
LEMMA Slots ==
  /\ Pending = {} <=> pendingApproval = NoId /\ pendingReview = NoId
  /\ \A id : id \in Pending <=> id # NoId /\ (id = pendingApproval \/ id = pendingReview)
BY DEF Pending

\* A runtime that does not await the user has nothing open.
LEMMA NotAwaiting ==
  ASSUME PendingMatchesState, state # "PENDING_APPROVAL"
  PROVE  pendingApproval = NoId /\ pendingReview = NoId /\ NoneOpen(approvals)
<1>1. Pending = {}
  BY DEF PendingMatchesState
<1>2. QED  BY <1>1, Slots DEF PendingMatchesState, NoneOpen

\* With nothing pending and nothing open, the state is all that matters.
LEMMA NothingPending ==
  ASSUME pendingApproval' = NoId, pendingReview' = NoId, NoneOpen(approvals'),
         state' # "PENDING_APPROVAL" \/ "load" \in touched'
  PROVE  PendingMatchesState'
<1>1. Pending' = {}
  BY DEF Pending
<1>2. QED  BY <1>1 DEF PendingMatchesState, NoneOpen

\* Withdrawing the open requests leaves none open.
LEMMA VoidOpenCloses == NoneOpen(VoidOpen) /\ DOMAIN VoidOpen = DOMAIN approvals
<1>1. DOMAIN VoidOpen = DOMAIN approvals
  BY DEF VoidOpen
<1>2. ASSUME NEW id \in DOMAIN approvals PROVE VoidOpen[id].status # "open"
  <2>1. CASE approvals[id].status = "open"
    <3>1. VoidOpen[id] = [approvals[id] EXCEPT !.status = "void"]
      BY <2>1 DEF VoidOpen
    <3>2. QED  BY <3>1
  <2>2. CASE approvals[id].status # "open"
    BY <2>2 DEF VoidOpen
  <2>3. QED  BY <2>1, <2>2
<1>3. QED  BY <1>1, <1>2 DEF NoneOpen

\* A decision settles the request named, and that one was pending.
LEMMA DecideOutcome ==
  ASSUME TypeOK, NEW id \in DOMAIN approvals, Decide(id)
  PROVE  /\ state = "PENDING_APPROVAL" /\ id \in Pending
         /\ \/ pendingApproval = id /\ pendingApproval' = NoId /\ pendingReview' = pendingReview
            \/ pendingReview = id /\ pendingReview' = NoId /\ pendingApproval' = pendingApproval
         /\ approvals[id].turn = turn /\ turn \notin cancelled
         /\ \E status \in {"executed", "rejected"} : approvals' = Settle(id, status)
         /\ Resubmit(turn, events) \/ CloseWithError(turn, events)
         /\ UNCHANGED <<turns, cancelled, touched, streaming, submitted, queue, prompt,
                        working, streamed, held>>
<1>1. CASE ApproveTool(id) \/ RejectTool(id)
  <2>1. /\ state = "PENDING_APPROVAL" /\ pendingApproval = id /\ id # NoId
        /\ pendingApproval' = NoId /\ pendingReview' = pendingReview
        /\ approvals[id].turn = turn /\ turn \notin cancelled
    BY <1>1 DEF ApproveTool, RejectTool, ToolRequest, Names
  <2>2. QED  BY <1>1, <2>1 DEF ApproveTool, RejectTool, Pending, promptVars, workerVars
<1>2. CASE ApprovePlan(id) \/ RejectPlan(id)
  <2>1. /\ state = "PENDING_APPROVAL" /\ pendingReview = id /\ id # NoId
        /\ pendingReview' = NoId /\ pendingApproval' = pendingApproval
        /\ approvals[id].turn = turn /\ turn \notin cancelled
    BY <1>2 DEF ApprovePlan, RejectPlan, PlanRequest, Names
  <2>2. QED  BY <1>2, <2>1 DEF ApprovePlan, RejectPlan, Pending, promptVars, workerVars
<1>3. QED  BY <1>1, <1>2 DEF Decide

\* What settling one request leaves of the others.
LEMMA SettleOutcome ==
  ASSUME TypeOK, NEW id \in DOMAIN approvals, NEW status \in {"executed", "rejected"}
  PROVE  /\ DOMAIN Settle(id, status) = DOMAIN approvals
         /\ Settle(id, status)[id].status = status
         /\ Settle(id, status)[id].turn = approvals[id].turn
         /\ \A i \in DOMAIN approvals : i # id => Settle(id, status)[i] = approvals[i]
<1>1. approvals[id] \in Approval
  BY DEF TypeOK, RequestTypes
<1>2. Settle(id, status)[id] = [approvals[id] EXCEPT !.status = status]
  BY DEF Settle
<1>3. Settle(id, status)[id].status = status /\ Settle(id, status)[id].turn = approvals[id].turn
  BY <1>1, <1>2 DEF Approval
<1>4. QED  BY <1>3 DEF Settle

\* The user's operations keep slots, state and turn in step.
LEMMA UserKeepsPending == InvR /\ PendingMatchesState /\ User => PendingMatchesState'
<1> SUFFICES ASSUME InvR, PendingMatchesState, User PROVE PendingMatchesState'
  OBVIOUS
<1>1. TypeOK /\ ActiveTurn /\ DOMAIN approvals = 1..Len(approvals)
  BY DEF InvR, Inv, TypeOK, RequestTypes
<1>2. CASE SubmitPrompt
  <2>1. CASE ~MustWait /\ StartPrompt(submitted + 1)
    <3>1. state # "PENDING_APPROVAL" /\ state' # "PENDING_APPROVAL"
      BY <1>1, <2>1, StartPromptOutcome DEF MustWait, Busy
    <3>2. UNCHANGED <<pendingApproval, pendingReview, approvals>>
      BY <1>2 DEF SubmitPrompt, approvalVars
    <3>3. QED  BY <3>1, <3>2, NotAwaiting, NothingPending
  <2>2. CASE UNCHANGED <<state, turnVars, budgetVars, streaming, tasks, events>>
    BY <1>2, <2>2 DEF SubmitPrompt, PendingMatchesState, Pending, Request, turnVars, approvalVars
  <2>3. QED  BY <1>2, <2>1, <2>2 DEF SubmitPrompt
<1>3. CASE CancelCurrentTurn
  <2>1. pendingApproval' = NoId /\ pendingReview' = NoId /\ approvals' = VoidOpen
    BY <1>3 DEF CancelCurrentTurn, DropRequests
  <2>2. state' # "PENDING_APPROVAL"
    BY <1>1, <1>3 DEF CancelCurrentTurn, AbandonTurn, ActiveTurn
  <2>3. QED  BY <2>1, <2>2, VoidOpenCloses, NothingPending
<1>4. CASE ClearHistory
  BY <1>4 DEF ClearHistory, PendingMatchesState, Pending, Request, approvalVars
<1>5. CASE RestoreSessionMemory
  <2>1. pendingApproval' = NoId /\ pendingReview' = NoId /\ approvals' = VoidOpen
    BY <1>5 DEF RestoreSessionMemory, DropRequests
  <2>2. state' # "PENDING_APPROVAL" \/ "load" \in touched'
    BY <1>1, <1>5 DEF RestoreSessionMemory, ActiveTurn
  <2>3. QED  BY <2>1, <2>2, VoidOpenCloses, NothingPending
<1>6. ASSUME NEW id \in DOMAIN approvals, Decide(id) PROVE PendingMatchesState'
  <2>1. /\ id \in Pending
        /\ \/ pendingApproval = id /\ pendingApproval' = NoId /\ pendingReview' = pendingReview
           \/ pendingReview = id /\ pendingReview' = NoId /\ pendingApproval' = pendingApproval
        /\ Resubmit(turn, events) \/ CloseWithError(turn, events)
    BY <1>1, <1>6, DecideOutcome
  <2>2. PICK status \in {"executed", "rejected"} : approvals' = Settle(id, status)
    BY <1>1, <1>6, DecideOutcome
  <2>3. pendingApproval' = NoId /\ pendingReview' = NoId
    BY <2>1, Slots DEF PendingMatchesState
  <2>4. \A i \in DOMAIN approvals : i # id => approvals[i].status # "open"
    BY <2>1, Slots DEF PendingMatchesState
  <2>5. NoneOpen(approvals')
    BY <1>1, <2>2, <2>4, SettleOutcome DEF NoneOpen
  <2>6. state' # "PENDING_APPROVAL"
    BY <2>1, ResubmitOutcome
  <2>7. QED  BY <2>3, <2>5, <2>6, NothingPending
<1>7. QED  BY <1>2, <1>3, <1>4, <1>5, <1>6 DEF User

\* A new request is the last one, and the others are as they were.
LEMMA RequestAdded ==
  ASSUME TypeOK, NEW r \in Approval, approvals' = Append(approvals, r)
  PROVE  /\ DOMAIN approvals = 1..Len(approvals) /\ DOMAIN approvals' = 1..NextId
         /\ NextId = Len(approvals) + 1 /\ Len(approvals) \in Nat
         /\ approvals'[NextId] = r
         /\ \A id \in DOMAIN approvals : approvals'[id] = approvals[id]
<1>1. approvals \in Seq(Approval)
  BY DEF TypeOK, RequestTypes
<1>2. QED  BY <1>1, AppendProperties DEF NextId

\* A tick keeps slots, state and turn in step.
LEMMA TickKeepsPending == InvR /\ PendingMatchesState /\ Tick => PendingMatchesState'
<1> SUFFICES ASSUME InvR, PendingMatchesState, Tick PROVE PendingMatchesState'
  OBVIOUS
<1>1. TypeOK /\ ActiveTurn /\ EventTypes /\ turn \in Nat /\ state \in States
  BY DEF InvR, Inv, TypeOK, TurnTypes
<1>2. ASSUME UNCHANGED <<state, turn, touched, pendingApproval, pendingReview, approvals>>
      PROVE  PendingMatchesState'
  BY <1>2 DEF PendingMatchesState, Pending, Request
<1>3. CASE TickBegin \/ DropStale \/ HandleDelta
  BY <1>2, <1>3 DEF TickBegin, DropStale, HandleDelta, turnVars, approvalVars
<1>4. CASE TickEnd
  <2>1. UNCHANGED <<pendingApproval, pendingReview, approvals>>
    BY <1>4 DEF TickEnd, approvalVars
  <2>2. CASE ~MustWait /\ StartPrompt(NextPrompt)
    <3>1. state # "PENDING_APPROVAL" /\ state' # "PENDING_APPROVAL"
      BY <1>1, <2>2, StartPromptOutcome DEF MustWait, Busy
    <3>2. QED  BY <2>1, <3>1, NotAwaiting, NothingPending
  <2>3. CASE UNCHANGED <<state, turnVars, budgetVars, streaming, tasks, events, queue>>
    BY <1>2, <2>1, <2>3 DEF turnVars
  <2>4. QED  BY <1>4, <2>2, <2>3 DEF TickEnd, PumpPromptQueue
<1>5. CASE HandleError
  <2>1. UNCHANGED <<touched, pendingApproval, pendingReview, approvals>>
    BY <1>5 DEF HandleError, approvalVars
  <2>2. CASE UNCHANGED <<state, turn>>
    BY <1>2, <2>1, <2>2
  <2>3. CASE state' = "ERROR" /\ turn' = NoTurn
    <3>1. /\ NextEvent /\ Head(events).turn = turn /\ Head(events).kind = "error"
      BY <1>5 DEF HandleError, Live, Stale
    <3>2. /\ AllFrom(events, turns) /\ turns \in Nat
      BY <1>1, SignalsAreFrom DEF InvR, Inv
    <3>3. turn # NoTurn
      BY <1>1, <3>1, <3>2, NextEventTypes DEF AllFrom, EventTypes
    <3>4. ~NotAnswered(events, turn)
      <4>1. Final(Head(events), turn)
        BY <3>1 DEF Final
      <4>2. QED  BY <1>1, <3>1, <4>1, EventHandled
    <3>5. state # "PENDING_APPROVAL"
      BY <3>3, <3>4 DEF InvR, RequestInv, Quiet
    <3>6. QED  BY <2>1, <2>3, <3>5, NotAwaiting, NothingPending
  <2>4. QED  BY <1>5, <2>2, <2>3 DEF HandleError
<1>6. CASE HandleResponse
  <2>1. turn # NoTurn /\ state = "PROCESSING"
    BY <1>6, HandledResponse DEF InvR
  <2>2. pendingApproval = NoId /\ pendingReview = NoId /\ NoneOpen(approvals)
    BY <2>1, NotAwaiting
  <2>3. CASE /\ UNCHANGED <<approvals, pendingApproval, pendingReview>>
             /\ state' # "PENDING_APPROVAL"
    BY <2>2, <2>3, NothingPending
  <2>4. CASE /\ approvals' = Append(approvals, Request(turn, "executed"))
             /\ UNCHANGED <<pendingApproval, pendingReview>>
             /\ state' # "PENDING_APPROVAL"
    <3>1. Request(turn, "executed") \in Approval /\ Request(turn, "executed").status = "executed"
      BY <1>1 DEF Request, Approval
    <3>2. NoneOpen(approvals')
      BY <1>1, <2>2, <2>4, <3>1, RequestAdded DEF NoneOpen
    <3>3. QED  BY <2>2, <2>4, <3>2, NothingPending
  <2>5. CASE /\ approvals' = Append(approvals, Request(turn, "open"))
             /\ state' = "PENDING_APPROVAL"
             /\ \/ pendingApproval' = NextId /\ UNCHANGED pendingReview
                \/ pendingReview' = NextId /\ UNCHANGED pendingApproval
    <3>1. Request(turn, "open") \in Approval
      BY <1>1 DEF Request, Approval
    <3>2. /\ DOMAIN approvals = 1..Len(approvals) /\ DOMAIN approvals' = 1..NextId
          /\ NextId = Len(approvals) + 1 /\ Len(approvals) \in Nat
          /\ approvals'[NextId] = Request(turn, "open")
          /\ \A id \in DOMAIN approvals : approvals'[id] = approvals[id]
      BY <1>1, <2>5, <3>1, RequestAdded
    <3>3. turn' = turn
      <4>1. CASE Resubmit(turn, Rest) \/ CloseWithError(turn, Rest)
        BY <2>5, <4>1, ResubmitOutcome
      <4>2. QED  BY <1>6, <2>5, <4>1, ResponseOutcome
    <3>4. Pending' = {NextId} /\ (pendingApproval' = NoId \/ pendingReview' = NoId)
      BY <2>2, <2>5, <3>2 DEF Pending
    <3>5. \A id \in DOMAIN approvals' : approvals'[id].status = "open" => id \in Pending'
      BY <2>2, <3>2, <3>4 DEF NoneOpen
    <3>6. \A id \in Pending' : approvals'[id] = Request(turn, "open")'
      BY <3>2, <3>3, <3>4 DEF Request
    <3>7. QED  BY <2>5, <3>4, <3>5, <3>6 DEF PendingMatchesState
  <2>6. QED  BY <1>6, <2>3, <2>4, <2>5, ResponseRequests
<1>7. QED  BY <1>3, <1>4, <1>5, <1>6 DEF Tick, ProcessEvent

\* The inductive invariant of the requests to the provider and to the user.
InvP == InvR /\ PendingMatchesState

\* It holds in every reachable state.
LEMMA InvPHolds == Spec => []InvP
<1>1. Init => PendingMatchesState
  BY DEF Init, PendingMatchesState, Pending
<1>2. InvR /\ PendingMatchesState /\ [Next]_vars => PendingMatchesState'
  <2> SUFFICES ASSUME InvR, PendingMatchesState, [Next]_vars PROVE PendingMatchesState'
    OBVIOUS
  <2>1. CASE Tick
    BY <2>1, TickKeepsPending
  <2>2. ASSUME UNCHANGED <<state, turn, touched, pendingApproval, pendingReview, approvals>>
        PROVE  PendingMatchesState'
    BY <2>2 DEF PendingMatchesState, Pending, Request
  <2>3. CASE Worker
    BY <2>2, <2>3 DEF Worker, WorkerTake, WorkerReceive, WorkerPut, WorkerException,
                      turnVars, approvalVars
  <2>4. CASE User
    BY <2>4, UserKeepsPending
  <2>5. CASE UNCHANGED vars
    BY <2>2, <2>5 DEF vars, turnVars, approvalVars
  <2>6. QED  BY <2>1, <2>3, <2>4, <2>5 DEF Next
<1>3. QED  BY <1>1, <1>2, InvRHolds, PTL DEF Spec, InvP

\* Slots, state and turn tell the same story in every reachable state: the user
\* is never asked for what no turn awaits, and never left without a request while
\* the runtime awaits him, short of a file load in the middle of a turn.
THEOREM PendingMatchesStateHolds == Spec => []PendingMatchesState
BY InvPHolds, PTL DEF InvP

\* What a step may do to the requests that exist: decide an open one of the active
\* turn, withdraw the open ones, or add one of the active turn behind them.
LEMMA RequestSteps ==
  ASSUME InvP, [Next]_vars
  PROVE  \/ approvals' = approvals
         \/ approvals' = VoidOpen
         \/ \E id \in DOMAIN approvals, status \in {"executed", "rejected"} :
              /\ approvals[id].status = "open"
              /\ approvals[id].turn = turn /\ turn \notin cancelled
              /\ approvals' = Settle(id, status)
         \/ \E r \in Approval : /\ approvals' = Append(approvals, r)
                                /\ r.turn = turn /\ turn \notin cancelled
<1>1. TypeOK /\ turn \in Nat /\ PendingMatchesState /\ turn \notin cancelled
  BY DEF InvP, InvR, Inv, TypeOK, TurnTypes, ActiveTurn
<1>2. CASE TickBegin \/ TickEnd \/ DropStale \/ HandleDelta \/ HandleError
  BY <1>2 DEF TickBegin, TickEnd, DropStale, HandleDelta, HandleError, approvalVars
<1>3. CASE HandleResponse
  <2>1. \A status \in {"open", "executed"} :
          Request(turn, status) \in Approval /\ Request(turn, status).turn = turn
    BY <1>1 DEF Request, Approval
  <2>2. \/ approvals' = approvals
        \/ \E status \in {"open", "executed"} : approvals' = Append(approvals, Request(turn, status))
    BY <1>3, ResponseRequests
  <2>3. QED  BY <1>1, <2>1, <2>2
<1>4. CASE Worker
  BY <1>4 DEF Worker, WorkerTake, WorkerReceive, WorkerPut, WorkerException, approvalVars
<1>5. CASE SubmitPrompt \/ CancelCurrentTurn \/ ClearHistory \/ RestoreSessionMemory
  BY <1>5 DEF SubmitPrompt, CancelCurrentTurn, ClearHistory, RestoreSessionMemory, DropRequests,
              approvalVars
<1>6. ASSUME NEW id \in DOMAIN approvals, Decide(id)
      PROVE  \E status \in {"executed", "rejected"} :
               /\ approvals[id].status = "open"
               /\ approvals[id].turn = turn /\ turn \notin cancelled
               /\ approvals' = Settle(id, status)
  <2>1. id \in Pending
    BY <1>1, <1>6, DecideOutcome
  <2>2. approvals[id].status = "open" /\ approvals[id].turn = turn
    BY <1>1, <2>1 DEF PendingMatchesState, Request
  <2>3. QED  BY <1>1, <1>6, <2>2, DecideOutcome
<1>7. CASE UNCHANGED vars
  BY <1>7 DEF vars, approvalVars
<1>8. QED  BY <1>2, <1>3, <1>4, <1>5, <1>6, <1>7 DEF Next, Tick, ProcessEvent, User

\* A request is decided at most once and only while it is open, whatever ids the
\* user's screen still shows: what was executed, rejected or withdrawn stays so.
THEOREM ApprovalSingleUseHolds == Spec => ApprovalSingleUse
<1> DEFINE Kept == \A id \in DOMAIN approvals :
                     /\ id \in DOMAIN approvals'
                     /\ approvals'[id] # approvals[id] =>
                          /\ approvals[id].status = "open"
                          /\ approvals'[id].turn = approvals[id].turn
<1>1. InvP /\ [Next]_vars => Kept
  <2> SUFFICES ASSUME InvP, [Next]_vars PROVE Kept
    OBVIOUS
  <2>1. TypeOK /\ approvals \in Seq(Approval)
    BY DEF InvP, InvR, Inv, TypeOK, RequestTypes
  <2>2. CASE approvals' = approvals
    BY <2>2
  <2>3. CASE approvals' = VoidOpen
    <3> SUFFICES ASSUME NEW id \in DOMAIN approvals, VoidOpen[id] # approvals[id]
                 PROVE  approvals[id].status = "open" /\ VoidOpen[id].turn = approvals[id].turn
      BY <2>3, VoidOpenCloses
    <3>1. approvals[id] \in Approval
      BY <2>1
    <3>2. approvals[id].status = "open"
      BY DEF VoidOpen
    <3>3. VoidOpen[id] = [approvals[id] EXCEPT !.status = "void"]
      BY <3>2 DEF VoidOpen
    <3>4. QED  BY <3>1, <3>2, <3>3 DEF Approval
  <2>4. ASSUME NEW id \in DOMAIN approvals, NEW status \in {"executed", "rejected"},
               approvals[id].status = "open", approvals' = Settle(id, status)
        PROVE  Kept
    BY <2>1, <2>4, SettleOutcome
  <2>5. ASSUME NEW r \in Approval, approvals' = Append(approvals, r) PROVE Kept
    <3>1. /\ DOMAIN approvals = 1..Len(approvals) /\ DOMAIN approvals' = 1..NextId
          /\ NextId = Len(approvals) + 1 /\ Len(approvals) \in Nat
          /\ \A id \in DOMAIN approvals : approvals'[id] = approvals[id]
      BY <2>1, <2>5, RequestAdded
    <3>2. QED  BY <3>1
  <2>6. QED  BY <2>2, <2>3, <2>4, <2>5, RequestSteps
<1>2. InvP /\ [Next]_vars => [Kept]_vars
  BY <1>1
<1>3. QED  BY <1>2, InvPHolds, PTL DEF Spec, ApprovalSingleUse

\* What a step may do to the task queue: leave it, take its head, or add the turn
\* that is active afterwards.
LEMMA TaskSteps ==
  ASSUME Inv, [Next]_vars
  PROVE  \/ tasks' = tasks
         \/ tasks # <<>> /\ tasks' = Tail(tasks)
         \/ tasks' = Append(tasks, turn')
<1>1. ASSUME NEW evs, Resubmit(turn, evs) \/ CloseWithError(turn, evs)
      PROVE  tasks' = tasks \/ tasks' = Append(tasks, turn')
  BY <1>1, ResubmitOutcome
<1>2. ASSUME NEW p, StartPrompt(p)
      PROVE  tasks' = tasks \/ tasks' = Append(tasks, turn')
  BY <1>2, StartPromptOutcome
<1>3. CASE TickBegin \/ DropStale \/ HandleDelta \/ HandleError
  BY <1>3 DEF TickBegin, DropStale, HandleDelta, HandleError
<1>4. CASE TickEnd
  BY <1>2, <1>4 DEF TickEnd, PumpPromptQueue
<1>5. CASE HandleResponse
  BY <1>1, <1>5, ResponseOutcome
<1>6. CASE Worker
  BY <1>6 DEF Worker, WorkerTake, WorkerReceive, WorkerPut, WorkerException
<1>7. CASE SubmitPrompt
  BY <1>2, <1>7 DEF SubmitPrompt
<1>8. CASE CancelCurrentTurn \/ ClearHistory \/ RestoreSessionMemory
  BY <1>8 DEF CancelCurrentTurn, ClearHistory, RestoreSessionMemory
<1>9. ASSUME NEW id \in DOMAIN approvals, Decide(id)
      PROVE  tasks' = tasks \/ tasks' = Append(tasks, turn')
  BY <1>1, <1>9, DecideOutcome DEF Inv
<1>10. CASE UNCHANGED vars
  BY <1>10 DEF vars
<1>11. QED
  BY <1>3, <1>4, <1>5, <1>6, <1>7, <1>8, <1>9, <1>10 DEF Next, Tick, ProcessEvent, User

\* Cancel events are set and never cleared.
LEMMA CancelledGrows ==
  ASSUME [Next]_vars
  PROVE  cancelled \subseteq cancelled'
<1>1. CASE TickBegin \/ DropStale \/ HandleDelta \/ HandleError
  BY <1>1 DEF TickBegin, DropStale, HandleDelta, HandleError, turnVars
<1>2. CASE TickEnd
  BY <1>2, StartPromptOutcome DEF TickEnd, PumpPromptQueue, turnVars
<1>3. CASE HandleResponse
  BY <1>3, ResponseOutcome DEF LiveResponse
<1>4. CASE Worker
  BY <1>4 DEF Worker, WorkerTake, WorkerReceive, WorkerPut, WorkerException, turnVars
<1>5. CASE SubmitPrompt
  BY <1>5, StartPromptOutcome DEF SubmitPrompt, turnVars
<1>6. CASE CancelCurrentTurn \/ ClearHistory \/ RestoreSessionMemory
  BY <1>6 DEF CancelCurrentTurn, AbandonTurn, ClearHistory, RestoreSessionMemory
<1>7. CASE \E id \in DOMAIN approvals : Decide(id)
  BY <1>7 DEF Decide, ApproveTool, RejectTool, ApprovePlan, RejectPlan
<1>8. CASE UNCHANGED vars
  BY <1>8 DEF vars, turnVars
<1>9. QED
  BY <1>1, <1>2, <1>3, <1>4, <1>5, <1>6, <1>7, <1>8 DEF Next, Tick, ProcessEvent, User

\* A cancelled turn is never active again, whatever answers and decisions still
\* arrive for it: nothing is submitted, opened or executed for it any more.
THEOREM CancelledIsFinalHolds == Spec => CancelledIsFinal
<1> DEFINE StaysCancelled(t) ==
      /\ t \in cancelled' /\ turn' # t
      /\ \A i \in DOMAIN tasks' :
           tasks'[i] = t => \E j \in DOMAIN tasks : tasks[j] = t /\ i <= j
      /\ \A id \in DOMAIN approvals' :
           approvals'[id].turn = t /\ approvals'[id].status \in {"open", "executed"}
             => id \in DOMAIN approvals /\ approvals'[id] = approvals[id]
<1>1. InvP /\ InvP' /\ [Next]_vars => \A t \in cancelled : StaysCancelled(t)
  <2> SUFFICES ASSUME InvP, InvP', [Next]_vars, NEW t \in cancelled PROVE StaysCancelled(t)
    OBVIOUS
  <2>1. /\ TypeOK /\ Inv /\ turns \in Nat /\ tasks \in Seq(0..turns)
        /\ approvals \in Seq(Approval)
    BY DEF InvP, InvR, Inv, TypeOK, TurnTypes, WorkTypes, RequestTypes
  <2>2. t \in cancelled' /\ turn' # t /\ turn # t
    BY CancelledGrows DEF InvP, InvR, Inv, ActiveTurn
  <2>3. ASSUME NEW i \in DOMAIN tasks', tasks'[i] = t
        PROVE  \E j \in DOMAIN tasks : tasks[j] = t /\ i <= j
    <3>1. CASE tasks' = tasks
      BY <2>1, <2>3, <3>1
    <3>2. CASE tasks # <<>> /\ tasks' = Tail(tasks)
      <4>1. /\ Len(tasks) \in Nat /\ DOMAIN tasks' = 1..(Len(tasks) - 1)
            /\ tasks'[i] = tasks[i + 1]
        BY <2>1, <2>3, <3>2, HeadTailProperties
      <4>2. i \in Nat /\ i + 1 \in DOMAIN tasks
        BY <2>1, <2>3, <4>1
      <4>3. QED  BY <2>3, <4>1, <4>2
    <3>3. CASE tasks' = Append(tasks, turn')
      <4>1. /\ Len(tasks) \in Nat /\ DOMAIN tasks' = 1..(Len(tasks) + 1)
            /\ \A j \in DOMAIN tasks : tasks'[j] = tasks[j]
            /\ tasks'[Len(tasks) + 1] = turn'
        BY <2>1, <3>3
      <4>2. i \in DOMAIN tasks
        BY <2>1, <2>2, <2>3, <4>1
      <4>3. QED  BY <2>1, <2>3, <4>1, <4>2
    <3>4. QED  BY <2>1, <3>1, <3>2, <3>3, TaskSteps
  <2>4. ASSUME NEW id \in DOMAIN approvals', approvals'[id].turn = t,
               approvals'[id].status \in {"open", "executed"}
        PROVE  id \in DOMAIN approvals /\ approvals'[id] = approvals[id]
    <3>1. CASE approvals' = approvals
      BY <2>4, <3>1
    <3>2. CASE approvals' = VoidOpen
      <4>1. id \in DOMAIN approvals /\ approvals[id] \in Approval
        BY <2>1, <2>4, <3>2, VoidOpenCloses
      <4>2. approvals[id].status # "open"
        <5>1. approvals[id].status = "open" =>
                VoidOpen[id] = [approvals[id] EXCEPT !.status = "void"]
          BY <4>1 DEF VoidOpen
        <5>2. QED  BY <2>4, <3>2, <4>1, <5>1 DEF Approval
      <4>3. QED  BY <3>2, <4>1, <4>2 DEF VoidOpen
    <3>3. ASSUME NEW d \in DOMAIN approvals, NEW status \in {"executed", "rejected"},
                 approvals[d].turn = turn, approvals' = Settle(d, status)
          PROVE  id \in DOMAIN approvals /\ approvals'[id] = approvals[id]
      BY <2>1, <2>2, <2>4, <3>3, SettleOutcome
    <3>4. ASSUME NEW r \in Approval, approvals' = Append(approvals, r), r.turn = turn
          PROVE  id \in DOMAIN approvals /\ approvals'[id] = approvals[id]
      BY <2>1, <2>2, <2>4, <3>4, RequestAdded
    <3>5. QED  BY <3>1, <3>2, <3>3, <3>4, RequestSteps
  <2>5. QED  BY <2>2, <2>3, <2>4
<1>2. InvP /\ InvP' /\ [Next]_vars => [\A t \in cancelled : StaysCancelled(t)]_vars
  BY <1>1
<1>3. QED  BY <1>2, InvPHolds, PTL DEF Spec, CancelledIsFinal

-----------------------------------------------------------------------------
(***************************************************************************)
(* The prompt queue and the repair budget.                                 *)
(***************************************************************************)

\* Prompts are numbered as they are submitted, so the queue is sorted.
QueueSorted == \A i, j \in 1..Len(queue) : i < j => queue[i] < queue[j]

\* What a step may do to the queue.
LEMMA QueueSteps ==
  ASSUME [Next]_vars
  PROVE  \/ queue' = queue
         \/ queue' = <<>> /\ turns' = turns
         \/ queue' = Append(queue, submitted + 1)
         \/ queue # <<>> /\ queue' = Tail(queue) /\ (turns' = turns \/ prompt' = Head(queue))
<1>1. CASE TickEnd
  <2>1. CASE queue # <<>> /\ queue' = Tail(queue) /\ StartPrompt(NextPrompt)
    BY <2>1, StartPromptOutcome DEF NextPrompt
  <2>2. QED  BY <1>1, <2>1 DEF TickEnd, PumpPromptQueue
<1>2. CASE TickBegin \/ DropStale \/ HandleDelta \/ HandleError
  BY <1>2 DEF TickBegin, DropStale, HandleDelta, HandleError, promptVars
<1>3. CASE HandleResponse
  BY <1>3, ResponseOutcome DEF LiveResponse, promptVars
<1>4. CASE Worker
  BY <1>4 DEF Worker, WorkerTake, WorkerReceive, WorkerPut, WorkerException, promptVars
<1>5. CASE SubmitPrompt
  BY <1>5 DEF SubmitPrompt
<1>6. CASE CancelCurrentTurn \/ ClearHistory \/ RestoreSessionMemory
  BY <1>6 DEF CancelCurrentTurn, ClearHistory, RestoreSessionMemory, promptVars
<1>7. CASE \E id \in DOMAIN approvals : Decide(id)
  BY <1>7 DEF Decide, ApproveTool, RejectTool, ApprovePlan, RejectPlan, promptVars
<1>8. CASE UNCHANGED vars
  BY <1>8 DEF vars, promptVars
<1>9. QED
  BY <1>1, <1>2, <1>3, <1>4, <1>5, <1>6, <1>7, <1>8 DEF Next, Tick, ProcessEvent, User

\* The queue stays sorted.
LEMMA SortedHolds == Spec => []QueueSorted
<1>1. Init => QueueSorted
  BY DEF Init, QueueSorted
<1>2. TypeOK /\ QueueSorted /\ [Next]_vars => QueueSorted'
  <2> SUFFICES ASSUME TypeOK, QueueSorted, [Next]_vars PROVE QueueSorted'
    OBVIOUS
  <2>1. submitted \in Nat /\ queue \in Seq(1..submitted) /\ Len(queue) \in Nat
    BY DEF TypeOK, PromptTypes
  <2>2. \A i \in 1..Len(queue) : queue[i] \in 1..submitted
    BY <2>1
  <2>3. CASE queue' = queue \/ queue' = <<>>
    BY <2>3 DEF QueueSorted
  <2>4. CASE queue' = Append(queue, submitted + 1)
    <3>1. /\ Len(queue') = Len(queue) + 1 /\ queue'[Len(queue) + 1] = submitted + 1
          /\ \A i \in 1..Len(queue) : queue'[i] = queue[i]
      BY <2>1, <2>4, AppendProperties
    <3>2. ASSUME NEW i \in 1..Len(queue'), NEW j \in 1..Len(queue'), i < j
          PROVE  queue'[i] < queue'[j]
      <4>1. i \in 1..Len(queue) /\ (j \in 1..Len(queue) \/ j = Len(queue) + 1)
        BY <2>1, <3>1, <3>2
      <4>2. CASE j \in 1..Len(queue)
        BY <3>1, <3>2, <4>1, <4>2 DEF QueueSorted
      <4>3. CASE j = Len(queue) + 1
        BY <2>1, <2>2, <3>1, <4>1, <4>3
      <4>4. QED  BY <4>1, <4>2, <4>3
    <3>3. QED  BY <3>2 DEF QueueSorted
  <2>5. CASE queue # <<>> /\ queue' = Tail(queue)
    <3>1. /\ Len(queue') = Len(queue) - 1
          /\ \A i \in 1..Len(queue') : queue'[i] = queue[i + 1]
      BY <2>1, <2>5, HeadTailProperties
    <3>2. \A i \in 1..Len(queue') : i + 1 \in 1..Len(queue)
      BY <2>1, <3>1
    <3>3. \A i, j \in 1..Len(queue') : i < j => i + 1 < j + 1
      BY <2>1, <3>1
    <3>4. QED  BY <3>1, <3>2, <3>3 DEF QueueSorted
  <2>6. QED  BY <2>3, <2>4, <2>5, QueueSteps
<1>3. QED  BY <1>1, <1>2, TypeCorrect, PTL DEF Spec

\* Whatever fills, clears and drains the queue, the prompt that leaves it to start
\* is the oldest one waiting.
THEOREM QueueInOrderHolds == Spec => QueueInOrder
<1> DEFINE OldestFirst == turns' # turns /\ Len(queue') < Len(queue)
                            => \A i \in DOMAIN queue : prompt' <= queue[i]
<1>1. TypeOK /\ QueueSorted /\ [Next]_vars => OldestFirst
  <2> SUFFICES ASSUME TypeOK, QueueSorted, [Next]_vars, turns' # turns,
                      Len(queue') < Len(queue), NEW i \in DOMAIN queue
               PROVE  prompt' <= queue[i]
    OBVIOUS
  <2>1. /\ submitted \in Nat /\ queue \in Seq(1..submitted) /\ Len(queue) \in Nat
        /\ DOMAIN queue = 1..Len(queue) /\ \A j \in 1..Len(queue) : queue[j] \in Nat
    BY DEF TypeOK, PromptTypes
  <2>2. queue' # Append(queue, submitted + 1)
    <3>1. Len(Append(queue, submitted + 1)) = Len(queue) + 1
      BY <2>1
    <3>2. QED  BY <2>1, <3>1
  <2>3. queue # <<>> /\ prompt' = Head(queue)
    BY <2>1, <2>2, QueueSteps
  <2>4. prompt' = queue[1] /\ 1 \in 1..Len(queue) /\ (i = 1 \/ 1 < i)
    BY <2>1, <2>3
  <2>5. QED  BY <2>1, <2>4 DEF QueueSorted
<1>2. TypeOK /\ QueueSorted /\ [Next]_vars => [OldestFirst]_vars
  BY <1>1
<1>3. QED  BY <1>2, SortedHolds, TypeCorrect, PTL DEF Spec, QueueInOrder

\* While nobody resets it from outside, the counter of an active turn counts the
\* repairs that have run; a turn that has ended leaves it behind.
RepairsCounted ==
  touched = {} => /\ repairsRun <= MaxPlanRepairs
                  /\ turn # NoTurn => repairs = repairsRun

\* What a response does to the repair counters.
LEMMA ResponseRepairs ==
  ASSUME HandleResponse
  PROVE  \/ UNCHANGED <<repairs, repairsRun>>
         \/ RepairsLeft /\ repairs' = repairs + 1 /\ repairsRun' = repairsRun + 1
<1>1. CASE FinishTurn \/ ExceedToolRounds \/ AllCallsDone
  BY <1>1 DEF FinishTurn, ExceedToolRounds, AllCallsDone, budgetVars
<1>2. ASSUME NEW k, HandleCall(k)
      PROVE  \/ UNCHANGED <<repairs, repairsRun>>
             \/ RepairsLeft /\ repairs' = repairs + 1 /\ repairsRun' = repairsRun + 1
  <2>1. CASE CallFails(k) \/ CallRaises(k) \/ AwaitApproval(k) \/ ExceedPlanRepairs(k)
    BY <2>1 DEF CallFails, CallRaises, AwaitApproval, ExceedPlanRepairs
  <2>2. CASE PlanInvalid(k) \/ PlanAutoApproved(k) \/ AwaitPlanReview(k)
    BY <2>2 DEF PlanInvalid, PlanAutoApproved, AwaitPlanReview, ReachPlan
  <2>3. QED  BY <1>2, <2>1, <2>2 DEF HandleCall
<1>3. QED  BY <1>1, <1>2 DEF HandleResponse

\* The counter keeps counting.
LEMMA RepairsCountedHolds == Spec => []RepairsCounted
<1>1. Init => RepairsCounted
  BY ConstantsAssumption DEF Init, RepairsCounted, ConstantsAssumption
<1>2. Inv /\ RepairsCounted /\ [Next]_vars => RepairsCounted'
  <2> SUFFICES ASSUME Inv, RepairsCounted, [Next]_vars PROVE RepairsCounted'
    OBVIOUS
  <2>1. /\ TypeOK /\ repairs \in Nat /\ repairsRun \in Nat /\ MaxPlanRepairs \in Nat
    BY ConstantsAssumption DEF Inv, TypeOK, BudgetTypes, ConstantsAssumption
  <2>2. ASSUME turn' = turn \/ turn' = NoTurn, touched' = touched,
               UNCHANGED <<repairs, repairsRun>>
        PROVE  RepairsCounted'
    BY <2>2 DEF RepairsCounted
  <2>3. ASSUME NEW p, ~MustWait, StartPrompt(p) PROVE RepairsCounted'
    <3>1. CASE UNCHANGED <<turn, touched, repairs, repairsRun>>
      BY <2>2, <3>1
    <3>2. CASE touched' = {} /\ repairs' = 0 /\ repairsRun' = 0
      BY <2>1, <3>2 DEF RepairsCounted
    <3>3. QED  BY <2>3, <3>1, <3>2, StartPromptOutcome
  <2>4. CASE TickBegin \/ DropStale \/ HandleDelta \/ HandleError
    BY <2>2, <2>4 DEF TickBegin, DropStale, HandleDelta, HandleError, turnVars, budgetVars
  <2>5. CASE TickEnd
    BY <2>2, <2>3, <2>5 DEF TickEnd, PumpPromptQueue, turnVars, budgetVars
  <2>6. CASE HandleResponse
    <3>1. touched' = touched /\ (turn' = turn \/ turn' = NoTurn) /\ turn # NoTurn
      <4>1. touched' = touched
        BY <2>6, ResponseOutcome DEF LiveResponse
      <4>2. Resubmit(turn, Rest) \/ CloseWithError(turn, Rest) => turn' = turn \/ turn' = NoTurn
        BY ResubmitOutcome
      <4>3. turn' = turn \/ turn' = NoTurn
        BY <2>6, <4>2, ResponseOutcome
      <4>4. /\ NextEvent /\ Head(events).turn = turn /\ EventTypes
            /\ turns \in Nat /\ AllFrom(events, turns)
        BY <2>1, <2>6, ResponseOutcome, SignalsAreFrom
           DEF LiveResponse, Live, Stale, TypeOK, TurnTypes, Inv
      <4>5. turn # NoTurn
        BY <4>4, NextEventTypes DEF AllFrom, EventTypes
      <4>6. QED  BY <4>1, <4>3, <4>5
    <3>2. CASE RepairsLeft /\ repairs' = repairs + 1 /\ repairsRun' = repairsRun + 1
      BY <2>1, <3>1, <3>2 DEF RepairsCounted, RepairsLeft
    <3>3. QED  BY <2>2, <2>6, <3>1, <3>2, ResponseRepairs
  <2>7. CASE Worker
    BY <2>2, <2>7 DEF Worker, WorkerTake, WorkerReceive, WorkerPut, WorkerException,
                      turnVars, budgetVars
  <2>8. CASE SubmitPrompt
    BY <2>2, <2>3, <2>8 DEF SubmitPrompt, turnVars, budgetVars
  <2>9. CASE CancelCurrentTurn
    BY <2>9 DEF CancelCurrentTurn, AbandonTurn, RepairsCounted
  <2>10. CASE ClearHistory \/ RestoreSessionMemory
    <3>1. /\ repairsRun' = repairsRun /\ turn' = turn
          /\ touched' = {} => turn = NoTurn /\ touched = {}
      BY <2>10 DEF ClearHistory, RestoreSessionMemory
    <3>2. QED  BY <3>1 DEF RepairsCounted
  <2>11. ASSUME NEW id \in DOMAIN approvals, Decide(id) PROVE RepairsCounted'
    <3>1. UNCHANGED <<touched, repairs, repairsRun>>
      BY <2>11 DEF Decide, ApproveTool, RejectTool, ApprovePlan, RejectPlan, budgetVars
    <3>2. turn' = turn \/ turn' = NoTurn
      BY <2>1, <2>11, DecideOutcome, ResubmitOutcome
    <3>3. QED  BY <2>2, <3>1, <3>2
  <2>12. CASE UNCHANGED vars
    BY <2>2, <2>12 DEF vars, turnVars, budgetVars
  <2>13. QED
    BY <2>4, <2>5, <2>6, <2>7, <2>8, <2>9, <2>10, <2>11, <2>12
       DEF Next, Tick, ProcessEvent, User
<1>3. QED  BY <1>1, <1>2, InvHolds, PTL DEF Spec

\* No turn lets more repair plans through than its budget, unless the history was
\* cleared or a file loaded while it ran.
THEOREM RepairBudgetHolds == Spec => []RepairBudgetKept
<1>1. RepairsCounted => RepairBudgetKept
  BY DEF RepairsCounted, RepairBudgetKept
<1>2. QED  BY <1>1, RepairsCountedHolds, PTL

-----------------------------------------------------------------------------
(***************************************************************************)
(* The streamed text.                                                      *)
(***************************************************************************)

\* The deltas of turn t that are still in the event queue.
IsDelta(e, t) == e.turn = t /\ e.kind = "delta"
Deltas(evs, t)    == {i \in 1..Len(evs) : IsDelta(evs[i], t)}
NumDeltas(evs, t) == Cardinality(Deltas(evs, t))

\* What is shown and what is still to be shown make n deltas.
Text(n) == "load" \notin touched => streaming + NumDeltas(events, turn) = n

\* An answer comes behind the deltas it belongs to, and with their number.
TextBefore(i) ==
  /\ \A d \in Deltas(events, turn) : d < i
  /\ events[i].kind = "response" => Text(events[i].text)

\* The text of the active turn, station by station of its request.
TextInv ==
  /\ held # <<>> /\ held[1].kind = "response" => held[1].text = streamed
  /\ turn # NoTurn =>
       /\ state # "PROCESSING" => Deltas(events, turn) = {}
       /\ state = "PENDING_APPROVAL" => Text(0)
       /\ state = "PROCESSING" =>
            /\ Queued(turn) => Deltas(events, turn) = {} /\ Text(0)
            /\ Served(turn) => Text(streamed)
            /\ Answered(turn) =>
                 \A i \in 1..Len(events) : Final(events[i], turn) => TextBefore(i)

\* There are finitely many deltas.
LEMMA DeltasFinite ==
  ASSUME NEW evs \in Seq(Event), NEW t
  PROVE  /\ IsFiniteSet(Deltas(evs, t)) /\ NumDeltas(evs, t) \in Nat
         /\ NumDeltas(evs, t) = 0 <=> Deltas(evs, t) = {}
<1>1. Len(evs) \in Nat /\ Deltas(evs, t) \in SUBSET (1..Len(evs))
  BY DEF Deltas
<1>2. IsFiniteSet(1..Len(evs))
  BY <1>1, FS_Interval
<1>3. IsFiniteSet(Deltas(evs, t))
  BY <1>1, <1>2, FS_Subset
<1>4. QED  BY <1>3, FS_CardinalityType, FS_EmptySet DEF NumDeltas

\* An event that is put adds itself to the deltas, if it is one.
LEMMA DeltaPut ==
  ASSUME NEW evs \in Seq(Event), NEW e \in Event, NEW t
  PROVE  /\ IsDelta(e, t) => NumDeltas(Append(evs, e), t) = NumDeltas(evs, t) + 1
         /\ ~IsDelta(e, t) => Deltas(Append(evs, e), t) = Deltas(evs, t)
<1>1. /\ Len(evs) \in Nat /\ Len(Append(evs, e)) = Len(evs) + 1
      /\ \A i \in 1..Len(evs) : Append(evs, e)[i] = evs[i]
      /\ Append(evs, e)[Len(evs) + 1] = e
  BY AppendProperties
<1>2. ~IsDelta(e, t) => Deltas(Append(evs, e), t) = Deltas(evs, t)
  BY <1>1 DEF Deltas
<1>3. ASSUME IsDelta(e, t) PROVE NumDeltas(Append(evs, e), t) = NumDeltas(evs, t) + 1
  <2>1. Deltas(Append(evs, e), t) = Deltas(evs, t) \union {Len(evs) + 1}
    BY <1>1, <1>3 DEF Deltas
  <2>2. Len(evs) + 1 \notin Deltas(evs, t)
    BY <1>1 DEF Deltas
  <2>3. QED  BY <2>1, <2>2, DeltasFinite, FS_AddElement DEF NumDeltas
<1>4. QED  BY <1>2, <1>3

\* The deltas behind the event that is handled, counted from there.
LEMMA DeltasBehind ==
  ASSUME EventTypes, NextEvent, NEW t
  PROVE  /\ \A i \in 1..Len(Rest) : i \in Deltas(Rest, t) <=> i + 1 \in Deltas(events, t)
         /\ NumDeltas(Rest, t) = Cardinality(Deltas(events, t) \ {1})
<1>1. /\ events \in Seq(Event) /\ Len(events) \in Nat /\ Rest \in Seq(Event)
      /\ Len(Rest) = Len(events) - 1 /\ \A i \in 1..Len(Rest) : Rest[i] = events[i + 1]
  BY NextEventTypes DEF EventTypes
<1>2. \A i \in 1..Len(Rest) : i \in Deltas(Rest, t) <=> i + 1 \in Deltas(events, t)
  BY <1>1 DEF Deltas
<1> DEFINE S == Deltas(Rest, t)
           T == Deltas(events, t) \ {1}
           f == [i \in S |-> i + 1]
<1>3. \A i \in S : i \in 1..Len(Rest) /\ i \in Nat /\ i + 1 \in T
  BY <1>1, <1>2 DEF Deltas
<1>4. \A j \in T : j \in Nat /\ j - 1 \in S /\ (j - 1) + 1 = j
  <2>1. TAKE j \in T
  <2>2. j \in 1..Len(events) /\ j # 1
    BY DEF Deltas
  <2>3. j - 1 \in 1..Len(Rest) /\ (j - 1) + 1 = j
    BY <1>1, <2>2
  <2>4. QED  BY <1>2, <2>2, <2>3
<1>5. IsFiniteSet(S)
  BY <1>1, DeltasFinite
<1> HIDE DEF S, T
<1>6. f \in Surjection(S, T)
  <2>1. f \in [S -> T]
    BY <1>3
  <2>2. \A j \in T : \E i \in S : f[i] = j
    BY <1>4
  <2>3. QED  BY <2>1, <2>2 DEF Surjection
<1>7. f \in Injection(S, T)
  <2>1. f \in [S -> T] /\ \A i, j \in S : f[i] = f[j] => i = j
    BY <1>3
  <2>2. QED  BY <2>1 DEF Injection, IsInjective
<1>8. ExistsBijection(S, T)
  BY <1>6, <1>7 DEF ExistsBijection, Bijection
<1>9. Cardinality(T) = Cardinality(S)
  BY <1>5, <1>8, FS_Bijection
<1>10. QED  BY <1>2, <1>9 DEF S, T, NumDeltas

\* The event that is handled leaves the deltas, if it was one.
LEMMA DeltaHandled ==
  ASSUME EventTypes, NextEvent, NEW t
  PROVE  /\ IsDelta(Head(events), t) => /\ NumDeltas(Rest, t) = NumDeltas(events, t) - 1
                                        /\ Deltas(events, t) # {}
         /\ ~IsDelta(Head(events), t) => NumDeltas(Rest, t) = NumDeltas(events, t)
         /\ Deltas(events, t) = {} => Deltas(Rest, t) = {}
<1>1. /\ events \in Seq(Event) /\ Rest \in Seq(Event) /\ Head(events) = events[1]
      /\ Len(events) \in Nat /\ 1 \in 1..Len(events) /\ Len(Rest) = Len(events) - 1
  BY NextEventTypes DEF EventTypes
<1>2. 1 \in Deltas(events, t) <=> IsDelta(Head(events), t)
  BY <1>1 DEF Deltas
<1>3. IsFiniteSet(Deltas(events, t)) /\ NumDeltas(events, t) \in Nat
  BY <1>1, DeltasFinite
<1>4. NumDeltas(Rest, t) = IF IsDelta(Head(events), t) THEN NumDeltas(events, t) - 1
                                                       ELSE NumDeltas(events, t)
  BY <1>2, <1>3, DeltasBehind, FS_RemoveElement DEF NumDeltas
<1>5. Deltas(events, t) = {} => Deltas(Rest, t) = {}
  <2>1. \A i \in 1..Len(Rest) : i \in Deltas(Rest, t) <=> i + 1 \in Deltas(events, t)
    BY DeltasBehind
  <2>2. Deltas(Rest, t) \subseteq 1..Len(Rest)
    BY DEF Deltas
  <2>3. QED  BY <2>1, <2>2
<1>6. QED  BY <1>2, <1>4, <1>5

\* Nothing that the text depends on changes.
LEMMA TextUndisturbed ==
  ASSUME TextInv, UNCHANGED <<state, turn, streaming, streamed, held, tasks, working, events>>,
         "load" \in touched' <=> "load" \in touched
  PROVE  TextInv'
BY DEF TextInv, TextBefore, Text, NumDeltas, Deltas, Queued, Served, Answered

\* A turn that enters the task queue without deltas or text.
LEMMA TextOfNewRequest ==
  ASSUME UNCHANGED <<streamed, held, working>>, TextInv, turn' # NoTurn,
         state' = "PROCESSING", Deltas(events', turn') = {}, Text(0)',
         working # turn', NotAnswered(events', turn')
  PROVE  TextInv'
<1>1. ~Served(turn)' /\ ~Answered(turn)'
  BY DEF Served, Answered
<1>2. QED  BY <1>1 DEF TextInv

\* Without an active turn only the worker's text matters.
LEMMA TextWithoutTurn ==
  ASSUME TextInv, UNCHANGED <<streamed, held>>, turn' = NoTurn
  PROVE  TextInv'
BY DEF TextInv

\* A turn without deltas that shows no text has none of it.
LEMMA NoText ==
  ASSUME NEW evs \in Seq(Event), NEW t, Deltas(evs, t) = {}
  PROVE  NumDeltas(evs, t) = 0
BY DeltasFinite

\* A prompt that starts has no text yet.
LEMMA StartPromptText ==
  ASSUME Inv, TextInv, ~MustWait, NEW p, StartPrompt(p), UNCHANGED <<streamed, held, working>>
  PROVE  TextInv'
<1>1. turn = NoTurn
  BY DEF MustWait
<1>2. /\ turns \in Nat /\ events \in Seq(Event) /\ turns + 1 # NoTurn
      /\ \A i \in 1..Len(events) : events[i].turn # turns + 1
      /\ working # turns + 1 /\ NotAnswered(events, turns + 1)
  BY NextTurnFresh DEF Inv, TypeOK, TurnTypes, EventTypes, Quiet
<1>3. Deltas(events, turns + 1) = {}
  BY <1>2 DEF Deltas, IsDelta
<1>4. CASE turn' = turn
  BY <1>1, <1>4, TextWithoutTurn
<1>5. CASE turn' = turns + 1 /\ streaming' = 0 /\ events' = events /\ state' = "PROCESSING"
  <2>1. Text(0)'
    BY <1>2, <1>3, <1>5, NoText DEF Text
  <2>2. QED  BY <1>2, <1>3, <1>5, <2>1, TextOfNewRequest
<1>6. CASE turn' = turns + 1 /\ state' = "IDLE" /\ events' = events
  BY <1>3, <1>6 DEF TextInv
<1>7. CASE turn' = turns + 1 /\ state' = "ERROR" /\ events' = Append(events, Failure(turns + 1))
  <2>1. Failure(turns + 1) \in Event /\ ~IsDelta(Failure(turns + 1), turns + 1)
    BY <1>2, SignalShapes DEF Failure, IsDelta
  <2>2. Deltas(events', turns + 1) = {}
    BY <1>2, <1>3, <1>7, <2>1, DeltaPut
  <2>3. QED  BY <1>7, <2>2 DEF TextInv
<1>8. QED  BY <1>4, <1>5, <1>6, <1>7, StartPromptOutcome

\* The worker puts an event of the turn it serves: another turn's does not touch
\* the text of the active one.
LEMMA PutOfOtherTurn ==
  ASSUME InvR, TextInv, working # turn, NEW e \in Event, e.turn = working,
         events' = Append(events, e), held' = <<>>, working' \in {working, NoTurn},
         UNCHANGED <<state, turn, touched, streaming, tasks>>
  PROVE  TextInv'
<1> SUFFICES ASSUME turn # NoTurn PROVE TextInv'
  BY DEF TextInv
<1>1. events \in Seq(Event) /\ turn \in Nat
  BY DEF InvR, Inv, TypeOK, TurnTypes, EventTypes
<1>2. ~IsDelta(e, turn) /\ ~Final(e, turn)
  BY DEF IsDelta, Final
<1>3. Deltas(events', turn) = Deltas(events, turn)
  BY <1>1, <1>2, DeltaPut
<1>4. \A n : Text(n)' <=> Text(n)
  BY <1>3 DEF Text, NumDeltas
<1>5. NotAnswered(events', turn) <=> NotAnswered(events, turn)
  BY <1>1, <1>2, EventPut
<1>6. working' # turn
  OBVIOUS
<1>7. Queued(turn)' <=> Queued(turn)
  BY <1>5, <1>6 DEF Queued
<1>8. ~Served(turn)'
  BY <1>6 DEF Served
<1>9. Answered(turn)' /\ state = "PROCESSING" => Answered(turn)
  BY <1>5 DEF Answered, Queued, Served, RequestInv, InvR
<1>10. ASSUME NEW i \in 1..Len(events'), Final(events'[i], turn)
       PROVE  i \in 1..Len(events) /\ events'[i] = events[i]
  <2>1. /\ Len(events) \in Nat /\ Len(events') = Len(events) + 1
        /\ \A j \in 1..Len(events) : events'[j] = events[j]
        /\ events'[Len(events) + 1] = e
    BY <1>1, AppendProperties
  <2>2. i # Len(events) + 1
    BY <1>2, <1>10, <2>1
  <2>3. QED  BY <1>10, <2>1, <2>2
<1>11. state = "PROCESSING" /\ Answered(turn)' =>
         \A i \in 1..Len(events') : Final(events'[i], turn) => TextBefore(i)'
  BY <1>3, <1>4, <1>9, <1>10 DEF TextInv, TextBefore
<1>12. QED  BY <1>3, <1>4, <1>7, <1>8, <1>11 DEF TextInv

\* It puts an event of the active turn: a delta of its text, or its answer.
LEMMA PutOfActiveTurn ==
  ASSUME InvR, TextInv, turn # NoTurn, working = turn, NEW e \in Event, e.turn = working,
         events' = Append(events, e), held' = <<>>,
         UNCHANGED <<state, turn, touched, streaming, tasks>>,
         \/ e.kind = "delta" /\ streamed' = streamed + 1 /\ working' = working
         \/ /\ e.kind # "delta" /\ working' = NoTurn
            /\ e.kind = "response" => e.text = streamed
  PROVE  TextInv'
<1>1. /\ events \in Seq(Event) /\ turn \in Nat /\ streaming \in Nat /\ streamed \in Nat
      /\ NumDeltas(events, turn) \in Nat
  BY DeltasFinite DEF InvR, Inv, TypeOK, TurnTypes, EventTypes, BudgetTypes, WorkTypes
<1>2. /\ Len(events) \in Nat /\ Len(events') = Len(events) + 1
      /\ \A j \in 1..Len(events) : events'[j] = events[j]
      /\ events'[Len(events) + 1] = e
  BY <1>1, AppendProperties
<1>3. state = "PROCESSING" /\ Served(turn)
  BY DEF InvR, RequestInv, Queued, Served, Answered, Failed, Quiet
<1>4. Text(streamed)
  BY <1>3 DEF TextInv
<1>5. CASE e.kind = "delta" /\ streamed' = streamed + 1 /\ working' = working
  <2>1. IsDelta(e, turn) /\ ~Final(e, turn)
    BY <1>5 DEF IsDelta, Final
  <2>2. NumDeltas(events', turn) = NumDeltas(events, turn) + 1
    BY <1>1, <2>1, DeltaPut
  <2>3. Text(streamed)'
    BY <1>1, <1>4, <1>5, <2>2 DEF Text
  <2>4. ~Queued(turn)' /\ ~Answered(turn)'
    BY <1>5 DEF Queued, Answered
  <2>5. QED  BY <1>3, <2>3, <2>4 DEF TextInv
<1>6. CASE /\ e.kind # "delta" /\ working' = NoTurn
           /\ e.kind = "response" => e.text = streamed
  <2>1. ~IsDelta(e, turn) /\ Final(e, turn)
    BY <1>6 DEF IsDelta, Final
  <2>2. Deltas(events', turn) = Deltas(events, turn)
    BY <1>1, <2>1, DeltaPut
  <2>3. NotAnswered(events, turn) /\ ~NotAnswered(events', turn)
    BY <1>1, <1>3, <2>1, EventPut DEF Served
  <2>4. ~Queued(turn)' /\ ~Served(turn)'
    BY <1>6, <2>3 DEF Queued, Served
  <2>5. ASSUME NEW i \in 1..Len(events'), Final(events'[i], turn) PROVE TextBefore(i)'
    <3>1. i = Len(events) + 1 /\ events'[i] = e
      BY <1>2, <2>3, <2>5 DEF NotAnswered
    <3>2. \A d \in Deltas(events', turn) : d < i
      BY <1>2, <2>2, <3>1 DEF Deltas
    <3>3. e.kind = "response" => Text(e.text)'
      BY <1>4, <1>6, <2>2 DEF Text, NumDeltas
    <3>4. QED  BY <3>1, <3>2, <3>3 DEF TextBefore
  <2>6. QED  BY <1>3, <2>4, <2>5 DEF TextInv
<1>7. QED  BY <1>5, <1>6

\* The worker keeps count of what it streams.
LEMMA WorkerKeepsText == InvR /\ TextInv /\ Worker => TextInv'
<1> SUFFICES ASSUME InvR, TextInv, Worker PROVE TextInv'
  OBVIOUS
<1>1. UNCHANGED <<state, turn, touched, streaming>>
  BY DEF Worker, WorkerTake, WorkerReceive, WorkerPut, WorkerException, turnVars
<1>2. /\ turns \in Nat /\ turn \in 0..turns /\ turn \in Nat /\ turn \notin cancelled
      /\ tasks \in Seq(0..turns) /\ working \in 0..turns /\ working \in Nat
      /\ held \in Seq(Event) /\ events \in Seq(Event) /\ streamed \in Nat
      /\ held # <<>> => working # NoTurn /\ held[1].turn = working
  BY SignalsAreFrom DEF InvR, Inv, TypeOK, TurnTypes, WorkTypes, EventTypes, ActiveTurn
<1>3. CASE WorkerTake
  <2>1. /\ working = NoTurn /\ tasks # <<>> /\ tasks' = Tail(tasks) /\ events' = events
        /\ working' = IF Head(tasks) \in cancelled THEN NoTurn ELSE Head(tasks)
        /\ streamed' = 0 /\ held' = held /\ held = <<>>
    BY <1>2, <1>3 DEF WorkerTake
  <2> SUFFICES ASSUME turn # NoTurn PROVE TextInv'
    BY <1>1, <2>1 DEF TextInv
  <2>2. \A n : Text(n)' <=> Text(n)
    BY <1>1, <2>1 DEF Text
  <2>3. state = "PROCESSING" /\ Queued(turn)' => Queued(turn)
    <3>1. NotQueued(tasks, turn) => NotQueued(tasks', turn)
      BY <1>2, <2>1, TaskTaken
    <3>2. QED
      BY <1>1, <2>1, <3>1 DEF InvR, RequestInv, Queued, Served, Answered
  <2>4. state = "PROCESSING" /\ Served(turn)' => Queued(turn)
    <3>1. working' = turn => ~NotQueued(tasks, turn)
      BY <1>2, <2>1, TaskTaken
    <3>2. QED
      BY <1>1, <2>1, <3>1 DEF InvR, RequestInv, Queued, Served, Answered
  <2>5. state = "PROCESSING" /\ Answered(turn)' => Answered(turn)
    BY <1>1, <2>1 DEF InvR, RequestInv, Queued, Served, Answered
  <2>6. \A i : TextBefore(i)' <=> TextBefore(i)
    BY <1>1, <2>1 DEF TextBefore, Text
  <2>7. QED  BY <1>1, <2>1, <2>2, <2>3, <2>4, <2>5, <2>6 DEF TextInv
<1>4. CASE WorkerReceive
  <2>1. UNCHANGED <<tasks, events, streamed>> /\ held = <<>>
    BY <1>4 DEF WorkerReceive
  <2>2. turn # NoTurn => (working' = turn <=> working = turn)
    BY <1>2, <1>4 DEF WorkerReceive
  <2>3. held' # <<>> /\ held'[1].kind = "response" => held'[1].text = streamed
    <3>1. \/ held' = held
          \/ held' = <<Delta(working)>> \/ held' = <<Failure(working)>>
          \/ \E calls \in Responses : held' = <<Answer(working, calls, streamed)>>
      BY <1>4 DEF WorkerReceive
    <3>2. Delta(working).kind = "delta" /\ Failure(working).kind = "error"
      BY DEF Delta, Failure
    <3>3. \A calls : Answer(working, calls, streamed).text = streamed
      BY DEF Answer
    <3>4. QED  BY <2>1, <3>1, <3>2, <3>3
  <2>4. turn # NoTurn => /\ Queued(turn)' <=> Queued(turn)
                         /\ Served(turn)' <=> Served(turn)
                         /\ Answered(turn)' <=> Answered(turn)
    BY <1>1, <2>1, <2>2 DEF Queued, Served, Answered
  <2>5. /\ \A n : Text(n)' <=> Text(n)
        /\ \A i : TextBefore(i)' <=> TextBefore(i)
    BY <1>1, <2>1 DEF TextBefore, Text
  <2>6. QED  BY <1>1, <2>1, <2>3, <2>4, <2>5 DEF TextInv
<1>5. CASE WorkerPut
  <2>1. /\ held # <<>> /\ held[1] \in Event /\ held[1].turn = working /\ working # NoTurn
        /\ events' = Append(events, held[1]) /\ held' = <<>> /\ tasks' = tasks
        /\ \/ held[1].kind = "delta" /\ streamed' = streamed + 1 /\ working' = working
           \/ held[1].kind # "delta" /\ working' = NoTurn
    BY <1>2, <1>5 DEF WorkerPut
  <2>2. held[1].kind = "response" => held[1].text = streamed
    BY <2>1 DEF TextInv
  <2>3. CASE working = turn
    BY <1>1, <2>1, <2>2, <2>3, PutOfActiveTurn
  <2>4. CASE working # turn
    BY <1>1, <2>1, <2>4, PutOfOtherTurn
  <2>5. QED  BY <2>3, <2>4
<1>6. CASE WorkerException
  <2>1. /\ Failure(working) \in Event /\ Failure(working).turn = working
        /\ Failure(working).kind = "error"
    BY <1>2, SignalShapes DEF Failure
  <2>2. /\ working # NoTurn /\ working' = NoTurn /\ events' = Append(events, Failure(working))
        /\ held' = <<>> /\ tasks' = tasks
    BY <1>6 DEF WorkerException
  <2>3. CASE working = turn
    BY <1>1, <2>1, <2>2, <2>3, PutOfActiveTurn
  <2>4. CASE working # turn
    BY <1>1, <2>1, <2>2, <2>4, PutOfOtherTurn
  <2>5. QED  BY <2>3, <2>4
<1>7. QED  BY <1>3, <1>4, <1>5, <1>6 DEF Worker

\* The user's operations neither show nor lose text, but for a file load.
LEMMA UserKeepsText == InvR /\ TextInv /\ User => TextInv'
<1> SUFFICES ASSUME InvR, TextInv, User PROVE TextInv'
  OBVIOUS
<1>1. /\ Inv /\ TypeOK /\ ActiveTurn /\ events \in Seq(Event)
      /\ UNCHANGED <<working, streamed, held>>
  BY DEF User, SubmitPrompt, CancelCurrentTurn, ClearHistory, RestoreSessionMemory, Decide,
         ApproveTool, RejectTool, ApprovePlan, RejectPlan, workerVars, InvR, Inv, TypeOK, EventTypes
<1>2. CASE SubmitPrompt
  <2>1. CASE ~MustWait /\ StartPrompt(submitted + 1)
    BY <1>1, <2>1, StartPromptText
  <2>2. CASE UNCHANGED <<state, turnVars, budgetVars, streaming, tasks, events>>
    BY <1>1, <2>2, TextUndisturbed DEF turnVars
  <2>3. QED  BY <1>2, <2>1, <2>2 DEF SubmitPrompt
<1>3. CASE CancelCurrentTurn
  <2>1. turn' = NoTurn
    BY <1>3 DEF CancelCurrentTurn, AbandonTurn
  <2>2. QED  BY <1>1, <2>1, TextWithoutTurn
<1>4. CASE ClearHistory
  <2>1. UNCHANGED <<state, turn, streaming, tasks, events>>
        /\ ("load" \in touched' <=> "load" \in touched)
    BY <1>4 DEF ClearHistory
  <2>2. QED  BY <1>1, <2>1, TextUndisturbed
<1>5. CASE RestoreSessionMemory
  <2>1. UNCHANGED <<state, turn, tasks, events>>
    BY <1>5 DEF RestoreSessionMemory
  <2>2. CASE turn = NoTurn
    BY <1>1, <2>1, <2>2, TextWithoutTurn
  <2>3. CASE turn # NoTurn
    <3>1. \A n : Text(n)'
      BY <1>5, <2>3 DEF RestoreSessionMemory, Text
    <3>2. /\ Queued(turn)' <=> Queued(turn)
          /\ Answered(turn)' <=> Answered(turn)
      BY <1>1, <2>1 DEF Queued, Answered
    <3>3. \A i : TextBefore(i) => TextBefore(i)'
      BY <2>1, <3>1 DEF TextBefore
    <3>4. QED  BY <1>1, <2>1, <2>3, <3>1, <3>2, <3>3 DEF TextInv
  <2>4. QED  BY <2>2, <2>3
<1>6. ASSUME NEW id \in DOMAIN approvals, Decide(id) PROVE TextInv'
  <2>1. /\ state = "PENDING_APPROVAL" /\ turn # NoTurn
        /\ UNCHANGED <<touched, streaming>>
        /\ Resubmit(turn, events) \/ CloseWithError(turn, events)
    BY <1>1, <1>6, DecideOutcome DEF ActiveTurn
  <2>2. Deltas(events, turn) = {} /\ Text(0) /\ working # turn /\ NotAnswered(events, turn)
    BY <2>1 DEF TextInv, InvR, RequestInv, Quiet
  <2>3. CASE turn' = NoTurn
    BY <1>1, <2>3, TextWithoutTurn
  <2>4. CASE turn' = turn /\ events' = events /\ state' = "PROCESSING"
    <3>1. Text(0)'
      BY <2>1, <2>2, <2>4 DEF Text
    <3>2. QED  BY <1>1, <2>1, <2>2, <2>4, <3>1, TextOfNewRequest
  <2>5. QED  BY <2>1, <2>3, <2>4, ResubmitOutcome
<1>7. QED  BY <1>2, <1>3, <1>4, <1>5, <1>6 DEF User

\* A response empties the shown text, or ends its turn.
LEMMA ResponseText ==
  ASSUME HandleResponse
  PROVE  streaming' = 0 \/ turn' = NoTurn
<1>1. CASE FinishTurn \/ ExceedToolRounds
  BY <1>1 DEF FinishTurn, ExceedToolRounds, CloseWithError
<1>2. CASE AllCallsDone
  BY <1>2 DEF AllCallsDone, ReachCall, ClearStreaming
<1>3. ASSUME NEW k, HandleCall(k) PROVE streaming' = 0
  BY <1>3 DEF HandleCall, CallFails, CallRaises, AwaitApproval, ExceedPlanRepairs, PlanInvalid,
              PlanAutoApproved, AwaitPlanReview, ReachPlan, ReachCall, ClearStreaming
<1>4. QED  BY <1>1, <1>2, <1>3 DEF HandleResponse

\* The first event is a delta that is shown, or not the active turn's: the answer
\* behind it still has its whole text.
LEMMA EventKeepsText ==
  ASSUME InvR, TextInv, turn # NoTurn, NextEvent, events' = Rest,
         UNCHANGED <<state, turn, touched, streamed, held, tasks, working>>,
         \/ IsDelta(Head(events), turn) /\ streaming' = streaming + 1
         \/ Head(events).turn # turn /\ streaming' = streaming
  PROVE  TextInv'
<1>1. /\ EventTypes /\ events \in Seq(Event) /\ streaming \in Nat /\ turn \in Nat
      /\ NumDeltas(events, turn) \in Nat
  BY DeltasFinite DEF InvR, Inv, TypeOK, TurnTypes, EventTypes, BudgetTypes
<1>2. /\ Len(events) \in Nat /\ Len(Rest) = Len(events) - 1
      /\ \A i \in 1..Len(Rest) : Rest[i] = events[i + 1] /\ i + 1 \in 1..Len(events)
  BY <1>1, NextEventTypes
<1>3. ~Final(Head(events), turn)
  BY DEF Final, IsDelta
<1>4. /\ NotAnswered(Rest, turn) <=> NotAnswered(events, turn)
      /\ AnsweredOnce(events, turn) => AnsweredOnce(Rest, turn)
  BY <1>1, <1>3, EventHandled
<1>5. Deltas(events, turn) = {} => Deltas(Rest, turn) = {} /\ streaming' = streaming
  BY <1>1, DeltaHandled
<1>6. streaming' + NumDeltas(Rest, turn) = streaming + NumDeltas(events, turn)
  <2>1. CASE IsDelta(Head(events), turn) /\ streaming' = streaming + 1
    <3>1. NumDeltas(Rest, turn) = NumDeltas(events, turn) - 1
      BY <1>1, <2>1, DeltaHandled
    <3>2. QED  BY <1>1, <2>1, <3>1
  <2>2. CASE Head(events).turn # turn /\ streaming' = streaming
    <3>1. NumDeltas(Rest, turn) = NumDeltas(events, turn)
      BY <1>1, <2>2, DeltaHandled DEF IsDelta
    <3>2. QED  BY <2>2, <3>1
  <2>3. QED  BY <2>1, <2>2
<1>7. \A n : Text(n)' <=> Text(n)
  BY <1>6 DEF Text
<1>8. Queued(turn)' <=> Queued(turn)
  BY <1>4 DEF Queued
<1>9. Served(turn)' <=> Served(turn)
  BY <1>4 DEF Served
<1>10. Answered(turn)' /\ state = "PROCESSING" => Answered(turn)
  BY <1>4 DEF Answered, Queued, Served, RequestInv, InvR
<1>11. ASSUME state = "PROCESSING", Answered(turn), NEW i \in 1..Len(Rest), Final(Rest[i], turn)
       PROVE  TextBefore(i)'
  <2>1. TextBefore(i + 1)
    BY <1>2, <1>11 DEF TextInv
  <2>2. ASSUME NEW d \in Deltas(Rest, turn) PROVE d < i
    <3>1. d \in 1..Len(Rest) /\ d + 1 \in Deltas(events, turn)
      BY <1>1, <2>2, DeltasBehind DEF Deltas
    <3>2. d + 1 < i + 1
      BY <2>1, <3>1 DEF TextBefore
    <3>3. QED  BY <1>2, <3>1, <3>2
  <2>3. events'[i] = Rest[i] /\ Rest[i] = events[i + 1]
    BY <1>2
  <2>4. \A n : events[i + 1].kind = "response" /\ n = events[i + 1].text => Text(n)
    BY <2>1 DEF TextBefore
  <2>5. \A n : events'[i].kind = "response" /\ n = events'[i].text => Text(n)'
    BY <1>7, <2>3, <2>4
  <2>6. (events[i].kind = "response" => Text(events[i].text))'
    BY <2>5
  <2>7. \A d \in Deltas(events, turn)' : d < i
    BY <2>2
  <2>8. QED  BY <2>6, <2>7 DEF TextBefore
<1>12. QED  BY <1>5, <1>7, <1>8, <1>9, <1>10, <1>11 DEF TextInv

\* A tick shows every delta of the active turn once, and its answer afterwards.
LEMMA TickKeepsText == InvR /\ TextInv /\ Tick => TextInv'
<1> SUFFICES ASSUME InvR, TextInv, Tick PROVE TextInv'
  OBVIOUS
<1>1. Inv /\ TypeOK /\ EventTypes /\ events \in Seq(Event) /\ turn \in Nat /\ state \in States
  BY DEF InvR, Inv, TypeOK, TurnTypes, EventTypes
<1>2. UNCHANGED <<working, streamed, held>>
  <2>1. CASE TickBegin \/ TickEnd \/ DropStale \/ HandleDelta \/ HandleError
    BY <2>1 DEF TickBegin, TickEnd, DropStale, HandleDelta, HandleError, workerVars
  <2>2. CASE HandleResponse
    BY <2>2, ResponseOutcome DEF LiveResponse, workerVars
  <2>3. QED  BY <2>1, <2>2 DEF Tick, ProcessEvent
<1>3. CASE TickBegin
  <2>1. UNCHANGED <<state, turn, touched, streaming, tasks, events>>
    BY <1>3 DEF TickBegin, turnVars
  <2>2. QED  BY <1>2, <2>1, TextUndisturbed
<1>4. CASE TickEnd
  <2>1. CASE ~MustWait /\ StartPrompt(NextPrompt)
    BY <1>1, <1>2, <2>1, StartPromptText
  <2>2. CASE UNCHANGED <<state, turnVars, budgetVars, streaming, tasks, events, queue>>
    BY <1>2, <2>2, TextUndisturbed DEF turnVars
  <2>3. QED  BY <1>4, <2>1, <2>2 DEF TickEnd, PumpPromptQueue
<1>5. CASE DropStale \/ HandleDelta
  <2>1. /\ NextEvent /\ events' = Rest /\ UNCHANGED <<state, turn, touched, tasks>>
        /\ \/ IsDelta(Head(events), turn) /\ streaming' = streaming + 1
           \/ Head(events).turn # turn /\ streaming' = streaming
    BY <1>5 DEF DropStale, HandleDelta, Live, Stale, IsDelta, turnVars, Rest
  <2>2. CASE turn = NoTurn
    BY <1>2, <2>1, <2>2, TextWithoutTurn
  <2>3. CASE turn # NoTurn
    BY <1>2, <2>1, <2>3, EventKeepsText
  <2>4. QED  BY <2>2, <2>3
<1>6. CASE HandleError
  <2>1. CASE turn' = NoTurn
    BY <1>2, <2>1, TextWithoutTurn
  <2>2. CASE /\ "ERROR" \notin AllowedTransitions[state] /\ AbortTick
             /\ UNCHANGED <<state, turn>> /\ turn # NoTurn
    <3>1. /\ NextEvent /\ Head(events).turn = turn /\ Head(events).kind = "error"
      BY <1>6 DEF HandleError, Live, Stale
    <3>2. ~NotAnswered(events, turn)
      <4>1. Final(Head(events), turn)
        BY <3>1 DEF Final
      <4>2. QED  BY <1>1, <3>1, <4>1, EventHandled
    <3>3. state \in {"IDLE", "ERROR"}
      BY <1>1, <2>2 DEF States, AllowedTransitions
    <3>4. state = "ERROR" /\ OnlyErrors(events, turn)
      BY <2>2, <3>2, <3>3 DEF InvR, RequestInv, Quiet, Failed
    <3>5. OnlyErrors(events', turn)
      BY <1>1, <2>2, <3>1, <3>4, EventsLost
    <3>6. Deltas(events', turn) = {}
      BY <3>5 DEF Deltas, IsDelta, OnlyErrors
    <3>7. QED  BY <1>2, <2>2, <3>4, <3>6 DEF TextInv
  <2>3. QED  BY <1>6, <2>1, <2>2 DEF HandleError
<1>7. CASE HandleResponse
  <2>1. /\ turn # NoTurn /\ state = "PROCESSING" /\ NextEvent
        /\ Final(Head(events), turn) /\ Answered(turn)
    BY <1>7, HandledResponse DEF InvR
  <2>2. Head(events) = events[1] /\ 1 \in 1..Len(events)
    BY <1>1, <2>1, NextEventTypes
  <2>3. Deltas(events, turn) = {}
    <3>1. \A d \in Deltas(events, turn) : d < 1
      BY <2>1, <2>2 DEF TextInv, TextBefore
    <3>2. \A d \in Deltas(events, turn) : d \in Nat /\ d >= 1
      BY <1>1 DEF Deltas
    <3>3. QED  BY <3>1, <3>2
  <2>4. /\ Rest \in Seq(Event) /\ Deltas(Rest, turn) = {} /\ NotAnswered(Rest, turn)
        /\ working # turn
    BY <1>1, <2>1, <2>3, NextEventTypes, DeltaHandled, EventHandled DEF Answered
  <2>5. CASE turn' = NoTurn
    BY <1>2, <2>5, TextWithoutTurn
  <2>6. CASE /\ turn' = turn /\ events' = Rest
             /\ state' = "PROCESSING" \/ state' = "PENDING_APPROVAL"
    <3>1. Deltas(events', turn') = {} /\ NumDeltas(events', turn') = 0
      BY <2>4, <2>6, NoText
    <3>2. Text(0)'
      BY <1>7, <2>1, <2>6, <3>1, ResponseText DEF Text
    <3>3. CASE state' = "PROCESSING"
      BY <1>2, <2>1, <2>4, <2>6, <3>1, <3>2, <3>3, TextOfNewRequest
    <3>4. CASE state' = "PENDING_APPROVAL"
      BY <1>2, <3>1, <3>2, <3>4 DEF TextInv
    <3>5. QED  BY <2>6, <3>3, <3>4
  <2>7. CASE AbortTick /\ state' = "EXECUTING_TOOL" /\ UNCHANGED <<turn, tasks>>
    <3>1. /\ Len(events') = Len(events) - drained
          /\ \A i \in 1..Len(events') : events'[i] = events[i + drained]
      BY <1>1, <2>7, AbortedQueue DEF AbortTick, EventTypes
    <3>2. \A i \in 1..Len(events') : i + drained \in 1..Len(events)
      BY <1>1, <3>1 DEF EventTypes
    <3>3. Deltas(events', turn) = {}
      BY <2>3, <3>1, <3>2 DEF Deltas
    <3>4. QED  BY <1>2, <2>7, <3>3 DEF TextInv
  <2>8. CASE Resubmit(turn, Rest) \/ CloseWithError(turn, Rest)
    BY <2>5, <2>6, <2>8, ResubmitOutcome
  <2>9. QED  BY <1>7, <2>5, <2>6, <2>7, <2>8, ResponseOutcome
<1>8. QED  BY <1>3, <1>4, <1>5, <1>6, <1>7 DEF Tick, ProcessEvent

\* The text is accounted for in every reachable state.
LEMMA TextInvHolds == Spec => [](InvR /\ TextInv)
<1>1. Init => TextInv
  BY DEF Init, TextInv
<1>2. InvR /\ TextInv /\ [Next]_vars => TextInv'
  <2> SUFFICES ASSUME InvR, TextInv, [Next]_vars PROVE TextInv'
    OBVIOUS
  <2>1. CASE Tick
    BY <2>1, TickKeepsText
  <2>2. CASE Worker
    BY <2>2, WorkerKeepsText
  <2>3. CASE User
    BY <2>3, UserKeepsText
  <2>4. CASE UNCHANGED vars
    BY <2>4, TextUndisturbed DEF vars, turnVars, workerVars
  <2>5. QED  BY <2>1, <2>2, <2>3, <2>4 DEF Next
<1>3. QED  BY <1>1, <1>2, InvRHolds, PTL DEF Spec

\* However deltas, stale events, aborted ticks and tool rounds interleave, the
\* text an answer is shown with is the text the worker streamed for it, unless a
\* file load emptied it on the way.
THEOREM StreamedTextHolds == Spec => []StreamedTextIsWhole
<1>1. InvR /\ TextInv => StreamedTextIsWhole
  <2> SUFFICES ASSUME InvR, TextInv, NEW i \in DOMAIN events,
                      events[i].kind = "response", events[i].turn = turn,
                      \A j \in 1..(i - 1) : events[j].turn # turn \/ events[j].kind # "delta",
                      "load" \notin touched
               PROVE  streaming = events[i].text
    BY DEF StreamedTextIsWhole
  <2>1. /\ events \in Seq(Event) /\ i \in 1..Len(events) /\ i \in Nat
        /\ AllFrom(events, turns) /\ turns \in Nat /\ streaming \in Nat
    BY SignalsAreFrom DEF InvR, Inv, TypeOK, TurnTypes, BudgetTypes, EventTypes
  <2>2. turn # NoTurn
    BY <2>1 DEF AllFrom
  <2>3. Final(events[i], turn) /\ ~NotAnswered(events, turn) /\ ~OnlyErrors(events, turn)
    BY <2>1 DEF Final, NotAnswered, OnlyErrors
  <2>4. state = "PROCESSING" /\ Answered(turn)
    BY <2>2, <2>3 DEF InvR, RequestInv, Queued, Served, Answered, Failed, Quiet
  <2>5. TextBefore(i)
    BY <2>1, <2>2, <2>3, <2>4 DEF TextInv
  <2>6. Deltas(events, turn) = {}
    <3>1. \A d \in Deltas(events, turn) : d \in 1..(i - 1) /\ IsDelta(events[d], turn)
      BY <2>1, <2>5 DEF TextBefore, Deltas
    <3>2. QED  BY <3>1 DEF IsDelta
  <2>7. NumDeltas(events, turn) = 0
    BY <2>1, <2>6, NoText
  <2>8. QED  BY <2>1, <2>5, <2>7 DEF TextBefore, Text
<1>2. QED  BY <1>1, TextInvHolds, PTL
=============================================================================
