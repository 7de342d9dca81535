----------------------------- MODULE WorkerTask -----------------------------
(***************************************************************************)
(* One provider task as the rest of the agent sees it (agent/worker.py):   *)
(* text deltas, then one answer or one failure.  Only a cancelled task may *)
(* end in silence.  The worker's actions in AgentRuntime have this shape;  *)
(* ProviderStream implements it with the provider, the HTTP client and the *)
(* accumulator of tool calls.                                              *)
(***************************************************************************)
EXTENDS Sequences

VARIABLES
  serving,    \* is there a task?
  cancelSet,  \* its cancel event
  held,       \* the kind of the event that is about to be put, or "none"
  put         \* the kinds of the events put for it

taskVars == <<serving, cancelSet, held, put>>

TaskInit == ~serving /\ ~cancelSet /\ held = "none" /\ put = <<>>

Submit == ~serving /\ serving' /\ ~cancelSet' /\ put' = <<>> /\ UNCHANGED held
Cancel == serving /\ cancelSet' /\ UNCHANGED <<serving, held, put>>

Hold ==
  /\ serving /\ ~cancelSet /\ held = "none"
  /\ held' \in {"delta", "answer", "failure"}
  /\ UNCHANGED <<serving, cancelSet, put>>
Put ==
  /\ held # "none"
  /\ put' = Append(put, held) /\ held' = "none"
  /\ serving' = (held = "delta")
  /\ UNCHANGED cancelSet

\* An exception is reported whether or not the task was cancelled.
Except ==
  /\ serving /\ held = "none"
  /\ put' = Append(put, "failure") /\ ~serving'
  /\ UNCHANGED <<cancelSet, held>>
GiveUp ==
  /\ serving /\ cancelSet /\ held = "none"
  /\ ~serving'
  /\ UNCHANGED <<cancelSet, held, put>>

TaskNext == Submit \/ Cancel \/ Hold \/ Put \/ Except \/ GiveUp
Task     == TaskInit /\ [][TaskNext]_taskVars
=============================================================================
