---------------------------- MODULE Conversation ----------------------------
(***************************************************************************)
(* Operators on the message sequence of a conversation: its validity       *)
(* (agent/models.py), its turns, pruning and compaction (agent/memory.py)  *)
(* and the contexts built from it for the provider                         *)
(* (agent/context_builder.py).                                             *)
(*                                                                         *)
(* A message is its role and its tool calls.  Texts are left out: whether  *)
(* a conversation is long enough for compaction or eviction is for the     *)
(* user of these operators to choose.  The two messages of a summary are   *)
(* kinds of their own, where the code looks for marks in their texts.      *)
(***************************************************************************)
EXTENDS Integers, SequencesExt

CONSTANT RetainedTurns   \* RETAINED_TURNS_COUNT

ASSUME RetainedTurnsAssumption == RetainedTurns \in Nat \ {0}

\* A call id: the turn, the tool round and the place in the response that asked.
CallId == Nat \X Nat \X Nat
NoCall == <<0, 0, 0>>

\* turn is an annotation: the turn that added the message.
Message == [kind : {"system", "user", "assistant", "tool", "summary", "ack"},
            turn : Nat, calls : Seq(CallId), call : CallId]

Plain(kind, t)   == [kind |-> kind, turn |-> t, calls |-> <<>>, call |-> NoCall]
UserMsg(t)          == Plain("user", t)
AssistantMsg(t, cs) == [kind |-> "assistant", turn |-> t, calls |-> cs, call |-> NoCall]
ToolMsg(t, c)       == [kind |-> "tool", turn |-> t, calls |-> <<>>, call |-> c]
SystemMsg         == Plain("system", 0)
SummaryPair      == <<Plain("summary", 0), Plain("ack", 0)>>

IsUser(m) == m.kind \in {"user", "summary"}

-----------------------------------------------------------------------------
(***************************************************************************)
(* Faulty variants of the definitions named in their comments.             *)
(***************************************************************************)

\* CheckMessage: a call may be answered twice.
CheckMessageKeepingPending(acc, m) ==
  IF m.kind = "tool"
    THEN [ok |-> acc.ok /\ m.call \in acc.pending, pending |-> acc.pending]
    ELSE [ok |-> acc.ok /\ acc.pending = {}, pending |-> ToSet(m.calls)]

\* SummaryLength: a former summary counts as a turn.
SummaryIgnored(r) == 0

\* KeptFrom: messages are counted, not clusters.
KeptMessages(r) == Max({1, Len(r) - RetainedTurns})

\* InToolCluster: every message is evicted on its own.
NoToolCluster(r, i) == FALSE

-----------------------------------------------------------------------------
(***************************************************************************)
(* Validity.                                                               *)
(***************************************************************************)

\* The calls still unanswered when message i of s comes.
PendingAt(s, i) ==
  LET askers == {j \in 1..(i - 1) : s[j].kind # "tool"}
  IN  IF askers = {} THEN {}
      ELSE LET asker == Max(askers)
           IN  ToSet(s[asker].calls) \ {s[j].call : j \in (asker + 1)..(i - 1)}

\* Every tool message answers a call that is pending, and nothing else comes, and
\* the sequence does not end, while one is.
ValidSequence(s) ==
  /\ \A i \in DOMAIN s : IF s[i].kind = "tool" THEN s[i].call \in PendingAt(s, i)
                                               ELSE PendingAt(s, i) = {}
  /\ PendingAt(s, Len(s) + 1) = {}

\* The same decision by the code's loop over the messages.
CheckMessage(acc, m) ==
  IF m.kind = "tool"
    THEN [ok |-> acc.ok /\ m.call \in acc.pending, pending |-> acc.pending \ {m.call}]
    ELSE [ok |-> acc.ok /\ acc.pending = {}, pending |-> ToSet(m.calls)]

CheckedByLoop(s) ==
  LET after[i \in 0..Len(s)] ==
        IF i = 0 THEN [ok |-> TRUE, pending |-> {}] ELSE CheckMessage(after[i - 1], s[i])
      end == after[Len(s)]
  IN  end.ok /\ end.pending = {}

-----------------------------------------------------------------------------
(***************************************************************************)
(* Turns, pruning and compaction.                                          *)
(***************************************************************************)

SystemPart(s)  == IF s # <<>> /\ s[1].kind = "system" THEN <<s[1]>> ELSE <<>>
AfterSystem(s) == SubSeq(s, Len(SystemPart(s)) + 1, Len(s))

\* How many messages of a former summary r begins with.
SummaryLength(r) ==
  IF r = <<>> \/ r[1].kind # "summary" THEN 0
  ELSE IF Len(r) > 1 /\ r[2].kind = "ack" THEN 2 ELSE 1

RealTurns(s) == LET r == AfterSystem(s) IN SubSeq(r, SummaryLength(r) + 1, Len(r))

\* Where the turn clusters of r begin.
TurnStarts(r) == {i \in DOMAIN r : i = 1 \/ IsUser(r[i])}

\* There is more than what compaction must retain.
Compactable(s) == Cardinality(TurnStarts(RealTurns(s))) > RetainedTurns

\* Where the last RetainedTurns clusters begin.
KeptFrom(r) ==
  CHOOSE i \in TurnStarts(r) : Cardinality({j \in TurnStarts(r) : j >= i}) = RetainedTurns

OlderTurns(s) == LET r == RealTurns(s) IN SubSeq(r, 1, KeptFrom(r) - 1)
KeptTurns(s)  == LET r == RealTurns(s) IN SubSeq(r, KeptFrom(r), Len(r))

Compacted(s) == SystemPart(s) \o SummaryPair \o KeptTurns(s)

\* Pruning shortens contents and validates the whole conversation if it has found
\* any; compaction validates its result.
CompactionMayRaise(s) ==
  /\ Compactable(s)
  /\ \/ /\ ~ValidSequence(s)
        /\ \E i \in DOMAIN OlderTurns(s) : OlderTurns(s)[i].kind \in {"user", "tool"}
     \/ ~ValidSequence(Compacted(s))

-----------------------------------------------------------------------------
(***************************************************************************)
(* The contexts that fit some size limit: the system message, then what is *)
(* left when the oldest clusters before the latest user message go.        *)
(***************************************************************************)

LatestFrom(r) == LET users == {i \in DOMAIN r : IsUser(r[i])}
                 IN  IF users = {} THEN 1 ELSE Max(users)

\* Message i continues the cluster of an assistant message with tool calls.
InToolCluster(r, i) ==
  \E a \in 1..(i - 1) : /\ r[a].kind = "assistant" /\ r[a].calls # <<>>
                        /\ \A j \in (a + 1)..i : r[j].kind = "tool"

ClusterStarts(r) == {i \in 1..(LatestFrom(r) - 1) : ~InToolCluster(r, i)}

Contexts(s) ==
  LET r == AfterSystem(s)
  IN  {<<SystemMsg>> \o SubSeq(r, i, Len(r)) : i \in ClusterStarts(r) \union {LatestFrom(r)}}
=============================================================================
