------------------------- MODULE PlanExecutionProofs -------------------------
(***************************************************************************)
(* Proofs about PlanExecution, for plans of any length over any tools.     *)
(***************************************************************************)
EXTENDS PlanExecution, FiniteSetTheorems, TLAPS

-----------------------------------------------------------------------------
(* Results exist only of a plan that is being executed or was, and there   *)
(* is one for each of its first steps.                                     *)

Executed == phase \in {"executing", "failed", "completed"}

ResultTypes ==
  /\ results \in Seq(Statuses)
  /\ results # <<>> => Executed

\* Completed steps come first, then nothing but skipped ones behind the first that is not.
FailFast ==
  \A i \in DOMAIN results : \A j \in 1..(i - 1) : results[j] # "COMPLETED" => results[i] = "SKIPPED"

IInv == ResultTypes /\ DependenciesFirst /\ FailFast

LEMMA RecordTypes ==
  ASSUME results \in Seq(Statuses), NEW status \in Statuses, Record(status)
  PROVE  /\ results' \in Seq(Statuses)
         /\ Len(results') = Len(results) + 1 /\ Len(results) \in Nat
         /\ DOMAIN results' = 1..(Len(results) + 1) /\ DOMAIN results = 1..Len(results)
         /\ \A i \in DOMAIN results : results'[i] = results[i]
         /\ results'[Len(results) + 1] = status
  BY DEF Record

\* The dependencies of the steps stay what they are while the plan stays what it is.
LEMMA DepsStay ==
  ASSUME UNCHANGED <<declared, order>>
  PROVE  \A i : Elements(DepsOf(order[i]))' = Elements(DepsOf(order[i]))
  BY Zenon DEF DepsOf, StepOf, Index, Elements

LEMMA InitHolds == Init => IInv
  BY DEF Init, IInv, ResultTypes, DependenciesFirst, FailFast, Executed, Statuses

\* A step that does not run leaves its dependencies aside.
LEMMA SkipHolds ==
  ASSUME IInv, phase = "executing", SkipStep, UNCHANGED <<phase, declared, order>>
  PROVE  IInv'
<1>0. \A i : Elements(DepsOf(order[i]))' = Elements(DepsOf(order[i]))
  BY DepsStay
<1>1. results \in Seq(Statuses) /\ Record("SKIPPED") /\ "SKIPPED" \in Statuses
  BY DEF IInv, ResultTypes, SkipStep, Statuses
<1>2. /\ results' \in Seq(Statuses) /\ Len(results) \in Nat
      /\ DOMAIN results' = 1..(Len(results) + 1) /\ DOMAIN results = 1..Len(results)
      /\ \A i \in DOMAIN results : results'[i] = results[i]
      /\ results'[Len(results) + 1] = "SKIPPED"
  BY <1>1, RecordTypes
<1>3. ResultTypes'
  BY <1>2 DEF ResultTypes, Executed
<1>4. DependenciesFirst'
  <2>1. SUFFICES ASSUME NEW i \in DOMAIN results', results'[i] # "SKIPPED",
                        NEW d \in Elements(DepsOf(order[i]))
                 PROVE  \E j \in 1..(i - 1) : order[j] = d /\ results'[j] = "COMPLETED"
    BY <1>0 DEF DependenciesFirst
  <2>2. i \in DOMAIN results /\ results[i] # "SKIPPED"
    BY <1>2, <2>1
  <2>3. PICK j \in 1..(i - 1) : order[j] = d /\ results[j] = "COMPLETED"
    BY <2>1, <2>2 DEF IInv, DependenciesFirst
  <2> QED
    BY <1>2, <2>2, <2>3
<1>5. FailFast'
  BY <1>2 DEF IInv, FailFast
<1> QED
  BY <1>3, <1>4, <1>5 DEF IInv

\* A step runs when no step before it has failed and all its dependencies are completed.
LEMMA ExecuteHolds ==
  ASSUME IInv, phase = "executing", ExecuteStep, UNCHANGED <<phase, declared, order>>
  PROVE  IInv'
<1> DEFINE n == Len(results) + 1
<1>0. \A i : Elements(DepsOf(order[i]))' = Elements(DepsOf(order[i]))
  BY DepsStay
<1>1. PICK status \in {"COMPLETED", "FAILED"} : Record(status)
  BY DEF ExecuteStep
<1>2. results \in Seq(Statuses) /\ status \in Statuses
  BY <1>1 DEF IInv, ResultTypes, Statuses
<1>3. /\ results' \in Seq(Statuses) /\ Len(results) \in Nat
      /\ DOMAIN results' = 1..n /\ DOMAIN results = 1..Len(results)
      /\ \A i \in DOMAIN results : results'[i] = results[i]
      /\ results'[n] = status
  BY <1>1, <1>2, RecordTypes
<1>4. \A i \in DOMAIN results : results[i] = "COMPLETED"
  BY DEF ExecuteStep, StopsPlan, Failed
<1>5. Elements(DepsOf(order[n])) \subseteq Completed
  BY DEF ExecuteStep, Blocked, CurrentStep, DepsOf
<1>6. ResultTypes'
  BY <1>3 DEF ResultTypes, Executed
<1>7. DependenciesFirst'
  <2>1. SUFFICES ASSUME NEW i \in DOMAIN results', results'[i] # "SKIPPED",
                        NEW d \in Elements(DepsOf(order[i]))
                 PROVE  \E j \in 1..(i - 1) : order[j] = d /\ results'[j] = "COMPLETED"
    BY <1>0 DEF DependenciesFirst
  <2>2. CASE i \in DOMAIN results
    <3>1. PICK j \in 1..(i - 1) : order[j] = d /\ results[j] = "COMPLETED"
      BY <1>3, <2>1, <2>2 DEF IInv, DependenciesFirst
    <3> QED
      BY <1>3, <2>2, <3>1
  <2>3. CASE i = n
    <3>1. d \in Completed
      BY <1>5, <2>1, <2>3
    <3>2. PICK j \in DOMAIN results : order[j] = d /\ results[j] = "COMPLETED"
      BY <3>1 DEF Completed
    <3> QED
      BY <1>3, <2>3, <3>2
  <2> QED
    BY <1>3, <2>1, <2>2, <2>3
<1>8. FailFast'
  BY <1>3, <1>4 DEF FailFast
<1> QED
  BY <1>6, <1>7, <1>8 DEF IInv

LEMMA StutterHolds ==
  ASSUME IInv, UNCHANGED <<declared, order, results>>, Executed => Executed'
  PROVE  IInv'
<1>0. \A i : Elements(DepsOf(order[i]))' = Elements(DepsOf(order[i]))
  BY DepsStay
<1>1. DependenciesFirst'
  BY <1>0 DEF IInv, DependenciesFirst
<1> QED
  BY <1>1 DEF IInv, ResultTypes, FailFast

LEMMA NextHolds == IInv /\ [Next]_vars => IInv'
<1> SUFFICES ASSUME IInv, [Next]_vars PROVE IInv'
  OBVIOUS
<1>1. CASE RunStep
  BY <1>1, SkipHolds, ExecuteHolds DEF RunStep, sortVars
\* Nothing is recorded yet when the plan is still declared, sorted or reviewed.
<1>2. ASSUME results = <<>>, UNCHANGED results
      PROVE  IInv'
  BY <1>2 DEF IInv, ResultTypes, DependenciesFirst, FailFast, Statuses
<1>3. CASE Declare \/ Validate \/ SortStep \/ SortEnd \/ RequestPlanReview \/ ApprovePlan \/ RejectPlan
  <2>1. ~Executed /\ UNCHANGED results
    BY <1>3 DEF Declare, Validate, SortStep, SortEnd, RequestPlanReview, ApprovePlan, RejectPlan,
                Approve, Executed
  <2> QED
    BY <1>2, <2>1 DEF IInv, ResultTypes
<1>4. CASE Summarize
  BY <1>4, StutterHolds DEF Summarize, sortVars, Executed
<1>5. CASE UNCHANGED vars
  BY <1>5, StutterHolds DEF vars, sortVars, Executed
<1> QED
  BY <1>1, <1>3, <1>4, <1>5 DEF Next

\* No step of a plan ever runs before all the steps it depends on are completed: the
\* executor looks at the dependencies itself and does not trust the order it was given
\* (plan_executor.py:270), whatever the tools do.
THEOREM DependenciesFirstHolds == Spec => []DependenciesFirst
<1>1. IInv => DependenciesFirst
  BY DEF IInv
<1> QED
  BY InitHolds, NextHolds, <1>1, PTL DEF Spec

\* Completed steps, at most one that failed, then only skipped ones: the first part of
\* SummaryTruthful (plan_executor.py:258).
THEOREM FailFastHolds == Spec => []FailFast
<1>1. IInv => FailFast
  BY DEF IInv
<1> QED
  BY InitHolds, NextHolds, <1>1, PTL DEF Spec

\* Once a step has failed or was skipped, nothing touches the scene or the undo stack.
THEOREM NothingAfterFailureHolds == Spec => NothingAfterFailure
<1>1. ASSUME [Next]_vars
      PROVE  [Failed => UNCHANGED <<edits, recorded, pushed>>]_vars
  <2>1. CASE RunStep
    BY <2>1 DEF RunStep, SkipStep, ExecuteStep, StopsPlan, sceneVars
  <2>2. CASE Declare \/ Validate \/ SortStep \/ SortEnd \/ RequestPlanReview \/ ApprovePlan \/ RejectPlan
             \/ Summarize
    BY <2>2 DEF Declare, Validate, SortStep, SortEnd, RequestPlanReview, ApprovePlan, RejectPlan,
                Approve, Summarize, sceneVars
  <2> QED
    BY <1>1, <2>1, <2>2 DEF Next
<1> QED
  BY <1>1, PTL DEF Spec, NothingAfterFailure
-----------------------------------------------------------------------------
(* The plan that runs has the steps that were reviewed, and no tool that   *)
(* the policy may not approve.                                             *)

Approved  == {"resorting", "executing", "failed", "completed"}
Validated == Approved \union {"sorting", "review", "rejected"}

SortTypes ==
  /\ declared \in Seq(RawSteps)
  /\ ready \subseteq StepIds
  /\ order \in Seq(StepIds)
  /\ phase \in Validated => \A i \in DOMAIN declared : declared[i].tool \in Tools
  /\ phase = "declaring" => order = <<>> /\ ready = {}

Gate ==
  /\ results \in Seq(Statuses) /\ Len(results) <= Len(order)
  /\ results # <<>> => Executed
  /\ approvedBy \in {"nobody", "policy", "user"}
  /\ approvedBy = "nobody" => phase \notin Approved
  /\ phase = "declaring" => approvedBy = "nobody"
  /\ approvedBy = "policy" => \A i \in DOMAIN declared : ~Gated(RiskLevel[declared[i].tool])

GInv == SortTypes /\ Gate

LEMMA IndexIn ==
  ASSUME declared \in Seq(RawSteps), NEW id \in StepIds
  PROVE  Index(id) \in DOMAIN declared /\ Index(id) \in Nat /\ StepOf(id).id = id
<1>1. \E i \in DOMAIN declared : declared[i].id = id
  BY DEF StepIds
<1>2. Index(id) \in DOMAIN declared /\ declared[Index(id)].id = id
  BY <1>1, Zenon DEF Index
<1>3. DOMAIN declared \subseteq Nat
  OBVIOUS
<1> QED
  BY <1>2, <1>3 DEF StepOf

\* There is a first one of any steps.
LEMMA FirstIn ==
  ASSUME declared \in Seq(RawSteps), NEW ids, ids \subseteq StepIds, ids # {}
  PROVE  First(ids) \in ids /\ \A other \in ids : Index(First(ids)) <= Index(other)
<1> DEFINE indexes == {Index(id) : id \in ids}
<1>1. indexes \subseteq Nat /\ indexes # {}
  BY IndexIn
<1>2. PICK least \in indexes : \A k \in indexes : <<k, least>> \notin OpToRel(<, Nat)
  BY <1>1, WFMin, NatLessThanWellFounded, Zenon
<1>3. \A k \in indexes : least <= k
  <2> HIDE DEF indexes
  <2> SUFFICES ASSUME NEW k \in indexes PROVE least <= k
    OBVIOUS
  <2>1. <<k, least>> \notin OpToRel(<, Nat)
    BY <1>2
  <2>2. ~(k < least)
    BY <1>1, <2>1, Zenon DEF OpToRel
  <2> QED
    BY <1>1, <2>2
<1>4. PICK id \in ids : \A other \in ids : Index(id) <= Index(other)
  BY <1>3
<1> QED
  BY <1>4, Zenon DEF First

LEMMA RiskIn ==
  ASSUME NEW t \in Tools
  PROVE  RiskLevel[t] \in 0..2
  BY PlanAssumption DEF RiskLevel, Risks

\* No tool of a plan is riskier than the plan.
LEMMA OverallRiskBounds ==
  ASSUME declared \in Seq(RawSteps), \A i \in DOMAIN declared : declared[i].tool \in Tools,
         NEW i \in DOMAIN declared
  PROVE  OverallRisk \in 0..2 /\ RiskLevel[declared[i].tool] <= OverallRisk
<1> DEFINE risks == {RiskLevel[declared[j].tool] : j \in DOMAIN declared}
<1>1. risks \subseteq 0..2 /\ RiskLevel[declared[i].tool] \in risks
  BY RiskIn
<1>2. \E r \in risks : \A other \in risks : other <= r
  <2> HIDE DEF risks
  <2>1. CASE 2 \in risks
    BY <1>1, <2>1
  <2>2. CASE 2 \notin risks /\ 1 \in risks
    BY <1>1, <2>2
  <2>3. CASE 2 \notin risks /\ 1 \notin risks
    <3>1. RiskLevel[declared[i].tool] \in risks /\ \A r \in risks : r = 0
      BY <1>1, <2>3
    <3> QED
      BY <3>1
  <2> QED
    BY <2>1, <2>2, <2>3
<1>3. OverallRisk = CHOOSE r \in risks : \A other \in risks : other <= r
  BY DEF OverallRisk
<1>4. OverallRisk \in risks /\ \A other \in risks : other <= OverallRisk
  <2> HIDE DEF risks
  <2> QED
    BY <1>2, <1>3
<1> QED
  BY <1>1, <1>4

LEMMA GateInit == Init => GInv
  BY DEF Init, GInv, SortTypes, Gate, Statuses, StepIds, Executed, Approved, Validated

LEMMA GateDeclare == GInv /\ Declare => GInv'
<1> SUFFICES ASSUME GInv, Declare PROVE GInv'
  OBVIOUS
<1>1. declared' \in Seq(RawSteps)
  BY DEF GInv, SortTypes, Declare
<1>2. approvedBy = "nobody" /\ phase' = "declaring" /\ order' = <<>> /\ ready' = {}
  BY DEF GInv, SortTypes, Gate, Declare, sortVars, Approved
<1>3. order' \in Seq(StepIds') /\ UNCHANGED <<results, approvedBy, order, phase>>
  BY <1>2 DEF Declare, sortVars
<1> QED
  BY <1>1, <1>2, <1>3 DEF GInv, SortTypes, Gate, Validated, Approved, Executed

LEMMA GateValidate == GInv /\ Validate => GInv'
<1> SUFFICES ASSUME GInv, Validate PROVE GInv'
  OBVIOUS
<1>1. /\ UNCHANGED <<declared, results, approvedBy>>
      /\ phase = "declaring" /\ approvedBy = "nobody" /\ results = <<>>
  BY DEF GInv, Gate, Validate, Approved, Executed
<1>2. StepIds' = StepIds
  BY <1>1 DEF StepIds
<1>3. CASE IllFormed \/ BadCalls \/ BadDependencies
  <2>1. phase' = "invalid" /\ UNCHANGED <<order, ready>>
    BY <1>3 DEF Validate, sortVars
  <2> QED
    BY <1>1, <1>2, <2>1 DEF GInv, SortTypes, Gate, Validated, Approved, Executed
<1>4. CASE ~(IllFormed \/ BadCalls \/ BadDependencies)
  <2>1. phase' = "sorting" /\ order' = <<>> /\ ready' \subseteq StepIds'
    BY <1>4 DEF Validate, StartSort
  <2>2. \A i \in DOMAIN declared : declared[i].tool \in Tools
    <3>1. SUFFICES ASSUME NEW i \in DOMAIN declared PROVE declared[i].tool \in Tools
      OBVIOUS
    <3>2. declared[i] \in RawSteps
      BY <3>1 DEF GInv, SortTypes
    <3>3. declared[i].tool \in Tools \union {"unknown", "misfit", "propose_plan"}
      BY <3>2 DEF RawSteps
    <3>4. declared[i].tool \notin {"unknown", "misfit"} /\ declared[i].tool # "propose_plan"
      BY <1>4, <3>1, Zenon DEF BadCalls, IllFormed
    <3> QED
      BY <3>3, <3>4
  <2> QED
    BY <1>1, <1>2, <2>1, <2>2 DEF GInv, SortTypes, Gate, Validated, Approved, Executed
<1> QED
  BY <1>3, <1>4

LEMMA GateSortStep == GInv /\ SortStep => GInv'
<1> SUFFICES ASSUME GInv, SortStep PROVE GInv'
  OBVIOUS
<1>1. UNCHANGED <<phase, declared, approvedBy, results>> /\ phase \in {"sorting", "resorting"}
  BY DEF SortStep
<1>2. StepIds' = StepIds
  BY <1>1 DEF StepIds
<1>3. PickNext(ready) \in StepIds
  <2>1. First(ready) \in ready
    BY FirstIn DEF GInv, SortTypes, SortStep
  <2> QED
    BY <2>1 DEF PickNext, GInv, SortTypes
<1>4. order' = Append(order, PickNext(ready)) /\ ready' \subseteq StepIds
  BY DEF SortStep, GInv, SortTypes
<1>5. order' \in Seq(StepIds) /\ Len(order') >= Len(order) /\ Len(order') \in Nat
  BY <1>3, <1>4 DEF GInv, SortTypes
<1>6. SortTypes'
  BY <1>1, <1>2, <1>4, <1>5 DEF GInv, SortTypes, Validated
<1>7. results = <<>> /\ Len(results) = 0
  BY <1>1 DEF GInv, Gate, Executed
<1>8. Gate'
  BY <1>1, <1>5, <1>7 DEF GInv, Gate, Executed
<1> QED
  BY <1>6, <1>8 DEF GInv

\* The approved plan has its steps in the order sorted, and tools no riskier than before.
LEMMA GateApprove ==
  ASSUME GInv, phase = "review", NEW who \in {"policy", "user"}, Approve(who),
         who = "policy" => AutoApproved
  PROVE  GInv'
<1>1. /\ approvedBy' = who /\ phase' = "resorting" /\ UNCHANGED results
      /\ declared' = [i \in DOMAIN order |-> StepOf(order[i])]
      /\ order' = <<>> /\ ready' \subseteq StepIds'
  BY DEF Approve, StartSort
<1>2. \A i \in DOMAIN order : Index(order[i]) \in DOMAIN declared /\ StepOf(order[i]) \in RawSteps
  <2> SUFFICES ASSUME NEW i \in DOMAIN order
               PROVE  Index(order[i]) \in DOMAIN declared /\ StepOf(order[i]) \in RawSteps
    OBVIOUS
  <2>1. order[i] \in StepIds /\ declared \in Seq(RawSteps)
    BY DEF GInv, SortTypes
  <2>2. Index(order[i]) \in DOMAIN declared
    BY <2>1, IndexIn
  <2> QED
    BY <2>1, <2>2 DEF StepOf
<1>3. DOMAIN declared' = DOMAIN order /\ declared' \in Seq(RawSteps)
  <2>1. DOMAIN order = 1..Len(order) /\ Len(order) \in Nat
    BY DEF GInv, SortTypes
  <2> QED
    BY <1>1, <1>2, <2>1
<1>4. \A i \in DOMAIN declared : declared[i].tool \in Tools
  BY DEF GInv, SortTypes, Validated
<1>5. \A i \in DOMAIN declared' : Index(order[i]) \in DOMAIN declared /\ declared'[i] = declared[Index(order[i])]
  BY <1>1, <1>2, <1>3 DEF StepOf
<1>6. SortTypes'
  BY <1>1, <1>3, <1>4, <1>5 DEF SortTypes, Validated
<1>7. results = <<>> /\ Len(results') = 0 /\ Len(order') = 0
  BY <1>1 DEF GInv, Gate, Executed
<1>8. who = "policy" => \A i \in DOMAIN declared' : ~Gated(RiskLevel[declared'[i].tool])
  <2> SUFFICES ASSUME who = "policy", NEW i \in DOMAIN declared
               PROVE  ~Gated(RiskLevel[declared[i].tool])
    BY <1>5
  <2>1. OverallRisk \in 0..2 /\ RiskLevel[declared[i].tool] <= OverallRisk
    BY <1>4, OverallRiskBounds DEF GInv, SortTypes
  <2>2. RiskLevel[declared[i].tool] \in 0..2
    BY <1>4, RiskIn
  <2>3. ~(OverallRisk >= 2)
    BY DEF AutoApproved, Gated, Risks
  <2> QED
    BY <2>1, <2>2, <2>3 DEF Gated, Risks
<1>9. Gate'
  BY <1>1, <1>7, <1>8 DEF Gate, GInv, Approved, Executed, Statuses
<1> QED
  BY <1>6, <1>9 DEF GInv

LEMMA GateRun == GInv /\ RunStep => GInv'
<1> SUFFICES ASSUME GInv, RunStep PROVE GInv'
  OBVIOUS
<1>1. UNCHANGED <<phase, declared, order, ready, approvedBy>> /\ phase = "executing"
  BY DEF RunStep, sortVars
<1>2. StepIds' = StepIds
  BY <1>1 DEF StepIds
<1>3. SortTypes'
  BY <1>1, <1>2 DEF GInv, SortTypes
<1>4. PICK status \in Statuses : Record(status)
  BY DEF RunStep, SkipStep, ExecuteStep, Statuses
<1>5. results' \in Seq(Statuses) /\ Len(results') = Len(results) + 1 /\ Len(results) < Len(order)
  BY <1>4 DEF Record, GInv, Gate, RunStep
<1>6. Len(results) \in Nat /\ Len(order) \in Nat
  BY DEF GInv, Gate, SortTypes
<1>7. Gate'
  BY <1>1, <1>5, <1>6 DEF GInv, Gate, Executed
<1> QED
  BY <1>3, <1>7 DEF GInv

LEMMA GateNext == GInv /\ [Next]_vars => GInv'
<1> SUFFICES ASSUME GInv, [Next]_vars PROVE GInv'
  OBVIOUS
<1>1. CASE Declare
  BY <1>1, GateDeclare
<1>2. CASE Validate
  BY <1>2, GateValidate
<1>3. CASE SortStep
  BY <1>3, GateSortStep
<1>4. CASE RequestPlanReview
  BY <1>4, GateApprove DEF RequestPlanReview
<1>5. CASE ApprovePlan
  BY <1>5, GateApprove DEF ApprovePlan
<1>6. CASE RunStep
  BY <1>6, GateRun
<1>7. CASE SortEnd \/ RejectPlan \/ Summarize \/ UNCHANGED vars
  <2>1. UNCHANGED <<declared, ready, order, approvedBy, results>>
    BY <1>7 DEF SortEnd, RejectPlan, Summarize, vars, sortVars
  <2>2. StepIds' = StepIds
    BY <2>1 DEF StepIds
  <2>3. /\ phase' \in Validated => phase \in Validated
        /\ phase' = "declaring" => phase = "declaring"
        /\ phase' \in Approved => phase \in Approved
        /\ Executed => Executed'
    BY <1>7 DEF SortEnd, RejectPlan, Summarize, vars, Validated, Approved, Executed
  <2>4. SortTypes'
    BY <2>1, <2>2, <2>3 DEF GInv, SortTypes
  <2>5. Gate'
    BY <2>1, <2>3 DEF GInv, Gate
  <2> QED
    BY <2>4, <2>5 DEF GInv
<1> QED
  BY <1>1, <1>2, <1>3, <1>4, <1>5, <1>6, <1>7 DEF Next

\* No tool that is MEDIUM or higher ever runs as a step of a plan that the user has not
\* approved, whatever the plan and whatever auto_approve_low_risk_plans (runtime.py:419).
THEOREM GatedToolsApprovedHolds == Spec => []GatedToolsApproved
<1>1. GInv => GatedToolsApproved
  <2> SUFFICES ASSUME GInv, NEW i \in Ran, Gated(RiskLevel[StepOf(order[i]).tool])
               PROVE  approvedBy = "user"
    BY DEF GatedToolsApproved
  <2>1. i \in DOMAIN results /\ i \in DOMAIN order /\ results # <<>>
    BY DEF Ran, GInv, Gate, SortTypes
  <2>2. order[i] \in StepIds
    BY <2>1 DEF GInv, SortTypes
  <2>3. Index(order[i]) \in DOMAIN declared
    BY <2>2, IndexIn DEF GInv, SortTypes
  <2>4. approvedBy # "policy"
    BY <2>3 DEF StepOf, GInv, Gate
  <2>5. approvedBy # "nobody"
    BY <2>1 DEF GInv, Gate, Executed, Approved
  <2> QED
    BY <2>4, <2>5 DEF GInv, Gate
<1> QED
  BY GateInit, GateNext, <1>1, PTL DEF Spec
-----------------------------------------------------------------------------
(* Sorting.  SortSound is not inductive: it needs to know what the         *)
(* degrees count, and that the steps ready are those available.            *)

Before(s, i)  == {s[j] : j \in 1..(i - 1)}
Distinct(s)   == \A i, j \in DOMAIN s : s[i] = s[j] => i = j
Open(t, done) == {i \in DOMAIN DepsOf(t) : DepsOf(t)[i] \notin done}

\* What the validator has made sure of.
WellDeclared ==
  /\ \A i \in DOMAIN declared : declared[i].id \in Ids
  /\ \A i, j \in DOMAIN declared : declared[i].id = declared[j].id => i = j
  /\ \A i \in DOMAIN declared : Elements(declared[i].deps) \subseteq StepIds

\* The degree of a step counts its dependencies still to be sorted, each as often as
\* it is listed, and the steps ready are those available.
Kahn ==
  /\ inDegree = [t \in StepIds |-> Cardinality(Open(t, Elements(order)))]
  /\ ready = Available(Elements(order))
  /\ Distinct(order)
  /\ \A i \in DOMAIN order :
       /\ order[i] \in Available(Before(order, i))
       /\ order[i] = First(Available(Before(order, i)))

\* A step is found by its id.
LEMMA StepOfIs ==
  ASSUME declared \in Seq(RawSteps), WellDeclared, NEW i \in DOMAIN declared
  PROVE  /\ declared[i].id \in StepIds /\ Index(declared[i].id) = i
         /\ StepOf(declared[i].id) = declared[i] /\ DepsOf(declared[i].id) = declared[i].deps
<1>1. declared[i].id \in StepIds
  BY DEF StepIds
<1>2. Index(declared[i].id) \in DOMAIN declared /\ StepOf(declared[i].id).id = declared[i].id
  BY <1>1, IndexIn
<1>3. Index(declared[i].id) = i
  BY <1>2 DEF StepOf, WellDeclared
<1> QED
  BY <1>1, <1>3 DEF StepOf, DepsOf

\* The dependencies of a step are a sequence of steps.
LEMMA DepsTyped ==
  ASSUME declared \in Seq(RawSteps), WellDeclared, NEW t \in StepIds
  PROVE  /\ Len(DepsOf(t)) \in Nat /\ DOMAIN DepsOf(t) = 1..Len(DepsOf(t))
         /\ DepsOf(t) \in Seq(Ids \union {Ghost})
         /\ Elements(DepsOf(t)) \subseteq StepIds /\ t \in Ids
<1>1. Index(t) \in DOMAIN declared /\ declared[Index(t)].id = t
  BY IndexIn DEF StepOf
<1>2. DepsOf(t) = declared[Index(t)].deps /\ declared[Index(t)] \in RawSteps
  BY <1>1 DEF DepsOf, StepOf
<1>3. DepsOf(t) \in Seq(Ids \union {Ghost})
  <2>1. DepsOf(t) \in Dependencies
    BY <1>2 DEF RawSteps
  <2>2. PICK n \in 0..MaxDeps : DepsOf(t) \in [1..n -> Ids \union {Ghost}]
    BY <2>1 DEF Dependencies
  <2>3. n \in Nat
    BY PlanAssumption
  <2> QED
    BY <2>2, <2>3
<1> QED
  BY <1>1, <1>2, <1>3 DEF WellDeclared

\* A step has no open dependency if and only if all of them are done.
LEMMA OpenCount ==
  ASSUME declared \in Seq(RawSteps), WellDeclared, NEW t \in StepIds, NEW done
  PROVE  /\ IsFiniteSet(Open(t, done)) /\ Cardinality(Open(t, done)) \in Nat
         /\ Cardinality(Open(t, done)) = 0 <=> Elements(DepsOf(t)) \subseteq done
<1>1. Len(DepsOf(t)) \in Nat /\ DOMAIN DepsOf(t) = 1..Len(DepsOf(t))
  BY DepsTyped
<1>2. IsFiniteSet(1..Len(DepsOf(t)))
  BY <1>1, FS_Interval
<1>3. Open(t, done) \subseteq 1..Len(DepsOf(t))
  BY <1>1 DEF Open
<1>4. IsFiniteSet(Open(t, done))
  BY <1>2, <1>3, FS_Subset
<1>5. Open(t, done) = {} <=> Elements(DepsOf(t)) \subseteq done
  BY Zenon DEF Open, Elements
<1> QED
  BY <1>4, <1>5, FS_CardinalityType, FS_EmptySet

\* A step that gets done takes its occurrences off the count.
LEMMA OpenLess ==
  ASSUME declared \in Seq(RawSteps), WellDeclared, NEW t \in StepIds, NEW done, NEW id, id \notin done
  PROVE  Cardinality(Open(t, done \union {id}))
           = Cardinality(Open(t, done)) - Occurrences(DepsOf(t), id)
<1> DEFINE S == Open(t, done)
           T == {i \in DOMAIN DepsOf(t) : DepsOf(t)[i] = id}
<1>1. S \intersect T = T /\ S \ T = Open(t, done \union {id})
  BY Zenon DEF Open
<1>2. IsFiniteSet(S)
  BY OpenCount
<1>3. Cardinality(S \ T) = Cardinality(S) - Cardinality(S \intersect T)
  BY <1>2, FS_Difference
<1>4. Occurrences(DepsOf(t), id) = Cardinality(T)
  BY DEF Occurrences
<1> QED
  BY <1>1, <1>3, <1>4

\* Before anything is done, all dependencies are open.
LEMMA OpenFirst ==
  declared \in Seq(RawSteps) /\ WellDeclared =>
    \A t \in StepIds : /\ Cardinality(Open(t, {})) = Len(DepsOf(t))
                       /\ DepsOf(t) = <<>> <=> Elements(DepsOf(t)) \subseteq {}
<1> SUFFICES ASSUME declared \in Seq(RawSteps), WellDeclared, NEW t \in StepIds
             PROVE  /\ Cardinality(Open(t, {})) = Len(DepsOf(t))
                    /\ DepsOf(t) = <<>> <=> Elements(DepsOf(t)) \subseteq {}
  OBVIOUS
<1>1. /\ Len(DepsOf(t)) \in Nat /\ DOMAIN DepsOf(t) = 1..Len(DepsOf(t))
      /\ DepsOf(t) \in Seq(Ids \union {Ghost})
  BY DepsTyped
<1>2. Open(t, {}) = 1..Len(DepsOf(t))
  BY <1>1 DEF Open
<1>3. Cardinality(1..Len(DepsOf(t))) = Len(DepsOf(t))
  <2>1. PICK n \in Nat : n = Len(DepsOf(t))
    BY <1>1
  <2>2. Cardinality(1..n) = n
    BY FS_Interval
  <2> QED
    BY <2>1, <2>2
<1>4. DepsOf(t) = <<>> => Elements(DepsOf(t)) \subseteq {}
  BY DEF Elements
<1>5. ASSUME DepsOf(t) # <<>> PROVE Elements(DepsOf(t)) # {}
  <2>1. 1 \in DOMAIN DepsOf(t)
    BY <1>1, <1>5
  <2> QED
    BY <2>1 DEF Elements
<1> QED
  BY <1>2, <1>3, <1>4, <1>5

\* As many steps are done as are sorted.
LEMMA DistinctCount ==
  ASSUME NEW S, NEW s \in Seq(S), Distinct(s)
  PROVE  IsFiniteSet(Elements(s)) /\ Cardinality(Elements(s)) = Len(s)
<1>1. Len(s) \in Nat /\ DOMAIN s = 1..Len(s)
  OBVIOUS
<1>2. s \in Bijection(1..Len(s), Elements(s))
  <2>1. s \in [1..Len(s) -> Elements(s)]
    BY <1>1 DEF Elements
  <2>2. \A x \in Elements(s) : \E i \in 1..Len(s) : s[i] = x
    BY <1>1 DEF Elements
  <2>3. IsInjective(s)
    BY <1>1 DEF Distinct, IsInjective
  <2> QED
    BY <2>1, <2>2, <2>3 DEF Bijection, Injection, Surjection
<1>3. IsFiniteSet(1..Len(s)) /\ Cardinality(1..Len(s)) = Len(s)
  BY <1>1, FS_Interval
<1> QED
  BY <1>2, <1>3, FS_Bijection DEF ExistsBijection

\* Nothing about the steps changes as long as the plan stays what it is.
LEMMA DeclaredStay ==
  ASSUME UNCHANGED declared
  PROVE  /\ StepIds' = StepIds
         /\ \A t : DepsOf(t)' = DepsOf(t) /\ Elements(DepsOf(t))' = Elements(DepsOf(t))
         /\ \A ids : First(ids)' = First(ids)
         /\ \A done : Available(done)' = Available(done)
         /\ \A t, done : Open(t, done)' = Open(t, done)
         /\ WellDeclared' = WellDeclared
<1>1. StepIds' = StepIds /\ \A t : DepsOf(t)' = DepsOf(t)
  BY Zenon DEF StepIds, DepsOf, StepOf, Index
<1>2. \A t : Elements(DepsOf(t))' = Elements(DepsOf(t))
  BY <1>1, Zenon DEF Elements
<1>3. \A ids : First(ids)' = First(ids)
  <2> SUFFICES ASSUME NEW ids PROVE First(ids)' = First(ids)
    OBVIOUS
  <2>1. declared' = declared
    OBVIOUS
  <2> QED
    BY <2>1, SMTT(20) DEF First, Index
<1>4. \A done : Available(done)' = Available(done)
  BY <1>1, <1>2, Zenon DEF Available
<1>5. \A t, done : Open(t, done)' = Open(t, done)
  BY <1>1, Zenon DEF Open
<1>6. WellDeclared' = WellDeclared
  BY <1>1, SMT DEF WellDeclared, Elements
<1> QED
  BY <1>1, <1>2, <1>3, <1>4, <1>5, <1>6

LEMMA StartKahn == declared' \in Seq(RawSteps) /\ WellDeclared' /\ StartSort => Kahn'
<1>1. (declared \in Seq(RawSteps) /\ WellDeclared =>
         \A t \in StepIds : /\ Cardinality(Open(t, {})) = Len(DepsOf(t))
                            /\ DepsOf(t) = <<>> <=> Elements(DepsOf(t)) \subseteq {})'
  BY OpenFirst, PTL
<1> SUFFICES ASSUME declared' \in Seq(RawSteps), WellDeclared', StartSort PROVE Kahn'
  OBVIOUS
<1>2. Elements(order)' = {} /\ DOMAIN order' = {}
  BY DEF StartSort, Elements
<1>3. inDegree' = [t \in StepIds |-> Cardinality(Open(t, Elements(order)))]'
  BY <1>1, <1>2 DEF StartSort
<1>4. ready' = Available(Elements(order))'
  BY <1>1, <1>2 DEF StartSort, Available
<1> QED
  BY <1>2, <1>3, <1>4 DEF Kahn, Distinct

\* A sorted step has all its dependencies among the sorted ones.
LEMMA DoneClosed ==
  ASSUME Kahn, order \in Seq(StepIds), NEW t \in Elements(order)
  PROVE  t \in StepIds /\ Elements(DepsOf(t)) \subseteq Elements(order)
<1>1. PICK i \in DOMAIN order : t = order[i]
  BY DEF Elements
<1>2. t \in Available(Before(order, i))
  BY <1>1 DEF Kahn
<1>3. Before(order, i) \subseteq Elements(order)
  BY DEF Before, Elements
<1> QED
  BY <1>2, <1>3 DEF Available

\* The sequence one element longer.
LEMMA AppendElements ==
  ASSUME NEW S, NEW s \in Seq(S), NEW x \in S
  PROVE  /\ Append(s, x) \in Seq(S)
         /\ DOMAIN s = 1..Len(s) /\ DOMAIN Append(s, x) = 1..(Len(s) + 1) /\ Len(s) \in Nat
         /\ \A i \in DOMAIN s : Append(s, x)[i] = s[i] /\ Before(Append(s, x), i) = Before(s, i)
         /\ Append(s, x)[Len(s) + 1] = x
         /\ Elements(Append(s, x)) = Elements(s) \union {x}
         /\ Before(Append(s, x), Len(s) + 1) = Elements(s)
<1> DEFINE r == Append(s, x)
           n == Len(s)
<1>1. /\ r \in Seq(S) /\ n \in Nat /\ DOMAIN s = 1..n /\ DOMAIN r = 1..(n + 1)
      /\ \A i \in 1..n : r[i] = s[i]
      /\ r[n + 1] = x
  OBVIOUS
<1> HIDE DEF r, n
<1>2. ASSUME NEW i \in 1..n PROVE Before(r, i) = Before(s, i)
  <2>1. \A j \in 1..(i - 1) : j \in 1..n /\ r[j] = s[j]
    BY <1>1
  <2> QED
    BY <2>1, Zenon DEF Before
<1>3. Before(r, n + 1) = Elements(s)
  <2>1. (n + 1) - 1 = n
    BY <1>1
  <2> QED
    BY <1>1, <2>1 DEF Before, Elements
<1>4. Elements(r) = Elements(s) \union {x}
  BY <1>1 DEF Elements
<1> QED
  BY <1>1, <1>2, <1>3, <1>4 DEF r, n

\* Among the steps not yet done, those with no open dependency are available.
LEMMA SortStepReady ==
  ASSUME declared \in Seq(RawSteps), WellDeclared, NEW done, NEW id \in Available(done),
         \A t \in done : t \in StepIds /\ Elements(DepsOf(t)) \subseteq done,
         NEW t \in StepIds, NEW before, NEW after,
         before = Cardinality(Open(t, done)), after = Cardinality(Open(t, done \union {id}))
  PROVE  t \in Available(done \union {id})
           <=> (t \in Available(done) /\ t # id) \/ (before > 0 /\ after = 0)
<1>1. before \in Nat /\ (before = 0 <=> Elements(DepsOf(t)) \subseteq done)
  BY OpenCount
<1>2. after = 0 <=> Elements(DepsOf(t)) \subseteq done \union {id}
  BY OpenCount
<1>3. Elements(DepsOf(id)) \subseteq done /\ id \notin done
  BY DEF Available
<1>4. before > 0 <=> ~(Elements(DepsOf(t)) \subseteq done)
  BY <1>1
<1> QED
  BY <1>2, <1>3, <1>4, Zenon DEF Available

LEMMA SortStepKahn ==
  ASSUME declared \in Seq(RawSteps), order \in Seq(StepIds), WellDeclared, Kahn, SortStep
  PROVE  Kahn'
<1> DEFINE done == Elements(order)
           id   == First(ready)
<1>1. UNCHANGED declared /\ ready # {} /\ ready = Available(done)
  BY DEF SortStep, Kahn
<1>2. id \in ready
  BY <1>1, FirstIn DEF Available
<1>3. id \in StepIds /\ id \notin done
  BY <1>1, <1>2 DEF Available
<1>4. order' = Append(order, id)
  BY DEF SortStep, PickNext
<1>5. /\ DOMAIN order = 1..Len(order) /\ DOMAIN order' = 1..(Len(order) + 1) /\ Len(order) \in Nat
      /\ \A i \in DOMAIN order : order'[i] = order[i] /\ Before(order', i) = Before(order, i)
      /\ order'[Len(order) + 1] = id
      /\ Elements(order') = done \union {id} /\ Before(order', Len(order) + 1) = done
  BY <1>3, <1>4, AppendElements
<1>6. \A t \in done : t \in StepIds /\ Elements(DepsOf(t)) \subseteq done
  BY DoneClosed
<1>7. /\ inDegree = [t \in StepIds |-> Cardinality(Open(t, done))]
      /\ inDegree' = [t \in StepIds |-> inDegree[t] - Occurrences(DepsOf(t), id)]
      /\ ready' = (ready \ {id}) \union {t \in StepIds : inDegree[t] > 0 /\ inDegree'[t] = 0}
  BY DEF Kahn, SortStep, PickNext
<1> HIDE DEF done, id
<1>8. inDegree' = [t \in StepIds |-> Cardinality(Open(t, done \union {id}))]
  BY <1>3, <1>7, OpenLess
<1>9. ready' = Available(done \union {id})
  <2>1. ready' \subseteq StepIds /\ Available(done \union {id}) \subseteq StepIds
    BY <1>1, <1>7 DEF Available
  <2>2. ASSUME NEW t \in StepIds
        PROVE  t \in ready' <=> t \in Available(done \union {id})
    <3>1. PICK before, after : before = Cardinality(Open(t, done)) /\ after = Cardinality(Open(t, done \union {id}))
      OBVIOUS
    <3>2. inDegree[t] = before /\ inDegree'[t] = after
      BY <1>7, <1>8, <3>1
    <3>3. t \in ready' <=> (t \in ready /\ t # id) \/ (before > 0 /\ after = 0)
      BY <1>7, <3>2
    <3>4. t \in Available(done \union {id})
            <=> (t \in Available(done) /\ t # id) \/ (before > 0 /\ after = 0)
      BY <1>1, <1>2, <1>6, <3>1, SortStepReady
    <3> QED
      BY <1>1, <3>3, <3>4
  <2> QED
    BY <2>1, <2>2
<1>10. Distinct(order')
  <2>1. \A i \in DOMAIN order : order[i] # id
    BY <1>3 DEF done, Elements
  <2> QED
    BY <1>5, <2>1 DEF Kahn, Distinct
<1>11. ASSUME NEW i \in DOMAIN order'
       PROVE  order'[i] \in Available(Before(order', i)) /\ order'[i] = First(Available(Before(order', i)))
  <2>1. CASE i \in DOMAIN order
    BY <1>5, <2>1 DEF Kahn
  <2>2. CASE i = Len(order) + 1
    BY <1>1, <1>2, <1>5, <2>2 DEF id
  <2> QED
    BY <1>5, <2>1, <2>2
<1>12. /\ StepIds' = StepIds
       /\ \A ids : First(ids)' = First(ids)
       /\ \A seen : Available(seen)' = Available(seen)
       /\ \A t, seen : Open(t, seen)' = Open(t, seen)
  BY <1>1, DeclaredStay
<1>13. Elements(order)' = done \union {id}
  BY <1>5 DEF Elements
<1>14. inDegree' = [t \in StepIds |-> Cardinality(Open(t, Elements(order)))]'
  BY <1>8, <1>12, <1>13
<1>15. ready' = Available(Elements(order))'
  BY <1>9, <1>12, <1>13
<1>16. Distinct(order)'
  BY <1>10 DEF Distinct
<1>17. (\A i \in DOMAIN order :
         order[i] \in Available(Before(order, i)) /\ order[i] = First(Available(Before(order, i))))'
  <2>1. \A i : Before(order, i)' = Before(order', i)
    BY DEF Before
  <2> QED
    BY <1>11, <1>12, <2>1
<1> QED
  BY <1>14, <1>15, <1>16, <1>17 DEF Kahn

\* What is left when nothing is ready is a cycle or depends on one.
LEMMA LeftIsCyclic ==
  ASSUME declared \in Seq(RawSteps), order \in Seq(StepIds), WellDeclared, Kahn, ready = {}, Cyclic
  PROVE  \E cycle \in SUBSET StepIds :
           cycle # {} /\ \A id \in cycle : Elements(DepsOf(id)) \intersect cycle # {}
<1> DEFINE done  == Elements(order)
           cycle == StepIds \ done
<1>1. done \subseteq StepIds
  BY DEF Elements
<1>2. Cardinality(done) = Len(order)
  BY DistinctCount DEF Kahn
<1>3. cycle # {}
  <2>1. cycle = {} => done = StepIds
    BY <1>1
  <2> HIDE DEF cycle, done
  <2> QED
    BY <1>2, <2>1 DEF Cyclic
<1>4. ASSUME NEW id \in cycle PROVE Elements(DepsOf(id)) \intersect cycle # {}
  <2>1. ~(Elements(DepsOf(id)) \subseteq done)
    BY <1>4 DEF Kahn, Available
  <2>2. Elements(DepsOf(id)) \subseteq StepIds
    BY <1>4, DepsTyped
  <2> QED
    BY <2>1, <2>2
<1> QED
  BY <1>3, <1>4

LEMMA AllSorted ==
  ASSUME declared \in Seq(RawSteps), order \in Seq(StepIds), Kahn, ~Cyclic
  PROVE  Elements(order) = StepIds
<1>0. Elements(order) \subseteq StepIds
  BY DEF Elements
<1>1. Cardinality(Elements(order)) = Len(order)
  BY DistinctCount DEF Kahn
<1>2. IsFiniteSet(StepIds)
  <2>1. DOMAIN declared = 1..Len(declared) /\ Len(declared) \in Nat
    OBVIOUS
  <2>2. IsFiniteSet(DOMAIN declared)
    BY <2>1, FS_Interval
  <2>3. PICK f : f = [i \in DOMAIN declared |-> declared[i].id]
    OBVIOUS
  <2>4. f \in Surjection(DOMAIN declared, StepIds)
    BY <2>3 DEF Surjection, StepIds
  <2> QED
    BY <2>2, <2>4, FS_Surjection
<1> QED
  BY <1>0, <1>1, <1>2, FS_Subset DEF Cyclic

-----------------------------------------------------------------------------
(* The reviewed plan sorted once more.  Its steps are declared in the      *)
(* order of the first sort, so every step follows those it depends on, and *)
(* the second sort goes through them one by one.                           *)

Declarations == [i \in DOMAIN declared |-> declared[i].id]
FollowsReview ==
  /\ reviewed = Declarations
  /\ \A i \in DOMAIN declared : Elements(declared[i].deps) \subseteq Before(Declarations, i)
  /\ Len(order) <= Len(declared)
  /\ \A i \in DOMAIN order : order[i] = Declarations[i]

LEMMA ResortDone ==
  ASSUME declared \in Seq(RawSteps), order \in Seq(StepIds), FollowsReview, Len(order) = Len(declared)
  PROVE  order = reviewed /\ Elements(order) = StepIds
<1>1. /\ DOMAIN order = DOMAIN declared
      /\ order = [i \in DOMAIN order |-> order[i]]
  OBVIOUS
<1>2. order = Declarations
  BY <1>1 DEF FollowsReview, Declarations
<1> QED
  BY <1>1, <1>2 DEF FollowsReview, Declarations, Elements, StepIds

\* The step that comes next is the next one reviewed.
LEMMA ResortNext ==
  ASSUME declared \in Seq(RawSteps), order \in Seq(StepIds), WellDeclared, Kahn, FollowsReview,
         NEW m, m = Len(order) + 1, m <= Len(declared)
  PROVE  Declarations[m] \in ready /\ First(ready) = Declarations[m]
<1> DEFINE n == Len(order)
           x == declared[m].id
<1>1. /\ n \in Nat /\ m \in Nat /\ m - 1 = n /\ m \in DOMAIN declared
      /\ DOMAIN order = 1..n /\ DOMAIN declared = 1..Len(declared)
      /\ \A j \in 1..n : j \in DOMAIN declared /\ j # m
  OBVIOUS
<1>2. Declarations[m] = x /\ \A j \in 1..n : order[j] = declared[j].id
  BY <1>1 DEF FollowsReview, Declarations
<1>3. Elements(order) = {declared[j].id : j \in 1..n}
  BY <1>1, <1>2 DEF Elements
<1>4. x \in StepIds /\ Index(x) = m /\ DepsOf(x) = declared[m].deps
  BY <1>1, StepOfIs
<1>5. x \notin Elements(order)
  BY <1>1, <1>3 DEF WellDeclared
<1>6. Elements(declared[m].deps) \subseteq Elements(order)
  <2>1. Before(Declarations, m) = Elements(order)
    BY <1>1, <1>2, <1>3 DEF Before, Declarations
  <2> QED
    BY <1>1, <2>1 DEF FollowsReview
<1>7. x \in ready
  BY <1>4, <1>5, <1>6 DEF Kahn, Available
<1>8. PICK f : f = First(ready)
  OBVIOUS
<1>9. f \in ready /\ Index(f) <= m
  BY <1>4, <1>7, <1>8, FirstIn DEF Kahn, Available
<1>10. f \in StepIds /\ f \notin Elements(order)
  BY <1>9 DEF Kahn, Available
<1>11. Index(f) \in DOMAIN declared /\ Index(f) \in Nat /\ declared[Index(f)].id = f
  BY <1>10, IndexIn DEF StepOf
<1>12. Index(f) \notin 1..n
  BY <1>3, <1>10, <1>11
<1>13. Index(f) = m
  BY <1>1, <1>9, <1>11, <1>12
<1> QED
  BY <1>2, <1>7, <1>8, <1>11, <1>13

-----------------------------------------------------------------------------
(* The invariant of the two sorts and of the review between them.          *)

CycleFound ==
  \E cycle \in SUBSET StepIds :
    cycle # {} /\ \A id \in cycle : Elements(DepsOf(id)) \intersect cycle # {}

Sorting ==
  /\ phase \in Validated => WellDeclared /\ Kahn
  /\ phase = "invalid" /\ order # <<>> => CycleFound
  /\ phase = "review" \/ Executed => Elements(order) = StepIds

Reviewing ==
  /\ phase \in Approved <=> approvedBy # "nobody"
  /\ phase = "review" => reviewed = order
  /\ phase \in Approved => FollowsReview
  /\ Executed => reviewed = order

SInv == GInv /\ Sorting /\ Reviewing

LEMMA SortInit == Init => SInv
  BY GateInit DEF Init, SInv, Sorting, Reviewing, Validated, Approved, Executed

LEMMA SortDeclare == SInv /\ Declare => SInv'
<1> SUFFICES ASSUME SInv, Declare PROVE SInv'
  OBVIOUS
<1>1. GInv'
  BY GateDeclare DEF SInv
<1>2. phase = "declaring" /\ UNCHANGED <<phase, approvedBy>>
  BY DEF Declare
<1> QED
  BY <1>1, <1>2 DEF SInv, Sorting, Reviewing, Validated, Approved, Executed

LEMMA SortValidate == SInv /\ Validate => SInv'
<1> SUFFICES ASSUME SInv, Validate PROVE SInv'
  OBVIOUS
<1>1. GInv' /\ declared \in Seq(RawSteps)
  BY GateValidate DEF SInv, GInv, SortTypes
<1>2. phase = "declaring" /\ UNCHANGED <<declared, reviewed, approvedBy>> /\ approvedBy = "nobody"
  BY DEF Validate, SInv, GInv, Gate
<1>3. CASE IllFormed \/ BadCalls \/ BadDependencies
  <2>1. phase' = "invalid" /\ order' = <<>>
    BY <1>2, <1>3 DEF Validate, sortVars, SInv, GInv, SortTypes
  <2> QED
    BY <1>1, <1>2, <2>1 DEF SInv, Sorting, Reviewing, Validated, Approved, Executed
<1>4. CASE ~(IllFormed \/ BadCalls \/ BadDependencies)
  <2>1. phase' = "sorting" /\ StartSort
    BY <1>4 DEF Validate
  <2>2. WellDeclared
    <3>1. \A i \in DOMAIN declared : declared[i] \in RawSteps
      BY <1>1
    <3>2. \A i \in DOMAIN declared : declared[i].id \in Ids
      BY <1>4, <3>1, Zenon DEF IllFormed, RawSteps
    <3>3. \A i, j \in DOMAIN declared : declared[i].id = declared[j].id => i = j
      BY <1>4, Zenon DEF IllFormed
    <3>4. \A i \in DOMAIN declared : Elements(declared[i].deps) \subseteq StepIds
      BY <1>4, Zenon DEF BadDependencies
    <3> QED
      BY <3>2, <3>3, <3>4 DEF WellDeclared
  <2>3. WellDeclared' /\ declared' \in Seq(RawSteps)
    BY <1>1, <1>2, <2>2, DeclaredStay
  <2>4. Kahn'
    BY <2>1, <2>3, StartKahn
  <2> QED
    BY <1>1, <1>2, <2>1, <2>3, <2>4 DEF SInv, Sorting, Reviewing, Validated, Approved, Executed
<1> QED
  BY <1>3, <1>4

\* The second sort follows the first one.
LEMMA ResortStep ==
  ASSUME declared \in Seq(RawSteps), order \in Seq(StepIds), WellDeclared, Kahn, FollowsReview,
         SortStep
  PROVE  FollowsReview'
<1> DEFINE n == Len(order)
<1>1. UNCHANGED <<declared, reviewed>> /\ ready # {} /\ order' = Append(order, First(ready))
  BY DEF SortStep, PickNext
<1>2. n \in Nat /\ Len(declared) \in Nat /\ n <= Len(declared)
  BY DEF FollowsReview
<1>3. n # Len(declared)
  <2>1. n = Len(declared) => Elements(order) = StepIds
    BY ResortDone
  <2> QED
    BY <1>1, <2>1 DEF Kahn, Available
<1>4. PICK m : m = n + 1
  OBVIOUS
<1>5. m \in DOMAIN declared /\ m <= Len(declared)
  BY <1>2, <1>3, <1>4
<1>6. Declarations[m] \in StepIds /\ First(ready) = Declarations[m]
  <2>1. Declarations[m] \in ready /\ First(ready) = Declarations[m]
    BY <1>4, <1>5, ResortNext
  <2> QED
    BY <2>1 DEF Kahn, Available
<1>7. /\ DOMAIN order = 1..n /\ DOMAIN order' = 1..m /\ Len(order') = m
      /\ \A i \in DOMAIN order : order'[i] = order[i]
      /\ order'[m] = Declarations[m]
  BY <1>1, <1>2, <1>4, <1>6
<1>8. Declarations' = Declarations
  BY <1>1 DEF Declarations
<1>9. \A i : Before(Declarations, i)' = Before(Declarations, i)
  BY <1>8 DEF Before
<1>10. \A i \in DOMAIN order' : order'[i] = Declarations[i]
  BY <1>2, <1>4, <1>7 DEF FollowsReview
<1>11. \A i : Elements(declared[i].deps)' = Elements(declared[i].deps)
  BY <1>1 DEF Elements
<1> QED
  BY <1>1, <1>5, <1>7, <1>8, <1>9, <1>10, <1>11 DEF FollowsReview

LEMMA SortSortStep == SInv /\ SortStep => SInv'
<1> SUFFICES ASSUME SInv, SortStep PROVE SInv'
  OBVIOUS
<1>1. /\ declared \in Seq(RawSteps) /\ order \in Seq(StepIds)
      /\ GInv'
  BY GateSortStep DEF SInv, GInv, SortTypes
<1>2. UNCHANGED <<phase, declared, reviewed, approvedBy>> /\ phase \in {"sorting", "resorting"}
  BY DEF SortStep
<1>3. WellDeclared /\ Kahn
  BY <1>2 DEF SInv, Sorting, Validated, Approved
<1>4. WellDeclared' /\ Kahn'
  BY <1>1, <1>2, <1>3, DeclaredStay, SortStepKahn
<1>5. phase = "resorting" => FollowsReview'
  BY <1>1, <1>3, ResortStep DEF SInv, Reviewing, Approved
<1> QED
  BY <1>1, <1>2, <1>4, <1>5 DEF SInv, Sorting, Reviewing, Validated, Approved, Executed

\* What the invariant says stays so when neither the plan nor its order changes.
LEMMA SortStay ==
  ASSUME UNCHANGED <<declared, inDegree, ready, order>>
  PROVE  /\ StepIds' = StepIds
         /\ WellDeclared' = WellDeclared
         /\ Kahn => Kahn'
         /\ CycleFound' = CycleFound
         /\ Elements(order)' = Elements(order)
         /\ UNCHANGED reviewed => FollowsReview' = FollowsReview
<1>1. UNCHANGED declared /\ order' = order
  OBVIOUS
<1>2. /\ StepIds' = StepIds
      /\ \A t : DepsOf(t)' = DepsOf(t) /\ Elements(DepsOf(t))' = Elements(DepsOf(t))
      /\ \A ids : First(ids)' = First(ids)
      /\ \A done : Available(done)' = Available(done)
      /\ \A t, done : Open(t, done)' = Open(t, done)
      /\ WellDeclared' = WellDeclared
  BY <1>1, DeclaredStay
<1>3. Elements(order)' = Elements(order) /\ \A i : Before(order, i)' = Before(order, i)
  BY <1>1 DEF Elements, Before
<1>4. Kahn => Kahn'
  <2> SUFFICES ASSUME Kahn PROVE Kahn'
    OBVIOUS
  <2>1. inDegree' = [t \in StepIds |-> Cardinality(Open(t, Elements(order)))]'
    BY <1>2, <1>3 DEF Kahn
  <2>2. ready' = Available(Elements(order))'
    BY <1>2, <1>3 DEF Kahn
  <2>3. (\A i \in DOMAIN order :
          order[i] \in Available(Before(order, i)) /\ order[i] = First(Available(Before(order, i))))'
    BY <1>1, <1>2, <1>3 DEF Kahn
  <2> QED
    BY <1>1, <2>1, <2>2, <2>3 DEF Kahn, Distinct
<1>5. CycleFound' = CycleFound
  BY <1>2, SMT DEF CycleFound
<1>6. UNCHANGED reviewed => FollowsReview' = FollowsReview
  BY <1>1, SMT DEF FollowsReview, Declarations, Elements, Before
<1> QED
  BY <1>2, <1>3, <1>4, <1>5, <1>6

LEMMA SortSortEnd == SInv /\ SortEnd => SInv'
<1> SUFFICES ASSUME SInv, SortEnd PROVE SInv'
  OBVIOUS
<1>1. GInv' /\ declared \in Seq(RawSteps) /\ order \in Seq(StepIds)
  BY GateNext DEF SInv, GInv, SortTypes, Next
<1>2. /\ UNCHANGED <<declared, inDegree, ready, order, approvedBy>>
      /\ phase \in {"sorting", "resorting"} /\ ready = {}
  BY DEF SortEnd, sortVars
<1>3. /\ WellDeclared' = WellDeclared
      /\ Kahn => Kahn'
      /\ CycleFound' = CycleFound
      /\ Elements(order)' = Elements(order) /\ StepIds' = StepIds
      /\ UNCHANGED reviewed => FollowsReview' = FollowsReview
  BY <1>2, SortStay
<1>4. WellDeclared /\ Kahn
  BY <1>2 DEF SInv, Sorting, Validated, Approved
<1>5. CASE phase = "sorting" /\ Cyclic
  <2>1. CycleFound
    BY <1>1, <1>2, <1>4, <1>5, LeftIsCyclic DEF CycleFound
  <2>2. phase' = "invalid" /\ approvedBy = "nobody"
    BY <1>5 DEF SortEnd, SInv, Reviewing, Approved
  <2> QED
    BY <1>1, <1>2, <1>3, <2>1, <2>2 DEF SInv, Sorting, Reviewing, Validated, Approved, Executed
<1>6. CASE phase = "sorting" /\ ~Cyclic
  <2>1. Elements(order) = StepIds
    BY <1>1, <1>4, <1>6, AllSorted
  <2>2. phase' = "review" /\ reviewed' = order /\ approvedBy = "nobody"
    BY <1>6 DEF SortEnd, SInv, Reviewing, Approved
  <2> QED
    BY <1>1, <1>2, <1>3, <1>4, <2>1, <2>2 DEF SInv, Sorting, Reviewing, Validated, Approved, Executed
<1>7. CASE phase = "resorting"
  <2>1. FollowsReview /\ approvedBy # "nobody"
    BY <1>7 DEF SInv, Reviewing, Approved
  <2>2. Len(order) = Len(declared)
    <3>1. Len(order) \in Nat /\ Len(declared) \in Nat /\ Len(order) <= Len(declared)
      BY <1>1, <2>1 DEF FollowsReview
    <3>2. PICK m : m = Len(order) + 1
      OBVIOUS
    <3>3. m <= Len(declared) => Declarations[m] \in ready
      BY <1>1, <1>4, <2>1, <3>2, ResortNext
    <3> QED
      BY <1>2, <3>1, <3>2, <3>3
  <2>3. order = reviewed /\ Elements(order) = StepIds
    BY <1>1, <2>1, <2>2, ResortDone
  <2>4. ~Cyclic
    <3>1. Cardinality(Elements(order)) = Len(order)
      BY <1>1, <1>4, DistinctCount DEF Kahn
    <3> QED
      BY <2>3, <3>1 DEF Cyclic
  <2>5. phase' = "executing" /\ reviewed' = reviewed
    BY <1>7, <2>4 DEF SortEnd
  <2> QED
    BY <1>1, <1>2, <1>3, <1>4, <2>1, <2>3, <2>5 DEF SInv, Sorting, Reviewing, Validated, Approved, Executed
<1> QED
  BY <1>2, <1>5, <1>6, <1>7

\* The reviewed plan is declared in its order, every step behind those it depends on.
LEMMA SortApprove ==
  ASSUME SInv, phase = "review", NEW who \in {"policy", "user"}, Approve(who),
         who = "policy" => AutoApproved
  PROVE  SInv'
<1>1. /\ GInv' /\ declared' \in Seq(RawSteps)
      /\ declared \in Seq(RawSteps) /\ order \in Seq(StepIds)
  BY GateApprove DEF SInv, GInv, SortTypes
<1>2. /\ approvedBy' = who /\ phase' = "resorting" /\ UNCHANGED reviewed
      /\ declared' = [i \in DOMAIN order |-> StepOf(order[i])]
      /\ order' = <<>> /\ StartSort
  BY DEF Approve, StartSort
<1>3. WellDeclared /\ Kahn /\ Elements(order) = StepIds /\ reviewed = order
  BY DEF SInv, Sorting, Reviewing, Validated
<1>4. \A i \in DOMAIN order : /\ order[i] \in StepIds
                              /\ declared'[i].id = order[i]
                              /\ declared'[i].deps = DepsOf(order[i])
  BY <1>1, <1>2, IndexIn DEF DepsOf
<1>5. DOMAIN declared' = DOMAIN order /\ DOMAIN order = 1..Len(order) /\ Len(order) \in Nat
  BY <1>1, <1>2
<1>6. StepIds' = StepIds
  <2>1. StepIds' = {declared'[i].id : i \in DOMAIN order}
    BY <1>5 DEF StepIds
  <2>2. @ = {order[i] : i \in DOMAIN order}
    BY <1>4
  <2> QED
    BY <1>3, <2>1, <2>2 DEF Elements
<1>7. Declarations' = order
  <2>1. order = [i \in DOMAIN order |-> order[i]]
    BY <1>1
  <2> QED
    BY <1>4, <1>5, <2>1 DEF Declarations
<1>8. ASSUME NEW i \in DOMAIN order
      PROVE  Elements(declared'[i].deps) \subseteq Before(order, i)
  BY <1>3, <1>4 DEF Kahn, Available
<1>9. WellDeclared'
  <2>1. \A i \in DOMAIN order : Elements(declared'[i].deps) \subseteq StepIds
    <3>1. \A i : Before(order, i) \subseteq Elements(order) \/ i \notin DOMAIN order
      BY <1>5 DEF Before, Elements
    <3> QED
      BY <1>3, <1>8, <3>1
  <2>2. \A i \in DOMAIN order : order[i] \in Ids
    BY <1>1, <1>4, <1>3, DepsTyped
  <2>3. \A i, j \in DOMAIN order : order[i] = order[j] => i = j
    BY <1>3 DEF Kahn, Distinct
  <2>4. \A i : Elements(declared[i].deps)' = Elements(declared'[i].deps)
    BY DEF Elements
  <2> QED
    BY <1>4, <1>5, <1>6, <2>1, <2>2, <2>3, <2>4 DEF WellDeclared
<1>10. Kahn'
  BY <1>1, <1>2, <1>9, StartKahn
<1>11. FollowsReview'
  <2>1. \A i : Before(Declarations, i)' = Before(order, i)
    BY <1>7 DEF Before
  <2>2. \A i : Elements(declared[i].deps)' = Elements(declared'[i].deps)
    BY DEF Elements
  <2>3. Len(order') = 0 /\ DOMAIN order' = {} /\ Len(declared') \in Nat
    BY <1>1, <1>2
  <2> QED
    BY <1>2, <1>3, <1>5, <1>7, <1>8, <2>1, <2>2, <2>3 DEF FollowsReview
<1> QED
  BY <1>1, <1>2, <1>9, <1>10, <1>11 DEF SInv, Sorting, Reviewing, Validated, Approved, Executed

LEMMA SortRest ==
  ASSUME SInv, GInv', UNCHANGED <<declared, inDegree, ready, order, reviewed, approvedBy>>,
         \/ phase' = phase
         \/ phase = "review" /\ phase' = "rejected"
         \/ phase = "executing" /\ phase' \in {"failed", "completed"}
  PROVE  SInv'
<1>1. /\ WellDeclared' = WellDeclared
      /\ Kahn => Kahn'
      /\ CycleFound' = CycleFound
      /\ Elements(order)' = Elements(order) /\ StepIds' = StepIds
      /\ FollowsReview' = FollowsReview
  BY SortStay
<1>2. Sorting'
  BY <1>1 DEF SInv, Sorting, Validated, Approved, Executed
<1>3. Reviewing'
  BY <1>1 DEF SInv, Reviewing, Approved, Executed
<1> QED
  BY <1>2, <1>3 DEF SInv

LEMMA SortNext == SInv /\ [Next]_vars => SInv'
<1> SUFFICES ASSUME SInv, [Next]_vars PROVE SInv'
  OBVIOUS
<1>1. CASE Declare
  BY <1>1, SortDeclare
<1>2. CASE Validate
  BY <1>2, SortValidate
<1>3. CASE SortStep
  BY <1>3, SortSortStep
<1>4. CASE SortEnd
  BY <1>4, SortSortEnd
<1>5. CASE RequestPlanReview
  BY <1>5, SortApprove DEF RequestPlanReview
<1>6. CASE ApprovePlan
  BY <1>6, SortApprove DEF ApprovePlan
<1>7. CASE RejectPlan \/ RunStep \/ Summarize \/ UNCHANGED vars
  <2>1. GInv'
    BY GateNext DEF SInv
  <2>2. UNCHANGED <<declared, inDegree, ready, order, reviewed, approvedBy>>
    BY <1>7 DEF RejectPlan, RunStep, Summarize, vars, sortVars
  <2>3. \/ phase' = phase
        \/ phase = "review" /\ phase' = "rejected"
        \/ phase = "executing" /\ phase' \in {"failed", "completed"}
    BY <1>7 DEF RejectPlan, RunStep, Summarize, vars
  <2> QED
    BY <2>1, <2>2, <2>3, SortRest
<1> QED
  BY <1>1, <1>2, <1>3, <1>4, <1>5, <1>6, <1>7 DEF Next

\* Every plan is sorted as plan_validator.py:313 says: each step is the first, in the
\* order of declaration, of those whose dependencies are done; and a plan is refused for
\* a cycle only when it has one.
THEOREM SortSoundHolds == Spec => []SortSound
<1>1. SInv => SortSound
  <2> SUFFICES ASSUME SInv PROVE SortSound
    OBVIOUS
  <2>1. ASSUME phase \in {"sorting", "resorting", "review", "executing"}, NEW i \in DOMAIN order
        PROVE  LET done == {order[j] : j \in 1..(i - 1)}
               IN  Available(done) # {} /\ order[i] = First(Available(done))
    <3>1. Kahn
      BY <2>1 DEF SInv, Sorting, Validated, Approved
    <3> QED
      BY <3>1, Zenon DEF Kahn, Before
  <2>2. phase = "invalid" /\ order # <<>> => CycleFound
    BY DEF SInv, Sorting
  <2> QED
    BY <2>1, <2>2 DEF SortSound, CycleFound
<1> QED
  BY SortInit, SortNext, <1>1, PTL DEF Spec

\* Validating the reviewed plan once more never refuses it and never reorders it
\* (plan_executor.py:214): what runs is what was reviewed.
THEOREM ReviewedOrderRunsHolds == Spec => []ReviewedOrderRuns
<1>1. SInv => ReviewedOrderRuns
  BY DEF SInv, Reviewing, Approved, Executed, ReviewedOrderRuns
<1> QED
  BY SortInit, SortNext, <1>1, PTL DEF Spec

-----------------------------------------------------------------------------
(* The results and the scene.  A step is skipped only behind one that      *)
(* failed: the order lets no step come up before those it depends on.      *)

HasFailed == \E i \in DOMAIN results : results[i] = "FAILED"

Effects ==
  /\ edits \in Nat /\ recorded \in Nat /\ pushed \in BOOLEAN
  /\ called \in Tools \union {"none"} /\ outcome \in Contract!Outcomes
  /\ Failed => HasFailed
  /\ edits <= Cardinality(Ran)
  /\ edits # recorded => (Failed /\ called \in HalfWay) \/ ~pushed
  /\ phase = "completed" => ~Failed /\ Len(results) = Len(order)
  /\ phase = "failed" => Failed

XInv == SInv /\ IInv /\ Effects

\* The step that comes next depends on nothing but steps that had their turn.
LEMMA NotBlocked ==
  ASSUME SInv, phase = "executing", Len(results) < Len(order), ~Failed
  PROVE  ~Blocked
<1> DEFINE n == Len(results)
<1>1. /\ order \in Seq(StepIds) /\ results \in Seq(Statuses) /\ Kahn
      /\ \A i \in DOMAIN results : results[i] = "COMPLETED"
  BY DEF SInv, GInv, SortTypes, Gate, Sorting, Validated, Approved, Failed
<1>2. n \in Nat /\ DOMAIN results = 1..n /\ n + 1 \in DOMAIN order
  BY <1>1
<1>3. PICK m \in DOMAIN order : m = n + 1
  BY <1>2
<1>4. Before(order, m) = Completed
  <2>1. 1..(m - 1) = DOMAIN results
    BY <1>2, <1>3
  <2>2. {j \in DOMAIN results : results[j] = "COMPLETED"} = DOMAIN results
    BY <1>1
  <2> QED
    BY <2>1, <2>2 DEF Before, Completed
<1>5. Elements(DepsOf(order[m])) \subseteq Before(order, m)
  BY <1>1, <1>3 DEF Kahn, Available
<1> QED
  BY <1>3, <1>4, <1>5 DEF Blocked, CurrentStep, DepsOf

\* A skipped step adds nothing to those that ran, any other step adds one.
LEMMA RanCount ==
  ASSUME results \in Seq(Statuses), NEW status \in Statuses, Record(status)
  PROVE  /\ Cardinality(Ran) \in Nat
         /\ Cardinality(Ran') = Cardinality(Ran) + (IF status = "SKIPPED" THEN 0 ELSE 1)
<1> DEFINE n == Len(results)
<1>1. /\ DOMAIN results' = 1..(n + 1) /\ DOMAIN results = 1..n /\ n \in Nat
      /\ \A i \in DOMAIN results : results'[i] = results[i]
      /\ results'[n + 1] = status
  BY RecordTypes
<1>2. PICK m : m = n + 1
  OBVIOUS
<1>3. m \notin 1..n /\ 1..m = (1..n) \union {m} /\ Ran \subseteq 1..n /\ m \notin Ran
  BY <1>1, <1>2 DEF Ran
<1>4. IsFiniteSet(1..n) /\ IsFiniteSet(Ran) /\ Cardinality(Ran) \in Nat
  <2>1. IsFiniteSet(1..n)
    BY <1>1, FS_Interval
  <2>2. IsFiniteSet(Ran)
    BY <1>3, <2>1, FS_Subset
  <2> QED
    BY <2>1, <2>2, FS_CardinalityType
<1>5. CASE status = "SKIPPED"
  <2>1. Ran' = Ran
    BY <1>1, <1>2, <1>3, <1>5 DEF Ran
  <2> QED
    BY <1>4, <1>5, <2>1
<1>6. CASE status # "SKIPPED"
  <2>1. Ran' = Ran \union {m}
    BY <1>1, <1>2, <1>3, <1>6 DEF Ran
  <2>2. Cardinality(Ran \union {m}) = Cardinality(Ran) + 1
    BY <1>3, <1>4, FS_AddElement
  <2> QED
    BY <1>4, <1>6, <2>1, <2>2
<1> QED
  BY <1>5, <1>6

LEMMA EffectsInit == Init => XInv
<1> SUFFICES ASSUME Init PROVE XInv
  OBVIOUS
<1>1. SInv /\ IInv
  BY SortInit, InitHolds
<1>2. Ran = {} /\ ~Failed
  BY DEF Init, Ran, Failed
<1>3. Effects
  BY <1>2, FS_EmptySet DEF Init, Effects, Contract!Outcomes
<1> QED
  BY <1>1, <1>3 DEF XInv

\* A step is skipped only when one has failed.
LEMMA EffectsSkip ==
  ASSUME XInv, phase = "executing", Len(results) < Len(order), SkipStep, UNCHANGED <<phase, order>>
  PROVE  Effects'
<1>1. Failed
  BY NotBlocked DEF SkipStep, StopsPlan, XInv
<1>2. results \in Seq(Statuses) /\ Record("SKIPPED") /\ "SKIPPED" \in Statuses
  BY DEF XInv, IInv, ResultTypes, SkipStep, Statuses
<1>3. /\ DOMAIN results' = 1..(Len(results) + 1) /\ DOMAIN results = 1..Len(results) /\ Len(results) \in Nat
      /\ \A i \in DOMAIN results : results'[i] = results[i]
  BY <1>2, RecordTypes
<1>4. Cardinality(Ran') = Cardinality(Ran) /\ Cardinality(Ran) \in Nat
  BY <1>2, RanCount
<1>5. Failed' /\ HasFailed'
  BY <1>1, <1>3 DEF XInv, Effects, Failed, HasFailed
<1>6. UNCHANGED <<edits, recorded, pushed, called, outcome>>
  BY DEF SkipStep, sceneVars
<1> QED
  BY <1>4, <1>5, <1>6 DEF XInv, Effects

\* A step changes the scene once at most, and what it changed is on the undo stack unless
\* it failed half-way or Blender refused the undo step pushed last.
LEMMA EffectsExecute ==
  ASSUME XInv, phase = "executing", Len(results) < Len(order), ExecuteStep, UNCHANGED <<phase, order>>
  PROVE  Effects'
<1>1. /\ ~Failed /\ (edits # recorded => ~pushed) /\ edits \in Nat /\ recorded \in Nat
      /\ edits <= Cardinality(Ran) /\ phase' = "executing"
      /\ results \in Seq(Statuses)
  BY DEF XInv, Effects, ExecuteStep, StopsPlan, IInv, ResultTypes
<1>2. /\ called' = CurrentStep.tool
      /\ edits' \in {edits, edits + 1}
      /\ outcome' \in Contract!Outcomes \ {"none"}
      /\ Contract!ContractNext
      /\ Record(IF outcome' = "ok" THEN "COMPLETED" ELSE "FAILED")
  BY DEF ExecuteStep
<1>3. PICK status \in Statuses : Record(status) /\ status = (IF outcome' = "ok" THEN "COMPLETED" ELSE "FAILED")
  BY <1>2 DEF Statuses
<1>4. /\ DOMAIN results' = 1..(Len(results) + 1) /\ DOMAIN results = 1..Len(results) /\ Len(results) \in Nat
      /\ \A i \in DOMAIN results : results'[i] = results[i]
      /\ results'[Len(results) + 1] = status
  BY <1>1, <1>3, RecordTypes
<1>5. Cardinality(Ran') = Cardinality(Ran) + 1 /\ Cardinality(Ran) \in Nat
  <2>1. status # "SKIPPED"
    BY <1>3
  <2> QED
    BY <1>1, <1>3, <2>1, RanCount
<1>6. called' \in Tools
  <2>1. order \in Seq(StepIds) /\ declared \in Seq(RawSteps)
    BY DEF XInv, SInv, GInv, SortTypes
  <2>2. order[Len(results) + 1] \in StepIds
    BY <1>4, <2>1
  <2>3. Index(order[Len(results) + 1]) \in DOMAIN declared
    BY <2>1, <2>2, IndexIn
  <2> QED
    BY <1>2, <2>3 DEF CurrentStep, StepOf, XInv, SInv, GInv, SortTypes, Validated, Approved
<1>7. Failed' => HasFailed'
  BY <1>1, <1>3, <1>4 DEF Failed, HasFailed
<1>8. edits' # recorded' => (Failed' /\ called' \in HalfWay) \/ ~pushed'
  <2>1. SUFFICES ASSUME edits' # recorded', pushed' PROVE Failed' /\ called' \in HalfWay
    OBVIOUS
  <2>2. outcome' = "failed" /\ recorded' = recorded /\ pushed' = pushed
        /\ (called' \notin HalfWay => edits' = edits)
    BY <1>1, <1>2, <2>1 DEF Contract!ContractNext, Contract!Change, Contract!Read, Contract!Failure
  <2>3. results'[Len(results) + 1] = "FAILED" /\ Len(results) + 1 \in DOMAIN results'
    BY <1>3, <1>4, <2>2
  <2> QED
    BY <1>1, <2>1, <2>2, <2>3 DEF Failed
<1>9. edits' \in Nat /\ recorded' \in Nat /\ edits' <= Cardinality(Ran')
  BY <1>1, <1>2, <1>5 DEF Contract!ContractNext, Contract!Change, Contract!Read, Contract!Failure
<1>10. pushed' \in BOOLEAN
  BY <1>2 DEF Contract!ContractNext, Contract!Change, Contract!Read, Contract!Failure, XInv, Effects
<1> QED
  BY <1>1, <1>2, <1>6, <1>7, <1>8, <1>9, <1>10 DEF Effects

LEMMA EffectsNext == XInv /\ [Next]_vars => XInv'
<1> SUFFICES ASSUME XInv, [Next]_vars PROVE XInv'
  OBVIOUS
<1>1. SInv' /\ IInv'
  BY SortNext, NextHolds DEF XInv
<1>2. CASE RunStep
  <2>1. phase = "executing" /\ Len(results) < Len(order) /\ UNCHANGED <<phase, order>>
    BY <1>2 DEF RunStep, sortVars
  <2>2. Effects'
    BY <1>2, <2>1, EffectsSkip, EffectsExecute DEF RunStep
  <2> QED
    BY <1>1, <2>2 DEF XInv
<1>3. CASE Summarize
  <2>1. /\ UNCHANGED <<order, results, edits, recorded, pushed, called, outcome>>
        /\ Len(results) = Len(order) /\ phase' = IF Failed THEN "failed" ELSE "completed"
    BY <1>3 DEF Summarize, sortVars, sceneVars
  <2>2. Failed' = Failed /\ HasFailed' = HasFailed /\ Ran' = Ran
    BY <2>1 DEF Failed, HasFailed, Ran
  <2> QED
    BY <1>1, <2>1, <2>2 DEF XInv, Effects
<1>4. CASE Declare \/ Validate \/ SortStep \/ SortEnd \/ RequestPlanReview \/ ApprovePlan \/ RejectPlan
  <2>1. /\ UNCHANGED <<results, edits, recorded, pushed, called, outcome>>
        /\ phase' \notin {"failed", "completed"}
    BY <1>4 DEF Declare, Validate, SortStep, SortEnd, RequestPlanReview, ApprovePlan, RejectPlan,
                Approve, sceneVars
  <2>2. Failed' = Failed /\ HasFailed' = HasFailed /\ Ran' = Ran
    BY <2>1 DEF Failed, HasFailed, Ran
  <2> QED
    BY <1>1, <2>1, <2>2 DEF XInv, Effects
<1>5. CASE UNCHANGED vars
  <2>1. UNCHANGED <<phase, order, results, edits, recorded, pushed, called, outcome>>
    BY <1>5 DEF vars, sortVars, sceneVars
  <2>2. Failed' = Failed /\ HasFailed' = HasFailed /\ Ran' = Ran
    BY <2>1 DEF Failed, HasFailed, Ran
  <2> QED
    BY <1>1, <2>1, <2>2 DEF XInv, Effects
<1> QED
  BY <1>2, <1>3, <1>4, <1>5 DEF Next

\* The summary of a plan tells the truth about every plan, whatever its tools do
\* (plan_executor.py:258): a plan called completed has all its steps completed, one called
\* failed has a step that failed, and the scene has no change that no step made, nor one the
\* undo stack lacks but for the failed step's half and for an undo step Blender refused,
\* of which the summary does not tell.
THEOREM SummaryTruthfulHolds == Spec => []SummaryTruthful
<1>1. XInv => SummaryTruthful
  <2> SUFFICES ASSUME XInv PROVE SummaryTruthful
    OBVIOUS
  <2>1. FailFast
    BY DEF XInv, IInv
  <2>2. ASSUME phase = "completed" PROVE Completed = StepIds
    <3>1. /\ results \in Seq(Statuses) /\ order \in Seq(StepIds) /\ Elements(order) = StepIds
          /\ Len(results) = Len(order)
          /\ \A i \in DOMAIN results : results[i] = "COMPLETED"
      BY <2>2 DEF XInv, SInv, GInv, Gate, SortTypes, Sorting, Executed, Effects, Failed
    <3>2. DOMAIN results = DOMAIN order
      BY <3>1
    <3>3. {j \in DOMAIN results : results[j] = "COMPLETED"} = DOMAIN order
      BY <3>1, <3>2
    <3> QED
      BY <3>1, <3>3 DEF Completed, Elements
  <2>3. phase = "failed" => HasFailed
    BY DEF XInv, Effects
  <2>4. edits <= Cardinality(Ran) /\ (edits # recorded => (Failed /\ called \in HalfWay) \/ ~pushed)
    BY DEF XInv, Effects
  <2> QED
    BY <2>1, <2>2, <2>3, <2>4 DEF SummaryTruthful, FailFast, HasFailed, Ran
<1> QED
  BY EffectsInit, EffectsNext, <1>1, PTL DEF Spec

-----------------------------------------------------------------------------
(* Types.                                                                  *)

PlanTypes ==
  /\ phase \in {"declaring", "invalid"} \union Validated
  /\ Len(declared) <= MaxPlanSteps + 1
  /\ inDegree \in [DOMAIN inDegree -> Nat] /\ DOMAIN inDegree \subseteq Ids
  /\ ready \subseteq Ids /\ order \in Seq(Ids) /\ reviewed \in Seq(Ids)

TInv == XInv /\ PlanTypes

\* What is sorted has the types of a sort.
LEMMA KahnTypes ==
  SInv /\ phase \in Validated =>
    /\ inDegree \in [DOMAIN inDegree -> Nat] /\ DOMAIN inDegree \subseteq Ids
    /\ ready \subseteq Ids /\ order \in Seq(Ids)
<1> SUFFICES ASSUME SInv, phase \in Validated
             PROVE  /\ inDegree \in [DOMAIN inDegree -> Nat] /\ DOMAIN inDegree \subseteq Ids
                    /\ ready \subseteq Ids /\ order \in Seq(Ids)
  OBVIOUS
<1>1. declared \in Seq(RawSteps) /\ order \in Seq(StepIds) /\ ready \subseteq StepIds /\ WellDeclared /\ Kahn
  BY DEF SInv, GInv, SortTypes, Sorting
<1>2. StepIds \subseteq Ids
  BY <1>1 DEF WellDeclared, StepIds
<1>3. \A t \in StepIds : Cardinality(Open(t, Elements(order))) \in Nat
  BY <1>1, OpenCount
<1>4. inDegree = [t \in StepIds |-> Cardinality(Open(t, Elements(order)))]
  BY <1>1 DEF Kahn
<1> QED
  BY <1>1, <1>2, <1>3, <1>4

LEMMA ApproveShort ==
  ASSUME SInv, phase = "review"
  PROVE  Len(order) <= Len(declared) /\ Len(order) \in Nat /\ Len(declared) \in Nat
<1>1. /\ declared \in Seq(RawSteps) /\ order \in Seq(StepIds) /\ Kahn /\ Elements(order) = StepIds
  BY DEF SInv, GInv, SortTypes, Sorting, Validated
<1>2. Cardinality(StepIds) = Len(order)
  BY <1>1, DistinctCount DEF Kahn
<1>3. DOMAIN declared = 1..Len(declared) /\ Len(declared) \in Nat /\ Len(order) \in Nat
  BY <1>1
<1>4. IsFiniteSet(DOMAIN declared) /\ Cardinality(DOMAIN declared) = Len(declared)
  <2>1. PICK n \in Nat : n = Len(declared)
    BY <1>3
  <2>2. IsFiniteSet(1..n) /\ Cardinality(1..n) = n
    BY FS_Interval
  <2> QED
    BY <1>3, <2>1, <2>2
<1>5. PICK f : f = [i \in DOMAIN declared |-> declared[i].id]
  OBVIOUS
<1>6. f \in Surjection(DOMAIN declared, StepIds)
  BY <1>5 DEF Surjection, StepIds
<1> QED
  BY <1>2, <1>3, <1>4, <1>6, FS_Surjection

LEMMA TypesNext == TInv /\ [Next]_vars => TInv'
<1>1. (SInv /\ phase \in Validated =>
        /\ inDegree \in [DOMAIN inDegree -> Nat] /\ DOMAIN inDegree \subseteq Ids
        /\ ready \subseteq Ids /\ order \in Seq(Ids))'
  BY KahnTypes, PTL
<1> SUFFICES ASSUME TInv, [Next]_vars PROVE TInv'
  OBVIOUS
<1>2. XInv' /\ SInv'
  BY EffectsNext DEF TInv, XInv
<1>3. phase' \in {"declaring", "invalid"} \union Validated
  BY DEF TInv, PlanTypes, Next, Declare, Validate, SortStep, SortEnd, RequestPlanReview, ApprovePlan,
         RejectPlan, Approve, RunStep, Summarize, vars, Validated, Approved
<1>4. \/ phase' \in Validated
      \/ UNCHANGED <<inDegree, ready, order>>
  BY DEF Next, Declare, Validate, SortStep, SortEnd, RequestPlanReview, ApprovePlan,
         RejectPlan, Approve, RunStep, Summarize, vars, sortVars, Validated, Approved
<1>5. /\ inDegree' \in [DOMAIN inDegree' -> Nat] /\ DOMAIN inDegree' \subseteq Ids
      /\ ready' \subseteq Ids /\ order' \in Seq(Ids)
  BY <1>1, <1>2, <1>4 DEF TInv, PlanTypes
<1>6. reviewed' = reviewed \/ reviewed' = order
  BY DEF Next, Declare, Validate, SortStep, SortEnd, RequestPlanReview, ApprovePlan,
         RejectPlan, Approve, RunStep, Summarize, vars
<1>7. Len(declared') <= MaxPlanSteps + 1
  <2>1. MaxPlanSteps \in Nat /\ Len(declared) <= MaxPlanSteps + 1 /\ declared \in Seq(RawSteps)
    BY PlanAssumption DEF TInv, PlanTypes, XInv, SInv, GInv, SortTypes
  <2>2. CASE Declare
    BY <2>1, <2>2 DEF Declare
  <2>3. CASE RequestPlanReview \/ ApprovePlan
    <3>1. phase = "review" /\ declared' = [i \in DOMAIN order |-> StepOf(order[i])]
      BY <2>3 DEF RequestPlanReview, ApprovePlan, Approve
    <3>2. Len(order) <= Len(declared) /\ Len(order) \in Nat /\ Len(declared) \in Nat
      BY <3>1, ApproveShort DEF TInv, XInv
    <3>3. Len(declared') = Len(order)
      <4>1. DOMAIN order = 1..Len(order)
        BY DEF TInv, PlanTypes
      <4> QED
        BY <3>1, <3>2, <4>1
    <3> QED
      BY <2>1, <3>2, <3>3
  <2>4. CASE UNCHANGED declared
    BY <2>1, <2>4
  <2> QED
    BY <2>2, <2>3, <2>4 DEF Next, Validate, SortStep, SortEnd, RejectPlan, RunStep, Summarize, vars
<1> QED
  BY <1>2, <1>3, <1>5, <1>6, <1>7 DEF TInv, PlanTypes

\* Every variable has its type at every step of every plan: in particular no degree of the
\* sort ever goes below zero, and no step gets a second result.
THEOREM TypeCorrectP == Spec => []TypeOKP
<1>1. Init => TInv
  BY EffectsInit, PlanAssumption DEF Init, TInv, PlanTypes
<1>2. TInv => TypeOKP
  BY DEF TInv, PlanTypes, XInv, SInv, GInv, SortTypes, Gate, Effects, TypeOKP, Validated, Approved
<1> QED
  BY <1>1, <1>2, TypesNext, PTL DEF Spec
=============================================================================
