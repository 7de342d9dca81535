---------------------------- MODULE PlanExecution ----------------------------
(***************************************************************************)
(* A multi-step plan: PlanValidator (agent/plan_validator.py), the review  *)
(* of the whole plan (agent/plan_review.py, AgentRuntime's plan review)    *)
(* and PlanExecutor (agent/plan_executor.py).  The model proposes any      *)
(* steps in any order with any dependencies; they are validated and        *)
(* sorted, reviewed, and, when approved, validated and sorted once more    *)
(* before they run.                                                        *)
(*                                                                         *)
(* What a step does to the scene is the contract of the scene tools,       *)
(* ToolContract, over the number of changes: no tool is known here but by  *)
(* its risk.                                                               *)
(***************************************************************************)
EXTENDS Integers, Sequences, FiniteSets

CONSTANTS
  Ids,           \* bound: the step ids a plan may use
  Tools,         \* the kinds of tools that steps name: query, edit, boolean, remove
  HalfWay,       \* those that may fail with a part of their change done
  MaxPlanSteps,  \* MAX_PLAN_STEPS, 20 in the code
  MaxDeps,       \* bound: dependencies listed by one step
  MaxDefects,    \* bound: defective steps in one plan
  AutoApprove    \* auto_approve_low_risk_plans, set by the add-on's registration

NoId  == "no id"       \* a step without a usable step_id
Ghost == "ghost"       \* a dependency that is no step

ASSUME PlanAssumption ==
  /\ NoId \notin Ids /\ Ghost \notin Ids
  /\ Tools \subseteq {"query", "edit", "boolean", "remove"} /\ HalfWay \subseteq Tools
  /\ MaxPlanSteps \in Nat \ {0} /\ MaxDeps \in Nat /\ MaxDefects \in Nat
  /\ AutoApprove \in BOOLEAN

VARIABLES
  phase,      \* where the plan is
  declared,   \* its steps in the order given to the validator
  inDegree,   \* dependencies of each step still to be sorted
  ready,      \* ready_queue
  order,      \* topological_order
  reviewed,   \* the order the review showed
  approvedBy, \* nobody, the policy or the user
  results,    \* step_results: the status of each step of order
  edits,      \* changes made to the scene
  recorded,   \* those the newest undo step holds
  pushed,     \* Blender took the undo step pushed last
  called,     \* the tool called last
  outcome     \* its result

sortVars  == <<inDegree, ready, order>>
sceneVars == <<edits, recorded, pushed, called, outcome>>
vars == <<phase, declared, sortVars, reviewed, approvedBy, results, sceneVars>>

Contract == INSTANCE ToolContract WITH
              Scrappy <- HalfWay, Readers <- {"query"},
              scene <- edits, saved <- recorded, tool <- called

-----------------------------------------------------------------------------
Elements(s)     == {s[i] : i \in DOMAIN s}
Occurrences(s, x) == Cardinality({i \in DOMAIN s : s[i] = x})

Dependencies == UNION {[1..n -> Ids \union {Ghost}] : n \in 0..MaxDeps}
\* A misfit is a call whose arguments do not fit the tool's schema.
RawSteps == [id : Ids \union {NoId}, tool : Tools \union {"unknown", "misfit", "propose_plan"},
             deps : Dependencies]

\* risk_level of a tool, which a review goes by, and the risk of a call of it, which
\* get_risk_level derives from the arguments: a boolean modifier is MEDIUM.
Risks       == [READ_ONLY |-> 0, LOW |-> 1, MEDIUM |-> 2]
RiskLevel   == [query |-> Risks.READ_ONLY, edit |-> Risks.LOW, boolean |-> Risks.LOW,
                remove |-> Risks.MEDIUM]
RiskOfCall  == [RiskLevel EXCEPT !.boolean = Risks.MEDIUM]
Gated(risk) == risk >= Risks.MEDIUM

StepIds    == {declared[i].id : i \in DOMAIN declared}
Index(id)  == CHOOSE i \in DOMAIN declared : declared[i].id = id
StepOf(id) == declared[Index(id)]
DepsOf(id) == StepOf(id).deps

\* The first of a set of steps in the order of declaration.
First(ids) == CHOOSE id \in ids : \A other \in ids : Index(id) <= Index(other)

Failed    == \E i \in DOMAIN results : results[i] # "COMPLETED"
Completed == {order[i] : i \in {j \in DOMAIN results : results[j] = "COMPLETED"}}

-----------------------------------------------------------------------------
Init ==
  /\ phase = "declaring" /\ declared = <<>>
  /\ inDegree = [id \in {} |-> 0] /\ ready = {} /\ order = <<>>
  /\ reviewed = <<>> /\ approvedBy = "nobody"
  /\ results = <<>>
  /\ edits = 0 /\ recorded = 0 /\ pushed = TRUE
  /\ called = "none" /\ outcome = "none"

\* Bound: a plan has at most MaxDefects defective steps, which depend on nothing else.
Defective(steps, i) ==
  \/ steps[i].id = NoId \/ \E j \in 1..(i - 1) : steps[j].id = steps[i].id
  \/ steps[i].tool \notin Tools
  \/ Ghost \in Elements(steps[i].deps)
  \/ i > MaxPlanSteps
FewDefects(steps) ==
  /\ Cardinality({i \in DOMAIN steps : Defective(steps, i)}) <= MaxDefects
  /\ \A i \in DOMAIN steps : Defective(steps, i) => steps[i].deps \in {<<>>, <<Ghost>>}

\* The model writes one more step of its plan.  Bound: the step that is one too many is
\* the first once more.
Declare ==
  /\ phase = "declaring" /\ Len(declared) <= MaxPlanSteps
  /\ \E s \in RawSteps :
       /\ Len(declared) = MaxPlanSteps => s = declared[1]
       /\ declared' = Append(declared, s)
  /\ FewDefects(declared')
  /\ UNCHANGED <<phase, sortVars, reviewed, approvedBy, results, sceneVars>>

\* validate: the shape of the plan and of every step.
IllFormed ==
  \/ Len(declared) \notin 1..MaxPlanSteps
  \/ \E i \in DOMAIN declared : declared[i].id = NoId \/ declared[i].tool = "propose_plan"
  \/ \E i, j \in DOMAIN declared : i # j /\ declared[i].id = declared[j].id

\* Unknown tools, and arguments that do not fit the tool's schema.
BadCalls == \E i \in DOMAIN declared : declared[i].tool \in {"unknown", "misfit"}

\* A step that depends on itself, or on no step.
BadDependencies ==
  \E i \in DOMAIN declared : \E d \in Elements(declared[i].deps) :
    d = declared[i].id \/ d \notin StepIds

\* Faulty variant of StartSort: a dependency listed twice counts once.
StartSortOfDistinct ==
  /\ inDegree' = [id \in StepIds' |-> Cardinality(Elements(DepsOf(id)'))]
  /\ ready' = {id \in StepIds' : DepsOf(id)' = <<>>}
  /\ order' = <<>>

\* Kahn's algorithm starts with the steps, as the validator is given them, that depend
\* on nothing.
StartSort ==
  /\ inDegree' = [id \in StepIds' |-> Len(DepsOf(id)')]
  /\ ready' = {id \in StepIds' : DepsOf(id)' = <<>>}
  /\ order' = <<>>

Validate ==
  /\ phase = "declaring"
  /\ UNCHANGED <<declared, reviewed, approvedBy, results, sceneVars>>
  /\ IF IllFormed \/ BadCalls \/ BadDependencies
     THEN phase' = "invalid" /\ UNCHANGED sortVars
     ELSE phase' = "sorting" /\ StartSort

\* Faulty variant of PickNext: the step declared last.
PickLast(ids) == CHOOSE id \in ids : \A other \in ids : Index(other) <= Index(id)

\* The first ready step in the order of declaration comes next.
PickNext(ids) == First(ids)

SortStep ==
  /\ phase \in {"sorting", "resorting"} /\ ready # {}
  /\ LET id == PickNext(ready) IN
     /\ order' = Append(order, id)
     /\ inDegree' = [t \in StepIds |-> inDegree[t] - Occurrences(DepsOf(t), id)]
     /\ ready' = (ready \ {id}) \union {t \in StepIds : inDegree[t] > 0 /\ inDegree'[t] = 0}
  /\ UNCHANGED <<phase, declared, reviewed, approvedBy, results, sceneVars>>

\* What was never ready lies on a cycle or behind one.
Cyclic == Len(order) # Cardinality(StepIds)

\* Faulty variant of SortEnd: the review shows the steps as they were declared.
SortEndUnsortedReview ==
  /\ phase \in {"sorting", "resorting"} /\ ready = {}
  /\ phase' = IF Cyclic THEN "invalid" ELSE IF phase = "sorting" THEN "review" ELSE "executing"
  /\ reviewed' = IF phase = "sorting" /\ ~Cyclic
                 THEN [i \in DOMAIN declared |-> declared[i].id] ELSE reviewed
  /\ UNCHANGED <<declared, sortVars, approvedBy, results, sceneVars>>

SortEnd ==
  /\ phase \in {"sorting", "resorting"} /\ ready = {}
  /\ phase' = IF Cyclic THEN "invalid" ELSE IF phase = "sorting" THEN "review" ELSE "executing"
  /\ reviewed' = IF phase = "sorting" /\ ~Cyclic THEN order ELSE reviewed
  /\ UNCHANGED <<declared, sortVars, approvedBy, results, sceneVars>>

-----------------------------------------------------------------------------
\* Faulty variant of OverallRisk: the lowest risk of the steps.
LowestRisk ==
  LET risks == {RiskLevel[declared[i].tool] : i \in DOMAIN declared}
  IN  CHOOSE r \in risks : \A other \in risks : r <= other

\* The risk of a plan is the highest of its steps' tools.
OverallRisk ==
  LET risks == {RiskLevel[declared[i].tool] : i \in DOMAIN declared}
  IN  CHOOSE r \in risks : \A other \in risks : other <= r

AutoApproved == AutoApprove /\ ~Gated(OverallRisk)

\* Execution validates the plan again, with its steps in the order reviewed.
Approve(who) ==
  /\ approvedBy' = who
  /\ phase' = "resorting"
  /\ declared' = [i \in DOMAIN order |-> StepOf(order[i])]
  /\ StartSort
  /\ UNCHANGED <<reviewed, results, sceneVars>>

RequestPlanReview == phase = "review" /\ AutoApproved /\ Approve("policy")
ApprovePlan       == phase = "review" /\ ~AutoApproved /\ Approve("user")
RejectPlan ==
  /\ phase = "review" /\ ~AutoApproved
  /\ phase' = "rejected"
  /\ UNCHANGED <<declared, sortVars, reviewed, approvedBy, results, sceneVars>>

-----------------------------------------------------------------------------
CurrentStep == StepOf(order[Len(results) + 1])
Blocked     == Elements(CurrentStep.deps) \ Completed # {}
\* Faulty variant of StopsPlan: the plan goes on after a failure.
StopsNever  == FALSE
StopsPlan   == Failed

Record(status) == results' = Append(results, status)

\* After a failure, and with a dependency that is not completed, a step is skipped.
SkipStep ==
  /\ StopsPlan \/ Blocked
  /\ Record("SKIPPED")
  /\ UNCHANGED sceneVars

\* Faulty variant of ExecuteStep: neither the flag nor the dependencies are looked at.
ExecuteAnyStep ==
  /\ called' = CurrentStep.tool
  /\ edits' \in {edits, edits + 1}
  /\ outcome' \in Contract!Outcomes \ {"none"}
  /\ Contract!ContractNext
  /\ Record(IF outcome' = "ok" THEN "COMPLETED" ELSE "FAILED")

\* A call that fails, is not verified or raises fails the step.
ExecuteStep ==
  /\ ~StopsPlan /\ ~Blocked
  /\ called' = CurrentStep.tool
  /\ edits' \in {edits, edits + 1}
  /\ outcome' \in Contract!Outcomes \ {"none"}
  /\ Contract!ContractNext
  /\ Record(IF outcome' = "ok" THEN "COMPLETED" ELSE "FAILED")

RunStep ==
  /\ phase = "executing" /\ Len(results) < Len(order)
  /\ SkipStep \/ ExecuteStep
  /\ UNCHANGED <<phase, declared, sortVars, reviewed, approvedBy>>

\* The summary: status and steps_completed follow from the results.
Summarize ==
  /\ phase = "executing" /\ Len(results) = Len(order)
  /\ phase' = IF Failed THEN "failed" ELSE "completed"
  /\ UNCHANGED <<declared, sortVars, reviewed, approvedBy, results, sceneVars>>

Next ==
  \/ Declare \/ Validate \/ SortStep \/ SortEnd
  \/ RequestPlanReview \/ ApprovePlan \/ RejectPlan
  \/ RunStep \/ Summarize
Spec == Init /\ [][Next]_vars

-----------------------------------------------------------------------------
Statuses == {"COMPLETED", "FAILED", "SKIPPED"}

\* Typing: degrees never go below zero, only steps are sorted, every step gets at
\* most one result.
TypeOKP ==
  /\ phase \in {"declaring", "sorting", "review", "resorting", "executing", "invalid", "rejected",
                "failed", "completed"}
  /\ declared \in Seq(RawSteps) /\ Len(declared) <= MaxPlanSteps + 1
  /\ inDegree \in [DOMAIN inDegree -> Nat] /\ DOMAIN inDegree \subseteq Ids
  /\ ready \subseteq Ids /\ order \in Seq(Ids) /\ reviewed \in Seq(Ids)
  /\ approvedBy \in {"nobody", "policy", "user"}
  /\ results \in Seq(Statuses) /\ Len(results) <= Len(order)
  /\ edits \in Nat /\ recorded \in Nat /\ pushed \in BOOLEAN
  /\ called \in Tools \union {"none"} /\ outcome \in Contract!Outcomes

\* The sorted steps are always a beginning of the one order that takes, again and
\* again, the earliest declared step whose dependencies are done, each once
\* (plan_validator.py:313); steps are refused for a cycle only when there is one.
Available(done) == {id \in StepIds \ done : Elements(DepsOf(id)) \subseteq done}
SortSound ==
  /\ phase \in {"sorting", "resorting", "review", "executing"} =>
       \A i \in DOMAIN order :
         LET done == {order[j] : j \in 1..(i - 1)}
         IN  Available(done) # {} /\ order[i] = First(Available(done))
  /\ phase = "invalid" /\ order # <<>> =>
       \E cycle \in SUBSET StepIds :
         cycle # {} /\ \A id \in cycle : Elements(DepsOf(id)) \intersect cycle # {}

\* What runs is what was reviewed: validating the reviewed plan once more neither
\* refuses it nor reorders it (plan_executor.py:214).
ReviewedOrderRuns ==
  /\ phase \in {"executing", "failed", "completed"} => order = reviewed
  /\ approvedBy # "nobody" => phase # "invalid"

\* A step runs only behind all its dependencies, each of them completed
\* (plan_executor.py:270).
DependenciesFirst ==
  \A i \in DOMAIN results :
    results[i] # "SKIPPED" =>
      \A d \in Elements(DepsOf(order[i])) : \E j \in 1..(i - 1) : order[j] = d /\ results[j] = "COMPLETED"

\* A plan that is done says what happened: completed steps, then at most one that
\* failed, then skipped ones; every change in the scene is one of a step that was not
\* skipped, and on the undo stack unless the failed step stopped half-way or Blender
\* refused the undo step pushed last (undo_manager.py:73), which the summary never says.
SummaryTruthful ==
  /\ \A i \in DOMAIN results : \A j \in 1..(i - 1) : results[j] # "COMPLETED" => results[i] = "SKIPPED"
  /\ phase = "completed" => Completed = StepIds
  /\ phase = "failed" => \E i \in DOMAIN results : results[i] = "FAILED"
  /\ edits <= Cardinality({i \in DOMAIN results : results[i] # "SKIPPED"})
  /\ edits # recorded => (Failed /\ called \in HalfWay) \/ ~pushed

\* After a step has failed the scene stays as it is.
NothingAfterFailure == [][Failed => UNCHANGED <<edits, recorded, pushed>>]_vars

\* No step of a tool that is MEDIUM or higher runs unless the user approved the plan
\* (runtime.py:419).
Ran == {i \in DOMAIN results : results[i] # "SKIPPED"}
GatedToolsApproved ==
  \A i \in Ran : Gated(RiskLevel[StepOf(order[i]).tool]) => approvedBy = "user"

\* What README.md:223 says of every action, by the risk that gates a single call.
RiskyCallsApproved ==
  \A i \in Ran : Gated(RiskOfCall[StepOf(order[i]).tool]) => approvedBy = "user"
=============================================================================
