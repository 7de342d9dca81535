-------------------------- MODULE MCPlanExecution --------------------------
(* Instances of PlanExecution for TLC.  Ties between steps are broken by   *)
(* the order of declaration, never by their ids, so the ids are symmetric. *)
EXTENDS PlanExecution, TLC

StepIdsAreSymmetric == Permutations(Ids)
=============================================================================
