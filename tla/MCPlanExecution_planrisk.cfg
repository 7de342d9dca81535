SPECIFICATION Spec
CONSTANTS
  s1 = s1
  s2 = s2
  Ids = {s1, s2}
  Tools = {"query", "edit", "boolean"}
  HalfWay = {"edit"}
  MaxPlanSteps = 2
  MaxDeps = 1
  MaxDefects = 0
  AutoApprove = TRUE
SYMMETRY StepIdsAreSymmetric
INVARIANT RiskyCallsApproved
CHECK_DEADLOCK FALSE
