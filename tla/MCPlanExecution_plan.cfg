SPECIFICATION Spec
CONSTANTS
  s1 = s1
  s2 = s2
  s3 = s3
  Ids = {s1, s2, s3}
  Tools = {"query", "edit", "remove"}
  HalfWay = {"edit"}
  MaxPlanSteps = 3
  MaxDeps = 2
  MaxDefects = 1
  AutoApprove = TRUE
SYMMETRY StepIdsAreSymmetric
INVARIANTS TypeOKP SortSound ReviewedOrderRuns DependenciesFirst SummaryTruthful GatedToolsApproved
PROPERTY NothingAfterFailure
CHECK_DEADLOCK FALSE
