SPECIFICATION Spec
CONSTANTS
  MaxPrompts = 1
  MaxDeltas = 1
  MaxCalls = 2
  QueueSize = 1
  BatchSize = 2
  MaxToolRounds = 3
  MaxPlanRepairs = 1
  ImageLoss = TRUE
  Compaction = TRUE
  FileLoads = TRUE
INVARIANTS
  StreamedTextIsWhole
  RepairBudgetKept
PROPERTIES
  ApprovalSingleUse
