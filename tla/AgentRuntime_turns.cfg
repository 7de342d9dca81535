SPECIFICATION Spec
CONSTANTS
  MaxPrompts = 3
  MaxDeltas = 0
  MaxCalls = 1
  QueueSize = 2
  BatchSize = 2
  MaxToolRounds = 1
  MaxPlanRepairs = 1
  ImageLoss = TRUE
  Compaction = TRUE
  FileLoads = TRUE
INVARIANTS
  TypeOK
  PendingMatchesState
  ActiveTurn
  
PROPERTIES
  CancelledIsFinal
  QueueInOrder
