SPECIFICATION FairSpec
CONSTANTS
  MaxPrompts = 2
  MaxDeltas = 0
  MaxCalls = 1
  QueueSize = 1
  BatchSize = 2
  MaxToolRounds = 1
  MaxPlanRepairs = 1
  ImageLoss = FALSE
  Compaction = FALSE
  FileLoads = FALSE
INVARIANT
  ActiveTurn

  
  
