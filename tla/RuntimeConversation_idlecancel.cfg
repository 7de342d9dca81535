SPECIFICATION SpecC
CONSTANTS
  MaxPrompts = 1
  MaxDeltas = 0
  MaxCalls = 1
  QueueSize = 1
  BatchSize = 1
  MaxToolRounds = 1
  MaxPlanRepairs = 1
  ImageLoss = FALSE
  Compaction = FALSE
  FileLoads = FALSE
  RetainedTurns = 1
PROPERTIES
  CompletedTurnsKept
