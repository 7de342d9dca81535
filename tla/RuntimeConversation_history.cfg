SPECIFICATION SpecC
CONSTANTS
  MaxPrompts = 2
  MaxDeltas = 0
  MaxCalls = 2
  QueueSize = 1
  BatchSize = 1
  MaxToolRounds = 1
  MaxPlanRepairs = 1
  ImageLoss = TRUE
  Compaction = TRUE
  FileLoads = FALSE
  RetainedTurns = 1
INVARIANTS
  HistoryValid
  AnswersInOrder
  EvictionKeepsPairs
  LoopAgrees
PROPERTIES
  PromptsStart
