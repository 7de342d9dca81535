SPECIFICATION SpecC
CONSTANTS
  MaxPrompts = 2
  MaxDeltas = 0
  MaxCalls = 1
  QueueSize = 0
  BatchSize = 1
  MaxToolRounds = 1
  MaxPlanRepairs = 1
  ImageLoss = TRUE
  Compaction = TRUE
  FileLoads = TRUE
  RetainedTurns = 1
INVARIANTS
  TypeOKC
  CompactionSound
PROPERTIES
  TurnsAreAtomic
