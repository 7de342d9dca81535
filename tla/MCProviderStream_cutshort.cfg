SPECIFICATION FairSpec
CONSTANTS
  Payloads <- MCPayloads
  MaxPayloads = 2
  MaxChunk = 2
  MaxTasks = 1
INVARIANT TimeoutsAreErrors
CHECK_DEADLOCK FALSE
