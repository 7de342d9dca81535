SPECIFICATION FairSpec
CONSTANTS
  Payloads <- MCPayloads
  MaxPayloads = 4
  MaxChunk = 2
  MaxTasks = 2
INVARIANTS TypeOKW AnswerIsItsOwn FewLateEvents
PROPERTIES ImplementsTask TaskEnds
CHECK_DEADLOCK FALSE
