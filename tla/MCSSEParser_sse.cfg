SPECIFICATION Spec
CONSTANTS
  Wires <- MCWires
  MaxChunk = 2
  MaxEventSize = 5
INVARIANTS TypeOKB EventsAsSent LimitSparesSmallEvents
CHECK_DEADLOCK FALSE
