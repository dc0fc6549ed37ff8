SPECIFICATION FairSpec
CONSTANTS
  MaxAsks = 2
  MAX_TOOL_ROUNDS = 2
  MAX_CALLS_PER_ROUND = 2
  CallCounts <- MCCallCounts
  MaxChunks = 2
  NoTurn = NoTurn
INVARIANTS TypeOK OneWanted StopReaches Bounded WellFormed
PROPERTIES EndedTurnsStay TurnsEnd
CHECK_DEADLOCK FALSE
