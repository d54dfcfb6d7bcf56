SPECIFICATION HistorySpec
CONSTANTS
  MaxTurns = 2
  MaxEntries = 3
  MaxClears = 1
  SaveMayFail = FALSE
INVARIANTS
  ClearedStaysCleared
