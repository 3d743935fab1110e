CONSTANTS
  Signals <- MCSignals
  ValidStates <- MCValidStates
  Midnights <- MCMidnights
  MaxTime = 3
  MaxSignalChanges = 3
  MaxUpdates = 3
SPECIFICATION Spec
INVARIANTS
  HistoryKept
  RestartKeepsHistory
  DaysExactForSingles
CHECK_DEADLOCK FALSE
