CONSTANTS
  Signals <- OtherSignals
  ValidStates <- OtherStates
  Midnights <- MCMidnights
  MaxTime = 3
  MaxSignalChanges = 0
  MaxUpdates = 3
SPECIFICATION Spec
INVARIANT UpdateDoesNotPanic
CHECK_DEADLOCK FALSE
