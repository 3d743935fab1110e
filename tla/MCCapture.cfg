CONSTANTS
  PtsSteps <- MCPtsSteps
  ClockSteps <- MCClockSteps
  Sizes <- MCSizes
  Data = {a, b}
  UnitsPerSec = 2
  RotateOffsetSec = 0
  RotateIntervalSec = 1
  MaxDuration = 5
  Slack = 2
  MaxFrames = 3
  MaxOpens = 3
  Bits = 9
  Group = 2
SPECIFICATION Spec
INVARIANTS IndexIsFaithful RunsAreContiguous EntriesKept
SYMMETRY MCSymmetry
