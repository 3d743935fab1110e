CONSTANTS
  PtsSteps <- MCPtsSteps
  ClockSteps <- MCClockSteps
  Sizes <- MCSizes
  Data = {a}
  UnitsPerSec = 2
  RotateOffsetSec = 0
  RotateIntervalSec = 1
  MaxDuration = 20
  Slack = 2
  MaxFrames = 4
  MaxOpens = 1
  BytesForWriter = 3
  Offsets = {0, 3}
  Kinds <- MCKinds
  MaxChunks = 4
  PageSize = 2
  ReadBytes = 2
SPECIFICATION PlaySpec
INVARIANTS RecentIsExact TablesDescribeFrames OffsetsLeadToFrames EditsSelectDesired LiveAccountsForFrames
PROPERTIES LiveIsDecodable
CHECK_DEADLOCK FALSE
