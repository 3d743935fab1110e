CONSTANTS
  MaxRecordings = 3
  MaxBytes = 1
  BytesForWriter = 1
  FrameSizes = {1}
  BlockSize = 2
  Limits = {2}
  Collectors = {c1}
  MaxFaults = 1
SPECIFICATION ListSpec
INVARIANT PlaybackFindsListed
PROPERTY ListIsAtomic
CHECK_DEADLOCK FALSE
