CONSTANTS
  MaxRecordings = 3
  MaxBytes = 2
  BytesForWriter = 2
  FrameSizes = {1}
  BlockSize = 2
  Limits = {0, 5}
  Collectors = {c1, c2}
  MaxFaults = 1
SPECIFICATION Spec
SYMMETRY Symmetry
INVARIANT DeletesOrphanRows
CHECK_DEADLOCK FALSE
