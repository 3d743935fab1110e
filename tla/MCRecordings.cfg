CONSTANTS
  MaxRecordings = 3
  MaxBytes = 2
  BytesForWriter = 2
  FrameSizes = {1}
  BlockSize = 2
  Limits = {5, 6}
  Collectors = {c1, c2}
  MaxFaults = 1
SPECIFICATION Spec
SYMMETRY Symmetry
INVARIANTS
  TypeOK
  CommittedDurable
  NoForgottenFile
  NothingVanishes
  NothingPanics
  RetentionKept
PROPERTY ImplementsLife
CHECK_DEADLOCK FALSE
