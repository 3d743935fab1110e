CONSTANTS
  s1 = s1
  s2 = s2
  Streams = {s1, s2}
  FlushIfSec <- OneSoon
  RetrySec = 1
  Prompt = TRUE
  Awaits = TRUE
  MaxRecordings = 2
  MaxSec = 2
  MaxFaults = 2
  MaxOthers = 2
SPECIFICATION FairSpec
INVARIANTS
  TypeOK
  PlanCoversReady
  AnswerIsHonest
  EndedHasExamined
  UnflushedIsBounded
PROPERTY SyncedIsFlushed
CHECK_DEADLOCK FALSE
