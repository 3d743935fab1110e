CONSTANTS
  Workers = {w1, w2}
  Streams = {s1, s2}
  Callers = {c1}
  JoinsFirst = TRUE
  MaxUnwritten = 2
  MaxWork = 1
  MaxOpens = 1
SPECIFICATION FairSpec
PROPERTIES
  CloseCompletes
  WokenIsWritten
CHECK_DEADLOCK FALSE
