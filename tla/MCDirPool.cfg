CONSTANTS
  Workers = {w1, w2, w3}
  Streams = {s1, s2}
  Callers = {c1, c2}
  JoinsFirst = FALSE
  MaxUnwritten = 2
  MaxWork = 2
  MaxOpens = 2
SPECIFICATION Spec
SYMMETRY Symmetry
INVARIANTS
  TypeOK
  CountersBalanced
  DeletionIsExclusive
  ClosedIsQuiet
  NoSleepOverWork
  ClosuresFindTheirState
CHECK_DEADLOCK FALSE
