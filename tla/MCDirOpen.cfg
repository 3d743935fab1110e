CONSTANTS
  Paths = {p1, p2}
  MaxOpens = 3
  MaxDirs = 2
  MaxFaults = 1
SPECIFICATION Spec
SYMMETRY Symmetry
INVARIANTS
  CrashLeavesOpenable
  
CHECK_DEADLOCK FALSE
