CONSTANTS
  Names = {n1, n2}
  Passwords = {p1, p2}
  MaxAdds = 2
  MaxSessions = 1
  MaxUses = 2
  MaxChanges = 1
SPECIFICATION Spec
SYMMETRY Symmetry
INVARIANTS
  MemoryMirrorsTables
  SessionsKeepTheirUser
  LoggedOutStaysOut
CHECK_DEADLOCK FALSE
