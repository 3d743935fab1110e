----------------------------- MODULE MCSessions -----------------------------
EXTENDS Sessions
LOCAL INSTANCE TLC

Symmetry == Permutations(Names) \cup Permutations(Passwords)
=============================================================================
