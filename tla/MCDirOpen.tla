----------------------------- MODULE MCDirOpen -----------------------------
EXTENDS DirOpen

LOCAL INSTANCE TLC

Symmetry == Permutations(Paths)
=============================================================================
