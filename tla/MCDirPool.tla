----------------------------- MODULE MCDirPool ------------------------------
EXTENDS DirPool, TLC

Symmetry ==
  Permutations(Streams) \cup Permutations(Callers) \cup Permutations(Workers)
=============================================================================
