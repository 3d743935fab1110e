---------------------------- MODULE MCRecordings ----------------------------
EXTENDS Recordings
LOCAL INSTANCE TLC

\* The workers that may collect garbage are alike.
Symmetry == Permutations(Collectors)
=============================================================================
