----------------------------- MODULE MCCapture -----------------------------
(* One stream: a short interval between rotations, frames that may come     *)
(* early, late or in the wrong order, and three sizes of frame.             *)
EXTENDS Capture, Coding, TLC

MCPtsSteps == {0, 1, 3}
MCClockSteps == {0, 6}
MCSizes == << 3, 1, 2 >>

\* Words of 9 bits, two in a byte: the fifth byte has a bit to spare, as in the
\* program.
ASSUME CodingIsSound == VarintsAreRead /\ WordsAreRead /\ SignsAreRead

MCSymmetry == Permutations(Data)
=============================================================================
