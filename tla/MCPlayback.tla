----------------------------- MODULE MCPlayback -----------------------------
(* One stream, its worker and a viewer: a recording may rotate at each key   *)
(* frame that comes late, and the budget of the worker is a frame or two.    *)
EXTENDS Playback

MCPtsSteps == {2}
MCKinds == {<< "Normal", TRUE >>, << "MediaSegment", FALSE >>}
MCClockSteps == {0, 6}
MCSizes == << 2, 1 >>
=============================================================================
