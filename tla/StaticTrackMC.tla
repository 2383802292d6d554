--------------------------- MODULE StaticTrackMC ---------------------------
(* Three frames: a loop at the start of the buffer that is left for the    *)
(* rest of it after one pass more, and an endless one at its end.          *)
EXTENDS StaticTrack

Loop(start, end, count) == [mLoopStart |-> start, mLoopEnd |-> end, mLoopCount |-> count]
SomeLoops == {Loop(0, 2, 1), Loop(1, 3, -1)}
=============================================================================
