-------------------------- MODULE StreamingTrackMC --------------------------
(* Three frames in a ring of four, counters of five bits.  From 13 the     *)
(* counters pass the sign bit, from 29 they wrap, from both they pass a    *)
(* multiple of 2 * mFrameCountP2.                                          *)
EXTENDS StreamingTrack

MCBases == {13, 29}
=============================================================================
