---------------------------- MODULE MediaCodecMC ----------------------------
(* Every call, with a time-out for output and none for input: the two       *)
(* ports are alike.                                                         *)
EXTENDS MediaCodec

AllCalls ==
    Simple \cup Returns \cup {<<"dequeue", "in", "ZERO">>, <<"dequeue", "out", "FINITE">>}
=============================================================================
