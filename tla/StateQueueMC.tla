---------------------------- MODULE StateQueueMC ----------------------------
(* StateQueue as instantiated in the code: kN = 4, here with two states.   *)
EXTENDS StateQueue

MCT == {"s0", "s1"}
=============================================================================
