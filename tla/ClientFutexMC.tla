--------------------------- MODULE ClientFutexMC ---------------------------
(* A buffer of four frames, so that the default minimum, half of it, is    *)
(* more than one frame; where all events happen, three of them are used.   *)
EXTENDS ClientFutex

ObtainOnly == {"obtainBuffer"}
BothCalls == {"obtainBuffer", "waitStreamEndDone"}
AllTimeouts == {"ZERO", "SHORT", "FINITE", "INFINITE"}
=============================================================================
