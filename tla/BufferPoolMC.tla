---------------------------- MODULE BufferPoolMC ----------------------------
(* The process of the pool and one other, a buffer whose id is the last    *)
(* before the ids wrap, so that its range does, and queues that are full   *)
(* after two messages.                                                     *)
EXTENDS BufferPool
=============================================================================
