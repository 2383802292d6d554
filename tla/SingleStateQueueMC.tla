------------------------- MODULE SingleStateQueueMC -------------------------
(* Values of two words, so that one can be torn.                           *)
EXTENDS SingleStateQueue

MCWords == {1, 2}
MCT0 == [w \in MCWords |-> 0]
=============================================================================
