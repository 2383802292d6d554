--------------------------- MODULE StateRegister ---------------------------
(***************************************************************************)
(* What a SingleStateQueue promises: a register that one process writes    *)
(* and another reads as a whole, with an acknowledgement that follows what *)
(* was read.                                                               *)
(*                                                                         *)
(* This is an abstract specification; SingleStateQueue implements it.      *)
(***************************************************************************)
EXTENDS Naturals

CONSTANTS Values, Initially

VARIABLES
    last, sequence,         \* what was written last, and its number
    observed, observedAs,   \* what was read last, and its number
    acked,                  \* the number that the writer is told of
    acted                   \* and that it has been acted upon

registerVars == <<last, sequence, observed, observedAs, acked, acted>>

RegisterInit ==
    /\ last = Initially /\ sequence = 0
    /\ observed = Initially /\ observedAs = 0
    /\ acked = 0 /\ acted = FALSE

Write ==
    /\ last' \in Values
    /\ sequence' = sequence + 2
    /\ UNCHANGED <<observed, observedAs, acked, acted>>

Read ==
    /\ observed' = last /\ observedAs' = sequence
    /\ observedAs' > observedAs
    /\ UNCHANGED <<last, sequence, acked, acted>>

Acknowledge ==
    /\ acked' = observedAs /\ acted' = FALSE
    /\ acked' > acked
    /\ UNCHANGED <<last, sequence, observed, observedAs>>

Act ==
    /\ acked = observedAs /\ ~acted
    /\ acted' = TRUE
    /\ UNCHANGED <<last, sequence, observed, observedAs, acked>>

RegisterNext == Write \/ Read \/ Acknowledge \/ Act
RegisterSpec == RegisterInit /\ [][RegisterNext]_registerVars
=============================================================================
