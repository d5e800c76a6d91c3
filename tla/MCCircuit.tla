------------------------------ MODULE MCCircuit ------------------------------
(***************************************************************************)
(* Two contributors and trees of four leaves for TLC.  Both texts take two *)
(* chunks, and one is the other with a zero byte at its end.               *)
(***************************************************************************)
EXTENDS CircuitProperties

CONSTANTS p, q, other, evil, evil0

MCNormal == [t \in Texts |->
    IF t = evil0 THEN <<7, 0, 7, 0>> ELSE <<7, 0, 7>>]
Holds(holder, tier) == [holder |-> holder, tier |-> tier]
MCRosters == {
    <<Holds(other, 3), Holds(p, 2), Holds(other, 1), Holds(q, 0)>>,
    <<Holds(p, 0), Holds(other, 3), Holds(q, 1), Holds(other, 3)>>}

=============================================================================
