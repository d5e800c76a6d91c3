----------------------------- MODULE MCCeremony -----------------------------
(***************************************************************************)
(* Two contributors, or one and a second ceremony-init, for TLC; exponents *)
(* modulo 31.                                                              *)
(***************************************************************************)
EXTENDS Ceremony

CONSTANTS c1, c2, init2, setup1, setup2

Prime == 31
MCScalars == 0..(Prime - 1)
MCMul(a, b) == (a * b) % Prime
MCInverses == [a \in 1..(Prime - 1) |-> CHOOSE b \in 1..(Prime - 1) : (a * b) % Prime = 1]
MCInv(a) == MCInverses[a]
MCQuery == <<5, 0, 7>>
MCQuery2 == <<4>>
MCSecrets == [c \in Contributors |-> CASE c = c1 -> 2 [] c = c2 -> 3]
MCNonces == [c \in Contributors |-> CASE c = c1 -> 6 [] c = c2 -> 9]
MCCrews == {{c1, c2}, {c1, init2}}
MCSetupOf == [i \in Initialisers |-> setup2]

=============================================================================
