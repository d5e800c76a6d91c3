------------------------------- MODULE MCPsi -------------------------------
(***************************************************************************)
(* Two queriers, two holder keys and two query keys for TLC.  Two texts  *)
(* are spellings of one indicator, and lists have up to three items.       *)
(***************************************************************************)
EXTENDS Psi, TLC

CONSTANTS evil, Evil, worse, k1, k2, a1, a2, p, q

MCNormal == [t \in Texts |-> IF t = worse THEN worse ELSE evil]
MCLists == {<<Evil, worse, Evil>>, <<worse>>}

\* Keys are drawn at random, and queriers are alike.
Alike ==
    Permutations(HolderKeys) \cup Permutations(QuerierKeys) \cup Permutations(Queriers)

=============================================================================
