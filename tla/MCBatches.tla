----------------------------- MODULE MCBatches -----------------------------
(***************************************************************************)
(* Five observations of four contributors for TLC: two of one contributor  *)
(* at different tiers, three keys, weights that fill a two-bit counter.    *)
(***************************************************************************)
EXTENDS Batches

CONSTANTS n1, n2, n3, n4, i1, i2

Observed(i, e, n, t) == [indicator_hash |-> i, epoch |-> e, nullifier |-> n, tier |-> t]

MCObservations == {
    Observed(i1, 1, n1, 0),
    \* the same nullifier again, at another tier
    Observed(i1, 1, n1, 1),
    Observed(i1, 1, n2, 1),
    Observed(i1, 2, n3, 1),
    \* a tier outside 0..3 weighs nothing, and still makes its key
    Observed(i2, 1, n4, 7) }

DefaultWeights == <<1, 2, 4, 8>>
MCWeights == [t \in 0..3 |-> IF t <= 1 THEN DefaultWeights[t + 1] ELSE 2]

=============================================================================
