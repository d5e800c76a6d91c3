---------------------------- MODULE Accumulator ----------------------------
(***************************************************************************)
(* The reputation-accumulator crate: verified observations are folded, in  *)
(* order, into a table of tier-weighted scores per (indicator, epoch); an  *)
(* observation whose nullifier was seen before is set aside as a replay.   *)
(*                                                                         *)
(* The crate keeps no state of its own.  The caller threads the set of     *)
(* seen nullifiers through successive batches: the relay (Relay) passes    *)
(* one observation at a time, Batches passes whole sequences.              *)
(***************************************************************************)
EXTENDS Naturals, Sequences

CONSTANTS
    MaxU32,     \* largest value of the u32 counters (2^32 - 1 in the code)
    Weights     \* TierWeights.weights: what one observation of tier 0..3 adds

ASSUME MaxU32Assumption == MaxU32 \in Nat
ASSUME WeightsAssumption == Weights \in [0..3 -> 0..MaxU32]

\* The u32 values: scores, proof counts and weights.
U32 == 0..MaxU32

\* TierWeights::weight_for: tiers outside 0..3 weigh nothing.
WeightFor(tier) == IF tier \in 0..3 THEN Weights[tier] ELSE 0

\* HashMap::get(..).copied().unwrap_or(0) on a table of u32.
Lookup(table, key) == IF key \in DOMAIN table THEN table[key] ELSE 0

\* u32 addition of a build without overflow checks.
AddU32(a, b) == (a + b) % (MaxU32 + 1)

\* *table.entry(key).or_insert(0) += delta
AddAt(table, key, delta) ==
    [k \in DOMAIN table \cup {key} |->
        IF k = key THEN AddU32(Lookup(table, key), delta) ELSE table[k]]

\* MUTANT: stores the batch's score in place of adding it.
MergeByInsert(table, deltas) ==
    [k \in DOMAIN table \cup DOMAIN deltas |->
        IF k \in DOMAIN deltas THEN deltas[k] ELSE table[k]]

\* What a caller does with the scores of a batch:
\* for (key, delta) in result.scores { *scores.entry(key).or_insert(0) += delta }
Merge(table, deltas) ==
    [k \in DOMAIN table \cup DOMAIN deltas |->
        IF k \in DOMAIN deltas THEN AddU32(Lookup(table, k), deltas[k]) ELSE table[k]]

EmptyTable == [k \in {} |-> 0]

\* The (indicator_hash, epoch) pair an observation is scored under.
ScoreKey(o) == <<o.indicator_hash, o.epoch>>

\* AccumulationResult together with the caller's set, at the start of a batch.
StartBatch(seen) ==
    [seen |-> seen, scores |-> EmptyTable, rejected_replays |-> << >>]

\* MUTANT: a later observation of the batch overwrites the score of an earlier one.
AccumulateOneOverwriting(acc, o) ==
    IF o.nullifier \in acc.seen
    THEN [acc EXCEPT !.rejected_replays = Append(@, o)]
    ELSE [acc EXCEPT !.seen = @ \cup {o.nullifier},
                     !.scores = MergeByInsert(@, AddAt(EmptyTable, ScoreKey(o), WeightFor(o.tier)))]

\* MUTANT: forgets to insert the nullifier it has just counted.
AccumulateOneForgetful(acc, o) ==
    IF o.nullifier \in acc.seen
    THEN [acc EXCEPT !.rejected_replays = Append(@, o)]
    ELSE [acc EXCEPT !.scores = AddAt(@, ScoreKey(o), WeightFor(o.tier))]

\* One round of accumulate's loop.
AccumulateOne(acc, o) ==
    IF o.nullifier \in acc.seen
    THEN [acc EXCEPT !.rejected_replays = Append(@, o)]
    ELSE [acc EXCEPT !.seen = @ \cup {o.nullifier},
                     !.scores = AddAt(@, ScoreKey(o), WeightFor(o.tier))]

=============================================================================
