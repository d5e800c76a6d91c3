------------------------------ MODULE Batches ------------------------------
(***************************************************************************)
(* The reputation-accumulator crate used as its documentation offers it: a *)
(* caller feeds accumulate batch after batch, threading the set of seen    *)
(* nullifiers through, and adds up the scores each batch returns.          *)
(*                                                                         *)
(* The crate's promise is that only the sequence of observations matters:  *)
(* not how it was cut into batches and, replays aside, not its order.  The *)
(* reference below says what the sequence is worth without any fold.       *)
(***************************************************************************)
EXTENDS Accumulator, FiniteSets, Functions

CONSTANTS
    Observations,   \* the VerifiedObservations that may arrive
    MaxBatch,       \* bound: observations per batch
    MaxLog          \* bound: observations in all

VARIABLES
    checked,        \* the build panics on overflow
    seen,           \* the caller's seen_nullifiers
    totals,         \* the scores of all batches, added up by the caller
    rejected,       \* the rejected_replays of all batches
    log,            \* history: every observation passed in, in order
    committed,      \* history: how many of them were in batches that returned
    panicked        \* an addition overflowed in a checked build

vars == <<checked, seen, totals, rejected, log, committed, panicked>>

Init ==
    /\ checked \in BOOLEAN
    /\ seen = {}
    /\ totals = EmptyTable
    /\ rejected = << >>
    /\ log = << >>
    /\ committed = 0
    /\ panicked = FALSE

----------------------------------------------------------------------------
\* MUTANT: replays are looked up in the set as it was before the batch.
RoundsAgainstStart(burnt, batch) ==
    LET after[n \in 0..Len(batch)] ==
            IF n = 0 THEN StartBatch(burnt)
            ELSE [AccumulateOne([after[n - 1] EXCEPT !.seen = burnt], batch[n])
                    EXCEPT !.seen = @ \cup after[n - 1].seen]
    IN  after

\* accumulate's loop on a build without overflow checks: its result, and the set of burnt
\* nullifiers, after each observation of the batch.
Rounds(burnt, batch) ==
    LET after[n \in 0..Len(batch)] ==
            IF n = 0 THEN StartBatch(burnt) ELSE AccumulateOne(after[n - 1], batch[n])
    IN  after

Accumulate(batch) == Rounds(seen, batch)[Len(batch)]

\* What the loop has when it reaches its i-th observation.
Before(batch, i) == Rounds(seen, batch)[i - 1]

AddOverflows(batch, i) ==
    LET acc == Before(batch, i)
        o == batch[i]
    IN  /\ o.nullifier \notin acc.seen
        /\ Lookup(acc.scores, ScoreKey(o)) + WeightFor(o.tier) > MaxU32

MergeOverflows(batch, key) ==
    Lookup(totals, key) + Lookup(Accumulate(batch).scores, key) > MaxU32

Panics(batch) ==
    \/ \E i \in DOMAIN batch : AddOverflows(batch, i)
    \/ \E key \in DOMAIN Accumulate(batch).scores : MergeOverflows(batch, key)

Batch == UNION {[1..n -> Observations] : n \in 1..MaxBatch}

Submit(batch) ==
    /\ ~ panicked
    /\ Len(log) + Len(batch) <= MaxLog
    /\ log' = log \o batch
    /\ UNCHANGED checked

\* A batch returns, and its scores are added up.
Return(batch) ==
    /\ Submit(batch)
    /\ checked => ~ Panics(batch)
    /\ seen' = Accumulate(batch).seen
    /\ totals' = Merge(totals, Accumulate(batch).scores)
    /\ rejected' = rejected \o Accumulate(batch).rejected_replays
    /\ committed' = Len(log')
    /\ UNCHANGED panicked

\* accumulate panics at its i-th observation: the nullifiers of the batch up to and
\* including that one are burnt, its scores and its replays are lost.
PanicInBatch(batch) ==
    /\ Submit(batch)
    /\ checked
    /\ \E i \in DOMAIN batch :
        /\ AddOverflows(batch, i)
        /\ \A j \in 1..(i - 1) : ~ AddOverflows(batch, j)
        /\ seen' = Before(batch, i).seen \cup {batch[i].nullifier}
    /\ panicked' = TRUE
    /\ UNCHANGED <<totals, rejected, committed>>

\* The caller panics adding up the scores, in the order of a hash map: some keys are in.
PanicAddingUp(batch) ==
    /\ Submit(batch)
    /\ checked
    /\ \A i \in DOMAIN batch : ~ AddOverflows(batch, i)
    /\ LET scores == Accumulate(batch).scores
           over == {key \in DOMAIN scores : MergeOverflows(batch, key)}
       IN  /\ over # {}
           /\ \E done \in SUBSET (DOMAIN scores \ over) :
                totals' = Merge(totals, [key \in done |-> scores[key]])
    /\ seen' = Accumulate(batch).seen
    /\ panicked' = TRUE
    /\ UNCHANGED <<rejected, committed>>

Next ==
    \E batch \in Batch : Return(batch) \/ PanicInBatch(batch) \/ PanicAddingUp(batch)

Spec == Init /\ [][Next]_vars

----------------------------------------------------------------------------
(* What a sequence of observations is worth.                               *)

\* The places of a sequence where a nullifier appears for the first time.
FirstUses(s) ==
    {i \in DOMAIN s : \A j \in 1..(i - 1) : s[j].nullifier # s[i].nullifier}

Places(s, key) == {i \in FirstUses(s) : ScoreKey(s[i]) = key}
Worth(s, key) == SumFunction([i \in Places(s, key) |-> WeightFor(s[i].tier)])

KeysIn(s) == {ScoreKey(s[i]) : i \in FirstUses(s)}
NullifiersIn(s) == {s[i].nullifier : i \in DOMAIN s}

\* The replays are reported in input order: each at the place it has among them.
Replays(s) == DOMAIN s \ FirstUses(s)
ReplaysReported(reported, s) ==
    /\ Len(reported) = Cardinality(Replays(s))
    /\ \A i \in Replays(s) : reported[Cardinality({j \in Replays(s) : j <= i})] = s[i]

\* While nothing has panicked, the batches are worth what their concatenation is:
\* the first use of each nullifier counts, at its own tier, and every other one is
\* reported as a replay, in input order, whatever the batch boundaries (accumulate:
\* "replay detection also works across batches").
BatchesMatchReference ==
    ~ panicked =>
        /\ seen = NullifiersIn(log)
        /\ totals = [key \in KeysIn(log) |-> Worth(log, key) % (MaxU32 + 1)]
        /\ ReplaysReported(rejected, log)

\* The same nullifier never comes with another key or tier.
Consistent(s) ==
    \A i, j \in DOMAIN s :
        s[i].nullifier = s[j].nullifier =>
            ScoreKey(s[i]) = ScoreKey(s[j]) /\ s[i].tier = s[j].tier

\* "Order-independent except for replay detection" (accumulate): fed to the crate in
\* one batch in any other order, the observations burn the same nullifiers; and they
\* give the same scores unless a nullifier came with two tiers.
InOneBatch(s) == Rounds({}, s)[Len(s)]
OrderIrrelevant ==
    ~ panicked =>
        \A p \in {f \in [DOMAIN log -> DOMAIN log] : \A i, j \in DOMAIN log : f[i] = f[j] => i = j} :
            LET other == InOneBatch([i \in DOMAIN log |-> log[p[i]]])
            IN  /\ other.seen = seen
                /\ Consistent(log) => other.scores = totals

\* A panic loses observations and never invents any: what was added up lies between
\* the worth of the batches that returned and the worth of everything submitted.
PanicOnlyLoses ==
    panicked =>
        /\ seen \subseteq NullifiersIn(log)
        /\ \A key \in KeysIn(log) :
            /\ Worth(SubSeq(log, 1, committed), key) <= Lookup(totals, key)
            /\ Lookup(totals, key) <= Worth(log, key)

=============================================================================
