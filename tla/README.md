# Umbra Exchange in TLA+

Specifications, model-checking runs and machine-checked proofs of the Rust
workspace under `circuits/crates/`: a relay that accepts zero-knowledge proofs
that a contributor observed a threat indicator, counts them once per
contributor, and publishes weighted scores; the circuit those proofs are for;
the multi-party ceremony that makes its parameters; and a private set
intersection library.  Paths below are relative to `circuits/crates/`.

## 1. Inventory

| Component | State it keeps | Operations | What it talks to |
|---|---|---|---|
| `reputation-accumulator` | none; the caller threads `seen_nullifiers` through | `accumulate`, `TierWeights` | called by the relay, one observation per call |
| relay, submissions and scores (`relay/src/lib.rs`, `state.rs`, `encoding.rs`) | `Inner` behind one mutex: seen nullifiers, scores, proof counts, disclosed indicators; read-only key, weights, trusted roots | `submit_observation`, `get_score`, start-up | HTTP clients; the circuit's verifier; the accumulator |
| relay, exports (`stix.rs`, `misp.rs`, `indicator_kind.rs`) | none; read the tables under the mutex | `export_stix`, `export_misp`, `epoch_validity_window`, `normalize_confidence` | HTTP clients |
| relay binaries (`bin/server.rs`, `keygen.rs`, `prove.rs`) and `verify_ceremony_params.rs` | the trusted-roots file; the key files `umbra.pk` and `umbra.vk` | load configuration, serve; make keys; make proofs; check a pair of key files | files, the relay |
| `proof-of-observation` | none | the constraint system: Merkle membership, nullifier, tier gate; `indicator_hash_from_raw` | Groth16 |
| `psi` | a holder's secret scalar, a querier's blinding scalar | `blind_set`, `blind_query`, `respond_to_query`, `finish_query` | the two parties' messages |
| `ceremony`, phase 1 (`phase1.rs`) | the powers-of-tau accumulator and its chain of public keys | `new`, `contribute`, `verify`, `verify_chain` | contributors in turn |
| `ceremony`, bridge (`bridge.rs`) | none | `from_phase1` | phase 1 in, phase 2 parameters out |
| `ceremony`, phase 2 (`params.rs`, `keypair.rs`) | `MPCParameters`: key, contributions, circuit hash | `new_placeholder`, `contribute`, `verify`, `verify_transcript`, `read`, `write` | contributors in turn |
| ceremony tools (`bin/init.rs`, `contribute.rs`, `verify.rs`) | one parameters file, rewritten in place | initialise, contribute, verify | the file system |

Behaviours that are hard here, and where they bite, are the `hazards` of
`PROJECT.json`.  In short: handlers that verify outside the mutex and race for
it; a panic that leaves a submission half applied and poisons the mutex;
counters at their width; lost answers and retries; restarts that lose
everything; several texts for one field element; iteration order of hash maps
showing in exported identifiers; a ceremony file overwritten by two
contributors or by a crash; two key files that are replaced one after the other
while others read them; a verifier that accepts more transcripts than its
comment says.

What makes each component correct:

- relay: one credit per contributor and (indicator, epoch); scores are the
  weighted count of what was accepted; tiers are backed by trusted issuers;
  disclosures hash to their key; answers are true and stay true; nothing is
  withdrawn; a panic is never visible in the tables; no handler hangs.
- accumulator: the result does not depend on how observations are split into
  batches, nor (replays aside) on their order.
- exports: every object is disclosed and above the threshold; its type and its
  validity window mean the same in every export and in both formats.
- deployment: a pair of keys that was checked is a pair, and a relay accepts
  honest proofs whenever the keys it and the contributor read belong together.
- circuit: a satisfying witness exists exactly for true statements.
- psi: nothing is found that is not listed, nothing is missed when set, query
  and reply belong together, and messages say nothing by being equal.
- ceremony: whatever is accepted is a setup of one tau, one alpha and one beta
  made of every contributor's secret once, or a key that proves with one delta;
  nothing accepted is withdrawn; honest work is accepted.

## 2. Modules

| Component | Modules | Proofs |
|---|---|---|
| accumulator | `Accumulator` (loop body, u32 tables, tier weights); `Batches` extends it (whole batches, both kinds of build) | `BatchesProofs` |
| relay | `Relay` extends `Accumulator` (handlers, mutex, poisoning, restarts); `RelayProperties` extends `Relay`; `ScoreLedger` is what the relay promises, abstractly | `RelayProofs` |
| exports | `Calendar` (dates); `IndicatorKind` (what a disclosed string is taken for); `Export` extends both and `Relay`, and composes the exports with the relay | `RelayProofs` |
| relay and ceremony binaries, key files | `Deployment` | `DeploymentProofs` |
| ceremony, phase 2 and its tools | `Pairings` (group elements and pairing checks); `Phase2` extends it (`MPCParameters`); `Ceremony` extends `Phase2` (the tools on one file) | `CeremonyProofs` |
| ceremony, from phase 1 to a key | `Phase1` extends `Pairings`; `Bridge` extends `Phase1`; `Setup` extends `Bridge` and instantiates `Phase2` as `Hop`; `SetupProperties` extends `Setup` | `SetupProofs` |
| psi | `Psi`; `MembershipOracle` is the trusted party it stands in for, abstractly | `PsiProofs` |
| circuit and indicator hashing | `Circuit`; `CircuitProperties` extends it | `CircuitProofs` |
| what several proofs rest on | | `Foundations` (induction over numbers and finite sets, sums, remainders) |

Every `MC...` module extends one of these and gives its constants small values
for TLC.  Definitions marked `MUTANT` in a comment are plausible bugs of the
definition that follows them; they show that a property can fail and are not
part of any model.

## 3. How the models correspond to the code

### Relay

The variables `seen`, `scores`, `proof_counts` and `disclosed` are the fields of
`Inner` (`state.rs`); `poisoned` is the mutex's own flag; `pc`, `req` and
`reply` say where each handler task is, with which request and which answer.
`counted` is history: the observations whose weight was added.

Handlers never hold the mutex across an await, and take it once.  So one action
is what a handler does between two points where another one can run:

| Action | Code (`relay/src/lib.rs`) |
|---|---|
| `Receive`, `RefuseEarly`, `PassChecks` | lines 109-205: decoding, verification, disclosure, trusted tier; nothing shared is read but what never changes |
| `RefuseReplay`, `Count` | lines 207-245, the critical section |
| `PanicAddingScore`, `PanicAddingCount` | the `+=` of lines 215 and 220 in a build with overflow checks: what was assigned before stays, the mutex is poisoned, the connection closes |
| `PanicOnPoison` | `lock().expect(...)` |
| `AskScore` | `get_score`, one lock |
| `Finish` | the answer goes out; whether it arrives, the server does not know |
| `Restart` | `AppState::new`: everything is in memory |

A Poseidon hash is what it hashes, so a nullifier is the triple it stands for.
A text names a field element and has a spelling, because `fr_from_hex` takes
several texts for one element and `fr_to_hex` writes one.  A proof is the
statement it proves, and the assumption on `Requests` says that only what the
circuit lets be proved has a proof; module `Circuit` is about that statement.

### Accumulator and batches

`AccumulateOne` is the loop body of `accumulate`, and `Rounds` is what the loop
has after each observation of a batch.  In `Batches` the caller adds up what each
batch returns as the relay does; in a checked build the addition may panic in the
loop (`PanicInBatch`: the nullifiers of that batch are in the caller's set) or in
the caller (`PanicAddingUp`).

### Exports

`Walk` enumerates the orders in which the score map can be iterated; `Walked` are
the keys that pass a filter, in that order, and `Input` is the entry of one.
`StixBundle` and `MispEvent` are the two builders with their filters,
confidence and windows; `Uuid` is the identifier as the tuple that is hashed.
`Calendar` is `epoch_validity_window` without its formatting.  `IndicatorKind` is
`classify`: the tests in the order in which the code tries them, on the trimmed
string; which tests a string passes is a parameter.  Both builders classify what
was disclosed, and the MISP type is the kind's.  The spelling that was disclosed
first decides: what is one indicator to the circuit may be recognized in one
spelling and not in another (`HTTP://` is no scheme to `classify`).

### Deployment

A key is the number of the run of keygen that drew it, and a file holds a key or
is `Torn`: missing, empty, or cut short.  `CreatePk`, `WritePk`, `CreateVk` and
`WriteVk` are the two `fs::write` of `keygen.rs`; `KillKeygen` may come anywhere
and leaves the files as they are.  `StartServer` is the relay's one read of
`umbra.vk`, `Prove` the read of `umbra.pk` in `prove.rs`, `CheckPk` and `CheckVk`
the two reads of `verify_ceremony_params.rs`.  Who reads a torn file panics and
changes nothing.  `check.together` is history: the pairs on the disk since the
check began; a reading's `at` is the quiet time it was made in, if it was.

### Phase 2 and its tools

A point of G1 is its exponent; a point of G2 is an exponent over a base, which
is the generator or the hash of a transcript.  A pairing multiplies exponents.
`CheckMergedRatio` is `check_same_ratio` on the result of `merge_pairs`, as the
equations it combines at random: it also fails where a combination is the
identity, that is, when all elements are.  `Verify` returns "ok", an error or
"panic" (the slice of line 205 past the end of a shorter history).

In `Ceremony` every tool is a process; `Open`, `ReadChunk`, `ApplySecret`,
`Create`, `WriteChunk`, `Attest` and `Kill` are the calls of
`bin/contribute.rs` in order, with the file as a sequence of chunks.
`ceremony-init` is `Initialise` followed by the same writing.  The coordinator
is the caller of `MPCParameters::verify`: it keeps the last good parameters and
takes over those of the file when `verify` accepts the hop.  A chunk nobody
wrote, before the place where a writer goes on, is zero bytes (`Hole`): a query
or a count read from it is 0, a circuit hash is zero, and no point decodes from
it (x = 0 is on no point of BN254's G1).

### Phase 1, the bridge, and the setup as a whole

`Phase1` is `phase1.rs` on exponents; the digest a proof is bound to is the
accumulator it is the hash of.  `Bridge` is `from_phase1`: `Ifft` is the inverse
transform by its definition, `AccumulateMatrix`, `Ext` and `HQueryOf` are the
code's steps.  The library has no process of its own, so `Setup` runs it as
`tests/phase1_bridge.rs` does: hand out the last accumulator, verify what
comes back, append it, bridge, contribute to phase 2.  Unlike the test it lets
several contributors work at once (`MakeOffer`; who comes second starts again)
and lets what arrives be wrong (`Arrivals`): an element or a vector scaled, a
part of another accumulator, a vector cut short, and the public key of any
offer.  `Readable` is what `verify` can be called with at all: vectors of
points that are long enough for the indices it uses.  Phase 2 is the module
`Phase2` itself, instantiated.  The prover and verifier of Groth16 in
`SetupProperties` are outside the repository (`ark_groth16`) and are written
from how the bridge's tests and comments use them.

### Psi

A point is the hash of an indicator times a product of keys: it keeps how often
it was multiplied by each.  Keys are fresh random scalars, so equal points are
equal for one indicator and one product.  `SendSet`, `Ask`, `Respond` and
`Finish` are the four functions; `TakeSet` is `BlindedSet::new`.  Messages stay
in the sets `sets`, `queries` and `replies` once sent and any of them may reach
anybody at any time: that is loss, repetition, reordering and misdelivery.
Bytes that are no point end a query with an error (`FinishDamaged`).
`EditList` and `RotateKey` are the caller's, as the docs advise.
`BlindSet` is the Fisher-Yates loop over what `next_u32` returns for each place
(`Words`): the place is the remainder of the word (`PlacesDrawn`), which falls on
some places for one word more than on others.  `OrderIsHidden` therefore counts
words, not places: with every set that was sent, each order of its list is
possible, and none comes of more words than another but by the factor
`MostWords` / `FewestWords`.  With 2^32 words and a thousand items that factor is
below 1.0002.  It says nothing of lists of more than 2^32 items.
`MembershipOracle` is what remains when points, keys and messages are taken
away: lists handed over, one pending item per querier, answers of which a yes is
true.  `ImplementsOracle` maps the sets that were sent to the lists handed over.

### Circuit

`Satisfied` is `generate_constraints`.  `ProveObservation` makes a proof of any
public inputs whose constraints can be met with the prover's own secret and salt
and with the nodes of published trees; it does not assume that the prover is
honest about tiers, roots, paths or anything else it chooses.  Poseidon is a
constructor (its two parameter sets make different records), so the only paths
worth trying are those of leaves of published trees, with any turns.  Tiers are
numbers modulo `Prime` and the range check is the product the code multiplies
out.  `FromLeBytes` forgets the zero bytes at the end of a chunk, as the number
does.  Trees are full, of the depth the key is for, and are built as
`test_support.rs` builds them, a layer of `Parents` at a time; `Climb` is
`fold_merkle_path`.  `Prime` is any number above 6 without divisors of zero
(`PrimeAssumption`), and epochs and bytes are below it.

## 4. Runs

Every run but the three of the last table must pass.  Bounds are constants of the
`.cfg` files.

| Run | Shows | Bounds, and why they are enough |
|---|---|---|
| `relay_release` | uniqueness of credits, scores that are what was counted, backed tiers, sound disclosures, true answers, every checked submission decided, where counters wrap | two handlers, so that every race of two critical sections and of a query between them happens; eleven submissions that respell, replay, re-prove, re-disclose or fail each check; `MaxU32` 9, which three weights exceed |
| `relay_debug` | tables that agree unless a panic poisoned the mutex, serialised scores, snapshots, nothing withdrawn, a frozen state after a panic, handlers that end, the refinement of `ScoreLedger`, where additions panic | the same, with `MaxU32` 2 and a weight of 0, so that each of the two additions can panic alone |
| `batches` | independence of batch boundaries and of order; a panic only loses | logs of up to four observations of a set of five, batches of up to three, a two-bit counter: a replay inside a batch, across batches and at another tier, and overflow in the loop and in the caller all occur |
| `export` | nothing retracted, the default export complete and sound, every object under the right type, the two formats agree | one handler (exports hold the mutex), six submissions of an address and of a domain name spelled in two ways, thresholds 1 and 2, a counter that two weights exceed, so that a panic comes between two exports, the end of a year, the end of February in the common year 2100, a day that does not exist; `Calendar` itself is compared with a day-by-day calendar over eight years |
| `ceremony` | what the coordinator takes over can prove and keeps its history; tools that take turns lose nothing | two tools at a time and the coordinator, chunk by chunk, with kills; queries of one and three elements, one of them zero; exponents modulo 31 |
| `psi` | nothing found that is not listed, nothing missed without a mix-up, nothing to compare on the wire, no order in a set beyond the bias of the shuffle's remainders, the refinement of `MembershipOracle` | two queriers, two keys of each kind, two published sets, lists of up to three items with two spellings of one indicator: enough for a key or a list to change between set, query and reply, and for a reply to reach the wrong querier; `WordValues` 8 (in the code 2^32), so that the place of the third item is 1 or 2 for three words each and 3 for two, and the bias is there |
| `setup` | one tau in every accepted accumulator, every secret in it once, honest work accepted, keys that prove, hops on them accepted | three contributors, so that two can be overtaken; sizes 2 (too small for the circuit), 4 (its domain) and 5; a circuit of two constraints and two instance variables, with every kind of variable; exponents modulo 97, which has a 4th root of unity, and secrets none of whose products is in the domain |
| `circuit` | tiers and observations backed by what their prover holds and published, nullifiers that tell contributor, indicator and epoch apart, indicators that stay apart, completeness | two contributors, two rosters in which tiers differ and move, two trees of four leaves, two proofs (the properties compare pairs); modulo 7, the least prime at which four tiers and their negatives differ; texts of two chunks that differ in a trailing zero byte |
| `deployment` | an OK is of a pair that was on the disk; a relay accepts as the end of keygen and the check say | three runs of keygen, killed anywhere, so that a file may be of either of two earlier runs; one relay, one contributor and one checker, since they do not influence each other |

`CHECK_DEADLOCK FALSE` is set where the system ends: logs and histories are
bounded (`batches`), tools end (`ceremony`), keys run out (`psi`), contributors
have contributed (`setup`), and proofs are bounded (`circuit`).  The relay never
stops, and its runs check deadlock.  `psi` uses symmetry among keys of a kind
and among queriers; they are random and interchangeable, and the run has no
liveness property.

Fairness is assumed of the relay only, and only of handlers that have a request
(`WF_vars(Submit(h))`): tokio polls every ready task, and the mutex is a
`std::sync::Mutex` that is never held across an await, so its holder always lets
go.  Requests need not come, and restarts need not happen.

Where the code does something else than its comments say:

| Run | Quotation | What the code does |
|---|---|---|
| `relay_listed_root` | `bin/server.rs:13` "one hex-encoded credential_root per line" | compares texts: a root listed in upper case is never trusted |
| `stix_ids` | `stix.rs:141` "Deterministic per (relay_id, indicator, epoch)" | hashes the place in the iteration of a hash map as well |
| `ceremony_valid` | `bin/verify.rs:6` "checks a whole finished chain from one file" | looks at the history alone, not at the key beside it |

Four more observations that no run states.  `params.rs:180` says that `verify`
accepts a transcript that differs "by exactly one additional contribution"; it
does not compare how long the histories are (lines 203-205) and accepts none, or
several.  `phase1::verify` compares no
lengths: an accumulator with a vector cut short is accepted, and the next
`contribute` or `from_phase1` panics at an index (the model has such
accumulators and stops there).  A key bridged from an accumulator nobody
contributed to has an all-zero h query, so it proves but no phase 2 hop on it
ever verifies (hence `chain # << >>` in `BridgedHopVerifies`).
`docs/CEREMONY.md:37` still calls the ingestion of phase 1 output not implemented.

## 5. Proofs

TLAPS checks the following for every value of the constants that satisfies the
modules' named assumptions, so for any number of handlers, contributors, keys
and requests.

| Theorem | Says | Argument |
|---|---|---|
| `TypeCorrect` | `[]TypeOK` | inductive with `LocksChecked`: a handler on its way to the lock has a request that passed every check, and `CheckedRequest` derives from it that texts decode and the tier is at most 3 |
| `OneCredit`, `TierBacked` | `[]OneCreditPerContributor`, `[]TierIsBacked` | `CreditInv`: every counted observation is `Earned` by a provable statement, its nullifier is in `seen`, and nullifiers determine observations |
| `DisclosureSound`, `TrueAnswers` | `[]DisclosureIsSound`, `[]AnswersAreTrue` | on top of `CreditInv`; an answer stays true because `counted` only grows within one life of the process |
| `Monotone`, `PoisonIsFinal` | `NothingRegresses`, `PoisonFreezes` | one case per action; scores need that an addition that does not overflow is exact |
| `ScoresAreWeightedCounts`, `NoHalfCredit` | `[]ScoreIsWeightedCount`, `[]NothingHalfApplied` | `TablesTell` says for each key what the tables hold in a healthy and in a poisoned process, a panic between the two additions included.  Sums over sets are unfolded from the library's folds: a sum does not depend on the order of adding (by induction on cardinality), so one more credit adds its weight; and to wrap at every addition is to wrap once (`AddWraps`) |
| `Snapshots`, `ScoresInOrder` | `[]QueriesAreSnapshots`, `[]AcceptedScoresSerialise` | the observations that were counted when a query was answered are still there; an answer of a submission is at most the score now, so the next one is higher by its own weight |
| `FormatsAgree`, `NothingRetracted`, `DefaultIsComplete` | `[]MispAgreesWithStix`, `[]ExportsNeverRetract`, `[]DefaultExportIsComplete` | `ExportInv`: the order walked is one of the score map's keys, so the entries exported are a question about the tables (`InputsAre`).  `StillBacked` ties what was exported to the tables of the same life of the process, whose scores, counts and disclosures only grow; `ProofsCounted` says that a key scores exactly when it has proofs, also after a panic between the two additions.  A date's window tells its date (`Calendar`), by the order of dates, for every year |
| `BatchesAreWorth`, `PanicLoses` | `[]BatchesMatchReference`, `[]PanicOnlyLoses` | `RoundMatches`: after every round, what the loop has added to what the caller had is the worth of the observations up to there, so a cut makes no difference; one observation more is a first use, which adds its weight to one sum, or a replay (`WorthStep`), and adding a batch up changes places with the batch's own additions, wrapping included (`MergeAdds`).  Where additions are checked the totals are exact (`RoundsExact`), which bounds what a panic can leave |
| `OrderDoesNotMatter` | `[]OrderIrrelevant` | the first uses of two orders correspond nullifier by nullifier, and a sum may be taken along any one-to-one correspondence (`SumReindexed`) |
| `Refinement` | `ImplementsLedger`, assuming `OverflowChecks` | `Count` and `PanicAddingCount` are `Credit`, `Restart` is `Forget`, all else stutters; it fails where counters wrap, which is why it is assumed |
| `AcceptedKeyWorks`, `HistoryGrows` | `[]AcceptedIsUsable`, `NothingWithdrawn` | `WellFormed` types whatever a torn or mixed file decodes to; `HopKeepsUsable` shows that the checks of `verify` carry usability from the old parameters to the new, for every commutative field |
| `TurnsKeepEverything` | `[]TurnsKeepTheCeremony`, assuming `HoleIsNoChunk` and `QueriesLive` | `InTurn(p)`: the file is the beginning of what some parameters `p` of an honest ceremony are written as (all of it, unless a tool writes or was killed), each tool's memory and place agree with `p`, and `p` has the accepted and attested contributions.  `File::create` is where `p` becomes the next one; a beginning reads only when it is whole; what the coordinator puts together from files of two turns still has a history that `p` begins with |
| `NoFalsePositive`, `NothingToCompare` | `[]FoundIsTrue`, `[]WireTellsNothing` | `PsiInv`: where every point on the wire comes from, that keys not drawn are in none, and that a query key is in one query |
| `NoFalseNegative` | `[]NothingMissed` | every order the shuffle can draw is a permutation, so a listed item's point is in the set; multiplying by keys commutes, so the reply's point is that point |
| `OrderStaysHidden` | `OrderIsHidden` | what the shuffle does to a list depends on the draws alone (`ShuffleReorders`); every order comes of a draw (`OrderIsDrawn`), and of one only, since a place keeps what its own swap put there (`DrawsAreTold`).  A word is a remainder and a quotient (`OneWord`): the quotients below the last go with every remainder (`SampledWords`), and there are none beyond the last (`WordsAreSampled`), so the words that make one order are at least `FewestWords` to another's `MostWords` (`NotManyMoreWays`) |
| `OracleRefinement` | `ImplementsOracle` | `FoundIsTrue`'s invariant gives that a yes is of the list; sending a set is `Publish`, all that moves only points stutters |
| `AcceptedPowersOfOneTau` | `[]PowersOfOneTau` | `SetupInv`; `HopKeepsPowers` takes any readable vectors, so it does not depend on how arrivals are enumerated: the pairing checks of neighbouring elements give the powers, and the two checks with beta's proof give one beta in both groups |
| `SecretsCountOnce` | `[]EachSecretCountsOnce`, assuming `IndependentSecrets` | `CountInv`: the first powers are the products of the secrets along the chain, and a key's own check ties it to the secret it was made with; an accepted hop multiplies by one secret (`HopKeepsPowers`), and a product tells whose it is, so it is the secret of the one who is listed |
| `HonestWorkIsAccepted` | `[]HonestOfferVerifies` | powers of tau times powers of a secret are powers again, and a proof made for the accumulator shows its secret; nothing vanishes, since a field has no divisors of zero; every earlier hop stays verified |
| `BridgedHopsVerify` | `[]BridgedHopVerifies`, assuming `IndependentSecrets` and `LiveKeys` | `HopInv`: the last accumulator is, in all that the bridge reads, the one that a single contributor of the products of the secrets makes (`AsIfOneContributed`, by the rows `SameRow`), so `LiveKeys` is about its key; transforms and matrices of scalars give scalars (sums over finite sets), dividing a query by the secret that delta is multiplied with keeps its pairing, and a history grows by what its last delta leads to |
| `KeysProve` | `[]KeyProves` | `KeyInv`: the parameters of phase 2 are those the bridge makes of the last accumulator, with both queries divided by delta. The rest is Groth16's completeness for the bridge's key. Powers of the domain's generator other than 1 add up to zero (`RootsAddUp`), so transforms invert (`Inversion`) and move from one factor of a sum to the other (`TransformMoves`): the matrices' queries, times an assignment, are polynomials with the assignment's values, at tau (`WeighedPlain`, and `WeighedA` with the block of instance variables). The values of A times B are those of C on the domain, so at tau A times B is C and the quotient times the vanishing part (`ProductAnywhere`), and the blinding factors come and go (`ProofEquation`) |
| `TiersAreBacked`, `ObservationsWerePublished` | `[]TierIsBacked`, `[]ObservationWasPublished` | a product that is 0 has a factor that is 0, and above 6 that factor names a tier; a path that leads to a root goes through nodes of the tree with that root, layer by layer, so it starts at a leaf |
| `NullifiersAreApart`, `HashesAreApart` | `[]OneNullifierEach`, `[]IndicatorsKeptApart` | hashes are constructors; little-endian bytes below the prime are unique up to trailing zeros, the number of blocks and the length block settle the rest, for every chunk size |
| `HonestProofsExist` | `[]HonestProverSucceeds` | the path that `build_tree` gives leads to the root, by induction on the layers |
| `OkIsSound` | `[]OkMeansPair` | while `umbra.vk` is about to become the checked key, `umbra.pk` still is that key, since a run of keygen writes it first and runs do not overlap |
| `ServiceAsChecked` | `[]ServiceIsPredictable` | what was read in the present quiet time is what the files hold; what was read in an earlier one no longer changes together |

Induction over numbers is by `Foundations.InductionOnSet`, which takes the set of
numbers a statement holds of, and over finite sets by `InductionOnFiniteSet`; recursive functions and the library's folds are
unfolded one step at a time.

What is assumed beyond arithmetic: hashes do not collide, a random combination
of false equations does not cancel, a Groth16 proof exists only for a true
statement, scalars drawn at random differ, the words of `OsRng` are independent
and each as likely as another (so that counting them says what is likely; there
is at least one, `WordValuesAssumption`), and the field has no divisors of zero
and more than six elements (`PrimeAssumption`).  An epoch is a number
(`EpochsAssumption`; in the code a u64), trimming a string does not change what it
hashes to (`SpellingsAssumption`; both sides trim), and the coordinator is not one
of the tools that write the file (`ActorsAssumption`).  The scalars are a
commutative field (`FieldAssumption`, `AdditionAssumption`) with a domain for the
circuit: an element whose powers are 1 at the domain's size and not before, that size
not being 0 in the field (`DomainAssumption`).  The assignments a key is asked to prove
satisfy the circuit (`AssignmentsAssumption`).  Four theorems assume
something of their own: `Refinement` a build with overflow checks;
`TurnsKeepEverything` that zero bytes are no query or record (`HoleIsNoChunk`) and
no query of the circuit is all zero, since `merge_pairs` would make the identity
of it (`QueriesLive`); `SecretsCountOnce` that a product of contributors'
secrets tells whose they are (`IndependentSecrets`), which is so for random
scalars but not for every choice from a small field; and `BridgedHopsVerify` that
too, and that no query of the key made of any contributors' secrets is all zero
(`LiveKeys`: their tau is not in the domain, and the circuit uses a private
variable).  TLC finds both true of the run's secrets and circuit.  `NothingRetracted` and `DefaultIsComplete` speak of
builds with overflow checks, and the latter of weights above 0, because the
properties do: where counters wrap, a score can fall below the threshold again.

Only model-checked: the two liveness properties, `EverySubmissionLands` and
`EveryHandlerEnds`, which rest on fairness; the prover has no rules for it.

## 6. Not modelled

- HTTP, JSON, argument parsing, printing, key and proof serialisation: I/O
  around the calls that are modelled.
- The escaping of quotes in `stix_pattern_for` and the wording of exported
  objects; how a string is tested for being an address or a hash.
- Two runs of keygen at once in one directory: nothing in the tools expects it.
- `poseidon_params.rs` (constants), `debug_lagrange_tables` (a test aid),
  `fingerprint` (it prints a hash).
- Secrets that leak, timing, and the hardness assumptions of the cryptography.

## 7. Next

- The soundness of `verify_transcript`.
- An abstract specification of a ceremony that `Ceremony` and `Setup` implement.
- `Export` over two relay processes.
