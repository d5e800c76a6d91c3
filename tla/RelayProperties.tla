-------------------------- MODULE RelayProperties --------------------------
(***************************************************************************)
(* What must be true of the relay: its type, what its tables say about the *)
(* observations that were counted, what its answers say about the tables,  *)
(* how its state may change, and the ledger it implements.                 *)
(***************************************************************************)
EXTENDS Relay, FiniteSets, Functions

----------------------------------------------------------------------------
(* Types.                                                                  *)

TablesOK ==
    /\ seen \subseteq Texts
    /\ DOMAIN scores \subseteq Keys /\ scores \in [DOMAIN scores -> U32]
    /\ DOMAIN proof_counts \subseteq Keys /\ proof_counts \in [DOMAIN proof_counts -> U32]
    /\ DOMAIN disclosed \subseteq [fr : Indicators, spelling : {"canonical"}]
    /\ disclosed \in [DOMAIN disclosed -> Raws]
    /\ poisoned \in BOOLEAN
    /\ counted \subseteq VerifiedObservation

\* A handler that works has a request, one that has answered has an answer.
TasksOK ==
    /\ pc \in [Handlers -> {"idle", "checking", "locking", "replied"}]
    /\ req \in [Handlers -> Requests \cup Queries \cup {Nothing}]
    /\ reply \in [Handlers -> Reply \cup {Nothing}]
    /\ \A h \in Handlers :
        /\ pc[h] \in {"checking", "locking"} => req[h] \in Requests
        /\ pc[h] = "replied" => reply[h] \in Reply

\* Every variable holds values of the type the code gives it (state.rs, Inner): the
\* tables are keyed by texts the relay itself encoded, never by a client's spelling.
TypeOK == TablesOK /\ TasksOK

\* A handler goes for the lock only with a request that has passed every check.
LocksChecked == \A h \in Handlers : pc[h] = "locking" => EarlyRejection(req[h]) = "none"

----------------------------------------------------------------------------
(* The tables and the counted observations.                                *)

\* The secret whose holder made an observation.
ContributorOf(o) == FrFromHex(o.nullifier)[1]

Under(key) == {o \in counted : ScoreKey(o) = key}
TotalWeight(obs) == SumFunction([o \in obs |-> WeightFor(o.tier)])

\* Replay protection (submit_observation, accumulate): a contributor is credited
\* at most once per (indicator, epoch), however the request is spelled, whichever
\* credential tree it names and however many handlers race for the lock; and the
\* nullifier that guards a credit stays in the set for as long as the credit does.
OneCreditPerContributor ==
    /\ \A o \in counted : o.nullifier \in seen
    /\ \A o, p \in counted :
        /\ ContributorOf(o) = ContributorOf(p)
        /\ FrFromHex(o.indicator_hash) = FrFromHex(p.indicator_hash)
        /\ o.epoch = p.epoch
        => o = p

\* No half-applied submission is in sight: unless a panic has poisoned the mutex,
\* a nullifier is burnt exactly when its observation was counted, and the proof
\* count of a key is the number of observations counted under it.
NothingHalfApplied ==
    ~ poisoned =>
        /\ seen = {o.nullifier : o \in counted}
        /\ DOMAIN proof_counts = DOMAIN scores
        /\ \A key \in DOMAIN proof_counts :
            proof_counts[key] = Cardinality(Under(key)) % (MaxU32 + 1)

\* Aggregation (docs/PROTOCOL_SPEC.md, section 5): the score of an (indicator,
\* epoch) is the weighted count of the distinct proofs accepted for it, modulo the
\* width of the counter; no key exists without a proof.
ScoreIsWeightedCount ==
    /\ DOMAIN scores = {ScoreKey(o) : o \in counted}
    /\ \A key \in DOMAIN scores :
        scores[key] = TotalWeight(Under(key)) % (MaxU32 + 1)

\* The tier an observation is scored at is backed by an issuer the relay trusts:
\* above tier 0, some trusted tree holds the contributor's secret at that tier.
TierIsBacked ==
    \A o \in counted : o.tier > 0 =>
        \E root \in CredentialRoots :
            /\ FrToHex(root) \in TrustedRoots
            /\ \E leaf \in Issued[root] : leaf[1] = ContributorOf(o) /\ leaf[2] >= o.tier

\* A raw indicator on record hashes to the key it is recorded under, and a proof
\* for that key was counted: nobody attaches a raw value to someone else's hash,
\* and none gets in with a submission that was refused.
DisclosureIsSound ==
    \A text \in DOMAIN disclosed :
        /\ FrToHex(HashOf[disclosed[text]]) = text
        /\ \E o \in counted : o.indicator_hash = text

----------------------------------------------------------------------------
(* The answers and the tables.                                             *)

Answered(h, kind, reason) ==
    /\ pc[h] = "replied"
    /\ reply[h].kind = kind
    /\ reply[h].reason = reason

\* An answer is true when it is given and stays true until the process ends:
\* "accepted" means the client's observation is counted; "already counted" means an
\* observation of the same contributor for the same (indicator, epoch) is, so a client
\* that retries a submission whose answer was lost learns the truth from either.
AnswersAreTrue ==
    \A h \in Handlers :
        /\ Answered(h, "accepted", "none") => Observation(req[h]) \in counted
        /\ Answered(h, "rejected", "replay") =>
            \E o \in counted :
                /\ ScoreKey(o) = KeyOf(h)
                /\ o.nullifier = Observation(req[h]).nullifier

\* The mutex serialises the credits: of two accepted submissions for one key, the
\* score answered to one already includes the weight of the other; and no answer
\* runs ahead of the table.  (Scores that wrap are excluded.)
AcceptedScoresSerialise ==
    OverflowChecks =>
        \A g, h \in Handlers :
            /\ Answered(g, "accepted", "none")
            /\ Answered(h, "accepted", "none")
            /\ KeyOf(g) = KeyOf(h)
            => /\ reply[h].score <= scores[KeyOf(h)]
               /\ g # h =>
                    \/ reply[g].score >= reply[h].score + WeightFor(ScoredTier(req[g]))
                    \/ reply[h].score >= reply[g].score + WeightFor(ScoredTier(req[h]))

\* A score query is one snapshot: the score and the proof count it returns belong to
\* one moment of the key's history, so the score is the weight of some `count` of the
\* observations counted under that key, at most those counted by now.
QueriesAreSnapshots ==
    OverflowChecks =>
        \A h \in Handlers :
            Answered(h, "score", "none") =>
                \E obs \in SUBSET Under(ScoreKey(req[h])) :
                    /\ reply[h].count = Cardinality(obs)
                    /\ reply[h].score = TotalWeight(obs)

\* An issuer on the operator's list is trusted (bin/server.rs: the file holds "one
\* hex-encoded credential_root per line"): an accepted submission that names its tree
\* is scored at the tier it claims, however the line of the file spells the root.
ListedIssuerIsTrusted ==
    \A h \in Handlers :
        /\ Answered(h, "accepted", "none")
        /\ \E line \in TrustedRoots :
                FrFromHex(line) = FrFromHex(req[h].credential_root)
        => Observation(req[h]).tier = req[h].min_tier

----------------------------------------------------------------------------
(* How the state may change.                                               *)

\* Until the process restarts, scores and proof counts never fall, a burnt nullifier
\* stays burnt, and a disclosure is never withdrawn or replaced (schema/
\* stix_mapping.md: "recorded once, never retracted").  In a build that wraps, scores
\* and counts may fall; the rest holds there too.
Grows ==
    /\ seen \subseteq seen'
    /\ counted \subseteq counted'
    /\ \A text \in DOMAIN disclosed :
        text \in DOMAIN disclosed' /\ disclosed'[text] = disclosed[text]
    /\ DOMAIN scores \subseteq DOMAIN scores'
    /\ OverflowChecks =>
        /\ \A key \in DOMAIN scores : scores[key] <= scores'[key]
        /\ \A key \in DOMAIN proof_counts : proof_counts[key] <= Lookup(proof_counts', key)
NothingRegresses == [][Grows \/ Init']_vars

\* Once a panic has poisoned the mutex the tables are frozen until a restart, and no
\* handler answers from them: what the panic left half done is never seen.
Frozen ==
    poisoned =>
        /\ UNCHANGED <<inner, counted>>
        /\ \A h \in Handlers : pc[h] # "replied" /\ pc'[h] = "replied"
            => reply'[h].kind \in {"rejected", "dropped"} /\ reply'[h].reason # "replay"
PoisonFreezes == [][Frozen \/ Init']_vars

----------------------------------------------------------------------------
(* What must happen.                                                       *)

\* A submission that passes the checks is decided: its nullifier gets counted, unless
\* a panic poisons the mutex or the process restarts (Init holds after a restart).
Submitting(text) ==
    \E h \in Handlers :
        /\ pc[h] = "checking"
        /\ EarlyRejection(req[h]) = "none"
        /\ Observation(req[h]).nullifier = text
Landed(text) == \E o \in counted : o.nullifier = text
EverySubmissionLands ==
    \A text \in {Observation(r).nullifier : r \in Requests} :
        Submitting(text) ~> (Landed(text) \/ poisoned \/ Init)

\* No handler hangs, not even after a panic: each one that has started comes to an end.
EveryHandlerEnds == \A h \in Handlers : pc[h] # "idle" ~> pc[h] = "idle"

----------------------------------------------------------------------------
(* The ledger the relay implements (builds with overflow checks).          *)

CreditOf(o) ==
    [contributor |-> ContributorOf(o), key |-> ScoreKey(o), weight |-> WeightFor(o.tier)]

Ledger == INSTANCE ScoreLedger WITH
    Contributors <- Secrets,
    MaxScore <- MaxU32,
    ledger <- {CreditOf(o) : o \in counted},
    board <- [key \in Keys |-> Lookup(scores, key)]

\* Seen through its tables, the relay is the abstract ledger: every step credits one
\* contributor once, forgets everything, or changes neither.
ImplementsLedger == Ledger!LedgerSpec

=============================================================================
