------------------------------- MODULE Relay -------------------------------
(***************************************************************************)
(* The relay server: HTTP handlers that check a submitted proof of         *)
(* observation on their own, then take the one mutex over the relay's      *)
(* in-memory state (state.rs, Inner) and count it; handlers that answer    *)
(* score queries from that state; process restarts, which lose it all; and *)
(* the panic of a handler that holds the mutex, which poisons it.          *)
(*                                                                         *)
(* Handlers interleave anywhere but inside the mutex: one action is what a *)
(* handler does between two points at which another one can run.           *)
(*                                                                         *)
(* Field elements are abstract.  What matters of Poseidon is that it does  *)
(* not collide, so a nullifier IS the triple it hashes.  A text that       *)
(* travels as hex names a field element and has a spelling, because        *)
(* several texts decode to one element.  A proof IS the statement it       *)
(* proves: the verifier accepts it for exactly those public inputs.        *)
(***************************************************************************)
EXTENDS Accumulator

CONSTANTS
    Handlers,           \* request-handling tasks that may run at the same time
    Secrets,            \* credential secrets of the contributors
    Indicators,         \* indicator hashes
    Raws,               \* raw indicator strings
    HashOf,             \* indicator_hash_from_raw: [Raws -> Indicators]
    NoRaw,              \* the request discloses no raw indicator
    Epochs,             \* epoch numbers
    Roots,              \* Merkle roots over a contributor's observations
    CredentialRoots,    \* roots of credential trees
    Issued,             \* leaves of each credential tree: sets of <<secret, tier>>
    RootsFile,          \* lines of the trusted-roots file the server was started with
    Comment,            \* a line of it that is blank or starts with #
    NotAField,          \* what a text decodes to that is no field element
    MalformedProof,     \* proof bytes that do not deserialize
    Requests,           \* the submissions clients may send
    Queries,            \* the score queries clients may send
    OverflowChecks,     \* TRUE: a build that panics on overflow; FALSE: one that wraps
    Nothing             \* no request, no reply

----------------------------------------------------------------------------
(* What travels: field elements, texts, proofs, requests.                  *)

\* nullifier = Poseidon(credential_secret, indicator_hash, epoch)
Nullifier(secret, indicator, epoch) == <<secret, indicator, epoch>>
Nullifiers == Secrets \X Indicators \X Epochs

Fr == Indicators \cup Roots \cup CredentialRoots \cup Nullifiers
Texts == [fr : Fr \cup {NotAField}, spelling : {"canonical", "other"}]

\* fr_to_hex: the one text the relay itself writes for a field element.
FrToHex(x) == [fr |-> x, spelling |-> "canonical"]

\* fr_from_hex: any spelling of a field element is accepted.
FrFromHex(text) == text.fr

\* trusted_credential_roots: the file's lines as they are spelled, trimmed.
TrustedRoots == RootsFile \ {Comment}

Keys == [fr : Indicators, spelling : {"canonical"}] \X Epochs

Statements ==
    [indicator_hash : Indicators, epoch : Epochs, root : Roots,
     nullifier : Nullifiers, min_tier : 0..3, credential_root : CredentialRoots]

\* What the circuit enforces of a statement that has a proof: the nullifier is
\* derived from the prover's secret, and the secret has a leaf of at least the
\* claimed tier in the credential tree named.
Provable(st) ==
    \E leaf \in Issued[st.credential_root] :
        /\ st.nullifier = Nullifier(leaf[1], st.indicator_hash, st.epoch)
        /\ leaf[2] >= st.min_tier

SubmitObservationRequest ==
    [indicator_hash : Texts, epoch : Epochs, root : Texts, nullifier : Texts,
     min_tier : 0..255, credential_root : Texts, indicator : Raws \cup {NoRaw},
     proof : Statements \cup {MalformedProof}]

\* The path of GET /v1/score/:indicator_hash/:epoch, taken as it is spelled.
ScoreQuery == [indicator_hash : Texts, epoch : Epochs]

VerifiedObservation ==
    [indicator_hash : Texts, epoch : Epochs, nullifier : Texts, tier : 0..255]

ASSUME HashOfAssumption == HashOf \in [Raws -> Indicators]
ASSUME IssuedAssumption == Issued \in [CredentialRoots -> SUBSET (Secrets \X (0..3))]
ASSUME RootsFileAssumption == RootsFile \subseteq Texts \cup {Comment} /\ Comment \notin Texts
ASSUME SentinelsAssumption ==
    /\ NotAField \notin Fr
    /\ NoRaw \notin Raws
    /\ MalformedProof \notin Statements
ASSUME OverflowChecksAssumption == OverflowChecks \in BOOLEAN
ASSUME QueriesAssumption == Queries \subseteq ScoreQuery
ASSUME RequestsAssumption ==
    /\ Requests \subseteq SubmitObservationRequest
    /\ \A r \in Requests : r.proof \in Statements => Provable(r.proof)

----------------------------------------------------------------------------
VARIABLES
    seen,           \* Inner.seen_nullifiers
    scores,         \* Inner.scores
    proof_counts,   \* Inner.proof_counts
    disclosed,      \* Inner.disclosed_indicators
    poisoned,       \* a handler panicked while it held the mutex
    pc,             \* where each handler is
    req,            \* the submission or the queried key each handler works on
    reply,          \* the answer each handler has made
    counted         \* history: the observations whose weight was added

inner == <<seen, scores, proof_counts, disclosed, poisoned>>
tasks == <<pc, req, reply>>
vars == <<inner, tasks, counted>>

Reply == [kind : {"accepted", "rejected", "score", "dropped"},
          reason : {"none", "encoding", "proof", "disclosure", "replay"},
          score : U32, count : U32]

Accepted(s) == [kind |-> "accepted", reason |-> "none", score |-> s, count |-> 0]
Rejected(why) == [kind |-> "rejected", reason |-> why, score |-> 0, count |-> 0]
ScoreResponse(s, n) == [kind |-> "score", reason |-> "none", score |-> s, count |-> n]
\* The handler panicked: its connection closes without an answer.
Dropped == [kind |-> "dropped", reason |-> "none", score |-> 0, count |-> 0]

Init ==
    /\ seen = {}
    /\ scores = EmptyTable
    /\ proof_counts = EmptyTable
    /\ disclosed = EmptyTable
    /\ poisoned = FALSE
    /\ pc = [h \in Handlers |-> "idle"]
    /\ req = [h \in Handlers |-> Nothing]
    /\ reply = [h \in Handlers |-> Nothing]
    /\ counted = {}

----------------------------------------------------------------------------
(* Before the lock: what a handler decides from the request alone.         *)

ParsedFields(r) == {FrFromHex(r.indicator_hash), FrFromHex(r.root),
                    FrFromHex(r.nullifier), FrFromHex(r.credential_root)}

\* The public inputs the handler passes to the verifier, from the parsed request.
PublicInputs(r) ==
    [indicator_hash |-> FrFromHex(r.indicator_hash), epoch |-> r.epoch,
     root |-> FrFromHex(r.root), nullifier |-> FrFromHex(r.nullifier),
     min_tier |-> r.min_tier, credential_root |-> FrFromHex(r.credential_root)]

\* MUTANT: the claimed tier is left out of the public inputs.
VerifiesIgnoringTier(r) ==
    /\ r.proof # MalformedProof
    /\ [r.proof EXCEPT !.min_tier = r.min_tier] = PublicInputs(r)

\* Groth16::verify against the relay's key.
Verifies(r) == r.proof = PublicInputs(r)

\* MUTANT: a disclosure is taken at its word.
DisclosureTrusted(r) == TRUE

DisclosureMatches(r) ==
    r.indicator # NoRaw => HashOf[r.indicator] = FrFromHex(r.indicator_hash)

\* The early returns of submit_observation, in their order.
EarlyRejection(r) ==
    IF NotAField \in ParsedFields(r) \/ r.proof = MalformedProof THEN "encoding"
    ELSE IF ~ Verifies(r) THEN "proof"
    ELSE IF ~ DisclosureMatches(r) THEN "disclosure"
    ELSE "none"

\* MUTANT: the claimed tier counts whoever issued the credential.
TierClaimed(r) == r.min_tier

\* The tier an observation is scored at: the claim, if its issuer is trusted.
ScoredTier(r) ==
    IF FrToHex(FrFromHex(r.credential_root)) \in TrustedRoots THEN r.min_tier ELSE 0

\* MUTANT: keys keep the spelling of the request.
ObservationAsSpelled(r) ==
    [indicator_hash |-> r.indicator_hash, epoch |-> r.epoch,
     nullifier |-> r.nullifier, tier |-> ScoredTier(r)]

\* The observation handed to the accumulator, keyed by re-encoded texts.
Observation(r) ==
    [indicator_hash |-> FrToHex(FrFromHex(r.indicator_hash)), epoch |-> r.epoch,
     nullifier |-> FrToHex(FrFromHex(r.nullifier)), tier |-> ScoredTier(r)]

----------------------------------------------------------------------------
(* Handler steps.                                                          *)

GoTo(h, where) == pc' = [pc EXCEPT ![h] = where]
Answer(h, r) == GoTo(h, "replied") /\ reply' = [reply EXCEPT ![h] = r]

\* A submission arrives and its handler starts.
Receive(h) ==
    /\ pc[h] = "idle"
    /\ \E r \in Requests : req' = [req EXCEPT ![h] = r]
    /\ GoTo(h, "checking")
    /\ UNCHANGED <<inner, reply, counted>>

\* The handler answers without having taken the lock.
RefuseEarly(h) ==
    /\ pc[h] = "checking"
    /\ EarlyRejection(req[h]) # "none"
    /\ Answer(h, Rejected(EarlyRejection(req[h])))
    /\ UNCHANGED <<inner, req, counted>>

\* MUTANT: reserves the nullifier before it has the lock.
PassChecksReserving(h) ==
    /\ pc[h] = "checking"
    /\ EarlyRejection(req[h]) = "none"
    /\ GoTo(h, "locking")
    /\ seen' = seen \cup {Observation(req[h]).nullifier}
    /\ UNCHANGED <<scores, proof_counts, disclosed, poisoned, req, reply, counted>>

\* The proof verifies and the disclosure matches: the handler goes for the lock.
PassChecks(h) ==
    /\ pc[h] = "checking"
    /\ EarlyRejection(req[h]) = "none"
    /\ GoTo(h, "locking")
    /\ UNCHANGED <<inner, req, reply, counted>>

\* What accumulate returns for the handler's one-observation batch.
Batch(h) == AccumulateOne(StartBatch(seen), Observation(req[h]))
KeyOf(h) == ScoreKey(Observation(req[h]))

ScoreOverflows(h) == Lookup(scores, KeyOf(h)) + Lookup(Batch(h).scores, KeyOf(h)) > MaxU32
CountOverflows(h) == Lookup(proof_counts, KeyOf(h)) + 1 > MaxU32

\* MUTANT: the last disclosure wins.
DiscloseLast(r) ==
    IF r.indicator = NoRaw THEN disclosed
    ELSE [k \in DOMAIN disclosed \cup {Observation(r).indicator_hash} |->
            IF k = Observation(r).indicator_hash THEN r.indicator ELSE disclosed[k]]

\* disclosed_indicators.entry(key).or_insert(raw): the first disclosure stays.
Disclose(r) ==
    IF r.indicator = NoRaw \/ Observation(r).indicator_hash \in DOMAIN disclosed
    THEN disclosed
    ELSE [k \in DOMAIN disclosed \cup {Observation(r).indicator_hash} |->
            IF k = Observation(r).indicator_hash THEN r.indicator ELSE disclosed[k]]

\* MUTANT: answers with the batch's own score.
BatchScore(h) == Lookup(Batch(h).scores, KeyOf(h))

\* The score answered: read back from the updated table, under the lock.
UpdatedScore(h) == Lookup(scores', KeyOf(h))

\* MUTANT: takes a poisoned lock like any other (PoisonError::into_inner).
HasAnyLock(h) == pc[h] = "locking"

HasLock(h) == pc[h] = "locking" /\ ~ poisoned

\* The nullifier was seen: nothing changes.
RefuseReplay(h) ==
    /\ HasLock(h)
    /\ Batch(h).rejected_replays # << >>
    /\ Answer(h, Rejected("replay"))
    /\ UNCHANGED <<inner, req, counted>>

\* The critical section of a fresh observation, from accumulate to the response.
Count(h) ==
    /\ HasLock(h)
    /\ Batch(h).rejected_replays = << >>
    /\ OverflowChecks => ~ (ScoreOverflows(h) \/ CountOverflows(h))
    /\ seen' = Batch(h).seen
    /\ scores' = Merge(scores, Batch(h).scores)
    /\ proof_counts' = AddAt(proof_counts, KeyOf(h), 1)
    /\ disclosed' = Disclose(req[h])
    /\ counted' = counted \cup {Observation(req[h])}
    /\ Answer(h, Accepted(UpdatedScore(h)))
    /\ UNCHANGED <<poisoned, req>>

\* MUTANT: the panic leaves a mutex that is taken like any other (parking_lot's).
PanicUnpoisoned(h) ==
    /\ HasLock(h)
    /\ OverflowChecks
    /\ Batch(h).rejected_replays = << >>
    /\ ScoreOverflows(h)
    /\ seen' = Batch(h).seen
    /\ Answer(h, Dropped)
    /\ UNCHANGED <<scores, proof_counts, disclosed, poisoned, req, counted>>

\* The score's addition panics: the nullifier is in, the weight is not.
PanicAddingScore(h) ==
    /\ HasLock(h)
    /\ OverflowChecks
    /\ Batch(h).rejected_replays = << >>
    /\ ScoreOverflows(h)
    /\ seen' = Batch(h).seen
    /\ poisoned' = TRUE
    /\ Answer(h, Dropped)
    /\ UNCHANGED <<scores, proof_counts, disclosed, req, counted>>

\* The proof count's addition panics: the weight is in, the proof is not counted.
PanicAddingCount(h) ==
    /\ HasLock(h)
    /\ OverflowChecks
    /\ Batch(h).rejected_replays = << >>
    /\ ~ ScoreOverflows(h)
    /\ CountOverflows(h)
    /\ seen' = Batch(h).seen
    /\ scores' = Merge(scores, Batch(h).scores)
    /\ counted' = counted \cup {Observation(req[h])}
    /\ poisoned' = TRUE
    /\ Answer(h, Dropped)
    /\ UNCHANGED <<proof_counts, disclosed, req>>

\* MUTANT: waits for a poisoned lock.
WaitOnPoison(h) ==
    /\ pc[h] = "locking"
    /\ poisoned
    /\ UNCHANGED vars

\* lock().expect("relay state mutex poisoned")
PanicOnPoison(h) ==
    /\ pc[h] = "locking"
    /\ poisoned
    /\ Answer(h, Dropped)
    /\ UNCHANGED <<inner, req, counted>>

\* get_score: one lock, two look-ups under the text of the path as it is.
AskScore(h) ==
    /\ pc[h] = "idle"
    /\ \E q \in Queries :
        /\ req' = [req EXCEPT ![h] = q]
        /\ Answer(h, IF poisoned THEN Dropped
                     ELSE ScoreResponse(Lookup(scores, ScoreKey(q)),
                                        Lookup(proof_counts, ScoreKey(q))))
    /\ UNCHANGED <<inner, counted>>

\* The answer goes out; whether the client receives it, the handler never learns.
Finish(h) ==
    /\ pc[h] = "replied"
    /\ GoTo(h, "idle")
    /\ req' = [req EXCEPT ![h] = Nothing]
    /\ reply' = [reply EXCEPT ![h] = Nothing]
    /\ UNCHANGED <<inner, counted>>

\* The process stops, at any point, and starts again with empty state.
Restart ==
    /\ seen' = {}
    /\ scores' = EmptyTable
    /\ proof_counts' = EmptyTable
    /\ disclosed' = EmptyTable
    /\ poisoned' = FALSE
    /\ pc' = [h \in Handlers |-> "idle"]
    /\ req' = [h \in Handlers |-> Nothing]
    /\ reply' = [h \in Handlers |-> Nothing]
    /\ counted' = {}

Submit(h) ==
    \/ RefuseEarly(h) \/ PassChecks(h) \/ RefuseReplay(h) \/ Count(h)
    \/ PanicAddingScore(h) \/ PanicAddingCount(h) \/ PanicOnPoison(h) \/ Finish(h)

Next ==
    \/ \E h \in Handlers : Receive(h) \/ AskScore(h) \/ Submit(h)
    \/ Restart

Spec == Init /\ [][Next]_vars

\* A handler that can run does: tokio polls every ready task, and the mutex is
\* never held across an await, so every handler that waits for it gets it.
FairSpec == Spec /\ \A h \in Handlers : WF_vars(Submit(h))

=============================================================================
