---------------------------- MODULE RelayProofs ----------------------------
(***************************************************************************)
(* Proofs about the relay, for any number of handlers, contributors,       *)
(* indicators, epochs and requests, and for any width of the counters.     *)
(*                                                                         *)
(* The argument: a request that passes the checks before the lock carries  *)
(* a proof of exactly its public inputs (lemma CheckedRequest), so its     *)
(* observation is keyed by the nullifier its contributor, indicator and    *)
(* epoch determine.  CreditInv is the inductive invariant built on that.   *)
(*                                                                         *)
(* Then what the tables add up: the sum over a set of observations is that *)
(* of the set without any one of them, and its weight; and it does not     *)
(* matter whether a sum wraps at every addition or once at the end.        *)
(*                                                                         *)
(* Last the exports: the walk visits every key, so an export is a question *)
(* about the tables alone.  ExportInv is what the exports read; StillBacked*)
(* ties a past export to the tables; ProofsCounted says that no panic ever *)
(* parts a score from its proof count where every tier weighs something.   *)
(***************************************************************************)
EXTENDS RelayProperties, Export, Foundations

----------------------------------------------------------------------------
(* The operators the model is built from.                                  *)

\* u32 addition stays in range.
LEMMA AddU32Type == \A a, b \in U32 : AddU32(a, b) \in U32
BY MaxU32Assumption DEF AddU32, U32

\* Weights are u32 values, whatever the tier.
LEMMA WeightType == ASSUME NEW tier PROVE WeightFor(tier) \in U32
BY WeightsAssumption, MaxU32Assumption DEF WeightFor, U32

\* What the checks before the lock establish of a request: it parsed, its proof is a
\* proof of its public inputs, and so its nullifier is the one that its contributor's
\* secret, its indicator and its epoch determine; the secret has a leaf of at least
\* the claimed tier under the credential root it names.
LEMMA CheckedRequest ==
    ASSUME NEW r \in Requests, EarlyRejection(r) = "none"
    PROVE  /\ FrFromHex(r.indicator_hash) \in Indicators
           /\ FrFromHex(r.credential_root) \in CredentialRoots
           /\ r.epoch \in Epochs
           /\ r.min_tier \in 0..3
           /\ \E leaf \in Issued[FrFromHex(r.credential_root)] :
                /\ leaf \in Secrets \X (0..3)
                /\ leaf[2] >= r.min_tier
                /\ FrFromHex(r.nullifier)
                    = Nullifier(leaf[1], FrFromHex(r.indicator_hash), r.epoch)
           /\ r.indicator # NoRaw =>
                /\ r.indicator \in Raws
                /\ HashOf[r.indicator] = FrFromHex(r.indicator_hash)
<1>1. /\ r \in SubmitObservationRequest
      /\ r.proof \in Statements => Provable(r.proof)
  BY RequestsAssumption
<1>2. r.proof # MalformedProof /\ Verifies(r) /\ DisclosureMatches(r)
  BY DEF EarlyRejection
<1>3. r.proof \in Statements /\ r.proof = PublicInputs(r) /\ Provable(r.proof)
  BY <1>1, <1>2 DEF SubmitObservationRequest, Verifies
<1>4. /\ r.proof.indicator_hash = FrFromHex(r.indicator_hash)
      /\ r.proof.epoch = r.epoch
      /\ r.proof.nullifier = FrFromHex(r.nullifier)
      /\ r.proof.min_tier = r.min_tier
      /\ r.proof.credential_root = FrFromHex(r.credential_root)
  BY <1>3 DEF PublicInputs
<1>5. /\ r.proof.indicator_hash \in Indicators
      /\ r.proof.epoch \in Epochs
      /\ r.proof.min_tier \in 0..3
      /\ r.proof.credential_root \in CredentialRoots
  BY <1>3 DEF Statements
<1>6. PICK leaf \in Issued[r.proof.credential_root] :
        /\ r.proof.nullifier = Nullifier(leaf[1], r.proof.indicator_hash, r.proof.epoch)
        /\ leaf[2] >= r.proof.min_tier
  BY <1>3 DEF Provable
<1>7. leaf \in Secrets \X (0..3)
  BY <1>5, <1>6, IssuedAssumption
<1>8. r.indicator # NoRaw =>
        r.indicator \in Raws /\ HashOf[r.indicator] = FrFromHex(r.indicator_hash)
  BY <1>1, <1>2 DEF SubmitObservationRequest, DisclosureMatches
<1> QED
  BY <1>4, <1>5, <1>6, <1>7, <1>8

\* The texts and the key of a checked request's observation.
LEMMA ObservationType ==
    ASSUME NEW r \in Requests, EarlyRejection(r) = "none"
    PROVE  /\ Observation(r) \in VerifiedObservation
           /\ Observation(r).indicator_hash \in [fr : Indicators, spelling : {"canonical"}]
           /\ Observation(r).indicator_hash = FrToHex(FrFromHex(r.indicator_hash))
           /\ Observation(r).nullifier = FrToHex(FrFromHex(r.nullifier))
           /\ Observation(r).epoch = r.epoch
           /\ Observation(r).tier = ScoredTier(r)
           /\ FrFromHex(r.nullifier) \in Nullifiers
           /\ ScoreKey(Observation(r)) \in Keys
<1>1. /\ FrFromHex(r.indicator_hash) \in Indicators
      /\ r.epoch \in Epochs
      /\ r.min_tier \in 0..3
  BY CheckedRequest
<1>2. FrFromHex(r.nullifier) \in Nullifiers
  <2>1. PICK leaf \in Issued[FrFromHex(r.credential_root)] :
            /\ leaf \in Secrets \X (0..3)
            /\ FrFromHex(r.nullifier)
                = Nullifier(leaf[1], FrFromHex(r.indicator_hash), r.epoch)
    BY CheckedRequest
  <2> QED
    BY <1>1, <2>1 DEF Nullifier, Nullifiers
<1>3. ScoredTier(r) \in 0..255
  BY <1>1 DEF ScoredTier
<1>4. /\ Observation(r).indicator_hash = FrToHex(FrFromHex(r.indicator_hash))
      /\ Observation(r).nullifier = FrToHex(FrFromHex(r.nullifier))
      /\ Observation(r).epoch = r.epoch
      /\ Observation(r).tier = ScoredTier(r)
  BY DEF Observation
<1>5. FrToHex(FrFromHex(r.indicator_hash)) \in [fr : Indicators, spelling : {"canonical"}]
  BY <1>1 DEF FrToHex
<1>6. FrToHex(FrFromHex(r.indicator_hash)) \in Texts /\ FrToHex(FrFromHex(r.nullifier)) \in Texts
  BY <1>1, <1>2 DEF FrToHex, Texts, Fr
<1>7. Observation(r) \in VerifiedObservation
  BY <1>1, <1>3, <1>6 DEF Observation, VerifiedObservation
<1>8. ScoreKey(Observation(r)) \in Keys
  BY <1>1, <1>4, <1>5 DEF ScoreKey, Keys
<1> QED
  BY <1>2, <1>4, <1>5, <1>7, <1>8

\* A batch of one observation is a replay exactly when its nullifier was seen, and
\* otherwise burns the nullifier and scores one key with the tier's weight.
LEMMA BatchOfOne ==
    ASSUME NEW h \in Handlers
    PROVE  /\ Batch(h).rejected_replays # << >> <=> Observation(req[h]).nullifier \in seen
           /\ Observation(req[h]).nullifier \notin seen =>
                /\ Batch(h).seen = seen \cup {Observation(req[h]).nullifier}
                /\ Batch(h).scores =
                    AddAt(EmptyTable, KeyOf(h), WeightFor(Observation(req[h]).tier))
<1> DEFINE o == Observation(req[h])
           start == StartBatch(seen)
<1>1. start = [seen |-> seen, scores |-> EmptyTable, rejected_replays |-> << >>]
  BY DEF StartBatch
<1>2. CASE o.nullifier \in seen
  <2>1. Batch(h) = [start EXCEPT !.rejected_replays = Append(@, o)]
    BY <1>1, <1>2 DEF Batch, AccumulateOne
  <2>2. Batch(h).rejected_replays = Append(<< >>, o)
    BY <1>1, <2>1
  <2>3. Append(<< >>, o) # << >>
    OBVIOUS
  <2> QED
    BY <1>2, <2>2, <2>3
<1>3. CASE o.nullifier \notin seen
  <2>1. Batch(h) = [start EXCEPT !.seen = @ \cup {o.nullifier},
                                 !.scores = AddAt(@, ScoreKey(o), WeightFor(o.tier))]
    BY <1>1, <1>3 DEF Batch, AccumulateOne
  <2> QED
    BY <1>1, <1>3, <2>1 DEF KeyOf
<1> QED
  BY <1>2, <1>3

\* Merging the batch of one observation into the scores adds its weight at its key.
LEMMA MergeOne ==
    ASSUME NEW table, NEW k, NEW w \in U32
    PROVE  Merge(table, AddAt(EmptyTable, k, w)) = AddAt(table, k, w)
<1> DEFINE deltas == AddAt(EmptyTable, k, w)
<1>1. DOMAIN deltas = {k} /\ deltas[k] = AddU32(0, w)
  BY DEF AddAt, EmptyTable, Lookup
<1>2. AddU32(0, w) = w
  BY MaxU32Assumption DEF AddU32, U32
<1> HIDE DEF deltas
<1>3. DOMAIN table \cup DOMAIN deltas = DOMAIN table \cup {k}
  BY <1>1
<1>4. ASSUME NEW x \in DOMAIN table \cup {k}
      PROVE  (IF x \in DOMAIN deltas THEN AddU32(Lookup(table, x), deltas[x]) ELSE table[x])
                = (IF x = k THEN AddU32(Lookup(table, k), w) ELSE table[x])
  BY <1>1, <1>2
<1>5. Merge(table, deltas) = AddAt(table, k, w)
  BY <1>3, <1>4, Zenon DEF Merge, AddAt
<1> QED
  BY <1>5 DEF deltas

\* Adding to a table of u32 over the score keys leaves it one.
LEMMA AddAtType ==
    ASSUME NEW table, table \in [DOMAIN table -> U32], DOMAIN table \subseteq Keys,
           NEW k \in Keys, NEW w \in U32
    PROVE  /\ DOMAIN AddAt(table, k, w) = DOMAIN table \cup {k}
           /\ DOMAIN AddAt(table, k, w) \subseteq Keys
           /\ AddAt(table, k, w) \in [DOMAIN AddAt(table, k, w) -> U32]
           /\ AddAt(table, k, w)[k] \in U32
<1>1. Lookup(table, k) \in U32
  BY MaxU32Assumption DEF Lookup, U32
<1>2. AddU32(Lookup(table, k), w) \in U32
  BY <1>1, AddU32Type
<1> QED
  BY <1>2 DEF AddAt

\* The same for a proof count: 1 itself need not be a u32, MaxU32 may be 0.
LEMMA AddOneType ==
    ASSUME NEW table, table \in [DOMAIN table -> U32], DOMAIN table \subseteq Keys,
           NEW k \in Keys
    PROVE  /\ DOMAIN AddAt(table, k, 1) = DOMAIN table \cup {k}
           /\ DOMAIN AddAt(table, k, 1) \subseteq Keys
           /\ AddAt(table, k, 1) \in [DOMAIN AddAt(table, k, 1) -> U32]
<1>1. Lookup(table, k) \in Nat
  BY MaxU32Assumption DEF Lookup, U32
<1>2. AddU32(Lookup(table, k), 1) \in U32
  BY <1>1, MaxU32Assumption DEF AddU32, U32
<1> QED
  BY <1>2 DEF AddAt

----------------------------------------------------------------------------
(* Type correctness.                                                       *)

TypeInv == TypeOK /\ LocksChecked

LEMMA TypeInit == Init => TypeInv
<1> SUFFICES ASSUME Init PROVE TypeInv
  OBVIOUS
<1>1. TablesOK
  BY DEF Init, TablesOK, EmptyTable
<1>2. TasksOK /\ LocksChecked
  BY DEF Init, TasksOK, LocksChecked
<1> QED
  BY <1>1, <1>2 DEF TypeInv, TypeOK

\* The answers the handlers make are replies.
LEMMA ReplyType ==
    /\ \A s \in U32 : Accepted(s) \in Reply
    /\ \A s, n \in U32 : ScoreResponse(s, n) \in Reply
    /\ \A why \in {"encoding", "proof", "disclosure", "replay"} : Rejected(why) \in Reply
    /\ Dropped \in Reply
BY MaxU32Assumption DEF Accepted, ScoreResponse, Rejected, Dropped, Reply, U32

\* Answering is a well-typed step of one handler that leaves the others alone.
LEMMA AnswerTasks ==
    ASSUME TasksOK, LocksChecked, NEW h \in Handlers, NEW r \in Reply, Answer(h, r),
           req' \in [Handlers -> Requests \cup Queries \cup {Nothing}],
           \A g \in Handlers : g # h => req'[g] = req[g]
    PROVE  TasksOK' /\ LocksChecked'
BY DEF TasksOK, LocksChecked, Answer, GoTo

\* What the critical section writes of a checked request's observation.
LEMMA CreditTypes ==
    ASSUME TypeInv, NEW h \in Handlers, HasLock(h), Batch(h).rejected_replays = << >>
    PROVE  /\ req[h] \in Requests
           /\ EarlyRejection(req[h]) = "none"
           /\ Observation(req[h]) \in VerifiedObservation
           /\ KeyOf(h) \in Keys
           /\ Observation(req[h]).nullifier \notin seen
           /\ Batch(h).seen = seen \cup {Observation(req[h]).nullifier}
           /\ Batch(h).seen \subseteq Texts
           /\ Merge(scores, Batch(h).scores)
                = AddAt(scores, KeyOf(h), WeightFor(Observation(req[h]).tier))
<1>1. req[h] \in Requests /\ EarlyRejection(req[h]) = "none"
  BY DEF TypeInv, TypeOK, TasksOK, LocksChecked, HasLock
<1>2. Observation(req[h]) \in VerifiedObservation /\ KeyOf(h) \in Keys
  BY <1>1, ObservationType DEF KeyOf
<1>3. /\ Observation(req[h]).nullifier \notin seen
      /\ Batch(h).seen = seen \cup {Observation(req[h]).nullifier}
      /\ Batch(h).scores = AddAt(EmptyTable, KeyOf(h), WeightFor(Observation(req[h]).tier))
  BY BatchOfOne
<1>4. Batch(h).seen \subseteq Texts
  BY <1>2, <1>3 DEF TypeInv, TypeOK, TablesOK, VerifiedObservation
<1> QED
  BY <1>1, <1>2, <1>3, <1>4, MergeOne, WeightType

LEMMA DiscloseType ==
    ASSUME TypeInv, NEW r \in Requests, EarlyRejection(r) = "none"
    PROVE  /\ DOMAIN Disclose(r) \subseteq [fr : Indicators, spelling : {"canonical"}]
           /\ Disclose(r) \in [DOMAIN Disclose(r) -> Raws]
<1>1. CASE r.indicator = NoRaw \/ Observation(r).indicator_hash \in DOMAIN disclosed
  BY <1>1 DEF Disclose, TypeInv, TypeOK, TablesOK
<1>2. CASE ~ (r.indicator = NoRaw \/ Observation(r).indicator_hash \in DOMAIN disclosed)
  <2>1. /\ r.indicator \in Raws
        /\ Observation(r).indicator_hash \in [fr : Indicators, spelling : {"canonical"}]
    BY <1>2, CheckedRequest, ObservationType
  <2> QED
    BY <1>2, <2>1 DEF Disclose, TypeInv, TypeOK, TablesOK
<1> QED
  BY <1>1, <1>2

LEMMA TypeStep == TypeInv /\ [Next]_vars => TypeInv'
<1> SUFFICES ASSUME TypeInv, [Next]_vars PROVE TypeInv'
  OBVIOUS
<1> USE DEF TypeInv, TypeOK
<1>1. ASSUME NEW h \in Handlers, Receive(h) PROVE TypeInv'
  <2>1. TablesOK'
    BY <1>1 DEF Receive, inner, TablesOK
  <2>2. TasksOK' /\ LocksChecked'
    BY <1>1 DEF Receive, TasksOK, LocksChecked, GoTo
  <2> QED
    BY <2>1, <2>2
<1>2. ASSUME NEW h \in Handlers, RefuseEarly(h) PROVE TypeInv'
  <2>1. TablesOK'
    BY <1>2 DEF RefuseEarly, inner, TablesOK
  <2>2. Rejected(EarlyRejection(req[h])) \in Reply
    BY <1>2, ReplyType DEF RefuseEarly, EarlyRejection
  <2>3. TasksOK' /\ LocksChecked'
    BY <1>2, <2>2, AnswerTasks DEF RefuseEarly, TasksOK
  <2> QED
    BY <2>1, <2>3
<1>3. ASSUME NEW h \in Handlers, PassChecks(h) PROVE TypeInv'
  <2>1. TablesOK'
    BY <1>3 DEF PassChecks, inner, TablesOK
  <2>2. TasksOK' /\ LocksChecked'
    BY <1>3 DEF PassChecks, TasksOK, LocksChecked, GoTo
  <2> QED
    BY <2>1, <2>2
<1>4. ASSUME NEW h \in Handlers, RefuseReplay(h) PROVE TypeInv'
  <2>1. TablesOK'
    BY <1>4 DEF RefuseReplay, inner, TablesOK
  <2>2. TasksOK' /\ LocksChecked'
    BY <1>4, ReplyType, AnswerTasks DEF RefuseReplay, TasksOK
  <2> QED
    BY <2>1, <2>2
<1>5. ASSUME NEW h \in Handlers, Count(h) PROVE TypeInv'
  <2>1. HasLock(h) /\ Batch(h).rejected_replays = << >>
    BY <1>5 DEF Count
  <2>2. /\ scores' = AddAt(scores, KeyOf(h), WeightFor(Observation(req[h]).tier))
        /\ proof_counts' = AddAt(proof_counts, KeyOf(h), 1)
        /\ seen' \subseteq Texts
        /\ counted' \subseteq VerifiedObservation
        /\ poisoned' = poisoned
        /\ disclosed' = Disclose(req[h])
    BY <1>5, <2>1, CreditTypes DEF Count, TablesOK
  <2>3. /\ DOMAIN scores' \subseteq Keys
        /\ scores' \in [DOMAIN scores' -> U32]
        /\ KeyOf(h) \in DOMAIN scores' /\ scores'[KeyOf(h)] \in U32
    <3>1. KeyOf(h) \in Keys /\ WeightFor(Observation(req[h]).tier) \in U32
      BY <2>1, CreditTypes, WeightType
    <3>2. scores \in [DOMAIN scores -> U32] /\ DOMAIN scores \subseteq Keys
      BY DEF TablesOK
    <3> DEFINE new == AddAt(scores, KeyOf(h), WeightFor(Observation(req[h]).tier))
    <3>3. /\ DOMAIN new = DOMAIN scores \cup {KeyOf(h)}
          /\ DOMAIN new \subseteq Keys
          /\ new \in [DOMAIN new -> U32]
          /\ new[KeyOf(h)] \in U32
      BY <3>1, <3>2, AddAtType
    <3>4. scores' = new
      BY <2>2
    <3> HIDE DEF new
    <3> QED
      BY <3>3, <3>4
  <2>4. /\ DOMAIN proof_counts' \subseteq Keys
        /\ proof_counts' \in [DOMAIN proof_counts' -> U32]
    BY <2>1, <2>2, CreditTypes, AddOneType DEF TablesOK
  <2>5. TablesOK'
    BY <2>1, <2>2, <2>3, <2>4, CreditTypes, DiscloseType DEF TablesOK
  <2>6. UpdatedScore(h) \in U32
    BY <2>3 DEF UpdatedScore, Lookup
  <2>7. TasksOK' /\ LocksChecked'
    BY <1>5, <2>6, ReplyType, AnswerTasks DEF Count, TasksOK
  <2> QED
    BY <2>5, <2>7
<1>6. ASSUME NEW h \in Handlers, PanicAddingScore(h) PROVE TypeInv'
  <2>1. TablesOK'
    BY <1>6, CreditTypes DEF PanicAddingScore, TablesOK
  <2>2. TasksOK' /\ LocksChecked'
    BY <1>6, ReplyType, AnswerTasks DEF PanicAddingScore, TasksOK
  <2> QED
    BY <2>1, <2>2
<1>7. ASSUME NEW h \in Handlers, PanicAddingCount(h) PROVE TypeInv'
  <2>1. HasLock(h) /\ Batch(h).rejected_replays = << >>
    BY <1>7 DEF PanicAddingCount
  <2>2. /\ scores' = AddAt(scores, KeyOf(h), WeightFor(Observation(req[h]).tier))
        /\ seen' \subseteq Texts
        /\ counted' \subseteq VerifiedObservation
    BY <1>7, <2>1, CreditTypes DEF PanicAddingCount, TablesOK
  <2>3. DOMAIN scores' \subseteq Keys /\ scores' \in [DOMAIN scores' -> U32]
    BY <2>1, <2>2, CreditTypes, AddAtType, WeightType DEF TablesOK
  <2>4. TablesOK'
    BY <1>7, <2>2, <2>3 DEF PanicAddingCount, TablesOK
  <2>5. TasksOK' /\ LocksChecked'
    BY <1>7, ReplyType, AnswerTasks DEF PanicAddingCount, TasksOK
  <2> QED
    BY <2>4, <2>5
<1>8. ASSUME NEW h \in Handlers, PanicOnPoison(h) PROVE TypeInv'
  <2>1. TablesOK'
    BY <1>8 DEF PanicOnPoison, inner, TablesOK
  <2>2. TasksOK' /\ LocksChecked'
    BY <1>8, ReplyType, AnswerTasks DEF PanicOnPoison, TasksOK
  <2> QED
    BY <2>1, <2>2
<1>9. ASSUME NEW h \in Handlers, AskScore(h) PROVE TypeInv'
  <2>1. TablesOK'
    BY <1>9 DEF AskScore, inner, TablesOK
  <2>2. PICK q \in Queries :
            /\ req' = [req EXCEPT ![h] = q]
            /\ Answer(h, IF poisoned THEN Dropped
                         ELSE ScoreResponse(Lookup(scores, ScoreKey(q)),
                                            Lookup(proof_counts, ScoreKey(q))))
    BY <1>9 DEF AskScore
  <2>3. Lookup(scores, ScoreKey(q)) \in U32 /\ Lookup(proof_counts, ScoreKey(q)) \in U32
    BY MaxU32Assumption DEF Lookup, TablesOK, U32
  <2>4. PICK r \in Reply : Answer(h, r)
    BY <2>2, <2>3, ReplyType
  <2>5. TasksOK' /\ LocksChecked'
    BY <2>2, <2>4, AnswerTasks DEF TasksOK
  <2> QED
    BY <2>1, <2>5
<1>10. ASSUME NEW h \in Handlers, Finish(h) PROVE TypeInv'
  <2>1. TablesOK'
    BY <1>10 DEF Finish, inner, TablesOK
  <2>2. TasksOK' /\ LocksChecked'
    BY <1>10 DEF Finish, TasksOK, LocksChecked, GoTo
  <2> QED
    BY <2>1, <2>2
<1>11. CASE Restart
  <2>1. TablesOK'
    BY <1>11 DEF Restart, TablesOK, EmptyTable
  <2>2. TasksOK' /\ LocksChecked'
    BY <1>11 DEF Restart, TasksOK, LocksChecked
  <2> QED
    BY <2>1, <2>2
<1>12. CASE UNCHANGED vars
  <2>1. TablesOK'
    BY <1>12 DEF vars, inner, TablesOK
  <2>2. TasksOK' /\ LocksChecked'
    BY <1>12 DEF vars, tasks, TasksOK, LocksChecked
  <2> QED
    BY <2>1, <2>2
<1> QED
  BY <1>1, <1>2, <1>3, <1>4, <1>5, <1>6, <1>7, <1>8, <1>9, <1>10, <1>11, <1>12
     DEF Next, Submit

\* Every variable keeps its type (TypeOK), and only checked requests reach the lock.
THEOREM TypeCorrect == Spec => []TypeOK
<1>1. TypeInv => TypeOK
  BY DEF TypeInv
<1> QED
  BY TypeInit, TypeStep, <1>1, PTL DEF Spec

----------------------------------------------------------------------------
(* The counted observations: the inductive invariant.                      *)

\* What a contributor had to hold to have an observation counted: the secret its
\* nullifier is made of and, above tier 0, a leaf of that secret in a trusted tree.
Earned(o) ==
    \E s \in Secrets :
        /\ o.nullifier = FrToHex(Nullifier(s, FrFromHex(o.indicator_hash), o.epoch))
        /\ o.indicator_hash = FrToHex(FrFromHex(o.indicator_hash))
        /\ o.tier > 0 =>
            \E root \in CredentialRoots :
                /\ FrToHex(root) \in TrustedRoots
                /\ \E leaf \in Issued[root] : leaf[1] = s /\ leaf[2] >= o.tier

\* Every counted observation is earned and guarded by its nullifier, no two share one,
\* and while the mutex is healthy no nullifier is burnt without an observation.
CreditInv ==
    /\ \A o \in counted : Earned(o) /\ o.nullifier \in seen
    /\ \A o, p \in counted : o.nullifier = p.nullifier => o = p
    /\ ~ poisoned => \A n \in seen : \E o \in counted : o.nullifier = n

LEMMA CheckedIsEarned ==
    ASSUME NEW r \in Requests, EarlyRejection(r) = "none"
    PROVE  Earned(Observation(r))
<1> DEFINE o == Observation(r)
           c == FrFromHex(r.credential_root)
<1>1. PICK leaf \in Issued[c] :
        /\ leaf \in Secrets \X (0..3)
        /\ leaf[2] >= r.min_tier
        /\ FrFromHex(r.nullifier)
            = Nullifier(leaf[1], FrFromHex(r.indicator_hash), r.epoch)
  BY CheckedRequest
<1>2. c \in CredentialRoots
  BY CheckedRequest
<1>3. FrFromHex(o.indicator_hash) = FrFromHex(r.indicator_hash)
  BY DEF Observation, FrFromHex, FrToHex
<1>4. /\ o.nullifier = FrToHex(Nullifier(leaf[1], FrFromHex(o.indicator_hash), o.epoch))
      /\ o.indicator_hash = FrToHex(FrFromHex(o.indicator_hash))
  BY <1>1, <1>3, ObservationType
<1>5. o.tier > 0 => FrToHex(c) \in TrustedRoots /\ o.tier = r.min_tier
  BY ObservationType DEF ScoredTier
<1>6. leaf[1] \in Secrets
  BY <1>1
<1> QED
  BY <1>1, <1>2, <1>4, <1>5, <1>6 DEF Earned

\* A step that counts o, whose nullifier was not seen, and burns that nullifier.
LEMMA CreditKept ==
    ASSUME TypeInv, CreditInv, NEW h \in Handlers,
           HasLock(h), Batch(h).rejected_replays = << >>,
           seen' = Batch(h).seen,
           counted' = counted \cup {Observation(req[h])}
    PROVE  CreditInv'
<1> DEFINE o == Observation(req[h])
<1>1. req[h] \in Requests /\ EarlyRejection(req[h]) = "none"
  BY CreditTypes
<1>2. o.nullifier \notin seen /\ seen' = seen \cup {o.nullifier} /\ ~ poisoned
  BY CreditTypes DEF HasLock
<1>3. Earned(o)
  BY <1>1, CheckedIsEarned
<1> HIDE DEF o
<1>4. counted' = counted \cup {o}
  BY DEF o
<1>5. \A x \in counted' : Earned(x) /\ x.nullifier \in seen'
  BY <1>2, <1>3, <1>4 DEF CreditInv
<1>6. \A x, y \in counted' : x.nullifier = y.nullifier => x = y
  BY <1>2, <1>4 DEF CreditInv
<1>7. \A n \in seen' : \E x \in counted' : x.nullifier = n
  BY <1>2, <1>4 DEF CreditInv
<1>8. (\A x \in counted : Earned(x) /\ x.nullifier \in seen)'
  BY <1>5 DEF Earned
<1> QED
  BY <1>6, <1>7, <1>8 DEF CreditInv

LEMMA CreditStep == TypeInv /\ CreditInv /\ [Next]_vars => CreditInv'
<1> SUFFICES ASSUME TypeInv, CreditInv, [Next]_vars PROVE CreditInv'
  OBVIOUS
<1>1. ASSUME UNCHANGED <<seen, counted, poisoned>> PROVE CreditInv'
  BY <1>1 DEF CreditInv, Earned
<1>2. ASSUME NEW h \in Handlers, Count(h) PROVE CreditInv'
  BY <1>2, CreditKept DEF Count
<1>3. ASSUME NEW h \in Handlers, PanicAddingCount(h) PROVE CreditInv'
  BY <1>3, CreditKept DEF PanicAddingCount
<1>4. ASSUME NEW h \in Handlers, PanicAddingScore(h) PROVE CreditInv'
  <2>1. seen \subseteq seen' /\ poisoned' /\ counted' = counted
    BY <1>4, CreditTypes DEF PanicAddingScore
  <2> QED
    BY <2>1 DEF CreditInv, Earned
<1>5. CASE Restart
  BY <1>5 DEF Restart, CreditInv
<1>6. ASSUME NEW h \in Handlers,
             \/ Receive(h) \/ RefuseEarly(h) \/ PassChecks(h) \/ RefuseReplay(h)
             \/ PanicOnPoison(h) \/ AskScore(h) \/ Finish(h)
      PROVE  UNCHANGED <<seen, counted, poisoned>>
  BY <1>6 DEF Receive, RefuseEarly, PassChecks, RefuseReplay, PanicOnPoison, AskScore,
              Finish, inner
<1>7. CASE UNCHANGED vars
  BY <1>1, <1>7 DEF vars, inner
<1> QED
  BY <1>1, <1>2, <1>3, <1>4, <1>5, <1>6, <1>7 DEF Next, Submit

LEMMA CreditInvariant == Spec => [](TypeInv /\ CreditInv)
<1>1. Init => CreditInv
  BY DEF Init, CreditInv
<1> QED
  BY TypeInit, TypeStep, <1>1, CreditStep, PTL DEF Spec

\* A contributor is credited at most once per (indicator, epoch): see
\* OneCreditPerContributor.  Uniqueness of nullifiers is not enough; that equal
\* contributors, indicators and epochs have equal nullifiers comes from Earned.
THEOREM OneCredit == Spec => []OneCreditPerContributor
<1>1. CreditInv => OneCreditPerContributor
  <2> SUFFICES ASSUME CreditInv PROVE OneCreditPerContributor
    OBVIOUS
  <2>1. ASSUME NEW o \in counted, NEW p \in counted,
               ContributorOf(o) = ContributorOf(p),
               FrFromHex(o.indicator_hash) = FrFromHex(p.indicator_hash),
               o.epoch = p.epoch
        PROVE  o = p
    <3>1. PICK s \in Secrets :
            o.nullifier = FrToHex(Nullifier(s, FrFromHex(o.indicator_hash), o.epoch))
      BY DEF CreditInv, Earned
    <3>2. PICK t \in Secrets :
            p.nullifier = FrToHex(Nullifier(t, FrFromHex(p.indicator_hash), p.epoch))
      BY DEF CreditInv, Earned
    <3>3. ContributorOf(o) = s /\ ContributorOf(p) = t
      BY <3>1, <3>2 DEF ContributorOf, FrToHex, FrFromHex, Nullifier
    <3>4. o.nullifier = p.nullifier
      BY <2>1, <3>1, <3>2, <3>3
    <3> QED
      BY <3>4 DEF CreditInv
  <2> QED
    BY <2>1 DEF OneCreditPerContributor, CreditInv
<1> QED
  BY CreditInvariant, <1>1, PTL

\* Every tier above 0 that counts was vouched for by a trusted issuer: TierIsBacked.
THEOREM TierBacked == Spec => []TierIsBacked
<1>1. CreditInv => TierIsBacked
  <2> SUFFICES ASSUME CreditInv, NEW o \in counted, o.tier > 0
               PROVE  \E root \in CredentialRoots :
                        /\ FrToHex(root) \in TrustedRoots
                        /\ \E leaf \in Issued[root] :
                            leaf[1] = ContributorOf(o) /\ leaf[2] >= o.tier
    BY DEF TierIsBacked
  <2>1. PICK s \in Secrets :
          /\ o.nullifier = FrToHex(Nullifier(s, FrFromHex(o.indicator_hash), o.epoch))
          /\ \E root \in CredentialRoots :
                /\ FrToHex(root) \in TrustedRoots
                /\ \E leaf \in Issued[root] : leaf[1] = s /\ leaf[2] >= o.tier
    BY DEF CreditInv, Earned
  <2>2. ContributorOf(o) = s
    BY <2>1 DEF ContributorOf, FrToHex, FrFromHex, Nullifier
  <2> QED
    BY <2>1, <2>2
<1> QED
  BY CreditInvariant, <1>1, PTL

----------------------------------------------------------------------------
(* Sums of weights.                                                        *)

\* The weights of some observations, as a function.
Weighed(obs) == [o \in obs |-> WeightFor(o.tier)]

LEMMA WeighedSum ==
    ASSUME NEW obs
    PROVE  /\ TotalWeight(obs) = SumFunctionOnSet(Weighed(obs), obs)
           /\ \A o \in obs : Weighed(obs)[o] = WeightFor(o.tier) /\ Weighed(obs)[o] \in Nat
<1>1. DOMAIN Weighed(obs) = obs
  BY DEF Weighed
<1>2. TotalWeight(obs) = SumFunctionOnSet(Weighed(obs), obs)
  BY <1>1 DEF TotalWeight, SumFunction, Weighed
<1>3. \A o \in obs : Weighed(obs)[o] = WeightFor(o.tier) /\ WeightFor(o.tier) \in Nat
  BY WeightType, MaxU32Assumption DEF Weighed, U32
<1> QED
  BY <1>2, <1>3

LEMMA SumOfNone == TotalWeight({}) = 0
BY WeighedSum, SumEmpty

LEMMA SumType ==
    ASSUME NEW obs, IsFiniteSet(obs)
    PROVE  TotalWeight(obs) \in Nat
BY WeighedSum, SumNat

\* One observation more adds its weight.
LEMMA SumWith ==
    ASSUME NEW obs, IsFiniteSet(obs), NEW x, x \notin obs
    PROVE  TotalWeight(obs \cup {x}) = TotalWeight(obs) + WeightFor(x.tier)
<1> DEFINE more == obs \cup {x}
           f == Weighed(more)
<1>1. IsFiniteSet(more)
  BY FS_AddElement
<1>2. TotalWeight(more) = SumFunctionOnSet(f, more)
  BY WeighedSum
<1>3. \A o \in more : f[o] = WeightFor(o.tier) /\ f[o] \in Nat
  BY WeighedSum
<1>4. \A o \in obs : f[o] = Weighed(obs)[o]
  BY <1>3, WeighedSum
<1>5. TotalWeight(obs) = SumFunctionOnSet(f, obs) /\ TotalWeight(obs) \in Nat
  BY <1>4, WeighedSum, SumEqual, SumType
<1> HIDE DEF f
<1>6. SumFunctionOnSet(f, more) = f[x] + SumFunctionOnSet(f, obs)
  BY <1>3, SumPutIn
<1> QED
  BY <1>2, <1>3, <1>5, <1>6

\* A sum is the weight of any of its observations, and the sum of the others.
LEMMA SumWithout ==
    ASSUME NEW obs, IsFiniteSet(obs), NEW x \in obs
    PROVE  TotalWeight(obs) = WeightFor(x.tier) + TotalWeight(obs \ {x})
<1>1. IsFiniteSet(obs \ {x}) /\ (obs \ {x}) \cup {x} = obs
  BY FS_RemoveElement
<1>2. TotalWeight(obs) = TotalWeight(obs \ {x}) + WeightFor(x.tier)
  BY <1>1, SumWith
<1>3. TotalWeight(obs \ {x}) \in Nat /\ WeightFor(x.tier) \in Nat
  BY <1>1, SumType, WeightType, MaxU32Assumption DEF U32
<1> QED
  BY <1>2, <1>3

----------------------------------------------------------------------------
(* Additions that wrap.                                                    *)

\* Wrapping once at the end, or at every addition, is the same.
LEMMA AddWraps ==
    ASSUME NEW a \in Nat, NEW w \in Nat
    PROVE  /\ AddU32(a % (MaxU32 + 1), w) = (a + w) % (MaxU32 + 1)
           /\ a <= MaxU32 => a % (MaxU32 + 1) = a
<1>1. MaxU32 + 1 \in Nat /\ MaxU32 + 1 > 0
  BY MaxU32Assumption
<1>2. AddU32(a % (MaxU32 + 1), w) = (a + w) % (MaxU32 + 1)
  BY <1>1, AddMod DEF AddU32
<1> QED
  BY <1>2, MaxU32Assumption


----------------------------------------------------------------------------
(* Disclosures.                                                            *)

LEMMA DisclosureStep ==
    TypeInv /\ DisclosureIsSound /\ [Next]_vars => DisclosureIsSound'
<1> SUFFICES ASSUME TypeInv, DisclosureIsSound, [Next]_vars PROVE DisclosureIsSound'
  OBVIOUS
<1>1. ASSUME disclosed' = disclosed, counted \subseteq counted' PROVE DisclosureIsSound'
  BY <1>1 DEF DisclosureIsSound
<1>2. ASSUME NEW h \in Handlers, Count(h) PROVE DisclosureIsSound'
  <2> DEFINE r == req[h]
             o == Observation(r)
  <2>1. /\ r \in Requests /\ EarlyRejection(r) = "none"
        /\ disclosed' = Disclose(r)
        /\ counted' = counted \cup {o}
    BY <1>2, CreditTypes DEF Count
  <2>2. CASE r.indicator = NoRaw \/ o.indicator_hash \in DOMAIN disclosed
    BY <1>1, <2>1, <2>2 DEF Disclose
  <2>3. CASE ~ (r.indicator = NoRaw \/ o.indicator_hash \in DOMAIN disclosed)
    <3>1. FrToHex(HashOf[r.indicator]) = o.indicator_hash
      BY <2>1, <2>3, CheckedRequest, ObservationType
    <3>2. /\ DOMAIN disclosed' = DOMAIN disclosed \cup {o.indicator_hash}
          /\ disclosed'[o.indicator_hash] = r.indicator
          /\ \A text \in DOMAIN disclosed : disclosed'[text] = disclosed[text]
      BY <2>1, <2>3 DEF Disclose
    <3> HIDE DEF o
    <3>3. o \in counted' /\ counted \subseteq counted'
      BY <2>1
    <3> QED
      BY <3>1, <3>2, <3>3 DEF DisclosureIsSound
  <2> QED
    BY <2>2, <2>3
<1>3. ASSUME NEW h \in Handlers, PanicAddingCount(h) PROVE DisclosureIsSound'
  BY <1>1, <1>3 DEF PanicAddingCount
<1>4. ASSUME NEW h \in Handlers, PanicAddingScore(h) PROVE DisclosureIsSound'
  BY <1>1, <1>4 DEF PanicAddingScore
<1>5. CASE Restart
  BY <1>5 DEF Restart, DisclosureIsSound, EmptyTable
<1>6. ASSUME NEW h \in Handlers,
             \/ Receive(h) \/ RefuseEarly(h) \/ PassChecks(h) \/ RefuseReplay(h)
             \/ PanicOnPoison(h) \/ AskScore(h) \/ Finish(h)
      PROVE  DisclosureIsSound'
  BY <1>1, <1>6 DEF Receive, RefuseEarly, PassChecks, RefuseReplay, PanicOnPoison,
                    AskScore, Finish, inner
<1>7. CASE UNCHANGED vars
  BY <1>1, <1>7 DEF vars, inner
<1> QED
  BY <1>2, <1>3, <1>4, <1>5, <1>6, <1>7 DEF Next, Submit

\* Whatever raw indicator is on record for a text hashes to it and came with a proof
\* that was counted: DisclosureIsSound.
THEOREM DisclosureSound == Spec => []DisclosureIsSound
<1>1. Init => DisclosureIsSound
  BY DEF Init, DisclosureIsSound, EmptyTable
<1> QED
  BY TypeInit, TypeStep, <1>1, DisclosureStep, PTL DEF Spec

----------------------------------------------------------------------------
(* Answers.                                                                *)

\* An answered handler keeps its request; an answer once true stays true while the
\* counted observations only grow.
LEMMA AnswersKept ==
    ASSUME AnswersAreTrue, counted \subseteq counted', NEW h \in Handlers,
           \A g \in Handlers : g # h =>
                pc'[g] = pc[g] /\ req'[g] = req[g] /\ reply'[g] = reply[g],
           Answered(h, "accepted", "none")' => Observation(req'[h]) \in counted',
           Answered(h, "rejected", "replay")' =>
            \E o \in counted' :
                /\ ScoreKey(o) = KeyOf(h)'
                /\ o.nullifier = Observation(req'[h]).nullifier
    PROVE  AnswersAreTrue'
<1> SUFFICES ASSUME NEW g \in Handlers
             PROVE  /\ Answered(g, "accepted", "none")' => Observation(req'[g]) \in counted'
                    /\ Answered(g, "rejected", "replay")' =>
                        \E o \in counted' :
                            /\ ScoreKey(o) = KeyOf(g)'
                            /\ o.nullifier = Observation(req'[g]).nullifier
  BY DEF AnswersAreTrue
<1>1. CASE g = h
  BY <1>1
<1>2. CASE g # h
  BY <1>2 DEF AnswersAreTrue, Answered, KeyOf
<1> QED
  BY <1>1, <1>2

\* Equal nullifiers were earned under equal keys.
LEMMA EarnedKey ==
    ASSUME NEW o, NEW p, Earned(o), Earned(p), o.nullifier = p.nullifier
    PROVE  ScoreKey(o) = ScoreKey(p)
<1>1. PICK s \in Secrets :
        /\ o.nullifier = FrToHex(Nullifier(s, FrFromHex(o.indicator_hash), o.epoch))
        /\ o.indicator_hash = FrToHex(FrFromHex(o.indicator_hash))
  BY DEF Earned
<1>2. PICK t \in Secrets :
        /\ p.nullifier = FrToHex(Nullifier(t, FrFromHex(p.indicator_hash), p.epoch))
        /\ p.indicator_hash = FrToHex(FrFromHex(p.indicator_hash))
  BY DEF Earned
<1>3. Nullifier(s, FrFromHex(o.indicator_hash), o.epoch)
        = Nullifier(t, FrFromHex(p.indicator_hash), p.epoch)
  <2>1. \A x : FrToHex(x).fr = x
    BY DEF FrToHex
  <2>2. FrToHex(Nullifier(s, FrFromHex(o.indicator_hash), o.epoch))
            = FrToHex(Nullifier(t, FrFromHex(p.indicator_hash), p.epoch))
    BY <1>1, <1>2
  <2> QED
    BY <2>1, <2>2, Zenon
<1>4. FrFromHex(o.indicator_hash) = FrFromHex(p.indicator_hash) /\ o.epoch = p.epoch
  BY <1>3 DEF Nullifier
<1> QED
  BY <1>1, <1>2, <1>4 DEF ScoreKey

LEMMA AnswersStep ==
    TypeInv /\ CreditInv /\ AnswersAreTrue /\ [Next]_vars => AnswersAreTrue'
<1> SUFFICES ASSUME TypeInv, CreditInv, AnswersAreTrue, [Next]_vars PROVE AnswersAreTrue'
  OBVIOUS
<1> DEFINE Others(h) ==
            \A g \in Handlers : g # h =>
                pc'[g] = pc[g] /\ req'[g] = req[g] /\ reply'[g] = reply[g]
<1>1. ASSUME NEW h \in Handlers, NEW r, Answer(h, r), counted \subseteq counted',
             \A g \in Handlers : g # h => req'[g] = req[g]
      PROVE  Others(h) /\ reply'[h] = r
  BY <1>1 DEF Answer, GoTo, TypeInv, TypeOK, TasksOK
\* An answer that is neither "accepted" nor "replay" promises nothing.
<1>2. ASSUME NEW h \in Handlers, NEW r, Answer(h, r), counted \subseteq counted',
             \A g \in Handlers : g # h => req'[g] = req[g],
             r.kind # "accepted", r.reason # "replay"
      PROVE  AnswersAreTrue'
  BY <1>1, <1>2, AnswersKept DEF Answered
\* An "accepted" answer is given by a step that counts the observation.
<1>3. ASSUME NEW h \in Handlers, Count(h) PROVE AnswersAreTrue'
  <2>1. PICK r : Answer(h, r) /\ r.reason = "none"
    BY <1>3 DEF Count, Accepted
  <2>2. counted' = counted \cup {Observation(req[h])} /\ req' = req
    BY <1>3 DEF Count
  <2>3. Others(h) /\ reply'[h] = r
    BY <1>1, <2>1, <2>2
  <2>4. ~ Answered(h, "rejected", "replay")'
    BY <2>1, <2>3 DEF Answered
  <2> QED
    BY <2>2, <2>3, <2>4, AnswersKept
\* A "replay" answer is given for a nullifier that guards a counted observation.
<1>4. ASSUME NEW h \in Handlers, RefuseReplay(h) PROVE AnswersAreTrue'
  <2> DEFINE p == Observation(req[h])
  <2>1. /\ Answer(h, Rejected("replay")) /\ req' = req /\ counted' = counted
        /\ ~ poisoned /\ pc[h] = "locking" /\ p.nullifier \in seen
    BY <1>4, BatchOfOne DEF RefuseReplay, HasLock
  <2>2. PICK o \in counted : o.nullifier = p.nullifier
    BY <2>1 DEF CreditInv
  <2>3. Earned(o) /\ Earned(p)
    BY <2>1, <2>2, CheckedIsEarned DEF CreditInv, TypeInv, TypeOK, TasksOK, LocksChecked
  <2>4. ScoreKey(o) = KeyOf(h)
    BY <2>2, <2>3, EarnedKey DEF KeyOf
  <2>5. Others(h) /\ reply'[h] = Rejected("replay")
    BY <1>1, <2>1
  <2>6. ~ Answered(h, "accepted", "none")'
    BY <2>5 DEF Answered, Rejected
  <2>7. KeyOf(h)' = KeyOf(h)
    BY <2>1 DEF KeyOf
  <2>8. \E x \in counted' :
            ScoreKey(x) = KeyOf(h)' /\ x.nullifier = Observation(req'[h]).nullifier
    BY <2>1, <2>2, <2>4, <2>7
  <2> QED
    BY <2>1, <2>5, <2>6, <2>8, AnswersKept
<1>5. ASSUME NEW h \in Handlers, RefuseEarly(h) PROVE AnswersAreTrue'
  BY <1>2, <1>5 DEF RefuseEarly, Rejected, EarlyRejection
<1>6. ASSUME NEW h \in Handlers, PanicAddingScore(h) \/ PanicAddingCount(h) \/ PanicOnPoison(h)
      PROVE  AnswersAreTrue'
  <2>1. /\ Answer(h, Dropped)
        /\ counted \subseteq counted' /\ req' = req
    BY <1>6 DEF PanicAddingScore, PanicAddingCount, PanicOnPoison
  <2> QED
    BY <1>2, <2>1 DEF Dropped
<1>7. ASSUME NEW h \in Handlers, AskScore(h) PROVE AnswersAreTrue'
  <2>1. PICK r : /\ Answer(h, r) /\ r.kind # "accepted" /\ r.reason # "replay"
                 /\ \A g \in Handlers : g # h => req'[g] = req[g]
    <3>1. PICK q \in Queries :
            /\ req' = [req EXCEPT ![h] = q]
            /\ Answer(h, IF poisoned THEN Dropped
                         ELSE ScoreResponse(Lookup(scores, ScoreKey(q)),
                                            Lookup(proof_counts, ScoreKey(q))))
      BY <1>7 DEF AskScore
    <3>2. \A g \in Handlers : g # h => req'[g] = req[g]
      BY <3>1 DEF TypeInv, TypeOK, TasksOK
    <3> QED
      BY <3>1, <3>2 DEF Dropped, ScoreResponse
  <2> QED
    BY <1>2, <1>7, <2>1 DEF AskScore
<1>8. ASSUME NEW h \in Handlers, Receive(h) \/ PassChecks(h) \/ Finish(h) PROVE AnswersAreTrue'
  <2>1. Others(h) /\ counted' = counted /\ pc'[h] # "replied"
    BY <1>8 DEF Receive, PassChecks, Finish, GoTo, TypeInv, TypeOK, TasksOK
  <2>2. ~ Answered(h, "accepted", "none")' /\ ~ Answered(h, "rejected", "replay")'
    BY <2>1 DEF Answered
  <2> QED
    BY <2>1, <2>2, AnswersKept
<1>9. CASE Restart
  BY <1>9 DEF Restart, AnswersAreTrue, Answered
<1>10. CASE UNCHANGED vars
  BY <1>10 DEF vars, tasks, AnswersAreTrue, Answered, KeyOf
<1> QED
  BY <1>3, <1>4, <1>5, <1>6, <1>7, <1>8, <1>9, <1>10 DEF Next, Submit

\* "Accepted" means counted, "already counted" means counted under the same key, and
\* both stay so until the process ends: AnswersAreTrue.
THEOREM TrueAnswers == Spec => []AnswersAreTrue
<1>1. Init => AnswersAreTrue
  BY DEF Init, AnswersAreTrue, Answered
<1> QED
  BY CreditInvariant, <1>1, AnswersStep, PTL DEF Spec

----------------------------------------------------------------------------
(* Steps.                                                                  *)

\* An addition that does not overflow is exact, and touches one key only.
LEMMA ExactAdd ==
    ASSUME NEW table, table \in [DOMAIN table -> U32], NEW k, NEW w \in Nat,
           Lookup(table, k) + w <= MaxU32, NEW x
    PROVE  Lookup(AddAt(table, k, w), x)
            = IF x = k THEN Lookup(table, k) + w ELSE Lookup(table, x)
<1>1. Lookup(table, k) \in Nat
  BY MaxU32Assumption DEF Lookup, U32
<1>2. AddU32(Lookup(table, k), w) = Lookup(table, k) + w
  BY <1>1, MaxU32Assumption DEF AddU32
<1> DEFINE new == AddAt(table, k, w)
<1>3. DOMAIN new = DOMAIN table \cup {k}
  BY DEF AddAt
<1>4. \A y \in DOMAIN new : new[y] = IF y = k THEN Lookup(table, k) + w ELSE table[y]
  BY <1>2 DEF AddAt
<1> HIDE DEF new
<1>5. CASE x = k
  BY <1>3, <1>4, <1>5 DEF Lookup, new
<1>6. CASE x # k /\ x \in DOMAIN table
  BY <1>3, <1>4, <1>6 DEF Lookup, new
<1>7. CASE x # k /\ x \notin DOMAIN table
  BY <1>3, <1>7 DEF Lookup, new
<1> QED
  BY <1>5, <1>6, <1>7

\* What the guard of an overflow-checked build says about the score's addition.
LEMMA ScoreFits ==
    ASSUME TypeInv, NEW h \in Handlers, HasLock(h), Batch(h).rejected_replays = << >>,
           ~ ScoreOverflows(h)
    PROVE  Lookup(scores, KeyOf(h)) + WeightFor(Observation(req[h]).tier) <= MaxU32
<1> DEFINE w == WeightFor(Observation(req[h]).tier)
           deltas == AddAt(EmptyTable, KeyOf(h), w)
<1>1. Batch(h).scores = deltas
  BY BatchOfOne, CreditTypes
<1>2. w \in U32 /\ w \in Nat /\ w <= MaxU32
  <2>1. w \in U32
    BY WeightType
  <2> HIDE DEF w
  <2> QED
    BY <2>1, MaxU32Assumption DEF U32
<1>3. EmptyTable \in [DOMAIN EmptyTable -> U32] /\ Lookup(EmptyTable, KeyOf(h)) = 0
  BY DEF EmptyTable, Lookup
<1> HIDE DEF w
<1>4. Lookup(deltas, KeyOf(h)) = w
  <2>1. Lookup(EmptyTable, KeyOf(h)) + w <= MaxU32
    BY <1>2, <1>3
  <2>2. Lookup(AddAt(EmptyTable, KeyOf(h), w), KeyOf(h)) = Lookup(EmptyTable, KeyOf(h)) + w
    BY <1>2, <1>3, <2>1, ExactAdd
  <2> QED
    BY <1>2, <1>3, <2>2
<1>5. Lookup(Batch(h).scores, KeyOf(h)) = w
  BY <1>1, <1>4
<1>6. Lookup(scores, KeyOf(h)) \in Nat
  BY MaxU32Assumption DEF Lookup, U32, TypeInv, TypeOK, TablesOK
<1>7. ~ (Lookup(scores, KeyOf(h)) + w > MaxU32)
  BY <1>5 DEF ScoreOverflows
<1> HIDE DEF deltas
<1>8. Lookup(scores, KeyOf(h)) + w <= MaxU32
  BY <1>2, <1>6, <1>7, MaxU32Assumption
<1> QED
  BY <1>8 DEF w

\* The tables grow when an observation is scored, and when its proof is counted.
LEMMA ScoreGrows ==
    ASSUME TypeInv, NEW h \in Handlers, HasLock(h), Batch(h).rejected_replays = << >>,
           OverflowChecks => ~ ScoreOverflows(h),
           scores' = Merge(scores, Batch(h).scores)
    PROVE  /\ DOMAIN scores \subseteq DOMAIN scores'
           /\ OverflowChecks => \A key \in DOMAIN scores : scores[key] <= scores'[key]
<1> DEFINE w == WeightFor(Observation(req[h]).tier)
<1>1. w \in Nat
  BY WeightType, MaxU32Assumption DEF U32
<1>2. scores' = AddAt(scores, KeyOf(h), w)
  BY CreditTypes
<1>3. scores \in [DOMAIN scores -> U32]
  BY DEF TypeInv, TypeOK, TablesOK
<1> HIDE DEF w
<1>4. DOMAIN scores' = DOMAIN scores \cup {KeyOf(h)}
  BY <1>2 DEF AddAt
<1>5. ASSUME OverflowChecks, NEW key \in DOMAIN scores PROVE scores[key] <= scores'[key]
  <2>1. Lookup(scores, KeyOf(h)) + w <= MaxU32
    BY <1>5, ScoreFits DEF w
  <2> DEFINE new == AddAt(scores, KeyOf(h), w)
  <2>2. Lookup(new, key)
            = IF key = KeyOf(h) THEN Lookup(scores, KeyOf(h)) + w ELSE Lookup(scores, key)
    BY <1>1, <1>3, <2>1, ExactAdd
  <2>3. Lookup(scores, key) = scores[key] /\ Lookup(scores', key) = scores'[key]
    BY <1>4 DEF Lookup
  <2>4. scores[key] \in Nat
    BY <1>3, MaxU32Assumption DEF U32
  <2>5. scores' = new
    BY <1>2
  <2> HIDE DEF new
  <2> QED
    BY <1>1, <2>2, <2>3, <2>4, <2>5
<1> QED
  BY <1>4, <1>5

LEMMA CountGrows ==
    ASSUME TypeInv, NEW h \in Handlers, ~ CountOverflows(h),
           proof_counts' = AddAt(proof_counts, KeyOf(h), 1)
    PROVE  \A key \in DOMAIN proof_counts : proof_counts[key] <= Lookup(proof_counts', key)
<1> SUFFICES ASSUME NEW key \in DOMAIN proof_counts
             PROVE  proof_counts[key] <= Lookup(proof_counts', key)
  OBVIOUS
<1>1. proof_counts \in [DOMAIN proof_counts -> U32]
  BY DEF TypeInv, TypeOK, TablesOK
<1>2. Lookup(proof_counts, KeyOf(h)) \in Nat /\ proof_counts[key] \in Nat
  BY <1>1, MaxU32Assumption DEF Lookup, U32
<1>3. Lookup(proof_counts, KeyOf(h)) + 1 <= MaxU32
  BY <1>2, MaxU32Assumption DEF CountOverflows
<1> DEFINE new == AddAt(proof_counts, KeyOf(h), 1)
<1>4. Lookup(new, key)
        = IF key = KeyOf(h) THEN Lookup(proof_counts, KeyOf(h)) + 1 ELSE Lookup(proof_counts, key)
  BY <1>1, <1>3, ExactAdd
<1>5. proof_counts' = new
  OBVIOUS
<1>6. Lookup(proof_counts, key) = proof_counts[key]
  BY DEF Lookup
<1> HIDE DEF new
<1> QED
  BY <1>2, <1>4, <1>5, <1>6

\* A step of a handler loses nothing the relay has recorded.
LEMMA HandlerGrows ==
    ASSUME TypeInv,
           \/ \E h \in Handlers : Receive(h) \/ AskScore(h) \/ Submit(h)
           \/ UNCHANGED vars
    PROVE  Grows
<1> DEFINE Tables == <<seen, scores, proof_counts, disclosed, counted>>
<1>1. ASSUME TypeInv, UNCHANGED Tables PROVE Grows
  <2>1. \A key \in DOMAIN scores : scores[key] \in Nat
    BY <1>1, MaxU32Assumption DEF TypeInv, TypeOK, TablesOK, U32
  <2>2. \A key \in DOMAIN proof_counts : proof_counts[key] \in Nat
    BY <1>1, MaxU32Assumption DEF TypeInv, TypeOK, TablesOK, U32
  <2> QED
    BY <1>1, <2>1, <2>2 DEF Grows, Lookup
<1>2. ASSUME TypeInv, NEW h \in Handlers, Count(h) PROVE Grows
  <2>1. HasLock(h) /\ Batch(h).rejected_replays = << >>
    BY <1>2 DEF Count
  <2>2. /\ DOMAIN scores \subseteq DOMAIN scores'
        /\ OverflowChecks => \A key \in DOMAIN scores : scores[key] <= scores'[key]
    BY <1>2, <2>1, ScoreGrows DEF Count
  <2>3. OverflowChecks =>
            \A key \in DOMAIN proof_counts : proof_counts[key] <= Lookup(proof_counts', key)
    BY <1>2, CountGrows DEF Count
  <2>4. seen \subseteq seen' /\ counted \subseteq counted'
    BY <1>2, <2>1, CreditTypes DEF Count
  <2>5. \A text \in DOMAIN disclosed :
            text \in DOMAIN disclosed' /\ disclosed'[text] = disclosed[text]
    BY <1>2 DEF Count, Disclose
  <2> QED
    BY <2>2, <2>3, <2>4, <2>5 DEF Grows
<1>3. ASSUME TypeInv, NEW h \in Handlers, PanicAddingScore(h) PROVE Grows
  <2>1. seen \subseteq seen' /\ UNCHANGED <<scores, proof_counts, disclosed, counted>>
    BY <1>3, CreditTypes DEF PanicAddingScore
  <2>2. \A key \in DOMAIN scores : scores[key] \in Nat
    BY <1>3, MaxU32Assumption DEF TypeInv, TypeOK, TablesOK, U32
  <2>3. \A key \in DOMAIN proof_counts : proof_counts[key] \in Nat
    BY <1>3, MaxU32Assumption DEF TypeInv, TypeOK, TablesOK, U32
  <2> QED
    BY <2>1, <2>2, <2>3 DEF Grows, Lookup
<1>4. ASSUME TypeInv, NEW h \in Handlers, PanicAddingCount(h) PROVE Grows
  <2>1. HasLock(h) /\ Batch(h).rejected_replays = << >>
    BY <1>4 DEF PanicAddingCount
  <2>2. /\ DOMAIN scores \subseteq DOMAIN scores'
        /\ OverflowChecks => \A key \in DOMAIN scores : scores[key] <= scores'[key]
    BY <1>4, <2>1, ScoreGrows DEF PanicAddingCount
  <2>3. /\ seen \subseteq seen' /\ counted \subseteq counted'
        /\ UNCHANGED <<proof_counts, disclosed>>
    BY <1>4, <2>1, CreditTypes DEF PanicAddingCount
  <2>4. \A key \in DOMAIN proof_counts : proof_counts[key] \in Nat
    BY <1>4, MaxU32Assumption DEF TypeInv, TypeOK, TablesOK, U32
  <2> QED
    BY <2>2, <2>3, <2>4 DEF Grows, Lookup
<1>5. ASSUME NEW h \in Handlers,
             \/ Receive(h) \/ RefuseEarly(h) \/ PassChecks(h) \/ RefuseReplay(h)
             \/ PanicOnPoison(h) \/ AskScore(h) \/ Finish(h)
      PROVE  UNCHANGED Tables
  BY <1>5 DEF Receive, RefuseEarly, PassChecks, RefuseReplay, PanicOnPoison, AskScore,
              Finish, inner
<1>6. UNCHANGED vars => UNCHANGED Tables
  BY DEF vars, inner
<1> HIDE DEF Tables
<1> QED
  BY <1>1, <1>2, <1>3, <1>4, <1>5, <1>6 DEF Submit

\* Nothing the relay has recorded regresses while the process lives: NothingRegresses.
THEOREM Monotone == Spec => NothingRegresses
<1>1. Restart => Init'
  BY DEF Restart, Init
<1>2. TypeInv /\ [Next]_vars => [Grows \/ Init']_vars
  BY <1>1, HandlerGrows DEF Next
<1> QED
  BY TypeInit, TypeStep, <1>2, PTL DEF Spec, NothingRegresses

\* A poisoned mutex freezes the tables and silences them: PoisonFreezes.
THEOREM PoisonIsFinal == Spec => PoisonFreezes
<1>1. ASSUME TypeInv, NEW h \in Handlers, NEW r, Answer(h, r),
             r.kind \in {"rejected", "dropped"}, r.reason # "replay"
      PROVE  \A g \in Handlers : pc[g] # "replied" /\ pc'[g] = "replied"
                => reply'[g].kind \in {"rejected", "dropped"} /\ reply'[g].reason # "replay"
  <2>1. \A g \in Handlers : g # h => pc'[g] = pc[g]
    BY <1>1 DEF Answer, GoTo, TypeInv, TypeOK, TasksOK
  <2>2. reply'[h] = r
    BY <1>1 DEF Answer, TypeInv, TypeOK, TasksOK
  <2> QED
    BY <1>1, <2>1, <2>2
<1>2. ASSUME TypeInv, poisoned, NEW h \in Handlers, RefuseEarly(h) PROVE Frozen
  <2>1. LET r == Rejected(EarlyRejection(req[h]))
        IN  Answer(h, r) /\ r.kind \in {"rejected", "dropped"} /\ r.reason # "replay"
    BY <1>2 DEF RefuseEarly, Rejected, EarlyRejection
  <2> QED
    BY <1>1, <1>2, <2>1 DEF RefuseEarly, Frozen
<1>3. ASSUME TypeInv, poisoned, NEW h \in Handlers, PanicOnPoison(h) PROVE Frozen
  <2>1. /\ Answer(h, Dropped)
        /\ Dropped.kind \in {"rejected", "dropped"} /\ Dropped.reason # "replay"
    BY <1>3 DEF PanicOnPoison, Dropped
  <2> QED
    BY <1>1, <1>3, <2>1 DEF PanicOnPoison, Frozen
<1>4. ASSUME TypeInv, poisoned, NEW h \in Handlers, AskScore(h) PROVE Frozen
  <2>1. /\ Answer(h, Dropped)
        /\ Dropped.kind \in {"rejected", "dropped"} /\ Dropped.reason # "replay"
    BY <1>4 DEF AskScore, Dropped
  <2> QED
    BY <1>1, <1>4, <2>1 DEF AskScore, Frozen
<1>5. ASSUME TypeInv, NEW h \in Handlers, Receive(h) \/ PassChecks(h) \/ Finish(h) PROVE Frozen
  <2>1. UNCHANGED <<inner, counted>> /\ \A g \in Handlers : pc'[g] = "replied" => pc[g] = "replied"
    BY <1>5 DEF Receive, PassChecks, Finish, GoTo, TypeInv, TypeOK, TasksOK
  <2> QED
    BY <2>1 DEF Frozen
<1>6. ASSUME poisoned, NEW h \in Handlers
      PROVE  ~ (RefuseReplay(h) \/ Count(h) \/ PanicAddingScore(h) \/ PanicAddingCount(h))
  BY <1>6 DEF RefuseReplay, Count, PanicAddingScore, PanicAddingCount, HasLock
<1>7. Restart => Init'
  BY DEF Restart, Init
<1>8. ~ poisoned => Frozen
  BY DEF Frozen
<1>9. TypeInv /\ [Next]_vars => [Frozen \/ Init']_vars
  BY <1>2, <1>3, <1>4, <1>5, <1>6, <1>7, <1>8 DEF Next, Submit
<1> QED
  BY TypeInit, TypeStep, <1>9, PTL DEF Spec, PoisonFreezes

----------------------------------------------------------------------------
(* What the tables say of what was counted.                                *)

\* The tables tell what was counted; where additions are checked, no sum is past the
\* width of its counter.
TablesTell ==
    /\ IsFiniteSet(counted)
    /\ ScoreIsWeightedCount
    /\ NothingHalfApplied
    /\ OverflowChecks =>
        \A key \in Keys :
            /\ TotalWeight(Under(key)) <= MaxU32
            /\ ~ poisoned => Cardinality(Under(key)) <= MaxU32

\* What is under a key is finite.
LEMMA UnderFinite ==
    ASSUME IsFiniteSet(counted), NEW key
    PROVE  /\ IsFiniteSet(Under(key)) /\ Under(key) \subseteq counted
           /\ TotalWeight(Under(key)) \in Nat /\ Cardinality(Under(key)) \in Nat
<1>1. Under(key) \subseteq counted
  BY DEF Under
<1>2. IsFiniteSet(Under(key))
  BY <1>1, FS_Subset
<1> QED
  BY <1>1, <1>2, SumType, FS_CardinalityType

\* Read through Lookup, the tables tell it of every key.
LEMMA TablesRead ==
    ASSUME TablesTell, NEW key
    PROVE  /\ Lookup(scores, key) = TotalWeight(Under(key)) % (MaxU32 + 1)
           /\ ~ poisoned =>
                Lookup(proof_counts, key) = Cardinality(Under(key)) % (MaxU32 + 1)
<1>1. CASE key \in DOMAIN scores
  BY <1>1 DEF TablesTell, ScoreIsWeightedCount, NothingHalfApplied, Lookup
<1>2. CASE key \notin DOMAIN scores
  <2>1. Under(key) = {}
    BY <1>2 DEF Under, TablesTell, ScoreIsWeightedCount
  <2>2. ~ poisoned => key \notin DOMAIN proof_counts
    BY <1>2 DEF TablesTell, NothingHalfApplied
  <2>3. 0 % (MaxU32 + 1) = 0
    BY AddWraps, MaxU32Assumption
  <2> QED
    BY <1>2, <2>1, <2>2, <2>3, SumOfNone, FS_EmptySet DEF Lookup
<1> QED
  BY <1>1, <1>2

\* A step that counts an observation under its key adds its weight there.
LEMMA WeightCounted ==
    ASSUME TypeInv, CreditInv, TablesTell, NEW h \in Handlers,
           HasLock(h), Batch(h).rejected_replays = << >>,
           OverflowChecks => ~ ScoreOverflows(h),
           scores' = Merge(scores, Batch(h).scores),
           counted' = counted \cup {Observation(req[h])}
    PROVE  /\ IsFiniteSet(counted)' /\ ScoreIsWeightedCount'
           /\ OverflowChecks => \A key \in Keys : TotalWeight(Under(key)') <= MaxU32
           /\ DOMAIN scores' = DOMAIN scores \cup {KeyOf(h)}
           /\ \A key : Under(key)' =
                IF key = KeyOf(h) THEN Under(key) \cup {Observation(req[h])} ELSE Under(key)
           /\ Observation(req[h]) \notin counted
<1> DEFINE o == Observation(req[h])
           w == WeightFor(o.tier)
<1>0. PICK k : k = KeyOf(h)
  OBVIOUS
<1>1. /\ o.nullifier \notin seen /\ k \in Keys /\ k = ScoreKey(o)
      /\ scores' = AddAt(scores, k, w)
  BY <1>0, CreditTypes DEF KeyOf
<1>2. o \notin counted
  BY <1>1 DEF CreditInv
<1>3. w \in Nat
  BY WeightType, MaxU32Assumption DEF U32
<1>4. OverflowChecks => Lookup(scores, k) + w <= MaxU32
  BY <1>0, ScoreFits
<1>5. IsFiniteSet(counted)
  BY DEF TablesTell
<1> HIDE DEF o, w
<1>6. counted' = counted \cup {o}
  BY DEF o
<1>7. IsFiniteSet(counted')
  BY <1>5, <1>6, FS_AddElement
<1>8. ASSUME NEW key PROVE Under(key)' = IF key = k THEN Under(key) \cup {o} ELSE Under(key)
  BY <1>1, <1>6 DEF Under
<1>9. TotalWeight(Under(k)') = TotalWeight(Under(k)) + w
  <2>1. IsFiniteSet(Under(k)) /\ o \notin Under(k)
    BY <1>2, <1>5, UnderFinite
  <2>2. Under(k)' = Under(k) \cup {o}
    BY <1>8
  <2> QED
    BY <2>1, <2>2, SumWith DEF w
<1>10. DOMAIN scores' = DOMAIN scores \cup {k}
  BY <1>1 DEF AddAt
<1>11. DOMAIN scores' = {ScoreKey(x) : x \in counted'}
  BY <1>1, <1>6, <1>10 DEF TablesTell, ScoreIsWeightedCount
<1>12. ASSUME NEW key \in DOMAIN scores'
       PROVE  scores'[key] = TotalWeight(Under(key)') % (MaxU32 + 1)
  <2>1. CASE key = k
    <3>1. scores'[key] = AddU32(Lookup(scores, k), w)
      BY <1>1, <1>10, <2>1 DEF AddAt
    <3>2. Lookup(scores, k) = TotalWeight(Under(k)) % (MaxU32 + 1)
      BY TablesRead
    <3>3. TotalWeight(Under(k)) \in Nat
      BY <1>5, UnderFinite
    <3> QED
      BY <1>3, <1>9, <2>1, <3>1, <3>2, <3>3, AddWraps
  <2>2. CASE key # k
    <3>1. key \in DOMAIN scores /\ scores'[key] = scores[key]
      BY <1>1, <1>10, <2>2 DEF AddAt
    <3> QED
      BY <1>8, <2>2, <3>1 DEF TablesTell, ScoreIsWeightedCount
  <2> QED
    BY <2>1, <2>2
<1>13. ScoreIsWeightedCount'
  BY <1>11, <1>12 DEF ScoreIsWeightedCount
<1>14. ASSUME OverflowChecks, NEW key \in Keys PROVE TotalWeight(Under(key)') <= MaxU32
  <2>1. CASE key = k
    <3>1. TotalWeight(Under(k)) \in Nat /\ TotalWeight(Under(k)) <= MaxU32
      BY <1>1, <1>5, <1>14, UnderFinite DEF TablesTell
    <3>2. Lookup(scores, k) = TotalWeight(Under(k))
      BY <3>1, TablesRead, AddWraps
    <3> QED
      BY <1>4, <1>9, <1>14, <2>1, <3>2
  <2>2. CASE key # k
    BY <1>8, <1>14, <2>2 DEF TablesTell
  <2> QED
    BY <2>1, <2>2
<1> QED
  BY <1>0, <1>2, <1>7, <1>8, <1>10, <1>13, <1>14 DEF o

LEMMA TablesStep ==
    TypeInv /\ CreditInv /\ TablesTell /\ [Next]_vars => TablesTell'
<1> SUFFICES ASSUME TypeInv, CreditInv, TablesTell, [Next]_vars PROVE TablesTell'
  OBVIOUS
<1>1. ASSUME UNCHANGED <<seen, scores, proof_counts, poisoned, counted>> PROVE TablesTell'
  <2>1. \A key : Under(key)' = Under(key)
    BY <1>1 DEF Under
  <2> QED
    BY <1>1, <2>1 DEF TablesTell, ScoreIsWeightedCount, NothingHalfApplied, ScoreKey
<1>2. ASSUME NEW h \in Handlers, Count(h) PROVE TablesTell'
  <2> DEFINE o == Observation(req[h])
  <2>1. PICK k : k = KeyOf(h)
    OBVIOUS
  <2>2. HasLock(h) /\ Batch(h).rejected_replays = << >> /\ ~ poisoned /\ poisoned' = poisoned
    BY <1>2 DEF Count, HasLock
  <2>3. /\ counted' = counted \cup {o} /\ scores' = Merge(scores, Batch(h).scores)
        /\ proof_counts' = AddAt(proof_counts, k, 1)
        /\ OverflowChecks => ~ ScoreOverflows(h) /\ ~ CountOverflows(h)
    BY <1>2, <2>1 DEF Count
  <2>4. /\ IsFiniteSet(counted)' /\ ScoreIsWeightedCount'
        /\ OverflowChecks => \A key \in Keys : TotalWeight(Under(key)') <= MaxU32
        /\ DOMAIN scores' = DOMAIN scores \cup {k}
        /\ \A key : Under(key)' = IF key = k THEN Under(key) \cup {o} ELSE Under(key)
        /\ o \notin counted
    BY <2>1, <2>2, <2>3, WeightCounted
  <2>5. seen' = seen \cup {o.nullifier}
    BY <1>2, <2>2, CreditTypes DEF Count
  <2>6. seen' = {x.nullifier : x \in counted'}
    <3> HIDE DEF o
    <3> QED
      BY <2>2, <2>3, <2>5 DEF TablesTell, NothingHalfApplied
  <2>7. DOMAIN proof_counts' = DOMAIN proof_counts \cup {k} /\ DOMAIN proof_counts = DOMAIN scores
    BY <2>2, <2>3 DEF AddAt, TablesTell, NothingHalfApplied
  <2>8. \A key : IsFiniteSet(Under(key)) /\ Under(key) \subseteq counted /\ Cardinality(Under(key)) \in Nat
    BY UnderFinite DEF TablesTell
  <2> HIDE DEF o
  <2>9. Cardinality(Under(k)') = Cardinality(Under(k)) + 1
    <3>1. Under(k)' = Under(k) \cup {o} /\ o \notin Under(k)
      BY <2>4, <2>8
    <3> QED
      BY <2>8, <3>1, FS_AddElement
  <2>10. Lookup(proof_counts, k) = Cardinality(Under(k)) % (MaxU32 + 1)
    BY <2>2, TablesRead
  <2>11. ASSUME NEW key \in DOMAIN proof_counts'
         PROVE  proof_counts'[key] = Cardinality(Under(key)') % (MaxU32 + 1)
    <3>1. CASE key = k
      <4>1. proof_counts'[key] = AddU32(Lookup(proof_counts, k), 1)
        BY <2>3, <2>7, <3>1 DEF AddAt
      <4>2. Cardinality(Under(k)) \in Nat /\ 1 \in Nat
        BY <2>8
      <4>3. AddU32(Lookup(proof_counts, k), 1) = (Cardinality(Under(k)) + 1) % (MaxU32 + 1)
        BY <2>10, <4>2, AddWraps
      <4> QED
        BY <2>9, <3>1, <4>1, <4>3
    <3>2. CASE key # k
      <4>1. key \in DOMAIN proof_counts /\ proof_counts'[key] = proof_counts[key]
        BY <2>3, <2>7, <3>2 DEF AddAt
      <4> QED
        BY <2>2, <2>4, <3>2, <4>1 DEF TablesTell, NothingHalfApplied
    <3> QED
      BY <3>1, <3>2
  <2>12. ASSUME OverflowChecks, NEW key \in Keys PROVE Cardinality(Under(key)') <= MaxU32
    <3>1. Cardinality(Under(key)) <= MaxU32
      BY <2>2, <2>12 DEF TablesTell
    <3>2. CASE key = k
      <4>1. Lookup(proof_counts, k) = Cardinality(Under(k))
        BY <2>8, <2>10, <3>1, <3>2, AddWraps
      <4>2. ~ (Cardinality(Under(k)) + 1 > MaxU32)
        BY <2>1, <2>3, <2>12, <4>1 DEF CountOverflows
      <4> QED
        BY <2>8, <2>9, <3>2, <4>2, MaxU32Assumption
    <3>3. CASE key # k
      BY <2>4, <3>1, <3>3
    <3> QED
      BY <3>2, <3>3
  <2>13. NothingHalfApplied'
    BY <2>4, <2>6, <2>7, <2>11 DEF NothingHalfApplied
  <2> QED
    BY <2>4, <2>12, <2>13 DEF TablesTell
<1>3. ASSUME NEW h \in Handlers, PanicAddingCount(h) PROVE TablesTell'
  <2>1. /\ HasLock(h) /\ Batch(h).rejected_replays = << >> /\ ~ ScoreOverflows(h)
        /\ counted' = counted \cup {Observation(req[h])} /\ poisoned' = TRUE
        /\ scores' = Merge(scores, Batch(h).scores)
    BY <1>3 DEF PanicAddingCount
  <2>2. /\ IsFiniteSet(counted)' /\ ScoreIsWeightedCount'
        /\ OverflowChecks => \A key \in Keys : TotalWeight(Under(key)') <= MaxU32
    BY <2>1, WeightCounted
  <2>3. NothingHalfApplied'
    BY <2>1 DEF NothingHalfApplied
  <2> QED
    BY <2>1, <2>2, <2>3 DEF TablesTell
<1>4. ASSUME NEW h \in Handlers, PanicAddingScore(h) PROVE TablesTell'
  <2>1. UNCHANGED <<scores, proof_counts, counted>> /\ poisoned' = TRUE
    BY <1>4 DEF PanicAddingScore
  <2>2. \A key : Under(key)' = Under(key)
    BY <2>1 DEF Under
  <2> QED
    BY <2>1, <2>2 DEF TablesTell, ScoreIsWeightedCount, NothingHalfApplied, ScoreKey
<1>5. CASE Restart
  <2>1. counted' = {} /\ DOMAIN scores' = {} /\ DOMAIN proof_counts' = {} /\ seen' = {}
    BY <1>5 DEF Restart, EmptyTable
  <2>2. \A key : Under(key)' = {}
    BY <2>1 DEF Under
  <2>3. ScoreIsWeightedCount' /\ NothingHalfApplied'
    BY <2>1 DEF ScoreIsWeightedCount, NothingHalfApplied
  <2>4. IsFiniteSet(counted')
    BY <2>1, FS_EmptySet
  <2>5. \A key \in Keys : TotalWeight(Under(key)') <= MaxU32 /\ Cardinality(Under(key)') <= MaxU32
    BY <2>2, SumOfNone, FS_EmptySet, MaxU32Assumption
  <2> QED
    BY <2>3, <2>4, <2>5 DEF TablesTell
<1>6. ASSUME NEW h \in Handlers,
             \/ Receive(h) \/ RefuseEarly(h) \/ PassChecks(h) \/ RefuseReplay(h)
             \/ PanicOnPoison(h) \/ AskScore(h) \/ Finish(h)
      PROVE  UNCHANGED <<seen, scores, proof_counts, poisoned, counted>>
  BY <1>6 DEF Receive, RefuseEarly, PassChecks, RefuseReplay, PanicOnPoison, AskScore,
              Finish, inner
<1>7. CASE UNCHANGED vars
  BY <1>1, <1>7 DEF vars, inner
<1> QED
  BY <1>1, <1>2, <1>3, <1>4, <1>5, <1>6, <1>7 DEF Next, Submit

LEMMA TablesInvariant == Spec => [](TypeInv /\ CreditInv /\ TablesTell)
<1>1. Init => TablesTell
  <2> SUFFICES ASSUME Init PROVE TablesTell
    OBVIOUS
  <2>1. counted = {} /\ DOMAIN scores = {} /\ DOMAIN proof_counts = {} /\ seen = {}
    BY DEF Init, EmptyTable
  <2>2. \A key : Under(key) = {}
    BY <2>1 DEF Under
  <2>3. ScoreIsWeightedCount /\ NothingHalfApplied
    BY <2>1 DEF ScoreIsWeightedCount, NothingHalfApplied
  <2>4. IsFiniteSet(counted)
    BY <2>1, FS_EmptySet
  <2>5. \A key \in Keys : TotalWeight(Under(key)) <= MaxU32 /\ Cardinality(Under(key)) <= MaxU32
    BY <2>2, SumOfNone, FS_EmptySet, MaxU32Assumption
  <2> QED
    BY <2>3, <2>4, <2>5 DEF TablesTell
<1>2. TypeInv /\ CreditInv /\ [Next]_vars => (TypeInv /\ CreditInv)'
  BY TypeStep, CreditStep
<1>3. Init => TypeInv /\ CreditInv
  BY TypeInit DEF Init, CreditInv
<1> QED
  BY <1>1, <1>2, <1>3, TablesStep, PTL DEF Spec

\* The score of a key is the weighted count of what was counted under it, however the
\* handlers raced and whatever panicked: ScoreIsWeightedCount.
THEOREM ScoresAreWeightedCounts == Spec => []ScoreIsWeightedCount
<1>1. TablesTell => ScoreIsWeightedCount
  BY DEF TablesTell
<1> QED
  BY TablesInvariant, <1>1, PTL

\* What a panic leaves half done is only ever behind a poisoned mutex: NothingHalfApplied.
THEOREM NoHalfCredit == Spec => []NothingHalfApplied
<1>1. TablesTell => NothingHalfApplied
  BY DEF TablesTell
<1> QED
  BY TablesInvariant, <1>1, PTL

----------------------------------------------------------------------------
(* Snapshots.                                                              *)

\* A step of h that only adds to what is counted, and answers a query with a snapshot.
LEMMA SnapshotsKept ==
    ASSUME QueriesAreSnapshots, OverflowChecks, counted \subseteq counted', NEW h \in Handlers,
           \A g \in Handlers : g # h =>
                pc'[g] = pc[g] /\ req'[g] = req[g] /\ reply'[g] = reply[g],
           Answered(h, "score", "none")' =>
            \E obs \in SUBSET Under(ScoreKey(req'[h])) :
                reply'[h].count = Cardinality(obs) /\ reply'[h].score = TotalWeight(obs)
    PROVE  QueriesAreSnapshots'
<1>1. ASSUME NEW key PROVE Under(key) \subseteq Under(key)'
  BY DEF Under
<1>2. ASSUME NEW g \in Handlers, Answered(g, "score", "none")'
      PROVE  \E obs \in SUBSET Under(ScoreKey(req[g]))' :
                reply'[g].count = Cardinality(obs) /\ reply'[g].score = TotalWeight(obs)
  <2>1. PICK key : key = ScoreKey(req'[g])
    OBVIOUS
  <2>2. PICK obs \in SUBSET Under(key) :
            reply'[g].count = Cardinality(obs) /\ reply'[g].score = TotalWeight(obs)
    <3>1. CASE g = h
      BY <1>2, <2>1, <3>1
    <3>2. CASE g # h
      BY <1>2, <2>1, <3>2 DEF QueriesAreSnapshots, Answered
    <3> QED
      BY <3>1, <3>2
  <2>3. Under(ScoreKey(req[g]))' = Under(key)'
    BY <2>1 DEF Under
  <2> QED
    BY <1>1, <2>2, <2>3
<1> QED
  BY <1>2 DEF QueriesAreSnapshots

\* What a query reads is the whole of what is under its key.
LEMMA SnapshotTaken ==
    ASSUME TypeInv, TablesTell, OverflowChecks, ~ poisoned, NEW key
    PROVE  /\ Lookup(scores, key) = TotalWeight(Under(key))
           /\ Lookup(proof_counts, key) = Cardinality(Under(key))
<1>1. /\ Lookup(scores, key) = TotalWeight(Under(key)) % (MaxU32 + 1)
      /\ Lookup(proof_counts, key) = Cardinality(Under(key)) % (MaxU32 + 1)
  BY TablesRead
<1>2. TotalWeight(Under(key)) <= MaxU32 /\ Cardinality(Under(key)) <= MaxU32
  <2>1. CASE key \in Keys
    BY <2>1 DEF TablesTell
  <2>2. CASE key \notin Keys
    <3>1. key \notin {ScoreKey(o) : o \in counted}
      BY <2>2 DEF TablesTell, ScoreIsWeightedCount, TypeInv, TypeOK, TablesOK
    <3>2. Under(key) = {}
      BY <3>1 DEF Under
    <3> QED
      BY <3>2, SumOfNone, FS_EmptySet, MaxU32Assumption
  <2> QED
    BY <2>1, <2>2
<1>3. TotalWeight(Under(key)) \in Nat /\ Cardinality(Under(key)) \in Nat
  BY UnderFinite DEF TablesTell
<1> QED
  BY <1>1, <1>2, <1>3, AddWraps

LEMMA SnapshotsStep ==
    TypeInv /\ TablesTell /\ QueriesAreSnapshots /\ [Next]_vars => QueriesAreSnapshots'
<1> SUFFICES ASSUME TypeInv, TablesTell, OverflowChecks, QueriesAreSnapshots, [Next]_vars
             PROVE  QueriesAreSnapshots'
  BY DEF QueriesAreSnapshots
<1> DEFINE Others(h) ==
            \A g \in Handlers : g # h =>
                pc'[g] = pc[g] /\ req'[g] = req[g] /\ reply'[g] = reply[g]
<1>1. ASSUME NEW h \in Handlers, NEW r, Answer(h, r),
             \A g \in Handlers : g # h => req'[g] = req[g]
      PROVE  Others(h) /\ reply'[h] = r
  BY <1>1 DEF Answer, GoTo, TypeInv, TypeOK, TasksOK
\* An answer that is no score.
<1>2. ASSUME NEW h \in Handlers, NEW r, Answer(h, r), r.kind # "score",
             counted \subseteq counted', \A g \in Handlers : g # h => req'[g] = req[g]
      PROVE  QueriesAreSnapshots'
  <2>1. Others(h) /\ reply'[h] = r
    BY <1>1, <1>2
  <2>2. ~ Answered(h, "score", "none")'
    BY <1>2, <2>1 DEF Answered
  <2> QED
    BY <1>2, <2>1, <2>2, SnapshotsKept
<1>3. ASSUME NEW h \in Handlers, AskScore(h) PROVE QueriesAreSnapshots'
  <2>1. PICK q \in Queries :
            /\ req' = [req EXCEPT ![h] = q]
            /\ Answer(h, IF poisoned THEN Dropped
                         ELSE ScoreResponse(Lookup(scores, ScoreKey(q)),
                                            Lookup(proof_counts, ScoreKey(q))))
    BY <1>3 DEF AskScore
  <2>2. req'[h] = q /\ \A g \in Handlers : g # h => req'[g] = req[g]
    BY <2>1 DEF TypeInv, TypeOK, TasksOK
  <2>3. counted \subseteq counted'
    BY <1>3 DEF AskScore
  <2>4. CASE poisoned
    <3>1. Answer(h, Dropped) /\ Dropped.kind # "score"
      BY <2>1, <2>4 DEF Dropped
    <3> QED
      BY <1>2, <2>2, <2>3, <3>1
  <2>5. CASE ~ poisoned
    <3> DEFINE r == ScoreResponse(Lookup(scores, ScoreKey(q)), Lookup(proof_counts, ScoreKey(q)))
    <3>1. Answer(h, r)
      BY <2>1, <2>5
    <3>2. Others(h) /\ reply'[h] = r
      BY <1>1, <2>2, <3>1
    <3>3. \A s, n : ScoreResponse(s, n).score = s /\ ScoreResponse(s, n).count = n
      BY DEF ScoreResponse
    <3>4. /\ r.score = TotalWeight(Under(ScoreKey(q)))
          /\ r.count = Cardinality(Under(ScoreKey(q)))
      BY <2>5, <3>3, SnapshotTaken
    <3> HIDE DEF r
    <3>5. \E obs \in SUBSET Under(ScoreKey(req'[h])) :
                reply'[h].count = Cardinality(obs) /\ reply'[h].score = TotalWeight(obs)
      BY <2>2, <3>2, <3>4
    <3> QED
      BY <2>3, <3>2, <3>5, SnapshotsKept
  <2> QED
    BY <2>4, <2>5
<1>4. ASSUME NEW h \in Handlers,
             \/ RefuseEarly(h) \/ RefuseReplay(h) \/ Count(h) \/ PanicAddingScore(h)
             \/ PanicAddingCount(h) \/ PanicOnPoison(h)
      PROVE  QueriesAreSnapshots'
  <2>1. req' = req /\ counted \subseteq counted'
    BY <1>4 DEF RefuseEarly, RefuseReplay, Count, PanicAddingScore, PanicAddingCount,
                PanicOnPoison
  <2>2. \E r : Answer(h, r) /\ r.kind # "score"
    <3>1. CASE RefuseEarly(h) \/ RefuseReplay(h)
      BY <3>1 DEF RefuseEarly, RefuseReplay, Rejected
    <3>2. CASE Count(h)
      <4>1. Answer(h, Accepted(UpdatedScore(h)))
        BY <3>2 DEF Count
      <4>2. Accepted(UpdatedScore(h)).kind # "score"
        BY DEF Accepted
      <4> QED
        BY <4>1, <4>2
    <3>3. CASE PanicAddingScore(h) \/ PanicAddingCount(h) \/ PanicOnPoison(h)
      BY <3>3 DEF PanicAddingScore, PanicAddingCount, PanicOnPoison, Dropped
    <3> QED
      BY <1>4, <3>1, <3>2, <3>3
  <2> QED
    BY <1>2, <2>1, <2>2
<1>5. ASSUME NEW h \in Handlers, Receive(h) \/ PassChecks(h) \/ Finish(h)
      PROVE  QueriesAreSnapshots'
  <2>1. Others(h) /\ counted' = counted /\ pc'[h] # "replied"
    BY <1>5 DEF Receive, PassChecks, Finish, GoTo, TypeInv, TypeOK, TasksOK
  <2>2. ~ Answered(h, "score", "none")'
    BY <2>1 DEF Answered
  <2> QED
    BY <2>1, <2>2, SnapshotsKept
<1>6. CASE Restart
  BY <1>6 DEF Restart, QueriesAreSnapshots, Answered
<1>7. CASE UNCHANGED vars
  <2>1. \A key : Under(key)' = Under(key)
    BY <1>7 DEF vars, Under
  <2> QED
    BY <1>7, <2>1 DEF vars, tasks, QueriesAreSnapshots, Answered, Under, ScoreKey
<1> QED
  BY <1>3, <1>4, <1>5, <1>6, <1>7 DEF Next, Submit

\* What a query answers was true of its key at one moment: QueriesAreSnapshots.
THEOREM Snapshots == Spec => []QueriesAreSnapshots
<1>1. Init => QueriesAreSnapshots
  BY DEF Init, QueriesAreSnapshots, Answered
<1> QED
  BY TablesInvariant, SnapshotsStep, <1>1, PTL DEF Spec

----------------------------------------------------------------------------
(* Scores that are answered.                                               *)

\* Of two answered scores for one key, one includes the other's weight.
Serial(g, h) ==
    \/ reply[g].score >= reply[h].score + WeightFor(ScoredTier(req[g]))
    \/ reply[h].score >= reply[g].score + WeightFor(ScoredTier(req[h]))

\* AcceptedScoresSerialise, for answers whose key has a score.
ScoresSerialise ==
    OverflowChecks =>
        /\ \A h \in Handlers : Answered(h, "accepted", "none") =>
            KeyOf(h) \in DOMAIN scores /\ reply[h].score <= scores[KeyOf(h)]
        /\ \A g, h \in Handlers :
            /\ Answered(g, "accepted", "none") /\ Answered(h, "accepted", "none")
            /\ KeyOf(g) = KeyOf(h) /\ g # h
            => Serial(g, h)

\* A step of h under which the scores only grow, and that answers "accepted" only with
\* a score past all that were answered for its key.
LEMMA SerialKept ==
    ASSUME TypeInv, OverflowChecks, ScoresSerialise, NEW h \in Handlers,
           \A g \in Handlers : g # h =>
                pc'[g] = pc[g] /\ req'[g] = req[g] /\ reply'[g] = reply[g],
           DOMAIN scores \subseteq DOMAIN scores',
           \A key \in DOMAIN scores : scores[key] <= scores'[key],
           \A key \in DOMAIN scores' : scores'[key] \in Nat,
           Answered(h, "accepted", "none")' =>
            /\ KeyOf(h)' \in DOMAIN scores' /\ reply'[h].score <= scores'[KeyOf(h)']
            /\ \A g \in Handlers :
                g # h /\ Answered(g, "accepted", "none") /\ KeyOf(g) = KeyOf(h)'
                    => reply'[h].score >= reply[g].score + WeightFor(ScoredTier(req'[h]))
    PROVE  ScoresSerialise'
<1>1. ASSUME NEW g \in Handlers, g # h
      PROVE  /\ Answered(g, "accepted", "none")' <=> Answered(g, "accepted", "none")
             /\ KeyOf(g)' = KeyOf(g)
  BY <1>1 DEF Answered, KeyOf
<1>2. ASSUME NEW g \in Handlers, Answered(g, "accepted", "none")'
      PROVE  KeyOf(g)' \in DOMAIN scores' /\ reply'[g].score <= scores'[KeyOf(g)']
  <2>1. CASE g = h
    BY <1>2, <2>1
  <2>2. CASE g # h
    <3>1. /\ KeyOf(g) \in DOMAIN scores /\ reply[g].score <= scores[KeyOf(g)]
          /\ pc[g] = "replied"
      BY <1>1, <1>2, <2>2 DEF ScoresSerialise, Answered
    <3>2. reply[g].score \in Nat /\ scores[KeyOf(g)] \in Nat
      BY <3>1, MaxU32Assumption DEF TypeInv, TypeOK, TablesOK, TasksOK, Reply, U32
    <3>3. scores'[KeyOf(g)] \in Nat /\ scores[KeyOf(g)] <= scores'[KeyOf(g)]
      BY <3>1
    <3>4. reply[g].score <= scores'[KeyOf(g)]
      BY <3>1, <3>2, <3>3
    <3> QED
      BY <1>1, <2>2, <3>1, <3>4
  <2> QED
    BY <2>1, <2>2
<1>3. ASSUME NEW f \in Handlers, NEW g \in Handlers, f # g, KeyOf(f)' = KeyOf(g)',
             Answered(f, "accepted", "none")', Answered(g, "accepted", "none")'
      PROVE  Serial(f, g)'
  <2>1. CASE f = h
    BY <1>1, <1>3, <2>1 DEF Serial, ScoredTier
  <2>2. CASE g = h
    BY <1>1, <1>3, <2>2 DEF Serial, ScoredTier
  <2>3. CASE f # h /\ g # h
    <3>1. Serial(f, g)
      BY <1>1, <1>3, <2>3 DEF ScoresSerialise
    <3> QED
      BY <2>3, <3>1 DEF Serial, ScoredTier
  <2> QED
    BY <2>1, <2>2, <2>3
<1> QED
  BY <1>2, <1>3 DEF ScoresSerialise

\* The answer of Count: the score before, and the weight that was added to it.
LEMMA AnsweredScore ==
    ASSUME TypeInv, OverflowChecks, NEW h \in Handlers, Count(h)
    PROVE  LET k == KeyOf(h)
               w == WeightFor(ScoredTier(req[h]))
           IN  /\ reply'[h] = Accepted(Lookup(scores, k) + w)
               /\ k \in DOMAIN scores' /\ scores'[k] = Lookup(scores, k) + w
<1> DEFINE w == WeightFor(ScoredTier(req[h]))
<1>1. PICK k : k = KeyOf(h)
  OBVIOUS
<1>2. HasLock(h) /\ Batch(h).rejected_replays = << >> /\ ~ ScoreOverflows(h)
  BY DEF Count
<1>3. Observation(req[h]).tier = ScoredTier(req[h])
  BY DEF Observation
<1>4. scores' = AddAt(scores, k, w) /\ Lookup(scores, k) + w <= MaxU32
  BY <1>1, <1>2, <1>3, CreditTypes, ScoreFits DEF Count
<1>5. w \in Nat /\ scores \in [DOMAIN scores -> U32]
  BY WeightType, MaxU32Assumption DEF U32, TypeInv, TypeOK, TablesOK
<1> HIDE DEF w
<1>6. k \in DOMAIN scores'
  BY <1>4 DEF AddAt
<1>7. Lookup(scores', k) = Lookup(scores, k) + w
  BY <1>4, <1>5, ExactAdd
<1>8. reply' = [reply EXCEPT ![h] = Accepted(UpdatedScore(h))] /\ req' = req
  BY DEF Count, Answer
<1>9. UpdatedScore(h) = Lookup(scores', k)
  BY <1>1 DEF UpdatedScore
<1>10. reply'[h] = Accepted(Lookup(scores, k) + w)
  BY <1>7, <1>8, <1>9 DEF TypeInv, TypeOK, TasksOK
<1>11. scores'[k] = Lookup(scores, k) + w
  BY <1>6, <1>7 DEF Lookup
<1> QED
  BY <1>1, <1>6, <1>10, <1>11 DEF w

LEMMA SerialStep ==
    TypeInv /\ TypeInv' /\ ScoresSerialise /\ [Next]_vars => ScoresSerialise'
<1> SUFFICES ASSUME TypeInv, TypeInv', OverflowChecks, ScoresSerialise, [Next]_vars
             PROVE  ScoresSerialise'
  BY DEF ScoresSerialise
<1> DEFINE Others(h) ==
            \A g \in Handlers : g # h =>
                pc'[g] = pc[g] /\ req'[g] = req[g] /\ reply'[g] = reply[g]
           Grew == /\ DOMAIN scores \subseteq DOMAIN scores'
                   /\ \A key \in DOMAIN scores : scores[key] <= scores'[key]
<1>1. /\ \A key \in DOMAIN scores' : scores'[key] \in Nat
      /\ \A key \in DOMAIN scores : scores[key] \in Nat
  BY MaxU32Assumption DEF TypeInv, TypeOK, TablesOK, U32
<1>2. ASSUME scores' = scores PROVE Grew
  BY <1>1, <1>2
<1>3. ASSUME NEW h \in Handlers, NEW r, Answer(h, r),
             \A g \in Handlers : g # h => req'[g] = req[g]
      PROVE  Others(h) /\ reply'[h] = r
  BY <1>3 DEF Answer, GoTo, TypeInv, TypeOK, TasksOK
\* An answer that is not "accepted".
<1>4. ASSUME NEW h \in Handlers, NEW r, Answer(h, r), r.kind # "accepted", Grew,
             \A g \in Handlers : g # h => req'[g] = req[g]
      PROVE  ScoresSerialise'
  <2>1. Others(h) /\ reply'[h] = r
    BY <1>3, <1>4
  <2>2. ~ Answered(h, "accepted", "none")'
    BY <1>4, <2>1 DEF Answered
  <2> QED
    BY <1>1, <1>4, <2>1, <2>2, SerialKept
<1>5. ASSUME NEW h \in Handlers, Count(h) PROVE ScoresSerialise'
  <2> DEFINE w == WeightFor(ScoredTier(req[h]))
  <2>1. PICK k : k = KeyOf(h)
    OBVIOUS
  <2>2. HasLock(h) /\ Batch(h).rejected_replays = << >> /\ req' = req
        /\ ~ ScoreOverflows(h) /\ scores' = Merge(scores, Batch(h).scores)
    BY <1>5 DEF Count
  <2>3. Grew
    BY <2>2, ScoreGrows
  <2>4. Others(h)
    <3>1. PICK r : Answer(h, r)
      BY <1>5 DEF Count
    <3> QED
      BY <1>3, <2>2, <3>1
  <2>5. /\ reply'[h].score = Lookup(scores, k) + w
        /\ k \in DOMAIN scores' /\ scores'[k] = Lookup(scores, k) + w
    <3>1. /\ reply'[h] = Accepted(Lookup(scores, k) + w)
          /\ k \in DOMAIN scores' /\ scores'[k] = Lookup(scores, k) + w
      BY <1>5, <2>1, AnsweredScore
    <3>2. \A s : Accepted(s).score = s
      BY DEF Accepted
    <3> HIDE DEF w
    <3> QED
      BY <3>1, <3>2
  <2>6. w \in Nat /\ Lookup(scores, k) \in Nat
    BY <1>1, WeightType, MaxU32Assumption DEF U32, Lookup
  <2>7. KeyOf(h)' = k
    BY <2>1, <2>2 DEF KeyOf
  <2>8. WeightFor(ScoredTier(req'[h])) = w
    BY <2>2
  <2> HIDE DEF w
  <2>9. ASSUME NEW g \in Handlers, g # h, Answered(g, "accepted", "none"), KeyOf(g) = k
        PROVE  reply'[h].score >= reply[g].score + w
    <3>1. k \in DOMAIN scores /\ reply[g].score <= scores[k] /\ pc[g] = "replied"
      BY <2>9 DEF ScoresSerialise, Answered
    <3>2. Lookup(scores, k) = scores[k]
      BY <3>1 DEF Lookup
    <3>3. reply[g].score \in Nat
      BY <3>1, MaxU32Assumption DEF TypeInv, TypeOK, TasksOK, Reply, U32
    <3> QED
      BY <2>5, <2>6, <3>1, <3>2, <3>3
  <2>10. reply'[h].score <= scores'[k]
    BY <2>5, <2>6
  <2> QED
    BY <1>1, <2>3, <2>4, <2>5, <2>7, <2>8, <2>9, <2>10, SerialKept
<1>6. ASSUME NEW h \in Handlers, PanicAddingCount(h) PROVE ScoresSerialise'
  <2>1. /\ HasLock(h) /\ Batch(h).rejected_replays = << >> /\ ~ ScoreOverflows(h)
        /\ scores' = Merge(scores, Batch(h).scores) /\ Answer(h, Dropped) /\ req' = req
    BY <1>6 DEF PanicAddingCount
  <2>2. Grew
    BY <2>1, ScoreGrows
  <2> QED
    BY <1>4, <2>1, <2>2 DEF Dropped
<1>7. ASSUME NEW h \in Handlers,
             RefuseEarly(h) \/ RefuseReplay(h) \/ PanicAddingScore(h) \/ PanicOnPoison(h)
      PROVE  ScoresSerialise'
  <2>1. req' = req /\ scores' = scores
    BY <1>7 DEF RefuseEarly, RefuseReplay, PanicAddingScore, PanicOnPoison, inner
  <2>2. PICK r : Answer(h, r) /\ r.kind # "accepted"
    BY <1>7 DEF RefuseEarly, RefuseReplay, PanicAddingScore, PanicOnPoison, Rejected, Dropped
  <2> QED
    BY <1>2, <1>4, <2>1, <2>2
<1>8. ASSUME NEW h \in Handlers, AskScore(h) PROVE ScoresSerialise'
  <2>1. PICK q \in Queries :
            /\ req' = [req EXCEPT ![h] = q]
            /\ Answer(h, IF poisoned THEN Dropped
                         ELSE ScoreResponse(Lookup(scores, ScoreKey(q)),
                                            Lookup(proof_counts, ScoreKey(q))))
    BY <1>8 DEF AskScore
  <2>2. \A g \in Handlers : g # h => req'[g] = req[g]
    BY <2>1 DEF TypeInv, TypeOK, TasksOK
  <2>3. scores' = scores
    BY <1>8 DEF AskScore, inner
  <2>4. PICK r : Answer(h, r) /\ r.kind # "accepted"
    BY <2>1 DEF Dropped, ScoreResponse
  <2> QED
    BY <1>2, <1>4, <2>2, <2>3, <2>4
<1>9. ASSUME NEW h \in Handlers, Receive(h) \/ PassChecks(h) \/ Finish(h)
      PROVE  ScoresSerialise'
  <2>1. Others(h) /\ scores' = scores /\ pc'[h] # "replied"
    BY <1>9 DEF Receive, PassChecks, Finish, GoTo, inner, TypeInv, TypeOK, TasksOK
  <2>2. ~ Answered(h, "accepted", "none")'
    BY <2>1 DEF Answered
  <2> QED
    BY <1>1, <1>2, <2>1, <2>2, SerialKept
<1>10. CASE Restart
  BY <1>10 DEF Restart, ScoresSerialise, Answered
<1>11. CASE UNCHANGED vars
  BY <1>11 DEF vars, tasks, inner, ScoresSerialise, Answered, KeyOf, Serial
<1> QED
  BY <1>5, <1>6, <1>7, <1>8, <1>9, <1>10, <1>11 DEF Next, Submit

\* Handlers that race for a key are credited one after the other, and their answers
\* show it: AcceptedScoresSerialise.
THEOREM ScoresInOrder == Spec => []AcceptedScoresSerialise
<1>1. TypeInv /\ ScoresSerialise => AcceptedScoresSerialise
  BY DEF ScoresSerialise, AcceptedScoresSerialise, Serial
<1>2. Init => ScoresSerialise
  BY DEF Init, ScoresSerialise, Answered
<1> QED
  BY TypeInit, TypeStep, SerialStep, <1>1, <1>2, PTL DEF Spec

----------------------------------------------------------------------------
(* The ledger.                                                             *)

\* A step that counts a fresh observation, without overflow, credits the ledger.
LEMMA CountIsCredit ==
    ASSUME TypeInv, CreditInv, OverflowChecks, NEW h \in Handlers,
           HasLock(h), Batch(h).rejected_replays = << >>, ~ ScoreOverflows(h),
           scores' = Merge(scores, Batch(h).scores),
           counted' = counted \cup {Observation(req[h])}
    PROVE  Ledger!LedgerNext
<1> DEFINE o == Observation(req[h])
           c == ContributorOf(o)
           k == KeyOf(h)
           w == WeightFor(o.tier)
           entries == {CreditOf(x) : x \in counted}
           shown == [key \in Keys |-> Lookup(scores, key)]
<1>1. /\ req[h] \in Requests /\ EarlyRejection(req[h]) = "none"
      /\ k \in Keys /\ k = ScoreKey(o)
      /\ o.nullifier \notin seen
      /\ scores' = AddAt(scores, k, w)
  BY CreditTypes DEF KeyOf
<1>2. Earned(o)
  BY <1>1, CheckedIsEarned
<1>3. c \in Secrets
  <2>1. PICK s \in Secrets :
            o.nullifier = FrToHex(Nullifier(s, FrFromHex(o.indicator_hash), o.epoch))
    BY <1>2 DEF Earned
  <2> HIDE DEF o
  <2>2. ContributorOf(o) = s
    BY <2>1 DEF ContributorOf, FrToHex, FrFromHex, Nullifier
  <2> QED
    BY <2>2
<1>4. w \in 0..MaxU32 /\ w \in Nat
  <2>1. w \in U32
    BY WeightType
  <2> HIDE DEF w
  <2> QED
    BY <2>1, MaxU32Assumption DEF U32
\* The contributor has no credit under the key: it would be guarded by this nullifier.
<1>5. ASSUME NEW x \in counted PROVE ~ (ContributorOf(x) = c /\ ScoreKey(x) = k)
  <2> SUFFICES ASSUME ContributorOf(x) = c, ScoreKey(x) = k PROVE FALSE
    OBVIOUS
  <2> HIDE DEF o
  <2>1. PICK s \in Secrets :
          o.nullifier = FrToHex(Nullifier(s, FrFromHex(o.indicator_hash), o.epoch))
    BY <1>2 DEF Earned
  <2>2. PICK t \in Secrets :
          x.nullifier = FrToHex(Nullifier(t, FrFromHex(x.indicator_hash), x.epoch))
    BY DEF CreditInv, Earned
  <2>3. ContributorOf(o) = s /\ ContributorOf(x) = t
    BY <2>1, <2>2 DEF ContributorOf, FrToHex, FrFromHex, Nullifier
  <2>4. x.indicator_hash = o.indicator_hash /\ x.epoch = o.epoch
    BY <1>1 DEF ScoreKey
  <2>5. x.nullifier = o.nullifier
    BY <2>1, <2>2, <2>3, <2>4
  <2> QED
    BY <1>1, <2>5 DEF CreditInv
<1>6. \A entry \in entries : ~ (entry.contributor = c /\ entry.key = k)
  BY <1>5 DEF CreditOf
<1>7. Lookup(scores, k) + w <= MaxU32
  BY ScoreFits
<1>8. entries' = entries \cup {[contributor |-> c, key |-> k, weight |-> w]}
  <2>1. CreditOf(o) = [contributor |-> c, key |-> k, weight |-> w]
    BY <1>1 DEF CreditOf
  <2> HIDE DEF o, c, k, w
  <2>2. counted' = counted \cup {o}
    BY DEF o
  <2>3. {CreditOf(x) : x \in counted'}
            = {CreditOf(x) : x \in counted} \cup {[contributor |-> c, key |-> k, weight |-> w]}
    BY <2>1, <2>2
  <2>4. entries' = {CreditOf(x) : x \in counted'}
    BY DEF CreditOf, ContributorOf, FrFromHex, ScoreKey, WeightFor
  <2> QED
    BY <2>3, <2>4
<1>9. shown' = [shown EXCEPT ![k] = @ + w]
  <2> HIDE DEF k, w
  <2>1. scores \in [DOMAIN scores -> U32]
    BY DEF TypeInv, TypeOK, TablesOK
  <2>2. ASSUME NEW key \in Keys
        PROVE  Lookup(scores', key)
                = IF key = k THEN Lookup(scores, k) + w ELSE Lookup(scores, key)
    BY <1>1, <1>4, <1>7, <2>1, ExactAdd
  <2>3. shown' = [key \in Keys |-> Lookup(scores', key)]
    BY DEF Lookup
  <2> QED
    BY <1>1, <2>2, <2>3
<1>10. shown[k] = Lookup(scores, k)
  BY <1>1
<1> HIDE DEF c, k, w
<1>11. Ledger!Credit(c, k, w)
  BY <1>6, <1>7, <1>8, <1>9, <1>10 DEF Ledger!Credit
<1> QED
  BY <1>1, <1>3, <1>4, <1>11 DEF Ledger!LedgerNext

LEMMA LedgerInit == Init => Ledger!Empty
BY DEF Init, Ledger!Empty, EmptyTable, Lookup

LEMMA LedgerStep ==
    ASSUME OverflowChecks
    PROVE  TypeInv /\ CreditInv /\ [Next]_vars => [Ledger!LedgerNext]_(Ledger!ledgerVars)
<1> SUFFICES ASSUME TypeInv, CreditInv, [Next]_vars
             PROVE  Ledger!LedgerNext \/ UNCHANGED Ledger!ledgerVars
  OBVIOUS
<1>1. ASSUME UNCHANGED <<scores, counted>> PROVE UNCHANGED Ledger!ledgerVars
  BY <1>1 DEF Ledger!ledgerVars, CreditOf, ContributorOf, FrFromHex, ScoreKey, WeightFor, Lookup
<1>2. ASSUME NEW h \in Handlers, Count(h) PROVE Ledger!LedgerNext
  BY <1>2, CountIsCredit DEF Count
<1>3. ASSUME NEW h \in Handlers, PanicAddingCount(h) PROVE Ledger!LedgerNext
  BY <1>3, CountIsCredit DEF PanicAddingCount
<1>4. CASE Restart
  <2>1. Ledger!Empty'
    BY <1>4 DEF Restart, Ledger!Empty, EmptyTable, Lookup
  <2> QED
    BY <2>1 DEF Ledger!LedgerNext, Ledger!Forget
<1>5. ASSUME NEW h \in Handlers,
             \/ Receive(h) \/ RefuseEarly(h) \/ PassChecks(h) \/ RefuseReplay(h)
             \/ PanicOnPoison(h) \/ AskScore(h) \/ Finish(h) \/ PanicAddingScore(h)
      PROVE  UNCHANGED <<scores, counted>>
  BY <1>5 DEF Receive, RefuseEarly, PassChecks, RefuseReplay, PanicOnPoison, AskScore,
              Finish, PanicAddingScore, inner
<1>6. UNCHANGED vars => UNCHANGED <<scores, counted>>
  BY DEF vars, inner
<1> QED
  BY <1>1, <1>2, <1>3, <1>4, <1>5, <1>6 DEF Next, Submit

\* In a build with overflow checks the relay implements the abstract ledger:
\* every behaviour of it, seen through the tables, is one of ScoreLedger.
THEOREM Refinement == ASSUME OverflowChecks PROVE Spec => ImplementsLedger
<1>1. TypeInv /\ CreditInv /\ [Next]_vars => [Ledger!LedgerNext]_(Ledger!ledgerVars)
  BY LedgerStep
<1> QED
  BY CreditInvariant, LedgerInit, <1>1, PTL DEF Spec, ImplementsLedger, Ledger!LedgerSpec

----------------------------------------------------------------------------
(* Exports: the walk over the hash map, filtered.                          *)

\* The filter, round by round: its recursive function exists.
LEMMA WalkedRounds ==
    ASSUME NEW wanted, Len(order) \in Nat
    PROVE  \E kept :
            /\ Walked(wanted) = kept[Len(order)]
            /\ kept[0] = << >>
            /\ \A n \in 1..Len(order) :
                kept[n] = IF order[n] \in wanted THEN Append(kept[n - 1], order[n])
                          ELSE kept[n - 1]
<1> DEFINE e(f, n) == IF n = 0 THEN << >>
                      ELSE IF order[n] \in wanted THEN Append(f[n - 1], order[n])
                      ELSE f[n - 1]
           Upto(f, m) == \A n \in 0..m : f[n] = e(f, n)
           S == {m \in Nat : \E f : Upto(f, m)}
<1>1. 0 \in S
  <2> DEFINE g == [n \in {0} |-> << >>]
  <2>1. Upto(g, 0)
    OBVIOUS
  <2> QED
    BY <2>1
<1>2. ASSUME NEW m \in Nat, m \in S PROVE m + 1 \in S
  <2>1. PICK f : Upto(f, m)
    BY <1>2
  <2> DEFINE g == [n \in 0..(m + 1) |-> e(f, n)]
  <2>2. ASSUME NEW n \in 0..(m + 1) PROVE g[n] = e(g, n)
    <3>1. CASE n = 0
      BY <3>1
    <3>2. CASE n # 0
      <4>1. n - 1 \in 0..m /\ n - 1 \in 0..(m + 1)
        BY <3>2
      <4>2. g[n - 1] = f[n - 1]
        BY <2>1, <4>1
      <4> QED
        BY <3>2, <4>2
    <3> QED
      BY <3>1, <3>2
  <2>3. Upto(g, m + 1)
    BY <2>2
  <2> HIDE DEF g, Upto
  <2> QED
    BY <2>3
<1>3. Len(order) \in S
  <2> HIDE DEF S
  <2> QED
    BY <1>1, <1>2, InductionOnSet
<1>4. PICK f : Upto(f, Len(order))
  BY <1>3
<1> DEFINE whole == [n \in 0..Len(order) |-> f[n]]
<1>5. \A n \in 0..Len(order) : n # 0 => n - 1 \in 0..Len(order)
  OBVIOUS
<1>6. whole = [n \in 0..Len(order) |-> e(whole, n)]
  BY <1>4, <1>5
<1> HIDE DEF whole
<1> DEFINE kept == CHOOSE g : g = [n \in 0..Len(order) |-> e(g, n)]
<1>7. kept = [n \in 0..Len(order) |-> e(kept, n)]
  BY <1>6
<1>8. Walked(wanted) = kept[Len(order)]
  BY DEF Walked
<1> HIDE DEF kept
<1>9. kept[0] = << >>
  <2>1. 0 \in 0..Len(order)
    OBVIOUS
  <2> QED
    BY <1>7, <2>1
<1>10. ASSUME NEW n \in 1..Len(order)
       PROVE  kept[n] = IF order[n] \in wanted THEN Append(kept[n - 1], order[n])
                        ELSE kept[n - 1]
  <2>1. n \in 0..Len(order) /\ n # 0
    OBVIOUS
  <2>2. kept[n] = e(kept, n)
    BY <1>7, <2>1
  <2> QED
    BY <2>1, <2>2
<1> QED
  BY <1>8, <1>9, <1>10

\* It keeps what is wanted of what is walked, and nothing else.
LEMMA WalkedHas ==
    ASSUME NEW S, order \in Seq(S), NEW wanted
    PROVE  /\ Walked(wanted) \in Seq(wanted)
           /\ \A j \in DOMAIN Walked(wanted) : \E n \in DOMAIN order : Walked(wanted)[j] = order[n]
           /\ \A n \in DOMAIN order : order[n] \in wanted =>
                \E j \in DOMAIN Walked(wanted) : Walked(wanted)[j] = order[n]
<1>1. Len(order) \in Nat /\ DOMAIN order = 1..Len(order)
  OBVIOUS
<1>2. PICK kept :
        /\ Walked(wanted) = kept[Len(order)]
        /\ kept[0] = << >>
        /\ \A n \in 1..Len(order) :
            kept[n] = IF order[n] \in wanted THEN Append(kept[n - 1], order[n])
                      ELSE kept[n - 1]
  BY <1>1, WalkedRounds
<1> DEFINE P(n) ==
            /\ kept[n] \in Seq(wanted)
            /\ \A j \in DOMAIN kept[n] : \E i \in 1..n : kept[n][j] = order[i]
            /\ \A i \in 1..n : order[i] \in wanted => \E j \in DOMAIN kept[n] : kept[n][j] = order[i]
           R == {n \in Nat : n <= Len(order) => P(n)}
<1>3. 0 \in R
  <2>1. /\ kept[0] = << >> /\ << >> \in Seq(wanted)
        /\ \A j \in DOMAIN << >> : FALSE
        /\ \A i \in 1..0 : FALSE
    BY <1>2
  <2>2. P(0)
    BY <2>1
  <2> QED
    BY <2>2
<1>4. ASSUME NEW n \in Nat, n \in R, n + 1 <= Len(order) PROVE P(n + 1)
  <2>1. P(n) /\ n + 1 \in 1..Len(order) /\ (n + 1) - 1 = n
    BY <1>1, <1>4
  <2>2. CASE order[n + 1] \notin wanted
    <3>1. kept[n + 1] = kept[n]
      BY <1>2, <2>1, <2>2
    <3>2. \A i \in 1..(n + 1) : i \in 1..n \/ i = n + 1
      OBVIOUS
    <3>3. 1..n \subseteq 1..(n + 1)
      OBVIOUS
    <3> QED
      BY <2>1, <2>2, <3>1, <3>2, <3>3
  <2>3. CASE order[n + 1] \in wanted
    <3> DEFINE s == kept[n]
               k == order[n + 1]
    <3>1. kept[n + 1] = Append(s, k) /\ s \in Seq(wanted) /\ k \in wanted
      BY <1>2, <2>1, <2>3
    <3>2. PICK t : t = kept[n + 1]
      OBVIOUS
    <3>3. /\ t \in Seq(wanted) /\ Len(s) \in Nat
          /\ DOMAIN t = 1..(Len(s) + 1) /\ DOMAIN s = 1..Len(s)
          /\ \A j \in 1..Len(s) : t[j] = s[j]
          /\ t[Len(s) + 1] = k
      BY <3>1, <3>2
    <3>4. \A i \in 1..(n + 1) : i \in 1..n \/ i = n + 1
      OBVIOUS
    <3>5. n + 1 \in 1..(n + 1) /\ 1..n \subseteq 1..(n + 1)
      OBVIOUS
    <3>6. /\ \A j \in DOMAIN s : \E i \in 1..n : s[j] = order[i]
          /\ \A i \in 1..n : order[i] \in wanted => \E j \in DOMAIN s : s[j] = order[i]
      BY <2>1
    <3>7. \A j \in DOMAIN t : j \in DOMAIN s \/ j = Len(s) + 1
      BY <3>3
    <3>8. DOMAIN s \subseteq DOMAIN t /\ Len(s) + 1 \in DOMAIN t
      BY <3>3
    <3>9. \A j \in DOMAIN s : t[j] = s[j]
      BY <3>3
    <3> HIDE DEF s
    <3>10. \A j \in DOMAIN t : \E i \in 1..(n + 1) : t[j] = order[i]
      <4> SUFFICES ASSUME NEW j \in DOMAIN t PROVE \E i \in 1..(n + 1) : t[j] = order[i]
        OBVIOUS
      <4>1. CASE j \in DOMAIN s
        <5>1. PICK i \in 1..n : s[j] = order[i]
          BY <3>6, <4>1
        <5>2. i \in 1..(n + 1) /\ t[j] = order[i]
          BY <3>5, <3>9, <4>1, <5>1
        <5> QED
          BY <5>2
      <4>2. CASE j = Len(s) + 1
        <5>1. t[j] = order[n + 1]
          BY <3>3, <4>2
        <5> QED
          BY <3>5, <5>1
      <4> QED
        BY <3>7, <4>1, <4>2
    <3>11. \A i \in 1..(n + 1) : order[i] \in wanted => \E j \in DOMAIN t : t[j] = order[i]
      BY <3>3, <3>4, <3>6, <3>8, <3>9
    <3> QED
      BY <3>2, <3>3, <3>10, <3>11
  <2> QED
    BY <2>2, <2>3
<1>5. Len(order) \in R
  <2>1. \A n \in Nat : n \in R => n + 1 \in R
    BY <1>4
  <2> HIDE DEF R
  <2> QED
    BY <1>1, <1>3, <2>1, InductionOnSet
<1>6. P(Len(order))
  BY <1>1, <1>5
<1> QED
  BY <1>1, <1>2, <1>6

\* The walk visits every key of the map.
WalkInv == order \in SetToSeqs(DOMAIN scores)

LEMMA WalkVisits ==
    ASSUME WalkInv, IsFiniteSet(DOMAIN scores)
    PROVE  /\ order \in Seq(DOMAIN scores)
           /\ \A k \in DOMAIN scores : \E n \in DOMAIN order : order[n] = k
<1> DEFINE m == Cardinality(DOMAIN scores)
<1>1. m \in Nat
  BY FS_CardinalityType
<1>2. order \in [1..m -> DOMAIN scores] /\ \A i, j \in 1..m : i # j => order[i] # order[j]
  BY DEF WalkInv, SetToSeqs
<1>3. order \in Seq(DOMAIN scores)
  BY <1>1, <1>2
<1>4. IsFiniteSet(1..m) /\ Cardinality(1..m) = m
  BY <1>1, FS_Interval
<1>5. DOMAIN order = 1..m
  BY <1>2
<1> HIDE DEF m
<1>6. order \in Injection(1..m, DOMAIN scores)
  BY <1>2 DEF Injection, IsInjective
<1>7. order \in Surjection(1..m, DOMAIN scores)
  BY <1>4, <1>6, FS_Injection DEF m
<1>8. \A k \in DOMAIN scores : \E n \in 1..m : order[n] = k
  BY <1>7 DEF Surjection
<1> QED
  BY <1>3, <1>5, <1>8

\* The relay goes on as before under the exports.
LEMMA RelayUnderneath == ExportSpec => Spec
<1>1. ExportInit => Init
  BY DEF ExportInit
<1>2. [ExportNext]_exportVars => [Next]_vars
  BY DEF ExportNext, RelayStep, ExportStix, ExportMisp, Next, exportVars
<1> QED
  BY <1>1, <1>2, PTL DEF ExportSpec, Spec

LEMMA WalkInvariant == ExportSpec => []WalkInv
<1>1. ExportInit => WalkInv
  <2> SUFFICES ASSUME ExportInit PROVE WalkInv
    OBVIOUS
  <2>1. order = << >> /\ DOMAIN scores = {}
    BY DEF ExportInit, Init, EmptyTable
  <2>2. 1..Cardinality({}) = {}
    BY FS_EmptySet
  <2>3. << >> \in [{} -> {}]
    OBVIOUS
  <2> QED
    BY <2>1, <2>2, <2>3 DEF WalkInv, SetToSeqs
<1>2. ASSUME WalkInv, Walk PROVE WalkInv'
  BY <1>2 DEF WalkInv, Walk
<1>3. ASSUME WalkInv, UNCHANGED <<vars, order>> PROVE WalkInv'
  BY <1>3 DEF WalkInv, vars, inner
<1>4. WalkInv /\ [ExportNext]_exportVars => WalkInv'
  BY <1>2, <1>3 DEF ExportNext, RelayStep, ExportStix, ExportMisp, exportVars
<1> QED
  BY <1>1, <1>4, PTL DEF ExportSpec

\* What the exports read.
ExportInv == TypeInv /\ CreditInv /\ TablesTell /\ DisclosureIsSound /\ WalkInv

LEMMA ExportInvariant == ExportSpec => []ExportInv
BY RelayUnderneath, TablesInvariant, DisclosureSound, WalkInvariant, PTL DEF ExportInv

\* The keys that an export with a threshold reports.
Wanted(threshold) ==
    {k \in DOMAIN scores : scores[k] >= threshold /\ k[1] \in DOMAIN disclosed}

\* The inputs of an export are the entries of those keys.
LEMMA InputsAre ==
    ASSUME ExportInv, NEW threshold
    PROVE  /\ \E n \in Nat : DOMAIN Inputs(threshold) = 1..n
           /\ \A i \in DOMAIN Inputs(threshold) :
                \E k \in Wanted(threshold) : Inputs(threshold)[i] = Input(k)
           /\ \A k \in Wanted(threshold) :
                \E i \in DOMAIN Inputs(threshold) : Inputs(threshold)[i] = Input(k)
<1>1. DOMAIN scores = {ScoreKey(o) : o \in counted} /\ IsFiniteSet(counted)
  BY DEF ExportInv, TablesTell, ScoreIsWeightedCount
<1>2. IsFiniteSet(DOMAIN scores)
  <2> DEFINE f == [o \in counted |-> ScoreKey(o)]
  <2>1. f \in Surjection(counted, DOMAIN scores)
    BY <1>1 DEF Surjection
  <2> HIDE DEF f
  <2> QED
    BY <1>1, <2>1, FS_Surjection
<1>3. /\ order \in Seq(DOMAIN scores)
      /\ \A k \in DOMAIN scores : \E n \in DOMAIN order : order[n] = k
  BY <1>2, WalkVisits DEF ExportInv
<1> DEFINE W == Wanted(threshold)
           keys == Walked(W)
<1>4. /\ keys \in Seq(W)
      /\ \A n \in DOMAIN order : order[n] \in W => \E j \in DOMAIN keys : keys[j] = order[n]
  BY <1>3, WalkedHas
<1>5. Inputs(threshold) = [i \in DOMAIN keys |-> Input(keys[i])]
  BY DEF Inputs, Wanted
<1>6. W \subseteq DOMAIN scores
  BY DEF Wanted
<1> HIDE DEF keys, W
<1>7. Len(keys) \in Nat /\ DOMAIN keys = 1..Len(keys)
  BY <1>4
<1>8. \A i \in DOMAIN keys : keys[i] \in W
  BY <1>4
<1>9. \A k \in W : \E i \in DOMAIN keys : keys[i] = k
  BY <1>3, <1>4, <1>6
<1> QED
  BY <1>5, <1>7, <1>8, <1>9 DEF W

\* What is wanted is typed: a text of the relay's own with an epoch, a raw indicator.
LEMMA WantedTypes ==
    ASSUME ExportInv, NEW threshold, NEW k \in Wanted(threshold)
    PROVE  /\ k \in Keys /\ k[2] \in Epochs
           /\ Input(k).raw_indicator \in Raws
           /\ Input(k).raw_indicator = disclosed[k[1]]
           /\ Input(k).epoch = k[2]
           /\ Input(k).score = scores[k]
           /\ Input(k).proof_count = Lookup(proof_counts, k)
<1>1. k \in DOMAIN scores /\ k[1] \in DOMAIN disclosed
  BY DEF Wanted
<1>2. DOMAIN scores \subseteq Keys /\ disclosed \in [DOMAIN disclosed -> Raws]
  BY DEF ExportInv, TypeInv, TypeOK, TablesOK
<1>3. k[2] \in Epochs
  BY <1>1, <1>2 DEF Keys
<1> QED
  BY <1>1, <1>2, <1>3 DEF Input

----------------------------------------------------------------------------
(* Exports: the type of a disclosed string.                                *)

\* The test that decides is the first one passed, and its kind is a kind.
LEMMA FirstDecides ==
    ASSUME NEW s \in Strings
    PROVE  \/ Passes[s] = {} /\ FirstPassed(s) = "Unrecognized"
           \/ \E m \in 1..7 :
                /\ Tried[m][1] \in Passes[s]
                /\ \A j \in 1..7 : Tried[j][1] \in Passes[s] => m <= j
                /\ FirstPassed(s) = Tried[m][2]
<1> DEFINE hits == {i \in DOMAIN Tried : Tried[i][1] \in Passes[s]}
<1>1. DOMAIN Tried = 1..7
  BY DEF Tried
<1>2. Passes[s] \subseteq Tests
  BY TestsAssumption
<1>3. CASE hits = {}
  <2>1. \A t \in Tests : \E i \in 1..7 : Tried[i][1] = t
    <3>1. /\ Tried[1][1] = "hex32" /\ Tried[2][1] = "hex40" /\ Tried[3][1] = "hex64"
          /\ Tried[4][1] = "ipv4" /\ Tried[5][1] = "ipv6" /\ Tried[6][1] = "scheme"
          /\ Tried[7][1] = "domain"
      BY DEF Tried
    <3> QED
      BY <3>1 DEF Tests
  <2>2. Passes[s] = {}
    BY <1>1, <1>2, <1>3, <2>1
  <2> QED
    BY <1>3, <2>2 DEF FirstPassed
<1>4. CASE hits # {}
  <2>1. hits \subseteq Nat
    BY <1>1
  <2>2. \E x \in hits : \A y \in hits : x <= y
    <3> HIDE DEF hits
    <3> QED
      BY <1>4, <2>1, LeastElement
  <2> DEFINE m == Min(hits)
  <2>3. m \in hits /\ \A y \in hits : m <= y
    <3> HIDE DEF hits
    <3> QED
      BY <2>2 DEF Min
  <2>4. FirstPassed(s) = Tried[m][2]
    BY <1>4 DEF FirstPassed
  <2> HIDE DEF m
  <2>5. m \in 1..7 /\ Tried[m][1] \in Passes[s]
    BY <1>1, <2>3
  <2>6. \A j \in 1..7 : Tried[j][1] \in Passes[s] => m <= j
    BY <1>1, <2>3
  <2> QED
    BY <2>4, <2>5, <2>6
<1> QED
  BY <1>3, <1>4

LEMMA KindIsKind == ASSUME NEW s \in Strings PROVE FirstPassed(s) \in Kinds
<1>1. \A m \in 1..7 : Tried[m][2] \in Kinds
  <2>1. /\ Tried[1][2] = "Md5" /\ Tried[2][2] = "Sha1" /\ Tried[3][2] = "Sha256"
        /\ Tried[4][2] = "Ipv4" /\ Tried[5][2] = "Ipv6" /\ Tried[6][2] = "Url"
        /\ Tried[7][2] = "Domain"
    BY DEF Tried
  <2> QED
    BY <2>1 DEF Kinds
<1>2. "Unrecognized" \in Kinds
  BY DEF Kinds
<1> QED
  BY <1>1, <1>2, FirstDecides

\* The tests overlap only where an address reads as dotted labels, so the first one
\* passed is the narrowest.
LEMMA NarrowestType ==
    ASSUME NEW s \in Strings
    PROVE  TypeIsNarrowest([path |-> StixPath[FirstPassed(s)], text |-> s])
<1> DEFINE p == StixPath[FirstPassed(s)]
           P == Passes[s]
<1>1. /\ \A t, u \in P : t # u => (t = "ipv4" /\ u = "domain") \/ (t = "domain" /\ u = "ipv4")
      /\ "ipv4" \in P => "domain" \in P
      /\ P \subseteq Tests
  BY TestsAssumption
<1>2. /\ Tried[1] = <<"hex32", "Md5">> /\ Tried[2] = <<"hex40", "Sha1">>
      /\ Tried[3] = <<"hex64", "Sha256">> /\ Tried[4] = <<"ipv4", "Ipv4">>
      /\ Tried[5] = <<"ipv6", "Ipv6">> /\ Tried[6] = <<"scheme", "Url">>
      /\ Tried[7] = <<"domain", "Domain">>
  BY DEF Tried
<1>3. /\ StixPath["Md5"] = "file:hashes.MD5" /\ StixPath["Sha1"] = "file:hashes.SHA-1"
      /\ StixPath["Sha256"] = "file:hashes.SHA-256" /\ StixPath["Ipv4"] = "ipv4-addr"
      /\ StixPath["Ipv6"] = "ipv6-addr" /\ StixPath["Url"] = "url"
      /\ StixPath["Domain"] = "domain-name"
      /\ StixPath["Unrecognized"] = "x-umbra:unrecognized-indicator"
  BY DEF StixPath, Kinds
<1> DEFINE Narrow == /\ p = "ipv4-addr" <=> "ipv4" \in P
                     /\ p = "ipv6-addr" <=> "ipv6" \in P
                     /\ p = "url" <=> "scheme" \in P
                     /\ p = "domain-name" <=> "domain" \in P /\ "ipv4" \notin P
                     /\ p = "x-umbra:unrecognized-indicator" <=> P = {}
<1>4. CASE P = {} /\ FirstPassed(s) = "Unrecognized"
  <2>1. Narrow
    BY <1>3, <1>4
  <2> QED
    BY <2>1 DEF TypeIsNarrowest
<1>5. ASSUME NEW m \in 1..7, Tried[m][1] \in P,
             \A j \in 1..7 : Tried[j][1] \in P => m <= j,
             FirstPassed(s) = Tried[m][2]
      PROVE  TypeIsNarrowest([path |-> p, text |-> s])
  <2> HIDE DEF P
  <2>0. 4 \in 1..7 /\ (Tried[4][1] \in P => m <= 4)
    BY <1>5
  <2>1. m = 1 \/ m = 2 \/ m = 3 \/ m = 4 \/ m = 5 \/ m = 6 \/ m = 7
    OBVIOUS
  <2>2. CASE m = 1
    <3>1. Narrow
      BY <1>1, <1>2, <1>3, <1>5, <2>2
    <3> QED
      BY <3>1 DEF TypeIsNarrowest, P
  <2>3. CASE m = 2
    <3>1. Narrow
      BY <1>1, <1>2, <1>3, <1>5, <2>3
    <3> QED
      BY <3>1 DEF TypeIsNarrowest, P
  <2>4. CASE m = 3
    <3>1. Narrow
      BY <1>1, <1>2, <1>3, <1>5, <2>4
    <3> QED
      BY <3>1 DEF TypeIsNarrowest, P
  <2>5. CASE m = 4
    <3>1. Narrow
      BY <1>1, <1>2, <1>3, <1>5, <2>5
    <3> QED
      BY <3>1 DEF TypeIsNarrowest, P
  <2>6. CASE m = 5
    <3>1. Narrow
      BY <1>1, <1>2, <1>3, <1>5, <2>6
    <3> QED
      BY <3>1 DEF TypeIsNarrowest, P
  <2>7. CASE m = 6
    <3>1. Narrow
      BY <1>1, <1>2, <1>3, <1>5, <2>7
    <3> QED
      BY <3>1 DEF TypeIsNarrowest, P
  <2>8. CASE m = 7
    <3>1. Narrow
      BY <1>1, <1>2, <1>3, <1>5, <2>0, <2>8
    <3> QED
      BY <3>1 DEF TypeIsNarrowest, P
  <2> QED
    BY <2>1, <2>2, <2>3, <2>4, <2>5, <2>6, <2>7, <2>8
<1> QED
  BY <1>4, <1>5, FirstDecides

\* The attribute type of a kind stands for its object path.
LEMMA TypesCorrespond ==
    ASSUME NEW kind \in Kinds
    PROVE  SameType(StixPath[kind], misp_type_and_category[kind][1])
<1>1. /\ StixPath["Md5"] = "file:hashes.MD5" /\ StixPath["Sha1"] = "file:hashes.SHA-1"
      /\ StixPath["Sha256"] = "file:hashes.SHA-256" /\ StixPath["Ipv4"] = "ipv4-addr"
      /\ StixPath["Ipv6"] = "ipv6-addr" /\ StixPath["Url"] = "url"
      /\ StixPath["Domain"] = "domain-name"
      /\ StixPath["Unrecognized"] = "x-umbra:unrecognized-indicator"
  BY DEF StixPath, Kinds
<1> DEFINE type(k) == misp_type_and_category[k][1]
<1>2. /\ type("Md5") = "md5" /\ type("Sha1") = "sha1" /\ type("Sha256") = "sha256"
      /\ type("Ipv4") = "ip-dst" /\ type("Ipv6") = "ip-dst" /\ type("Url") = "url"
      /\ type("Domain") = "domain" /\ type("Unrecognized") = "text"
  BY DEF misp_type_and_category, Kinds
<1> HIDE DEF type
<1>3. <<StixPath[kind], type(kind)>> \in
        {<<"file:hashes.MD5", "md5">>, <<"file:hashes.SHA-1", "sha1">>,
         <<"file:hashes.SHA-256", "sha256">>, <<"ipv4-addr", "ip-dst">>,
         <<"ipv6-addr", "ip-dst">>, <<"url", "url">>, <<"domain-name", "domain">>,
         <<"x-umbra:unrecognized-indicator", "text">>}
  BY <1>1, <1>2 DEF Kinds
<1> QED
  BY <1>3 DEF SameType, type

\* Both builders classify the trimmed text: STIX trims what classify trims once more.
LEMMA TrimmedOnce ==
    ASSUME NEW raw \in Raws
    PROVE  /\ classify(Trimmed[raw]) = FirstPassed(Trimmed[raw])
           /\ classify(raw) = FirstPassed(Trimmed[raw])
           /\ Trimmed[raw] \in Strings
BY TrimAssumption, SpellingsAssumption DEF classify

----------------------------------------------------------------------------
(* Exports: the two formats.                                               *)

\* The two formats list the same indicators of the same moment, under corresponding
\* types, with the same dates and proofs: MispAgreesWithStix.
THEOREM FormatsAgree == ExportSpec => []MispAgreesWithStix
<1>1. ExportInv => MispAgreesWithStix
  <2> SUFFICES ASSUME ExportInv PROVE MispAgreesWithStix
    OBVIOUS
  <2> SUFFICES ASSUME NEW threshold \in Thresholds
               PROVE  LET event == MispEvent(threshold)
                          bundle == StixBundle(threshold)
                          Same(x, y) ==
                            /\ Trimmed[x.value] = y.pattern.text
                            /\ SameType(y.pattern.path, x.type[1])
                            /\ x.first_seen = y.valid_from
                            /\ x.proof_count = y.x_umbra_proof_count
                            /\ x.to_ids <=> y.confidence >= ToIdsThreshold
                      IN  /\ \A x \in event.objects : \E y \in bundle.objects : Same(x, y)
                          /\ \A y \in bundle.objects : \E x \in event.objects : Same(x, y)
                          /\ event.date # 0 => \E x \in event.objects : x.first_seen = event.date
    BY DEF MispAgreesWithStix
  <2> DEFINE inputs == Inputs(threshold)
             J == {j \in DOMAIN inputs : IsDate(inputs[j].epoch)}
             X(i) == [type |-> misp_type_and_category[classify(inputs[i].raw_indicator)],
                      value |-> inputs[i].raw_indicator,
                      to_ids |-> NormalizeConfidence(inputs[i].score) >= ToIdsThreshold,
                      proof_count |-> inputs[i].proof_count,
                      first_seen |-> ValidFrom(inputs[i].epoch)]
             Y(i) == [id |-> Uuid(inputs[i].raw_indicator, inputs[i].epoch, i - 1),
                      pattern |-> stix_pattern_for(inputs[i].raw_indicator),
                      valid_from |-> ValidFrom(inputs[i].epoch),
                      valid_until |-> ValidUntil(inputs[i].epoch),
                      confidence |-> NormalizeConfidence(inputs[i].score),
                      x_umbra_proof_count |-> inputs[i].proof_count]
  <2>1. \A i \in DOMAIN inputs : inputs[i].raw_indicator \in Raws
    BY InputsAre, WantedTypes
  <2>2. MispEvent(threshold).objects = {X(i) : i \in J}
    BY DEF MispEvent, MispInputs
  <2>3. StixBundle(threshold).objects = {Y(i) : i \in J}
    BY DEF StixBundle
  <2>4. MispEvent(threshold).date = IF inputs # << >> /\ IsDate(inputs[1].epoch)
                                    THEN ValidFrom(inputs[1].epoch) ELSE 0
    BY DEF MispEvent, MispInputs
  <2>5. inputs # << >> => 1 \in DOMAIN inputs
    <3>1. PICK n \in Nat : DOMAIN inputs = 1..n
      BY InputsAre
    <3>2. \E f : inputs = [i \in DOMAIN inputs |-> f[i]]
      <4>1. inputs = [i \in DOMAIN inputs |-> inputs[i]]
        BY DEF Inputs
      <4> QED
        BY <4>1
    <3>3. CASE n = 0
      <4>1. DOMAIN inputs = {}
        BY <3>1, <3>3
      <4>2. inputs = << >>
        BY <3>2, <4>1
      <4> QED
        BY <4>2
    <3>4. CASE n # 0
      BY <3>1, <3>4
    <3> QED
      BY <3>3, <3>4
  <2> HIDE DEF inputs
  <2>6. ASSUME NEW i \in J
        PROVE  /\ Trimmed[X(i).value] = Y(i).pattern.text
               /\ SameType(Y(i).pattern.path, X(i).type[1])
               /\ X(i).first_seen = Y(i).valid_from
               /\ X(i).proof_count = Y(i).x_umbra_proof_count
               /\ X(i).to_ids <=> Y(i).confidence >= ToIdsThreshold
    <3>1. PICK raw \in Raws : raw = inputs[i].raw_indicator
      BY <2>1
    <3> DEFINE kind == FirstPassed(Trimmed[raw])
    <3>2. kind \in Kinds
      BY TrimmedOnce, KindIsKind
    <3>3. Y(i).pattern.path = StixPath[kind] /\ Y(i).pattern.text = Trimmed[raw]
      BY <3>1, TrimmedOnce DEF stix_pattern_for
    <3>4. X(i).type = misp_type_and_category[kind] /\ X(i).value = raw
      BY <3>1, TrimmedOnce
    <3> HIDE DEF kind
    <3>5. SameType(StixPath[kind], misp_type_and_category[kind][1])
      BY <3>2, TypesCorrespond
    <3> QED
      BY <3>3, <3>4, <3>5
  <2>7. \A i \in J : X(i).first_seen = ValidFrom(inputs[i].epoch)
    OBVIOUS
  <2> HIDE DEF X, Y
  <2>8. MispEvent(threshold).date # 0 =>
            \E x \in MispEvent(threshold).objects : x.first_seen = MispEvent(threshold).date
    BY <2>2, <2>4, <2>5, <2>7
  <2> QED
    BY <2>2, <2>3, <2>6, <2>8
<1> QED
  BY <1>1, ExportInvariant, PTL

----------------------------------------------------------------------------
(* Exports: what a consumer was told stays true.                           *)

LEMMA QuotientBound ==
    ASSUME NEW x \in Nat, NEW m \in Nat, m > 0, NEW q \in Nat, x < m * (q + 1)
    PROVE  x \div m <= q
<1> DEFINE d == x \div m
<1>1. d \in Nat /\ x = m * d + (x % m) /\ x % m \in Nat
  OBVIOUS
<1> HIDE DEF d
<1>2. SUFFICES ASSUME d > q PROVE FALSE
  BY <1>1 DEF d
<1>3. PICK e \in Nat : d = (q + 1) + e
  <2>1. d - (q + 1) \in Nat /\ d = (q + 1) + (d - (q + 1))
    BY <1>1, <1>2
  <2> QED
    BY <2>1
<1>4. m * d = m * (q + 1) + m * e /\ m * e \in Nat /\ m * (q + 1) \in Nat
  BY <1>3
<1> QED
  BY <1>1, <1>4

LEMMA QuotientGrows ==
    ASSUME NEW x \in Nat, NEW y \in Nat, x <= y, NEW m \in Nat, m > 0
    PROVE  x \div m <= y \div m
<1> DEFINE q == y \div m
<1>1. q \in Nat /\ y = m * q + (y % m) /\ y % m \in 0..(m - 1)
  OBVIOUS
<1> HIDE DEF q
<1>2. m * (q + 1) = m * q + m /\ m * q \in Nat
  BY <1>1
<1>3. x < m * (q + 1)
  BY <1>1, <1>2
<1> QED
  BY <1>1, <1>3, QuotientBound DEF q

\* More score is no less confidence.
LEMMA ConfidenceGrows ==
    ASSUME NEW a \in Nat, NEW b \in Nat, a <= b
    PROVE  /\ NormalizeConfidence(a) \in Nat
           /\ NormalizeConfidence(a) <= NormalizeConfidence(b)
<1>1. FullConfidence \in Nat
  BY ConfidenceAssumption, MaxU32Assumption DEF U32
<1> DEFINE F == FullConfidence
<1>2. \A s \in Nat : NormalizeConfidence(s) = IF F = 0 \/ s >= F THEN 100 ELSE (s * 100) \div F
  BY DEF NormalizeConfidence
<1> HIDE DEF F
<1>3. F \in Nat
  BY <1>1 DEF F
<1>4. CASE F = 0 \/ a >= F
  BY <1>2, <1>3, <1>4
<1>5. CASE F > 0 /\ a < F
  <2>1. (a * 100) \div F \in Nat
    BY <1>3, <1>5
  <2>2. CASE b >= F
    <3>1. a * 100 < F * (100 + 1) /\ a * 100 \in Nat
      BY <1>3, <1>5
    <3>2. (a * 100) \div F <= 100
      BY <1>3, <1>5, <3>1, QuotientBound
    <3> QED
      BY <1>2, <1>3, <1>5, <2>1, <2>2, <3>2
  <2>3. CASE b < F
    <3>1. a * 100 <= b * 100 /\ a * 100 \in Nat /\ b * 100 \in Nat
      OBVIOUS
    <3>2. (a * 100) \div F <= (b * 100) \div F
      BY <1>3, <1>5, <3>1, QuotientGrows
    <3> QED
      BY <1>2, <1>3, <1>5, <2>1, <2>3, <3>2
  <2> QED
    BY <1>3, <2>2, <2>3
<1> QED
  BY <1>3, <1>4, <1>5

\* An object of a STIX export, and a key that would be exported as no less today.
Backs(k, old) ==
    /\ IsDate(k[2])
    /\ old.pattern = stix_pattern_for(disclosed[k[1]])
    /\ old.valid_from = ValidFrom(k[2])
    /\ old.confidence \in Nat /\ old.confidence <= NormalizeConfidence(scores[k])
    /\ old.x_umbra_proof_count \in Nat /\ old.x_umbra_proof_count <= Lookup(proof_counts, k)

StillBacked ==
    OverflowChecks /\ Received("stix") =>
        /\ latest.threshold \in Nat
        /\ \A old \in latest.objects : \E k \in Wanted(latest.threshold) : Backs(k, old)

\* A bundle says of each key what the tables say.
LEMMA BundleObject ==
    ASSUME ExportInv, NEW threshold, NEW x \in StixBundle(threshold).objects
    PROVE  \E k \in Wanted(threshold) :
            /\ IsDate(k[2])
            /\ x.pattern = stix_pattern_for(disclosed[k[1]])
            /\ x.valid_from = ValidFrom(k[2])
            /\ x.valid_until = ValidUntil(k[2])
            /\ x.confidence = NormalizeConfidence(scores[k])
            /\ x.x_umbra_proof_count = Lookup(proof_counts, k)
<1> DEFINE inputs == Inputs(threshold)
           Y(i) == [id |-> Uuid(inputs[i].raw_indicator, inputs[i].epoch, i - 1),
                    pattern |-> stix_pattern_for(inputs[i].raw_indicator),
                    valid_from |-> ValidFrom(inputs[i].epoch),
                    valid_until |-> ValidUntil(inputs[i].epoch),
                    confidence |-> NormalizeConfidence(inputs[i].score),
                    x_umbra_proof_count |-> inputs[i].proof_count]
<1>1. StixBundle(threshold).objects = {Y(i) : i \in {j \in DOMAIN inputs : IsDate(inputs[j].epoch)}}
  BY DEF StixBundle
<1>2. PICK i \in DOMAIN inputs : IsDate(inputs[i].epoch) /\ x = Y(i)
  BY <1>1
<1>3. PICK k \in Wanted(threshold) : inputs[i] = Input(k)
  BY InputsAre
<1>4. /\ x.pattern = stix_pattern_for(inputs[i].raw_indicator)
      /\ x.valid_from = ValidFrom(inputs[i].epoch)
      /\ x.valid_until = ValidUntil(inputs[i].epoch)
      /\ x.confidence = NormalizeConfidence(inputs[i].score)
      /\ x.x_umbra_proof_count = inputs[i].proof_count
  BY <1>2
<1>5. /\ Input(k).raw_indicator = disclosed[k[1]] /\ Input(k).epoch = k[2]
      /\ Input(k).score = scores[k] /\ Input(k).proof_count = Lookup(proof_counts, k)
  BY WantedTypes
<1> QED
  BY <1>2, <1>3, <1>4, <1>5

\* And it has an object for every key that is wanted and dated.
LEMMA ObjectOfKey ==
    ASSUME ExportInv, NEW threshold, NEW k \in Wanted(threshold), IsDate(k[2])
    PROVE  \E x \in StixBundle(threshold).objects :
            /\ x.pattern = stix_pattern_for(disclosed[k[1]])
            /\ x.valid_from = ValidFrom(k[2])
            /\ x.confidence = NormalizeConfidence(scores[k])
            /\ x.x_umbra_proof_count = Lookup(proof_counts, k)
<1> DEFINE inputs == Inputs(threshold)
           Y(i) == [id |-> Uuid(inputs[i].raw_indicator, inputs[i].epoch, i - 1),
                    pattern |-> stix_pattern_for(inputs[i].raw_indicator),
                    valid_from |-> ValidFrom(inputs[i].epoch),
                    valid_until |-> ValidUntil(inputs[i].epoch),
                    confidence |-> NormalizeConfidence(inputs[i].score),
                    x_umbra_proof_count |-> inputs[i].proof_count]
<1>1. StixBundle(threshold).objects = {Y(i) : i \in {j \in DOMAIN inputs : IsDate(inputs[j].epoch)}}
  BY DEF StixBundle
<1>2. PICK i \in DOMAIN inputs : inputs[i] = Input(k)
  BY InputsAre
<1>3. /\ Input(k).raw_indicator = disclosed[k[1]] /\ Input(k).epoch = k[2]
      /\ Input(k).score = scores[k] /\ Input(k).proof_count = Lookup(proof_counts, k)
  BY WantedTypes
<1>4. Y(i) \in StixBundle(threshold).objects
  BY <1>1, <1>2, <1>3
<1>5. /\ Y(i).pattern = stix_pattern_for(inputs[i].raw_indicator)
      /\ Y(i).valid_from = ValidFrom(inputs[i].epoch)
      /\ Y(i).confidence = NormalizeConfidence(inputs[i].score)
      /\ Y(i).x_umbra_proof_count = inputs[i].proof_count
  OBVIOUS
<1> HIDE DEF Y, inputs
<1> QED
  BY <1>2, <1>3, <1>4, <1>5

LEMMA TablesNat ==
    ASSUME TypeInv
    PROVE  /\ \A k \in DOMAIN scores : scores[k] \in Nat
           /\ \A k : Lookup(proof_counts, k) \in Nat
BY MaxU32Assumption DEF TypeInv, TypeOK, TablesOK, U32, Lookup

\* The tables grow, so an object that was backed stays backed.
LEMMA BackedStep ==
    ASSUME TypeInv, TypeInv', OverflowChecks, Grows, NEW threshold \in Nat,
           NEW old, NEW k \in Wanted(threshold), Backs(k, old)
    PROVE  k \in Wanted(threshold)' /\ Backs(k, old)'
<1>1. /\ k \in DOMAIN scores /\ scores[k] >= threshold
      /\ k[1] \in DOMAIN disclosed
  BY DEF Wanted
<1>2. k \in DOMAIN scores' /\ scores[k] <= scores'[k]
  BY <1>1 DEF Grows
<1>3. scores[k] \in Nat /\ scores'[k] \in Nat
  BY <1>1, <1>2, MaxU32Assumption DEF TypeInv, TypeOK, TablesOK, U32
<1>4. k[1] \in DOMAIN disclosed' /\ disclosed'[k[1]] = disclosed[k[1]]
  BY <1>1 DEF Grows
<1>5. k \in Wanted(threshold)'
  BY <1>1, <1>2, <1>3, <1>4 DEF Wanted
<1>6. NormalizeConfidence(scores[k]) <= NormalizeConfidence(scores'[k])
      /\ NormalizeConfidence(scores[k]) \in Nat /\ NormalizeConfidence(scores'[k]) \in Nat
  BY <1>2, <1>3, ConfidenceGrows
<1>7. Lookup(proof_counts, k) <= Lookup(proof_counts', k)
      /\ Lookup(proof_counts, k) \in Nat /\ Lookup(proof_counts', k) \in Nat
  <2>1. Lookup(proof_counts, k) \in Nat
    BY TablesNat
  <2>2. Lookup(proof_counts', k) \in Nat
    BY MaxU32Assumption DEF TypeInv, TypeOK, TablesOK, U32, Lookup
  <2>3. CASE k \in DOMAIN proof_counts
    BY <2>1, <2>2, <2>3 DEF Grows, Lookup
  <2>4. CASE k \notin DOMAIN proof_counts
    BY <2>1, <2>2, <2>4 DEF Lookup
  <2> QED
    BY <2>1, <2>2, <2>3, <2>4
<1> QED
  BY <1>4, <1>5, <1>6, <1>7 DEF Backs

\* What an export said would be said again by a later one, as long as the process lives
\* and its additions do not wrap: ExportsNeverRetract.
THEOREM NothingRetracted == ExportSpec => []ExportsNeverRetract
<1>1. ASSUME ExportInv, StillBacked PROVE ExportsNeverRetract
  <2> SUFFICES ASSUME OverflowChecks, Received("stix"), NEW old \in latest.objects
               PROVE  \E new \in StixBundle(latest.threshold).objects :
                        /\ new.pattern = old.pattern
                        /\ new.valid_from = old.valid_from
                        /\ new.confidence >= old.confidence
                        /\ new.x_umbra_proof_count >= old.x_umbra_proof_count
    BY DEF ExportsNeverRetract
  <2>1. PICK k \in Wanted(latest.threshold) : Backs(k, old)
    BY <1>1 DEF StillBacked
  <2>2. scores[k] \in Nat /\ Lookup(proof_counts, k) \in Nat
    BY <1>1, TablesNat DEF Wanted, ExportInv
  <2>3. NormalizeConfidence(scores[k]) \in Nat
    BY <2>2, ConfidenceGrows
  <2>4. IsDate(k[2])
    BY <2>1 DEF Backs
  <2>5. PICK new \in StixBundle(latest.threshold).objects :
            /\ new.pattern = stix_pattern_for(disclosed[k[1]])
            /\ new.valid_from = ValidFrom(k[2])
            /\ new.confidence = NormalizeConfidence(scores[k])
            /\ new.x_umbra_proof_count = Lookup(proof_counts, k)
    BY <1>1, <2>4, ObjectOfKey
  <2> QED
    BY <2>1, <2>2, <2>3, <2>5 DEF Backs
<1>2. ExportInit => StillBacked
  BY DEF ExportInit, StillBacked, Received
<1>3. ASSUME ExportInv, ExportInv', StillBacked, Grows, UNCHANGED latest
      PROVE  StillBacked'
  <2> SUFFICES ASSUME OverflowChecks, Received("stix")
               PROVE  StillBacked'
    BY <1>3 DEF StillBacked, Received
  <2>1. /\ latest.threshold \in Nat
        /\ \A old \in latest.objects : \E k \in Wanted(latest.threshold) : Backs(k, old)
    BY <1>3 DEF StillBacked
  <2>2. PICK t \in Nat : t = latest.threshold
    BY <2>1
  <2>3. \A old \in latest.objects : \E k \in Wanted(t)' : Backs(k, old)'
    <3> SUFFICES ASSUME NEW old \in latest.objects PROVE \E k \in Wanted(t)' : Backs(k, old)'
      OBVIOUS
    <3>1. PICK k \in Wanted(t) : Backs(k, old)
      BY <2>1, <2>2
    <3> QED
      BY <1>3, <3>1, BackedStep DEF ExportInv
  <2>4. latest' = latest
    BY <1>3
  <2>5. Wanted(latest.threshold)' = Wanted(t)'
    BY <2>2, <2>4 DEF Wanted
  <2> QED
    BY <2>2, <2>3, <2>4, <2>5 DEF StillBacked
<1>4. ASSUME ExportInv, ExportInv', NEW threshold \in Thresholds, ExportStix(threshold)
      PROVE  StillBacked'
  <2>1. threshold \in Nat
    BY ThresholdsAssumption, MaxU32Assumption DEF U32
  <2>2. /\ latest' = StixBundle(threshold)
        /\ UNCHANGED <<scores, proof_counts, disclosed>>
    BY <1>4 DEF ExportStix, vars, inner
  <2>3. latest'.threshold = threshold
    BY <2>2 DEF StixBundle
  <2>4. ASSUME NEW old \in StixBundle(threshold).objects
        PROVE  \E k \in Wanted(threshold) : Backs(k, old)
    <3>1. PICK k \in Wanted(threshold) :
            /\ IsDate(k[2])
            /\ old.pattern = stix_pattern_for(disclosed[k[1]])
            /\ old.valid_from = ValidFrom(k[2])
            /\ old.confidence = NormalizeConfidence(scores[k])
            /\ old.x_umbra_proof_count = Lookup(proof_counts, k)
      BY <1>4, BundleObject
    <3>2. scores[k] \in Nat /\ Lookup(proof_counts, k) \in Nat
      BY <1>4, TablesNat DEF Wanted, ExportInv
    <3>3. NormalizeConfidence(scores[k]) \in Nat
      BY <3>2, ConfidenceGrows
    <3> QED
      BY <3>1, <3>2, <3>3 DEF Backs
  <2>5. \A k, old : Backs(k, old)' <=> Backs(k, old)
    BY <2>2 DEF Backs
  <2>6. Wanted(latest.threshold)' = Wanted(threshold)
    BY <2>2, <2>3 DEF Wanted
  <2> QED
    BY <2>1, <2>2, <2>3, <2>4, <2>5, <2>6 DEF StillBacked
<1>5. ASSUME NEW threshold \in Thresholds, ExportMisp(threshold) PROVE StillBacked'
  BY <1>5 DEF ExportMisp, MispEvent, StillBacked, Received
<1>6. ASSUME latest' = NoExport PROVE StillBacked'
  BY <1>6 DEF StillBacked, Received
<1>7. ASSUME ExportInv, ExportInv', StillBacked, UNCHANGED exportVars PROVE StillBacked'
  BY <1>3, <1>7, HandlerGrows DEF exportVars, ExportInv
<1>8. ASSUME ExportInv, ExportInv', StillBacked, UNCHANGED latest,
             \E h \in Handlers : Receive(h) \/ AskScore(h) \/ Submit(h)
      PROVE  StillBacked'
  BY <1>3, <1>8, HandlerGrows DEF ExportInv
<1>9. ExportInv /\ ExportInv' /\ StillBacked /\ [ExportNext]_exportVars => StillBacked'
  BY <1>4, <1>5, <1>6, <1>7, <1>8 DEF ExportNext, RelayStep
<1> QED
  BY <1>1, <1>2, <1>9, ExportInvariant, PTL DEF ExportSpec

----------------------------------------------------------------------------
(* Exports: the calendar.                                                  *)

LEMMA DateParts ==
    ASSUME NEW y \in Nat, NEW m \in 1..12, NEW d \in 1..31
    PROVE  /\ Year(Date(y, m, d)) = y
           /\ Month(Date(y, m, d)) = m
           /\ Day(Date(y, m, d)) = d
<1> DEFINE e == y * 10000 + m * 100 + d
<1>1. e \div 10000 = y
  OBVIOUS
<1>2. e \div 100 = y * 100 + m
  OBVIOUS
<1>3. (y * 100 + m) % 100 = m
  OBVIOUS
<1>4. e % 100 = d
  OBVIOUS
<1> QED
  BY <1>1, <1>2, <1>3, <1>4 DEF Year, Month, Day, Date

\* The days of the years before a year, less 365 for each, and what a leap year adds.
LEMMA LeapStep ==
    ASSUME NEW y \in Nat, y > 0
    PROVE  y \div 4 - y \div 100 + y \div 400
            = (y - 1) \div 4 - (y - 1) \div 100 + (y - 1) \div 400 + (IF Leap(y) THEN 1 ELSE 0)
<1>1. y \div 4 = (y - 1) \div 4 + (IF y % 4 = 0 THEN 1 ELSE 0)
  OBVIOUS
<1>2. y \div 100 = (y - 1) \div 100 + (IF y % 100 = 0 THEN 1 ELSE 0)
  OBVIOUS
<1>3. y \div 400 = (y - 1) \div 400 + (IF y % 400 = 0 THEN 1 ELSE 0)
  OBVIOUS
<1>4. (y % 100 = 0 => y % 4 = 0) /\ (y % 400 = 0 => y % 100 = 0)
  OBVIOUS
<1>5. /\ (y - 1) \div 4 \in Int /\ (y - 1) \div 100 \in Int /\ (y - 1) \div 400 \in Int
  OBVIOUS
<1> QED
  BY <1>1, <1>2, <1>3, <1>4, <1>5 DEF Leap

\* The day number of a date given in parts.
DaysTo(y, m, d) ==
    LET yy == IF m <= 2 THEN y - 1 ELSE y
        mm == IF m <= 2 THEN m + 9 ELSE m - 3
    IN  365 * yy + yy \div 4 - yy \div 100 + yy \div 400 + (153 * mm + 2) \div 5 + d

LEMMA DayNumberOf ==
    ASSUME NEW y \in Nat, NEW m \in 1..12, NEW d \in 1..31
    PROVE  DayNumber(Date(y, m, d)) = DaysTo(y, m, d)
<1> DEFINE e == Date(y, m, d)
<1>1. Year(e) = y /\ Month(e) = m /\ Day(e) = d
  BY DateParts
<1> HIDE DEF e
<1>2. DayNumber(e) = DaysTo(Year(e), Month(e), Day(e))
  BY DEF DayNumber, DaysTo
<1> QED
  BY <1>1, <1>2 DEF e

LEMMA DateIsDate ==
    ASSUME NEW year \in Nat, 1970 <= year, year <= 9999, NEW month \in 1..12,
           NEW day \in 1..31, NEW n \in 28..31, day <= n, DaysInMonth(year, month) = n
    PROVE  IsDate(Date(year, month, day))
<1> DEFINE e == Date(year, month, day)
<1>1. Year(e) = year /\ Month(e) = month /\ Day(e) = day
  BY DateParts
<1> HIDE DEF e
<1>2. IsDate(e)
  BY <1>1 DEF IsDate
<1> QED
  BY <1>2 DEF e

\* The first of a month comes after the last of the month before.
LEMMA MonthEnds ==
    ASSUME NEW y \in Nat, y > 0, NEW m \in 1..11
    PROVE  DaysTo(y, m + 1, 1) = DaysTo(y, m, DaysInMonth(y, m)) + 1
<1> DEFINE L(x) == x \div 4 - x \div 100 + x \div 400
<1>1. L(y) = L(y - 1) + (IF Leap(y) THEN 1 ELSE 0)
  BY LeapStep
<1>2. L(y) \in Int /\ L(y - 1) \in Int
  OBVIOUS
<1> DEFINE q(k) == (153 * k + 2) \div 5
<1>3. \A n \in 1..12 : \A d \in Int :
        DaysTo(y, n, d) = IF n <= 2 THEN 365 * (y - 1) + L(y - 1) + q(n + 9) + d
                          ELSE 365 * y + L(y) + q(n - 3) + d
  BY DEF DaysTo
<1>0. /\ q(0) = 0 /\ q(1) = 31 /\ q(2) = 61 /\ q(3) = 92 /\ q(4) = 122 /\ q(5) = 153
      /\ q(6) = 184 /\ q(7) = 214 /\ q(8) = 245 /\ q(10) = 306 /\ q(11) = 337
  OBVIOUS
<1> HIDE DEF L, q
<1>4. m \in {1, 2, 3, 4, 5, 6, 7, 8, 9, 10, 11}
  OBVIOUS
<1>5. DaysInMonth(y, m) = CASE m \in {1, 3, 5, 7, 8, 10, 12} -> 31
                            [] m \in {4, 6, 9, 11} -> 30
                            [] m = 2 -> IF Leap(y) THEN 29 ELSE 28
  BY DEF DaysInMonth
<1> DEFINE last == DaysInMonth(y, m)
<1>6. CASE m = 2
  <2>1. last = IF Leap(y) THEN 29 ELSE 28
    BY <1>5, <1>6
  <2> HIDE DEF last
  <2>2. last \in Int
    BY <2>1
  <2>3. DaysTo(y, 3, 1) = 365 * y + L(y) + q(3 - 3) + 1
    BY <1>3
  <2>4. DaysTo(y, 2, last) = 365 * (y - 1) + L(y - 1) + q(2 + 9) + last
    BY <1>3, <2>2
  <2>5. 3 - 3 = 0 /\ 2 + 9 = 11 /\ m + 1 = 3 /\ m = 2
    BY <1>6
  <2>6. DaysTo(y, 3, 1) = DaysTo(y, 2, last) + 1
    BY <1>0, <1>1, <1>2, <2>1, <2>3, <2>4, <2>5
  <2> QED
    BY <2>5, <2>6 DEF last
<1>7. CASE m = 1
  <2>1. last = 31
    BY <1>5, <1>7
  <2> HIDE DEF last
  <2>2. DaysTo(y, 2, 1) = 365 * (y - 1) + L(y - 1) + q(2 + 9) + 1
    BY <1>3
  <2>3. DaysTo(y, 1, last) = 365 * (y - 1) + L(y - 1) + q(1 + 9) + last
    BY <1>3, <2>1
  <2>4. 2 + 9 = 11 /\ 1 + 9 = 10 /\ m + 1 = 2 /\ m = 1
    BY <1>7
  <2>5. DaysTo(y, 2, 1) = DaysTo(y, 1, last) + 1
    BY <1>0, <1>2, <2>1, <2>2, <2>3, <2>4
  <2> QED
    BY <2>4, <2>5 DEF last
<1>8. CASE m > 2
  <2>1. last = IF m \in {4, 6, 9, 11} THEN 30 ELSE 31
    BY <1>4, <1>5, <1>8
  <2> HIDE DEF last
  <2>2. last \in Int
    BY <2>1
  <2>3. DaysTo(y, m + 1, 1) = 365 * y + L(y) + q((m + 1) - 3) + 1
    BY <1>3, <1>8
  <2>4. DaysTo(y, m, last) = 365 * y + L(y) + q(m - 3) + last
    BY <1>3, <1>8, <2>2
  <2>5. /\ q((m + 1) - 3) \in Int /\ q(m - 3) \in Int
        /\ q((m + 1) - 3) = q(m - 3) + last
    <3>1. q(9) = 275
      BY DEF q
    <3>2. (m + 1) - 3 = m - 2
      OBVIOUS
    <3>3. m = 3 \/ m = 4 \/ m = 5 \/ m = 6 \/ m = 7 \/ m = 8 \/ m = 9 \/ m = 10 \/ m = 11
      BY <1>4, <1>8
    <3>4. /\ 3 - 3 = 0 /\ 4 - 3 = 1 /\ 5 - 3 = 2 /\ 6 - 3 = 3 /\ 7 - 3 = 4 /\ 8 - 3 = 5
          /\ 9 - 3 = 6 /\ 10 - 3 = 7 /\ 11 - 3 = 8
          /\ 3 - 2 = 1 /\ 4 - 2 = 2 /\ 5 - 2 = 3 /\ 6 - 2 = 4 /\ 7 - 2 = 5 /\ 8 - 2 = 6
          /\ 9 - 2 = 7 /\ 10 - 2 = 8 /\ 11 - 2 = 9
      OBVIOUS
    <3> QED
      BY <1>0, <2>1, <3>1, <3>2, <3>3, <3>4
  <2>6. DaysTo(y, m + 1, 1) = DaysTo(y, m, last) + 1
    BY <1>2, <2>2, <2>3, <2>4, <2>5
  <2> QED
    BY <2>6 DEF last
<1> QED
  BY <1>4, <1>6, <1>7, <1>8

\* A window is one day: its end is the date after its beginning.
LEMMA WindowIsDay ==
    ASSUME NEW e \in Nat, IsDate(e)
    PROVE  /\ DayNumber(NextDate(e)) = DayNumber(e) + 1
           /\ e # LastDate => IsDate(NextDate(e))
<1> DEFINE y == Year(e)
           m == Month(e)
           d == Day(e)
           last == DaysInMonth(y, m)
<1>1. y \in 1970..9999 /\ m \in 1..12 /\ d \in 1..last
  BY DEF IsDate
<1>2. \A k \in 1..12 : DaysInMonth(y, k) \in 28..31
  BY DEF DaysInMonth
<1>3. last \in 28..31 /\ d \in 1..31
  BY <1>1, <1>2
<1>4. NextDate(e) = CASE d < last -> Date(y, m, d + 1)
                      [] d = last /\ m < 12 -> Date(y, m + 1, 1)
                      [] d = last /\ m = 12 -> Date(y + 1, 1, 1)
  BY DEF NextDate
<1>5. e = Date(y, m, d)
  <2>1. e \div 10000 = (e \div 100) \div 100
    OBVIOUS
  <2>2. \A x \in Nat : x = (x \div 100) * 100 + (x % 100) /\ x \div 100 \in Nat
    OBVIOUS
  <2>3. e \div 100 = ((e \div 100) \div 100) * 100 + ((e \div 100) % 100)
    BY <2>2
  <2>4. e = ((e \div 10000) * 100 + ((e \div 100) % 100)) * 100 + (e % 100)
    BY <2>1, <2>2, <2>3
  <2>5. y = e \div 10000 /\ m = (e \div 100) % 100 /\ d = e % 100
    BY DEF Year, Month, Day
  <2> HIDE DEF y, m, d
  <2>6. e = (y * 100 + m) * 100 + d
    BY <2>4, <2>5
  <2> QED
    BY <1>1, <1>3, <2>6 DEF Date
<1> HIDE DEF y, m, d, last
<1>6. y \in Nat
  BY <1>1
<1>7. DayNumber(e) = DaysTo(y, m, d)
  <2>1. DayNumber(Date(y, m, d)) = DaysTo(y, m, d)
    BY <1>1, <1>3, <1>6, DayNumberOf
  <2> QED
    BY <1>5, <2>1
<1>8. CASE d < last
  <2>1. d + 1 \in 1..31 /\ d + 1 \in Nat /\ y \in Nat /\ m \in Nat
    BY <1>1, <1>3, <1>8
  <2>2. NextDate(e) = Date(y, m, d + 1)
    BY <1>3, <1>4, <1>8
  <2>3. DaysTo(y, m, d + 1) = DaysTo(y, m, d) + 1
    BY <1>1, <1>3 DEF DaysTo
  <2>4. DayNumber(Date(y, m, d + 1)) = DaysTo(y, m, d + 1)
    BY <1>1, <2>1, DayNumberOf
  <2>7. IsDate(Date(y, m, d + 1))
    <3>1. /\ 1970 <= y /\ y <= 9999 /\ m \in 1..12 /\ d + 1 \in 1..31
          /\ last \in 28..31 /\ d + 1 <= last /\ DaysInMonth(y, m) = last
      BY <1>1, <1>3, <1>8, <2>1 DEF last
    <3> QED
      BY <1>6, <3>1, DateIsDate
  <2> QED
    BY <1>7, <2>2, <2>3, <2>4, <2>7
<1>9. CASE d = last /\ m < 12
  <2>1. m + 1 \in 1..12 /\ m \in 1..11 /\ 1 \in 1..31 /\ y \in Nat /\ y > 0 /\ m + 1 \in Nat
    BY <1>1, <1>9
  <2>2. NextDate(e) = Date(y, m + 1, 1)
    BY <1>4, <1>9
  <2>3. DaysTo(y, m + 1, 1) = DaysTo(y, m, d) + 1
    BY <1>9, <2>1, MonthEnds DEF last
  <2>4. DayNumber(Date(y, m + 1, 1)) = DaysTo(y, m + 1, 1)
    BY <2>1, DayNumberOf
  <2>7. IsDate(Date(y, m + 1, 1))
    <3>1. PICK n \in 28..31 : n = DaysInMonth(y, m + 1)
      BY <1>2, <2>1
    <3>2. 1970 <= y /\ y <= 9999 /\ m + 1 \in 1..12 /\ 1 \in 1..31 /\ 1 <= n
      BY <1>1, <2>1
    <3> QED
      BY <1>6, <3>1, <3>2, DateIsDate
  <2> QED
    BY <1>7, <2>2, <2>3, <2>4, <2>7
<1>10. CASE d = last /\ m = 12
  <2>1. 1 \in 1..12 /\ 1 \in 1..31 /\ y + 1 \in Nat /\ 1 \in Nat
    BY <1>1
  <2>2. NextDate(e) = Date(y + 1, 1, 1)
    BY <1>4, <1>10
  <2>3. d = 31
    <3>1. DaysInMonth(y, 12) = 31
      BY DEF DaysInMonth
    <3> QED
      BY <1>10, <3>1 DEF last
  <2>4. DaysTo(y + 1, 1, 1) = DaysTo(y, 12, 31) + 1
    <3>1. (153 * (1 + 9) + 2) \div 5 = 306 /\ (153 * (12 - 3) + 2) \div 5 = 275
      OBVIOUS
    <3>2. (y + 1) - 1 = y
      BY <1>1
    <3> QED
      BY <1>1, <3>1, <3>2 DEF DaysTo
  <2>5. DayNumber(Date(y + 1, 1, 1)) = DaysTo(y + 1, 1, 1)
    BY <2>1, DayNumberOf
  <2>7. e # LastDate => y # 9999
    BY <1>1, <1>5, <1>10, <2>3 DEF Date, LastDate
  <2>8. ASSUME e # LastDate PROVE IsDate(Date(y + 1, 1, 1))
    <3>1. 1970 <= y + 1 /\ y + 1 <= 9999
      BY <1>1, <2>7, <2>8
    <3>2. DaysInMonth(y + 1, 1) = 31 /\ 31 \in 28..31 /\ 1 <= 31
      BY DEF DaysInMonth
    <3> QED
      BY <2>1, <3>1, <3>2, DateIsDate
  <2> QED
    BY <1>7, <1>10, <2>2, <2>3, <2>4, <2>5, <2>8
<1>11. d < last \/ d = last
  BY <1>1, <1>3
<1>12. m < 12 \/ m = 12
  BY <1>1
<1> QED
  BY <1>8, <1>9, <1>10, <1>11, <1>12

----------------------------------------------------------------------------
(* Exports: the default threshold.                                         *)

\* The weights of the four tiers, when each of them counts.
EveryTierWeighs == \A tier \in 0..3 : Weights[tier] > 0

LEMMA EarnedTier ==
    ASSUME NEW o, Earned(o), o.tier \in 0..255
    PROVE  o.tier \in 0..3
<1>1. CASE o.tier = 0
  BY <1>1
<1>2. CASE o.tier # 0
  <2>1. o.tier > 0
    BY <1>2
  <2>2. PICK root \in CredentialRoots : \E leaf \in Issued[root] : leaf[2] >= o.tier
    BY <2>1 DEF Earned
  <2>3. PICK leaf \in Issued[root] : leaf[2] >= o.tier
    BY <2>2
  <2>4. leaf[2] \in 0..3
    BY <2>3, IssuedAssumption
  <2> QED
    BY <2>3, <2>4
<1> QED
  BY <1>1, <1>2

\* Where every tier weighs something, a sum of weights is at least as much as there are
\* observations.
LEMMA WeightAtLeastCount ==
    ASSUME EveryTierWeighs, NEW obs, IsFiniteSet(obs), \A o \in obs : o.tier \in 0..3
    PROVE  Cardinality(obs) <= TotalWeight(obs)
<1> DEFINE P == {s \in SUBSET obs : Cardinality(s) <= TotalWeight(s)}
<1>1. {} \in P
  BY FS_EmptySet, SumOfNone
<1>2. ASSUME NEW s \in SUBSET obs, NEW x \in obs \ s, s \in P PROVE s \cup {x} \in P
  <2>1. IsFiniteSet(s) /\ Cardinality(s) \in Nat /\ TotalWeight(s) \in Nat
    BY FS_Subset, FS_CardinalityType, SumType
  <2>2. /\ Cardinality(s \cup {x}) = Cardinality(s) + 1
        /\ TotalWeight(s \cup {x}) = TotalWeight(s) + WeightFor(x.tier)
    BY <2>1, FS_AddElement, SumWith
  <2>3. WeightFor(x.tier) \in Nat /\ WeightFor(x.tier) > 0
    <3>1. x.tier \in 0..3
      OBVIOUS
    <3>2. WeightFor(x.tier) = Weights[x.tier] /\ Weights[x.tier] \in 0..MaxU32
      BY <3>1, WeightsAssumption DEF WeightFor
    <3>3. Weights[x.tier] > 0
      BY <3>1 DEF EveryTierWeighs
    <3> QED
      BY <3>2, <3>3, MaxU32Assumption
  <2>4. Cardinality(s) <= TotalWeight(s)
    BY <1>2
  <2>5. Cardinality(s \cup {x}) <= TotalWeight(s \cup {x})
    BY <2>1, <2>2, <2>3, <2>4
  <2>6. s \cup {x} \in SUBSET obs
    OBVIOUS
  <2> QED
    BY <2>5, <2>6
<1> HIDE DEF P
<1>3. obs \in P
  BY <1>1, <1>2, InductionOnFiniteSet
<1> QED
  BY <1>3 DEF P

\* Where additions are checked, the score of a key is the weight of what was counted
\* under it and, while the mutex is healthy, its proof count the number.
LEMMA TablesExact ==
    ASSUME OverflowChecks, TypeInv, CreditInv, TablesTell, NEW key \in Keys
    PROVE  /\ Lookup(scores, key) = TotalWeight(Under(key))
           /\ ~ poisoned => Lookup(proof_counts, key) = Cardinality(Under(key))
           /\ IsFiniteSet(Under(key))
           /\ EveryTierWeighs => Cardinality(Under(key)) <= TotalWeight(Under(key))
<1>1. /\ TotalWeight(Under(key)) <= MaxU32
      /\ ~ poisoned => Cardinality(Under(key)) <= MaxU32
      /\ IsFiniteSet(counted)
  BY DEF TablesTell
<1>2. /\ IsFiniteSet(Under(key)) /\ Under(key) \subseteq counted
      /\ TotalWeight(Under(key)) \in Nat /\ Cardinality(Under(key)) \in Nat
  BY <1>1, UnderFinite
<1>3. /\ Lookup(scores, key) = TotalWeight(Under(key)) % (MaxU32 + 1)
      /\ ~ poisoned => Lookup(proof_counts, key) = Cardinality(Under(key)) % (MaxU32 + 1)
  BY TablesRead
<1>4. \A a \in Nat : a <= MaxU32 => a % (MaxU32 + 1) = a
  BY AddWraps
<1>5. \A o \in Under(key) : o.tier \in 0..3
  <2> SUFFICES ASSUME NEW o \in Under(key) PROVE o.tier \in 0..3
    OBVIOUS
  <2>1. o \in counted
    BY <1>2
  <2>2. Earned(o) /\ o.tier \in 0..255
    BY <2>1 DEF CreditInv, TypeInv, TypeOK, TablesOK, VerifiedObservation
  <2> QED
    BY <2>2, EarnedTier
<1> QED
  BY <1>1, <1>2, <1>3, <1>4, <1>5, WeightAtLeastCount

\* A panic between the two additions needs a score that fits and a count that does not,
\* so where every tier weighs something there is none, and proofs stay counted.
ProofsCounted ==
    OverflowChecks /\ EveryTierWeighs =>
        \A key \in Keys : Lookup(proof_counts, key) = Cardinality(Under(key))

LEMMA CountOverflowsLast ==
    ASSUME OverflowChecks, EveryTierWeighs, TypeInv, CreditInv, TablesTell, ~ poisoned,
           NEW h \in Handlers, HasLock(h), Batch(h).rejected_replays = << >>,
           ~ ScoreOverflows(h)
    PROVE  ~ CountOverflows(h)
<1> DEFINE o == Observation(req[h])
<1>0. PICK k : k = KeyOf(h)
  OBVIOUS
<1>1. /\ o \in VerifiedObservation /\ k \in Keys /\ req[h] \in Requests
      /\ EarlyRejection(req[h]) = "none"
  BY <1>0, CreditTypes
<1>2. o.tier \in 0..3
  <2>1. Earned(o)
    BY <1>1, CheckedIsEarned
  <2>2. o.tier \in 0..255
    BY <1>1 DEF VerifiedObservation
  <2> HIDE DEF o
  <2> QED
    BY <2>1, <2>2, EarnedTier
<1>3. Lookup(scores, k) + WeightFor(o.tier) <= MaxU32
  BY <1>0, ScoreFits
<1> HIDE DEF o
<1>4. WeightFor(o.tier) \in Nat /\ WeightFor(o.tier) > 0
  <2>1. WeightFor(o.tier) = Weights[o.tier] /\ Weights[o.tier] \in 0..MaxU32
    BY <1>2, WeightsAssumption DEF WeightFor
  <2>2. Weights[o.tier] > 0
    BY <1>2 DEF EveryTierWeighs
  <2> QED
    BY <2>1, <2>2, MaxU32Assumption
<1>5. /\ Lookup(scores, k) = TotalWeight(Under(k))
      /\ Lookup(proof_counts, k) = Cardinality(Under(k))
      /\ IsFiniteSet(Under(k))
      /\ Cardinality(Under(k)) <= TotalWeight(Under(k))
  BY <1>1, TablesExact
<1>6. TotalWeight(Under(k)) \in Nat /\ Cardinality(Under(k)) \in Nat
  BY <1>5, SumType, FS_CardinalityType
<1>7. Lookup(proof_counts, k) + 1 <= MaxU32
  BY <1>3, <1>4, <1>5, <1>6, MaxU32Assumption
<1>8. Lookup(proof_counts, k) \in Nat
  BY <1>5, <1>6
<1> QED
  BY <1>0, <1>7, <1>8, MaxU32Assumption DEF CountOverflows

LEMMA ProofsCountedStep ==
    ASSUME TypeInv, CreditInv, TablesTell, TablesTell', TypeInv', CreditInv',
           ProofsCounted, [Next]_vars
    PROVE  ProofsCounted'
<1>1. ASSUME OverflowChecks, EveryTierWeighs, ~ poisoned', NEW key \in Keys
      PROVE  Lookup(proof_counts, key)' = Cardinality(Under(key)')
  <2>1. /\ Cardinality(Under(key)') <= MaxU32
        /\ IsFiniteSet(counted')
        /\ DOMAIN proof_counts' = DOMAIN scores'
        /\ DOMAIN scores' = {ScoreKey(o) : o \in counted'}
        /\ key \in DOMAIN proof_counts' =>
                proof_counts'[key] = Cardinality(Under(key)') % (MaxU32 + 1)
    BY <1>1 DEF TablesTell, NothingHalfApplied, ScoreIsWeightedCount
  <2>2. Under(key)' \subseteq counted'
    BY DEF Under
  <2>3. IsFiniteSet(Under(key)')
    BY <2>1, <2>2, FS_Subset
  <2>4. Cardinality(Under(key)') \in Nat
    BY <2>3, FS_CardinalityType
  <2>5. CASE key \in DOMAIN proof_counts'
    BY <2>1, <2>4, <2>5, AddWraps DEF Lookup
  <2>6. CASE key \notin DOMAIN proof_counts'
    <3>1. Under(key)' = {}
      BY <2>1, <2>6 DEF Under
    <3> QED
      BY <2>6, <3>1, FS_EmptySet DEF Lookup
  <2> QED
    BY <2>5, <2>6
<1>2. ASSUME OverflowChecks, EveryTierWeighs, UNCHANGED <<proof_counts, counted>>
      PROVE  ProofsCounted'
  BY <1>2 DEF ProofsCounted, Under, EveryTierWeighs
<1>3. ASSUME OverflowChecks, EveryTierWeighs, poisoned', NEW h \in Handlers,
             PanicAddingCount(h)
      PROVE  FALSE
  BY <1>3, CountOverflowsLast DEF PanicAddingCount, HasLock
<1>4. ASSUME poisoned', NEW h \in Handlers, Count(h) PROVE FALSE
  BY <1>4 DEF Count, HasLock
<1>5. ASSUME poisoned', Restart PROVE FALSE
  BY <1>5 DEF Restart
<1>6. ASSUME poisoned', [Next]_vars,
             ~ Restart, \A h \in Handlers : ~ Count(h) /\ ~ PanicAddingCount(h)
      PROVE  UNCHANGED <<proof_counts, counted>>
  BY <1>6 DEF Next, Submit, Receive, AskScore, RefuseEarly, PassChecks, RefuseReplay,
              PanicAddingScore, PanicOnPoison, Finish, inner, vars
<1>7. CASE OverflowChecks /\ EveryTierWeighs
  <2>1. CASE ~ poisoned'
    BY <1>1, <1>7, <2>1 DEF ProofsCounted
  <2>2. CASE poisoned'
    BY <1>2, <1>3, <1>4, <1>5, <1>6, <1>7, <2>2
  <2> QED
    BY <2>1, <2>2
<1>8. CASE ~ (OverflowChecks /\ EveryTierWeighs)
  BY <1>8 DEF ProofsCounted, EveryTierWeighs
<1> QED
  BY <1>7, <1>8

LEMMA ProofsCountedInvariant == Spec => []ProofsCounted
<1>1. Init => ProofsCounted
  <2> SUFFICES ASSUME Init, NEW key \in Keys
               PROVE  Lookup(proof_counts, key) = Cardinality(Under(key))
    BY DEF ProofsCounted
  <2>1. Under(key) = {}
    BY DEF Under, Init
  <2> QED
    BY <2>1, FS_EmptySet DEF Init, EmptyTable, Lookup
<1>2. /\ TypeInv /\ CreditInv /\ TablesTell
      /\ (TypeInv /\ CreditInv /\ TablesTell)'
      /\ ProofsCounted /\ [Next]_vars
      => ProofsCounted'
  BY ProofsCountedStep
<1> QED
  BY <1>1, <1>2, TablesInvariant, PTL DEF Spec

\* What is counted for a raw indicator is what is under its key.
LEMMA CountedIsUnder ==
    ASSUME TypeInv, NEW raw \in Raws, NEW epoch \in Epochs
    PROVE  /\ CountedFor(raw, epoch) = Under(<<FrToHex(HashOf[raw]), epoch>>)
           /\ <<FrToHex(HashOf[raw]), epoch>> \in Keys
           /\ CountedFor(Trimmed[raw], epoch) = CountedFor(raw, epoch)
<1>1. HashOf[raw] \in Indicators /\ HashOf[Trimmed[raw]] = HashOf[raw]
  BY HashOfAssumption, SpellingsAssumption
<1>2. CountedFor(raw, epoch) = Under(<<FrToHex(HashOf[raw]), epoch>>)
  BY DEF CountedFor, Under, ScoreKey
<1>3. <<FrToHex(HashOf[raw]), epoch>> \in Keys
  BY <1>1 DEF Keys, FrToHex
<1>4. CountedFor(Trimmed[raw], epoch) = CountedFor(raw, epoch)
  BY <1>1 DEF CountedFor
<1> QED
  BY <1>2, <1>3, <1>4

\* Under the default threshold a key is wanted exactly when something is counted under it
\* and its indicator is disclosed.
LEMMA DefaultWants ==
    ASSUME ExportInv, OverflowChecks, EveryTierWeighs, NEW k \in Keys
    PROVE  k \in Wanted(1) <=> Under(k) # {} /\ k[1] \in DOMAIN disclosed
<1>0. TypeInv /\ CreditInv /\ TablesTell
  BY DEF ExportInv
<1>1. DOMAIN scores = {ScoreKey(o) : o \in counted}
  BY <1>0 DEF TablesTell, ScoreIsWeightedCount
<1>2. Under(k) # {} <=> k \in DOMAIN scores
  BY <1>1 DEF Under
<1>3. /\ Lookup(scores, k) = TotalWeight(Under(k))
      /\ IsFiniteSet(Under(k))
      /\ Cardinality(Under(k)) <= TotalWeight(Under(k))
  BY <1>0, TablesExact
<1>4. ASSUME k \in DOMAIN scores PROVE scores[k] >= 1
  <2>1. Cardinality(Under(k)) \in Nat /\ Cardinality(Under(k)) # 0
    BY <1>2, <1>3, <1>4, FS_CardinalityType, FS_EmptySet
  <2>2. scores[k] = TotalWeight(Under(k)) /\ scores[k] \in Nat
    BY <1>0, <1>3, <1>4, TablesNat DEF Lookup
  <2> QED
    BY <1>3, <2>1, <2>2
<1> QED
  BY <1>2, <1>4 DEF Wanted

\* The key of an exportable entry, and the entry of a key that is wanted.
LEMMA WantedIsExportable ==
    ASSUME ExportInv, OverflowChecks, EveryTierWeighs, NEW k \in Wanted(1), IsDate(k[2])
    PROVE  <<disclosed[k[1]], k[2]>> \in Exportable
<1>1. /\ k \in Keys /\ k[2] \in Epochs /\ disclosed[k[1]] \in Raws
      /\ k[1] \in DOMAIN disclosed
  BY WantedTypes DEF Wanted
<1>2. FrToHex(HashOf[disclosed[k[1]]]) = k[1]
  BY <1>1 DEF ExportInv, DisclosureIsSound
<1>3. k = <<k[1], k[2]>>
  BY <1>1 DEF Keys
<1>4. CountedFor(disclosed[k[1]], k[2]) = Under(k)
  BY <1>1, <1>2, <1>3, CountedIsUnder DEF ExportInv
<1>5. Under(k) # {}
  BY <1>1, DefaultWants
<1> QED
  BY <1>1, <1>4, <1>5 DEF Exportable

LEMMA ExportableIsWanted ==
    ASSUME ExportInv, OverflowChecks, EveryTierWeighs, NEW entry \in Exportable
    PROVE  \E k \in Wanted(1) :
            IsDate(k[2]) /\ disclosed[k[1]] = entry[1] /\ k[2] = entry[2]
<1> DEFINE raw == entry[1]
           epoch == entry[2]
<1>1. /\ raw \in Raws /\ epoch \in Epochs /\ IsDate(epoch) /\ CountedFor(raw, epoch) # {}
  BY DEF Exportable
<1>2. PICK text \in DOMAIN disclosed : disclosed[text] = raw
  BY DEF Exportable
<1> DEFINE k == <<text, epoch>>
<1>3. text = FrToHex(HashOf[raw])
  BY <1>2 DEF ExportInv, DisclosureIsSound
<1> HIDE DEF raw, epoch
<1>4. k \in Keys /\ Under(k) # {}
  BY <1>1, <1>3, CountedIsUnder DEF ExportInv
<1>5. k \in Wanted(1)
  BY <1>2, <1>4, DefaultWants
<1> QED
  BY <1>1, <1>2, <1>5 DEF raw, epoch

\* The default threshold exports every disclosed indicator that has a proof, for every
\* epoch that is a date, and nothing else, with all that the export says of it.
THEOREM DefaultIsComplete == ExportSpec => []DefaultExportIsComplete
<1>1. ASSUME ExportInv, ProofsCounted PROVE DefaultExportIsComplete
  <2> SUFFICES ASSUME OverflowChecks, EveryTierWeighs
               PROVE  LET objects == StixBundle(1).objects
                      IN  /\ {<<x.pattern.text, x.valid_from>> : x \in objects} =
                              {<<Trimmed[entry[1]], entry[2]>> : entry \in Exportable}
                          /\ \A x \in objects :
                              /\ x.x_umbra_proof_count =
                                  Cardinality(CountedFor(x.pattern.text, x.valid_from))
                              /\ TypeIsNarrowest(x.pattern)
                              /\ x.valid_from # LastDate => IsDate(x.valid_until)
                              /\ DayNumber(x.valid_until) = DayNumber(x.valid_from) + 1
    BY DEF DefaultExportIsComplete, EveryTierWeighs
  <2> DEFINE objects == StixBundle(1).objects
             A == {<<x.pattern.text, x.valid_from>> : x \in objects}
             B == {<<Trimmed[entry[1]], entry[2]>> : entry \in Exportable}
  <2>1. \A raw : stix_pattern_for(raw).text = Trimmed[raw]
    BY DEF stix_pattern_for
  <2>2. \A e : ValidFrom(e) = e /\ ValidUntil(e) = NextDate(e)
    BY DEF ValidFrom, ValidUntil
  <2>3. \A x \in objects : \E k \in Wanted(1) :
            /\ IsDate(k[2])
            /\ x.pattern = stix_pattern_for(disclosed[k[1]])
            /\ x.valid_from = k[2]
            /\ x.valid_until = NextDate(k[2])
            /\ x.x_umbra_proof_count = Lookup(proof_counts, k)
    BY <1>1, <2>2, BundleObject
  <2>4. \A k \in Wanted(1) : IsDate(k[2]) =>
            \E x \in objects :
                /\ x.pattern = stix_pattern_for(disclosed[k[1]])
                /\ x.valid_from = k[2]
    BY <1>1, <2>2, ObjectOfKey
  <2> HIDE DEF objects
  <2>5. A \subseteq B
    <3> SUFFICES ASSUME NEW x \in objects PROVE <<x.pattern.text, x.valid_from>> \in B
      OBVIOUS
    <3>1. PICK k \in Wanted(1) : /\ IsDate(k[2])
                                 /\ x.pattern = stix_pattern_for(disclosed[k[1]])
                                 /\ x.valid_from = k[2]
      BY <2>3
    <3>2. <<disclosed[k[1]], k[2]>> \in Exportable
      BY <1>1, <3>1, WantedIsExportable
    <3>3. x.pattern.text = Trimmed[disclosed[k[1]]]
      BY <2>1, <3>1
    <3> QED
      BY <3>1, <3>2, <3>3
  <2>6. B \subseteq A
    <3> SUFFICES ASSUME NEW entry \in Exportable
                 PROVE  <<Trimmed[entry[1]], entry[2]>> \in A
      OBVIOUS
    <3>1. PICK k \in Wanted(1) :
            IsDate(k[2]) /\ disclosed[k[1]] = entry[1] /\ k[2] = entry[2]
      BY <1>1, ExportableIsWanted
    <3>2. PICK x \in objects : /\ x.pattern = stix_pattern_for(disclosed[k[1]])
                               /\ x.valid_from = k[2]
      BY <2>4, <3>1
    <3>3. x.pattern.text = Trimmed[entry[1]] /\ x.valid_from = entry[2]
      BY <2>1, <3>1, <3>2
    <3> QED
      BY <3>3
  <2>7. ASSUME NEW x \in objects
        PROVE  /\ x.x_umbra_proof_count =
                    Cardinality(CountedFor(x.pattern.text, x.valid_from))
               /\ TypeIsNarrowest(x.pattern)
               /\ x.valid_from # LastDate => IsDate(x.valid_until)
               /\ DayNumber(x.valid_until) = DayNumber(x.valid_from) + 1
    <3>1. PICK k \in Wanted(1) : /\ IsDate(k[2])
                                 /\ x.pattern = stix_pattern_for(disclosed[k[1]])
                                 /\ x.valid_from = k[2]
                                 /\ x.valid_until = NextDate(k[2])
                                 /\ x.x_umbra_proof_count = Lookup(proof_counts, k)
      BY <2>3, <2>7
    <3> DEFINE raw == disclosed[k[1]]
    <3>2. k \in Keys /\ k[2] \in Epochs /\ raw \in Raws /\ k[1] \in DOMAIN disclosed
      BY <1>1, WantedTypes DEF Wanted
    <3>3. FrToHex(HashOf[raw]) = k[1] /\ k = <<k[1], k[2]>>
      BY <1>1, <3>2 DEF ExportInv, DisclosureIsSound, Keys
    <3> HIDE DEF raw
    <3>4. x.x_umbra_proof_count = Cardinality(CountedFor(x.pattern.text, x.valid_from))
      <4>1. x.pattern.text = Trimmed[raw]
        BY <2>1, <3>1 DEF raw
      <4>2. CountedFor(Trimmed[raw], k[2]) = Under(k)
        BY <1>1, <3>2, <3>3, CountedIsUnder DEF ExportInv
      <4>3. Lookup(proof_counts, k) = Cardinality(Under(k))
        BY <1>1, <3>2 DEF ProofsCounted
      <4> QED
        BY <3>1, <4>1, <4>2, <4>3
    <3>5. TypeIsNarrowest(x.pattern)
      <4>1. /\ classify(Trimmed[raw]) = FirstPassed(Trimmed[raw])
            /\ Trimmed[raw] \in Strings
        BY <3>2, TrimmedOnce
      <4>2. x.pattern = [path |-> StixPath[FirstPassed(Trimmed[raw])], text |-> Trimmed[raw]]
        BY <3>1, <4>1 DEF stix_pattern_for, raw
      <4> QED
        BY <4>1, <4>2, NarrowestType
    <3>6. /\ k[2] # LastDate => IsDate(NextDate(k[2]))
          /\ DayNumber(NextDate(k[2])) = DayNumber(k[2]) + 1
      BY <3>1, <3>2, EpochsAssumption, WindowIsDay
    <3> QED
      BY <3>1, <3>4, <3>5, <3>6
  <2>8. A = B
    BY <2>5, <2>6
  <2> QED
    BY <2>7, <2>8 DEF objects
<1> QED
  BY <1>1, ExportInvariant, RelayUnderneath, ProofsCountedInvariant, PTL

=============================================================================
