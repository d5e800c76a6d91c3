------------------------------- MODULE Circuit -------------------------------
(***************************************************************************)
(* The statement of a proof of observation (proof-of-observation/src):     *)
(* the tree an issuer publishes its credentials in, the trees contributors *)
(* publish their observations in, and the proofs they make about both      *)
(* (lib.rs, indicator.rs; the trees as test_support.rs builds them).       *)
(*                                                                         *)
(* A number of the scalar field is [num |-> n], modulo Prime.  A Poseidon  *)
(* hash is what it hashes, in a record of its own for each of its two      *)
(* configurations: nobody finds two inputs of one hash, or a number that   *)
(* is a hash.  A proof exists exactly for public inputs and a witness that *)
(* satisfy the circuit; the proving key fixes the length of the paths.     *)
(***************************************************************************)
EXTENDS Integers, Sequences, FiniteSets

CONSTANTS
    Contributors,
    Prime,          \* the modulus of the scalar field
    Texts,          \* raw indicators
    Normal,         \* [Texts -> Seq(0..255)]: the bytes of normalize_indicator
    ChunkBytes,     \* CHUNK_BYTES
    Epochs,
    Rosters,        \* credential trees an issuer may publish: [secret, tier] at every leaf
    Depth,          \* length of the paths that the proving key is for
    Places,         \* where observations are put among the leaves, from 1
    MaxTrees,       \* bound: observation trees published
    MaxProofs       \* bound: proofs made

\* 0..3 and the negatives of 1..3 are apart, and no two of the field make a zero.
Field == 0..(Prime - 1)
ASSUME PrimeAssumption ==
    /\ Prime \in Nat /\ Prime > 6
    /\ \A a, b \in Field : (a * b) % Prime = 0 => a = 0 \/ b = 0
ASSUME TextsAssumption ==
    /\ ChunkBytes \in Nat \ {0}
    /\ \A text \in Texts : Normal[text] \in Seq(0..255)
    /\ Epochs \subseteq Field

\* The nodes at each number of levels below a root.
Nodes == LET nodes[k \in 0..Depth] == IF k = 0 THEN 1 ELSE 2 * nodes[k - 1] IN nodes
Leaves == Nodes[Depth]
ASSUME TreesAssumption ==
    /\ Depth \in Nat /\ Places \subseteq 1..Leaves
    /\ \A roster \in Rosters :
        /\ DOMAIN roster = 1..Leaves
        /\ \A i \in 1..Leaves : roster[i].tier \in 0..3

VARIABLES
    rosters,    \* credential trees published
    trees,      \* observation trees published
    proofs      \* history: the public inputs proved, with the one who did

vars == <<rosters, trees, proofs>>

----------------------------------------------------------------------------
(* Field elements and hashes.                                              *)

Num(n) == [num |-> n % Prime]

\* The hash with three_input_config, and the one with merkle_node_config.
Poseidon(a, b, c) == [leaf |-> <<a, b, c>>]
Compress(left, right) == [node |-> <<left, right>>]

\* Fr::from_le_bytes_mod_order of a chunk, which is short of the modulus: the bytes
\* without the zeros at the end.
FromLeBytes(bytes) ==
    LET used == {i \in 1..Len(bytes) : bytes[i] # 0}
        last == IF used = {} THEN 0 ELSE CHOOSE i \in used : \A j \in used : j <= i
    IN  [chunk |-> SubSeq(bytes, 1, last)]

\* The chunks of bytes, folded one after the other.
Chunks(bytes) == (Len(bytes) + ChunkBytes - 1) \div ChunkBytes
Chunk(bytes, k) ==
    SubSeq(bytes, ChunkBytes * (k - 1) + 1,
           IF k = Chunks(bytes) THEN Len(bytes) ELSE ChunkBytes * k)
Folded(bytes) ==
    LET acc[k \in 0..Chunks(bytes)] ==
            IF k = 0 THEN FromLeBytes(<< >>)
            ELSE Compress(acc[k - 1], FromLeBytes(Chunk(bytes, k)))
    IN  acc
FoldChunks(bytes) == Folded(bytes)[Chunks(bytes)]

\* MUTANT: the length is not folded in.
HashChunks(text) == FoldChunks(Normal[text])

\* indicator_hash_from_raw
IndicatorHash(text) == Compress(FoldChunks(Normal[text]), [length |-> Len(Normal[text])])

CredentialDomainTag == [tag |-> "UMBRA_CREDENTIAL_LEAF_V1"]

----------------------------------------------------------------------------
(* Trees.                                                                  *)

\* The n nodes over a level.
Parents(level, n) == [i \in 1..n |-> Compress(level[2 * i - 1], level[2 * i])]

\* The levels of build_tree, from the leaves up to the root.
Levels(leaves) ==
    LET level[k \in 0..Depth] ==
            IF k = 0 THEN leaves ELSE Parents(level[k - 1], Nodes[Depth - k])
    IN  level

Root(leaves) == Levels(leaves)[Depth][1]

\* The indices, from 0, of the nodes above the leaf at an index.
Upwards(index) ==
    LET up[k \in 0..Depth] == IF k = 0 THEN index ELSE up[k - 1] \div 2 IN up

\* build_tree: siblings and directions of the leaf at an index, leaf to root.
Path(leaves, index) ==
    [k \in 1..Depth |->
        LET i == Upwards(index)[k - 1]
        IN  [sibling |-> Levels(leaves)[k - 1][IF i % 2 = 1 THEN i ELSE i + 2],
             right |-> i % 2 = 1]]

\* MUTANT: the two sides of a node are swapped.
FoldSwapped(leaf, path) ==
    LET current[k \in 0..Depth] ==
            IF k = 0 THEN leaf
            ELSE IF path[k].right THEN Compress(current[k - 1], path[k].sibling)
            ELSE Compress(path[k].sibling, current[k - 1])
    IN  current[Depth]

\* fold_merkle_path
Climb(leaf, path) ==
    LET current[k \in 0..Depth] ==
            IF k = 0 THEN leaf
            ELSE IF path[k].right THEN Compress(path[k].sibling, current[k - 1])
            ELSE Compress(current[k - 1], path[k].sibling)
    IN  current
FoldMerklePath(leaf, path) == Climb(leaf, path)[Depth]

----------------------------------------------------------------------------
(* generate_constraints                                                    *)

\* enforce_is_valid_tier: the product of v - k, in the field.
Minus(a, b) == (a - b) % Prime
Times(a, b) == (a * b) % Prime
IsValidTier(v) == Times(Times(Times(v, Minus(v, 1)), Minus(v, 2)), Minus(v, 3)) = 0

\* MUTANT: only the difference is looked at.
TiersByDifference(tier, min_tier) == IsValidTier(Minus(tier, min_tier))

\* The tier gate: both are tiers, and enforce_tier_at_least.
TiersHold(tier, min_tier) ==
    /\ IsValidTier(tier) /\ IsValidTier(min_tier)
    /\ IsValidTier(Minus(tier, min_tier))

\* MUTANT: the salt is not hashed.
LeafWithoutSalt(indicator_hash, epoch, salt) == Poseidon(indicator_hash, Num(epoch), Num(0))

ObservationLeaf(indicator_hash, epoch, salt) == Poseidon(indicator_hash, Num(epoch), salt)
CredentialLeaf(secret, tier) == Poseidon(secret, Num(tier), CredentialDomainTag)

\* MUTANT: the epoch is not hashed.
NullifierOfIndicator(secret, indicator_hash, epoch) ==
    Poseidon(secret, indicator_hash, Num(0))

NullifierOf(secret, indicator_hash, epoch) == Poseidon(secret, indicator_hash, Num(epoch))

\* The observation is a leaf under the root.
ObservationHolds(public, salt, path) ==
    FoldMerklePath(ObservationLeaf(public.indicator_hash, public.epoch, salt), path) = public.root

NullifierHolds(public, secret) ==
    public.nullifier = NullifierOf(secret, public.indicator_hash, public.epoch)

\* The credential is a leaf under the credential root.
CredentialHolds(public, secret, tier, path) ==
    FoldMerklePath(CredentialLeaf(secret, tier), path) = public.credential_root

\* generate_constraints is satisfied.
Satisfied(public, witness) ==
    /\ ObservationHolds(public, witness.salt, witness.merkle_path)
    /\ NullifierHolds(public, witness.credential_secret)
    /\ CredentialHolds(public, witness.credential_secret, witness.credential_tier,
                       witness.credential_merkle_path)
    /\ TiersHold(witness.credential_tier, public.min_tier)

----------------------------------------------------------------------------
(* Who knows what.                                                         *)

\* Secrets are random and never leave their owner; so are salts.
Secret(c) == [secret_of |-> c]
Salt(c) == [salt_of |-> c]

RosterLeaves(roster) ==
    [i \in 1..Leaves |-> CredentialLeaf(Secret(roster[i].holder), roster[i].tier)]

PublishedTrees == {tree.leaves : tree \in trees} \cup {RosterLeaves(roster) : roster \in rosters}

\* The paths of the leaves of published trees, with any turns: siblings that stand next to
\* no leaf lead to no published root, since a root is the hash of nothing else.
Paths(published) ==
    {[k \in 1..Depth |-> [sibling |-> Path(leaves, i)[k].sibling, right |-> turns[k]]] :
        leaves \in published, i \in 0..(Leaves - 1), turns \in [1..Depth -> BOOLEAN]}

----------------------------------------------------------------------------
Init == rosters = {} /\ trees = {} /\ proofs = {}

\* An issuer publishes a tree of credentials, again when somebody's tier has changed.
PublishRoster(roster) ==
    /\ roster \notin rosters
    /\ rosters' = rosters \cup {roster}
    /\ UNCHANGED <<trees, proofs>>

\* Leaves that stand for observations of an epoch which nobody proves anything about.
Filler == [i \in 1..Leaves |-> Num(i)]

\* c publishes a tree with an observation at one place.
PublishTree(c) ==
    /\ Cardinality(trees) < MaxTrees
    /\ \E text \in Texts, epoch \in Epochs, place \in Places :
        trees' = trees \cup
            {[by |-> c, text |-> text, epoch |-> epoch, place |-> place,
              leaves |-> [Filler EXCEPT ![place] =
                            ObservationLeaf(IndicatorHash(text), epoch, Salt(c))]]}
    /\ UNCHANGED <<rosters, proofs>>

\* c proves a claim about published roots, with any witness that it can put together from
\* its secret, its salt and the nodes of what is published: the constraints of Satisfied,
\* each as soon as its part of the witness is chosen.
ProveObservation(c) ==
    /\ Cardinality(proofs) < MaxProofs
    /\ LET paths == Paths(PublishedTrees)
       IN  \E text \in Texts, epoch \in Epochs, tree \in trees :
            LET observed == [indicator_hash |-> IndicatorHash(text), epoch |-> epoch,
                             root |-> Root(tree.leaves)]
            IN  /\ \E path \in paths : ObservationHolds(observed, Salt(c), path)
                /\ \E roster \in rosters, tier, min_tier \in Field, owner \in Contributors :
                    LET public == [indicator_hash |-> observed.indicator_hash, epoch |-> epoch,
                                   root |-> observed.root,
                                   nullifier |-> NullifierOf(Secret(owner), IndicatorHash(text), epoch),
                                   min_tier |-> min_tier,
                                   credential_root |-> Root(RosterLeaves(roster))]
                    IN  /\ TiersHold(tier, min_tier)
                        /\ NullifierHolds(public, Secret(c))
                        /\ \E path \in paths : CredentialHolds(public, Secret(c), tier, path)
                        /\ proofs' = proofs \cup {[by |-> c, text |-> text, public |-> public]}
    /\ UNCHANGED <<rosters, trees>>

Next ==
    \/ \E roster \in Rosters : PublishRoster(roster)
    \/ \E c \in Contributors : PublishTree(c) \/ ProveObservation(c)

Spec == Init /\ [][Next]_vars

=============================================================================
