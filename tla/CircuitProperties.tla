-------------------------- MODULE CircuitProperties --------------------------
(***************************************************************************)
(* What a proof of observation shows.                                      *)
(***************************************************************************)
EXTENDS Circuit

\* Whoever proves a tier holds, in the tree of that root, a credential of that tier or a
\* higher one: arithmetic modulo Prime lets nobody claim more by wrapping around.
TierIsBacked == \A proof \in proofs :
    /\ proof.public.min_tier \in 0..3
    /\ \E roster \in rosters :
        /\ Root(RosterLeaves(roster)) = proof.public.credential_root
        /\ \E i \in DOMAIN roster :
            /\ roster[i].holder = proof.by
            /\ roster[i].tier >= proof.public.min_tier

\* Whoever proves an observation has published it: that indicator in that epoch, in the
\* tree of that root, and not a leaf of somebody else's tree.
ObservationWasPublished == \A proof \in proofs : \E tree \in trees :
    /\ tree.by = proof.by
    /\ Root(tree.leaves) = proof.public.root
    /\ Normal[tree.text] = Normal[proof.text]
    /\ tree.epoch = proof.public.epoch

\* Two proofs have one nullifier exactly when they are of one contributor, one indicator and
\* one epoch, whatever the trees, the roots and the tiers: a relay that remembers nullifiers
\* counts each of them once, and forgets none.
OneNullifierEach == \A a, b \in proofs :
    a.public.nullifier = b.public.nullifier <=>
        /\ a.by = b.by
        /\ Normal[a.text] = Normal[b.text]
        /\ a.public.epoch = b.public.epoch

\* Proofs about one indicator are about one normalized text, and the other way around,
\* wherever its bytes are cut into chunks and whatever zeros they end in.
IndicatorsKeptApart == \A a, b \in proofs :
    a.public.indicator_hash = b.public.indicator_hash <=> Normal[a.text] = Normal[b.text]

\* A contributor with a credential can prove every observation it has published, at every
\* tier up to its own, with the paths of its leaves and nothing else.
HonestProverSucceeds == \A tree \in trees, roster \in rosters, i \in 1..Leaves :
    roster[i].holder = tree.by =>
        \A min_tier \in 0..roster[i].tier :
            Satisfied(
                [indicator_hash |-> IndicatorHash(tree.text), epoch |-> tree.epoch,
                 root |-> Root(tree.leaves),
                 nullifier |-> NullifierOf(Secret(tree.by), IndicatorHash(tree.text), tree.epoch),
                 min_tier |-> min_tier, credential_root |-> Root(RosterLeaves(roster))],
                [salt |-> Salt(tree.by), merkle_path |-> Path(tree.leaves, tree.place - 1),
                 credential_secret |-> Secret(tree.by), credential_tier |-> roster[i].tier,
                 credential_merkle_path |-> Path(RosterLeaves(roster), i - 1)])

=============================================================================
