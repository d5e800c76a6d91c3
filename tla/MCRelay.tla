------------------------------ MODULE MCRelay ------------------------------
(***************************************************************************)
(* A small relay for TLC: three contributors, two indicators, two epochs,  *)
(* one trusted and one throwaway credential tree, two handlers.            *)
(***************************************************************************)
EXTENDS RelayProperties

CONSTANTS s1, s2, s3, i1, i2, rawA, rawB, rawC, root, trusted, throwaway

MCSecrets == {s1, s2, s3}
MCIndicators == {i1, i2}
MCRaws == {rawA, rawB, rawC}
\* rawA and rawB differ only in what normalize_indicator removes.
MCHashOf == [r \in MCRaws |-> IF r = rawC THEN i2 ELSE i1]
MCEpochs == {1, 2}
MCCredentialRoots == {trusted, throwaway}
\* s2 was vetted at tier 0 only; in a tree of their own making, s2 holds tier 3.
MCIssued == [c \in MCCredentialRoots |->
                IF c = trusted THEN {<<s1, 3>>, <<s2, 0>>, <<s3, 1>>} ELSE {<<s2, 3>>}]

Statement(s, i, e, tier, c) ==
    [indicator_hash |-> i, epoch |-> e, root |-> root, nullifier |-> Nullifier(s, i, e),
     min_tier |-> tier, credential_root |-> c]

Respell(x) == [fr |-> x, spelling |-> "other"]

MCRootsFile == {Comment, FrToHex(trusted)}
\* The same root in upper case.
MCUpperCaseRootsFile == {Comment, Respell(trusted)}

\* A well-formed submission of a statement with its proof.
Submission(st, raw) ==
    [indicator_hash |-> FrToHex(st.indicator_hash), epoch |-> st.epoch,
     root |-> FrToHex(st.root), nullifier |-> FrToHex(st.nullifier),
     min_tier |-> st.min_tier, credential_root |-> FrToHex(st.credential_root),
     indicator |-> raw, proof |-> st]

ByS1 == Submission(Statement(s1, i1, 1, 3, trusted), rawA)
ByS2 == Submission(Statement(s2, i1, 1, 0, trusted), rawB)

MCRequests == {
    ByS1,
    \* the same observation, spelled differently and claiming less
    [Submission(Statement(s1, i1, 1, 1, trusted), NoRaw) EXCEPT
        !.nullifier = Respell(Nullifier(s1, i1, 1)), !.indicator_hash = Respell(i1)],
    \* the same contributor and indicator in the next epoch
    Submission(Statement(s1, i1, 2, 1, trusted), NoRaw),
    ByS2,
    \* the same observation, under the throwaway tree
    Submission(Statement(s2, i1, 1, 3, throwaway), NoRaw),
    Submission(Statement(s3, i1, 1, 0, trusted), NoRaw),
    Submission(Statement(s3, i1, 1, 1, trusted), NoRaw),
    \* refused: a tier the proof does not claim, a foreign disclosure, a bad text, a bad proof
    [ByS2 EXCEPT !.min_tier = 1],
    [ByS2 EXCEPT !.indicator = rawC],
    [ByS2 EXCEPT !.root = [fr |-> NotAField, spelling |-> "other"]],
    [ByS2 EXCEPT !.proof = MalformedProof] }

MCQueries == {[indicator_hash |-> text, epoch |-> 1] : text \in {FrToHex(i1), Respell(i1)}}

\* TierWeights::default_weights, and a set TierWeights::new accepts whose tier 0 is 0.
DefaultWeights == <<1, 2, 4, 8>>
MCDefaultWeights == [t \in 0..3 |-> DefaultWeights[t + 1]]
MCZeroWeights == [t \in 0..3 |-> IF t = 3 THEN 2 ELSE t]

=============================================================================
