------------------------------- MODULE Phase2 -------------------------------
(***************************************************************************)
(* Phase 2 of the trusted-setup ceremony (ceremony/src/params.rs,          *)
(* keypair.rs): parameters whose delta every contributor multiplies by a   *)
(* secret, and the checks of one hop and of the whole history of           *)
(* contributions.                                                          *)
(***************************************************************************)
EXTENDS Pairings

CONSTANTS
    Setups,         \* starting points: draws of alpha, beta and gamma for the circuit
    HQuery,         \* the h_query of a starting point, as exponents
    LQuery,         \* its l_query
    ZeroHash        \* 64 zero bytes, where a cs_hash is expected

ASSUME QueriesAssumption == HQuery \in Seq(Scalars) /\ LQuery \in Seq(Scalars)
ASSUME ZeroHashAssumption == ZeroHash \notin Setups

----------------------------------------------------------------------------
(* keypair.rs                                                              *)

\* hash_cs_pubkeys
Transcript(cs_hash, contributions, s, s_delta) ==
    [cs_hash |-> cs_hash, contributions |-> contributions, s |-> s, s_delta |-> s_delta]

\* Keypair::new, with the secret delta and the point s it draws: its public key.
PublicKey(delta_g1, cs_hash, contributions, delta, s) ==
    LET transcript == Transcript(cs_hash, contributions, s, Mul(s, delta))
    IN  [delta_after |-> Mul(delta_g1, delta),
         s |-> s,
         s_delta |-> Mul(s, delta),
         r_delta |-> Times(HashToG2(transcript), delta),
         transcript |-> transcript]

----------------------------------------------------------------------------
(* params.rs                                                               *)

\* MPCParameters::new_placeholder.  What no contribution changes of the proving key
\* is named by the starting point it comes from: fixed_vk the part inside the
\* verifying key (alpha_g1, beta_g2, gamma_g2, gamma_abc_g1), fixed_pk the other one
\* (beta_g1, a_query, b_g1_query, b_g2_query); hash_params of it names the same.
NewPlaceholder(setup) ==
    [fixed_vk |-> setup, fixed_pk |-> setup,
     delta_g1 |-> One, delta_g2 |-> OverG2(One),
     h_query |-> HQuery, l_query |-> LQuery,
     cs_hash |-> setup, contributions |-> << >>]

ScaledBy(query, x) == [i \in DOMAIN query |-> Mul(query[i], x)]

\* MUTANT: h_query keeps its scale.
ContributeLeavingH(p, delta, s) ==
    [p EXCEPT
        !.l_query = ScaledBy(@, Inv(delta)),
        !.delta_g2 = Times(@, delta),
        !.delta_g1 = Mul(@, delta),
        !.contributions = Append(@, PublicKey(p.delta_g1, p.cs_hash, @, delta, s))]

\* MPCParameters::contribute
Contribute(p, delta, s) ==
    [p EXCEPT
        !.h_query = ScaledBy(@, Inv(delta)),
        !.l_query = ScaledBy(@, Inv(delta)),
        !.delta_g2 = Times(@, delta),
        !.delta_g1 = Mul(@, delta),
        !.contributions = Append(@, PublicKey(p.delta_g1, p.cs_hash, @, delta, s))]

\* verify_transcript succeeds.
TranscriptVerifies(cs_hash, contributions) ==
    \A i \in DOMAIN contributions :
        LET pubkey == contributions[i]
            hash == Transcript(cs_hash, SubSeq(contributions, 1, i - 1),
                               pubkey.s, pubkey.s_delta)
            r == HashToG2(hash)
            old_delta == IF i = 1 THEN G1 ELSE contributions[i - 1].delta_after
        IN  /\ pubkey.transcript = hash
            /\ CheckSameRatio(<<pubkey.s, pubkey.s_delta>>, <<r, pubkey.r_delta>>)
            /\ CheckSameRatio(<<old_delta, pubkey.delta_after>>, <<r, pubkey.r_delta>>)

\* The delta that params claim is the last contribution's, in both groups.
DeltaIsLast(after) ==
    /\ after.contributions[Len(after.contributions)].delta_after = after.delta_g1
    /\ CheckSameRatio(<<G1, after.delta_g1>>, <<G2, after.delta_g2>>)

\* MUTANT: only the number of prior contributions is compared.
KeepsLength(before, after) == Len(before.contributions) <= Len(after.contributions)

\* after starts with all the contributions of before.
KeepsContributions(before, after) ==
    SubSeq(after.contributions, 1, Len(before.contributions)) = before.contributions

KeepsFixedParts(before, after) ==
    /\ before.cs_hash = after.cs_hash
    /\ before.fixed_vk = after.fixed_vk
    /\ before.fixed_pk = after.fixed_pk

\* A query has kept its length and changed by the ratio of the deltas.
QueryRescaled(before, after, query_before, query_after) ==
    /\ Len(query_before) = Len(query_after)
    /\ query_before # << >> =>
        CheckMergedRatio(query_before, query_after, <<after.delta_g2, before.delta_g2>>)

\* MUTANT: the check of l_query is lost.
OnlyHRescaled(before, after) ==
    QueryRescaled(before, after, before.h_query, after.h_query)

QueriesRescaled(before, after) ==
    /\ QueryRescaled(before, after, before.h_query, after.h_query)
    /\ QueryRescaled(before, after, before.l_query, after.l_query)

\* MPCParameters::verify: how before.verify(&after) ends.  The slice of the prior
\* contributions panics when after has fewer than before.
Verify(before, after) ==
    IF after.contributions = << >> \/ ~ DeltaIsLast(after) THEN "error"
    ELSE IF Len(after.contributions) < Len(before.contributions) THEN "panic"
    ELSE IF /\ KeepsContributions(before, after)
            /\ KeepsFixedParts(before, after)
            /\ QueriesRescaled(before, after)
            /\ TranscriptVerifies(before.cs_hash, after.contributions)
         THEN "ok" ELSE "error"

=============================================================================
