------------------------------- MODULE Phase1 -------------------------------
(***************************************************************************)
(* Phase 1 of the trusted-setup ceremony (ceremony/src/phase1.rs): powers  *)
(* of a tau nobody knows, alone and times alpha and beta, and the check of *)
(* one contributor's hop.                                                  *)
(***************************************************************************)
EXTENDS Pairings

\* x^0, x^1, ..., x^n as a function on 0..n: tau_power of contribute.
PowersOf(x, n) ==
    LET power[i \in 0..n] == IF i = 0 THEN One ELSE Mul(power[i - 1], x)
    IN  power

\* Accumulator::new
NewAccumulator(size) ==
    [tau_powers_g1 |-> [i \in 1..(2 * size - 1) |-> G1],
     tau_powers_g2 |-> [i \in 1..size |-> G2],
     alpha_tau_powers_g1 |-> [i \in 1..size |-> G1],
     beta_tau_powers_g1 |-> [i \in 1..size |-> G1],
     beta_g2 |-> G2]

Size(acc) == Len(acc.tau_powers_g2)

----------------------------------------------------------------------------
(* Keypair::new                                                            *)

\* compute_g2_s: the digest is the accumulator it is the hash of.
ComputeG2S(digest, g1_s, g1_s_x, personalization) ==
    HashToG2(<<personalization, digest, g1_s, g1_s_x>>)

\* prove_secret, with the point g1_s it draws.
ProveSecret(secret, personalization, digest, g1_s) ==
    LET g2_s == ComputeG2S(digest, g1_s, Mul(g1_s, secret), personalization)
    IN  [g1_s |-> g1_s, g1_s_x |-> Mul(g1_s, secret), g2_s_x |-> Times(g2_s, secret)]

Personalizations == {"tau", "alpha", "beta"}

\* The public key of the secrets, with the points g1_s drawn next to them.
ProveSecrets(secrets, digest, points) ==
    [name \in Personalizations |-> ProveSecret(secrets[name], name, digest, points[name])]

----------------------------------------------------------------------------
(* contribute                                                              *)

\* contribute indexes the powers of alpha and beta up to size, and panics past their end.
CanContribute(before) ==
    /\ Size(before) <= Len(before.alpha_tau_powers_g1)
    /\ Size(before) <= Len(before.beta_tau_powers_g1)

\* MUTANT: beta_g2 is left as it was.
ContributeOneBeta(before, secrets) ==
    LET tau == PowersOf(secrets.tau, Len(before.tau_powers_g1) + Size(before))
        size == Size(before)
    IN  [tau_powers_g1 |->
            [i \in 1..Len(before.tau_powers_g1) |-> Mul(before.tau_powers_g1[i], tau[i - 1])],
         tau_powers_g2 |-> [i \in 1..size |-> Times(before.tau_powers_g2[i], tau[i - 1])],
         alpha_tau_powers_g1 |->
            [i \in 1..size |-> Mul(before.alpha_tau_powers_g1[i], Mul(secrets.alpha, tau[i - 1]))],
         beta_tau_powers_g1 |->
            [i \in 1..size |-> Mul(before.beta_tau_powers_g1[i], Mul(secrets.beta, tau[i - 1]))],
         beta_g2 |-> before.beta_g2]

\* The accumulator contribute returns; ProveSecrets is the public key next to it.
ContributePowers(before, secrets) ==
    LET tau == PowersOf(secrets.tau, Len(before.tau_powers_g1) + Size(before))
        size == Size(before)
    IN  [tau_powers_g1 |->
            [i \in 1..Len(before.tau_powers_g1) |-> Mul(before.tau_powers_g1[i], tau[i - 1])],
         tau_powers_g2 |-> [i \in 1..size |-> Times(before.tau_powers_g2[i], tau[i - 1])],
         alpha_tau_powers_g1 |->
            [i \in 1..size |-> Mul(before.alpha_tau_powers_g1[i], Mul(secrets.alpha, tau[i - 1]))],
         beta_tau_powers_g1 |->
            [i \in 1..size |-> Mul(before.beta_tau_powers_g1[i], Mul(secrets.beta, tau[i - 1]))],
         beta_g2 |-> Times(before.beta_g2, secrets.beta)]

----------------------------------------------------------------------------
(* verify                                                                  *)

\* g2_s of a proof, as the verifier computes it again.
G2S(before, proof, name) == ComputeG2S(before, proof.g1_s, proof.g1_s_x, name)

\* The proof is one of knowledge of a secret, made for this accumulator.
KnowsSecret(before, proof, name) ==
    CheckSameRatio(<<proof.g1_s, proof.g1_s_x>>, <<G2S(before, proof, name), proof.g2_s_x>>)

\* A point of G1, and one of G2, has changed by the secret of a proof.
ChangedInG1(before, x, y, proof, name) ==
    CheckSameRatio(<<x, y>>, <<G2S(before, proof, name), proof.g2_s_x>>)
ChangedInG2(x, y, proof) == CheckSameRatio(<<proof.g1_s, proof.g1_s_x>>, <<x, y>>)

\* power_pairs: every element of v but the last, and every one but the first.
Heads(v) == SubSeq(v, 1, Len(v) - 1)
Tails(v) == SubSeq(v, 2, Len(v))

\* MUTANT: looks at the powers of tau alone.
GeometricTau(after) ==
    /\ CheckMergedRatio(Heads(after.tau_powers_g1), Tails(after.tau_powers_g1),
            <<after.tau_powers_g2[1], after.tau_powers_g2[2]>>)
    /\ CheckMergedRatioG2(<<after.tau_powers_g1[1], after.tau_powers_g1[2]>>,
            Heads(after.tau_powers_g2), Tails(after.tau_powers_g2))

\* "Whole-sequence self-consistency"
Geometric(after) ==
    /\ \A v \in {after.tau_powers_g1, after.alpha_tau_powers_g1, after.beta_tau_powers_g1} :
        CheckMergedRatio(Heads(v), Tails(v), <<after.tau_powers_g2[1], after.tau_powers_g2[2]>>)
    /\ CheckMergedRatioG2(<<after.tau_powers_g1[1], after.tau_powers_g1[2]>>,
            Heads(after.tau_powers_g2), Tails(after.tau_powers_g2))

\* MUTANT: the first element of the powers of alpha is not compared with the one before.
VerifyButAlpha(before, after, pubkey) ==
    /\ \A name \in Personalizations : KnowsSecret(before, pubkey[name], name)
    /\ after.tau_powers_g1[1] = G1 /\ after.tau_powers_g2[1] = G2
    /\ ChangedInG1(before, before.tau_powers_g1[2], after.tau_powers_g1[2], pubkey.tau, "tau")
    /\ ChangedInG2(before.tau_powers_g2[2], after.tau_powers_g2[2], pubkey.tau)
    /\ ChangedInG1(before, before.beta_tau_powers_g1[1], after.beta_tau_powers_g1[1],
                   pubkey.beta, "beta")
    /\ ChangedInG2(before.beta_g2, after.beta_g2, pubkey.beta)
    /\ Geometric(after)

\* verify, for accumulators of size 2 or more.  (It panics on size 1, where there is no
\* tau^1 to look at.)
VerifyPowers(before, after, pubkey) ==
    /\ \A name \in Personalizations : KnowsSecret(before, pubkey[name], name)
    /\ after.tau_powers_g1[1] = G1 /\ after.tau_powers_g2[1] = G2
    /\ ChangedInG1(before, before.tau_powers_g1[2], after.tau_powers_g1[2], pubkey.tau, "tau")
    /\ ChangedInG2(before.tau_powers_g2[2], after.tau_powers_g2[2], pubkey.tau)
    /\ ChangedInG1(before, before.alpha_tau_powers_g1[1], after.alpha_tau_powers_g1[1],
                   pubkey.alpha, "alpha")
    /\ ChangedInG1(before, before.beta_tau_powers_g1[1], after.beta_tau_powers_g1[1],
                   pubkey.beta, "beta")
    /\ ChangedInG2(before.beta_g2, after.beta_g2, pubkey.beta)
    /\ Geometric(after)

\* verify_chain
VerifyChain(states, pubkeys) ==
    \A i \in 1..Len(pubkeys) : VerifyPowers(states[i], states[i + 1], pubkeys[i])

=============================================================================
