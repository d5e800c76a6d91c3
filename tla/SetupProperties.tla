--------------------------- MODULE SetupProperties ---------------------------
(***************************************************************************)
(* What a trusted setup promises, from its first power of tau to a key     *)
(* that proves.                                                            *)
(***************************************************************************)
EXTENDS Setup, FiniteSets

CONSTANTS
    Assignments,    \* assignments of the variables that satisfy the circuit
    Blinds          \* pairs of the scalars r and s a prover draws

ASSUME AssignmentsAssumption == \A z \in Assignments :
    /\ z \in [0..(Variables - 1) -> Scalars] /\ z[0] = One
    /\ \A j \in 0..(Constraints - 1) :
        LET Row(matrix) == SumOf([v \in DOMAIN z |-> Mul(matrix[j][v], z[v])])
        IN  Mul(Row(Matrices.a), Row(Matrices.b)) = Row(Matrices.c)

ASSUME BlindsAssumption == Blinds \subseteq Scalars \X Scalars

----------------------------------------------------------------------------
(* Phase 1.                                                                *)

\* An accumulator holds the powers of one tau, in both groups, alone and times one
\* alpha and one beta.
IsPowersOfTau(acc) ==
    LET tau == acc.tau_powers_g1[2]
    IN  /\ acc.tau_powers_g1[1] = One
        /\ acc.tau_powers_g2[1] = OverG2(One)
        /\ acc.tau_powers_g2[2] = OverG2(tau)
        /\ \A v \in VectorsG1 : \A i \in 1..(Len(acc[v]) - 1) : acc[v][i + 1] = Mul(acc[v][i], tau)
        /\ \A i \in 1..(Len(acc.tau_powers_g2) - 1) :
            acc.tau_powers_g2[i + 1] = Times(acc.tau_powers_g2[i], tau)
        /\ acc.beta_g2 = OverG2(acc.beta_tau_powers_g1[1])

\* Whatever arrives, and in whatever order, every accumulator that verify lets into the
\* chain is of the powers of one tau: from_phase1 relies on it, and verify looks at every
\* vector by itself and never at the secrets.
PowersOfOneTau == \A i \in DOMAIN states : IsPowersOfTau(states[i])

\* The product of the secrets of a name, of some people in a row.
ProductAlong(people, name) ==
    LET product[i \in 0..Len(people)] ==
            IF i = 0 THEN One ELSE Mul(product[i - 1], Secrets[people[i]][name])
    IN  product[Len(people)]

\* Contributors in a row, each at most once.
LineUps ==
    {people \in UNION {[1..n -> Contributors] : n \in 0..Cardinality(Contributors)} :
        IsInjective(people)}

\* What a random draw gives: a product of secrets tells whose they are.
IndependentSecrets ==
    /\ IsFiniteSet(Contributors)
    /\ \A name \in Personalizations : \A some, others \in LineUps :
        ProductAlong(some, name) = ProductAlong(others, name) => Range(some) = Range(others)

\* tau, alpha and beta are each the product of exactly the secrets of those who were
\* accepted: work on an accumulator that was not the last any more is not in it, nobody is
\* in it twice, and one secret that is forgotten hides them all.
EachSecretCountsOnce ==
    /\ LastState.tau_powers_g1[2] = ProductAlong(chain, "tau")
    /\ LastState.alpha_tau_powers_g1[1] = ProductAlong(chain, "alpha")
    /\ LastState.beta_tau_powers_g1[1] = ProductAlong(chain, "beta")

\* What a contributor made of the last accumulator is accepted when it arrives as it is:
\* verify_chain accepts everything published so far with it at the end.
HonestOfferVerifies == \A c \in Contributors :
    (offers[c] # NoOffer /\ offers[c].on = Len(states)) =>
        VerifyChain(Append(states, offers[c].after), Append(pubkeys, offers[c].pubkey))

----------------------------------------------------------------------------
(* Groth16 of ark_groth16, as the tests of the bridge call it.             *)

\* The values of a matrix times an assignment on the evaluation domain; those of A go on
\* with the instance variables.
Values(name, z) ==
    [j \in 0..(DomainSize - 1) |->
        IF j < Constraints THEN SumOf([v \in DOMAIN z |-> Mul(Matrices[name][j][v], z[v])])
        ELSE IF name = "a" /\ j < Constraints + Instances THEN z[j - Constraints]
        ELSE Zero]

Coefficients(name, z) == Ifft(Listed(Values(name, z), 0, DomainSize - 1))

\* The quotient of A * B - C by X^m - 1: the upper half of the coefficients of A * B.
Quotient(z) ==
    LET a == Coefficients("a", z)
        b == Coefficients("b", z)
        m == DomainSize
    IN  [i \in 1..(m - 1) |-> SumOf([j \in i..(m - 1) |-> Mul(a[j], b[m + i - 1 - j])])]

\* The sum of z times a query.
Weighted(query, z) == SumOf([v \in DOMAIN query |-> Mul(z[v], query[v])])

\* Groth16::prove with the blinding factors r and s.
Prove(p, z, r, s) ==
    LET a == Add(Add(p.fixed_vk.alpha_g1, Weighted(p.fixed_pk.a_query, z)), Mul(r, p.delta_g1))
        b_g1 == Add(Add(p.fixed_pk.beta_g1, Weighted(p.fixed_pk.b_g1_query, z)), Mul(s, p.delta_g1))
        b_g2 == Add(Add(p.fixed_vk.beta_g2.exp, Weighted(p.fixed_pk.b_g2_query, z)),
                    Mul(s, p.delta_g2.exp))
        witness == [i \in DOMAIN p.l_query |-> z[Instances + i - 1]]
        c == Add(Weighted(p.l_query, witness), Weighted(p.h_query, Quotient(z)))
    IN  [a |-> a, b |-> OverG2(b_g2),
         c |-> Sub(Add(Add(c, Mul(s, a)), Mul(r, b_g1)), Mul(Mul(r, s), p.delta_g1))]

\* Groth16::verify with the public inputs of z.
ProofVerifies(p, z, proof) ==
    LET inputs == [i \in DOMAIN p.fixed_vk.gamma_abc_g1 |-> z[i - 1]]
    IN  Mul(proof.a, proof.b.exp) =
            Add(Add(Mul(p.fixed_vk.alpha_g1, p.fixed_vk.beta_g2.exp),
                    Mul(Weighted(p.fixed_vk.gamma_abc_g1, inputs), p.fixed_vk.gamma_g2.exp)),
                Mul(proof.c, p.delta_g2.exp))

\* A key that the bridge makes of any accumulator of the chain, whoever has contributed to
\* phase 2 since, proves what is true: the domain and the places of the variables are the
\* ones the prover counts with.
KeyProves == HasKey =>
    \A z \in Assignments, blind \in Blinds :
        ProofVerifies(params, z, Prove(params, z, blind[1], blind[2]))

\* One of the elements is not the identity, unless there is none.
Live(query) == query = << >> \/ \E i \in DOMAIN query : query[i] # Zero

\* What a random draw gives: the key made of an accumulator of any contributors' secrets
\* is not the identity throughout a query.  (A tau in the evaluation domain would make the
\* h query so; the l query is if the circuit uses none of its private variables.)
LiveKeys == \A people \in LineUps \ {<< >>} :
    LET product == [name \in Personalizations |-> ProductAlong(people, name)]
        key == FromPhase1(ContributePowers(NewAccumulator(DomainSize + 1), product))
    IN  Live(key.h_query) /\ Live(key.l_query)

\* Whoever contributes to phase 2 after at least one contribution to phase 1 is accepted:
\* what the bridge makes can be checked against what is made of it.
BridgedHopVerifies == (HasKey /\ chain # << >>) =>
    \A c \in Contributors : Hop!Verify(params, Contribution(c)) = "ok"

=============================================================================
