----------------------------- MODULE SetupProofs -----------------------------
(***************************************************************************)
(* Phase 1 keeps the powers of one tau, for every commutative field, every *)
(* number of contributors and every size: whatever arrives, with elements  *)
(* and parts that are wrong or missing, verify lets no other accumulator   *)
(* into the chain (SetupInv), and honest work is let in.                   *)
(*                                                                         *)
(* And the one tau is made of every accepted contributor's secret, once:   *)
(* CountInv says that the first powers are the products of the secrets     *)
(* along the chain, which tell whose they are if secrets are independent.  *)
(*                                                                         *)
(* So the last accumulator is, as far as the bridge reads it, the one that *)
(* a single contributor of the products makes; HopInv says that its key    *)
(* and what phase 2 makes of it can be gone on with.                       *)
(*                                                                         *)
(* And the key proves (KeyInv: the parameters of phase 2 are the bridge's, *)
(* with both queries divided by delta).  That rests on what the inverse    *)
(* transform does at tau, which sums over the domain show: it moves from   *)
(* one factor of a sum of products to the other, and a product of two      *)
(* polynomials is the one that has the products of their values, plus the  *)
(* upper half of its coefficients times the vanishing polynomial.          *)
(***************************************************************************)
EXTENDS SetupProperties, Foundations, SequenceTheorems

\* The factors of a product in another order.
LEMMA Regroup ==
    ASSUME NEW x \in Scalars, NEW y \in Scalars, NEW z \in Scalars
    PROVE  Mul(Mul(x, y), z) = Mul(x, Mul(z, y))
<1>1. Mul(Mul(x, y), z) = Mul(x, Mul(y, z))
    BY FieldAssumption
<1>2. Mul(y, z) = Mul(z, y)
    BY FieldAssumption
<1> QED BY <1>1, <1>2

\* In a field a factor other than Zero cancels: what an equation of two pairings says.
LEMMA Cancel ==
    ASSUME NEW a \in Scalars, a # Zero, NEW b \in Scalars, NEW c \in Scalars,
           Mul(a, b) = Mul(a, c)
    PROVE  b = c
<1>1. Inv(a) \in Scalars /\ Mul(Inv(a), a) = One
    BY FieldAssumption
<1>2. Mul(Inv(a), Mul(a, b)) = b
    BY <1>1, FieldAssumption
<1>3. Mul(Inv(a), Mul(a, c)) = c
    BY <1>1, FieldAssumption
<1> QED BY <1>2, <1>3

\* Every scalar of a public key is one.
WellFormedKey(pubkey) == \A name \in Personalizations :
    /\ pubkey[name].g1_s \in Scalars
    /\ pubkey[name].g1_s_x \in Scalars
    /\ pubkey[name].g2_s_x.exp \in Scalars

----------------------------------------------------------------------------
(* One hop.                                                                *)

\* The elements of an accumulator are scalars and points over the generator.
LEMMA Elements ==
    ASSUME NEW acc, Readable(acc)
    PROVE  /\ \A v \in VectorsG1 :
                /\ acc[v] \in Seq(Scalars) /\ Len(acc[v]) \in Nat /\ Len(acc[v]) >= 2
                /\ \A i \in 1..Len(acc[v]) : acc[v][i] \in Scalars
           /\ acc.tau_powers_g2 \in Seq(G2Points) /\ Len(acc.tau_powers_g2) \in Nat
           /\ Len(acc.tau_powers_g2) >= 2
           /\ \A i \in 1..Len(acc.tau_powers_g2) :
                /\ acc.tau_powers_g2[i].base = << >> /\ acc.tau_powers_g2[i].exp \in Scalars
                /\ acc.tau_powers_g2[i] = OverG2(acc.tau_powers_g2[i].exp)
           /\ acc.beta_g2 = OverG2(acc.beta_g2.exp)
           /\ acc.beta_g2.base = << >> /\ acc.beta_g2.exp \in Scalars
<1>1. \A v \in VectorsG1 : acc[v] \in Seq(Scalars)
    BY DEF Readable, Accumulators, VectorsG1
<1>2. acc.tau_powers_g2 \in Seq(G2Points) /\ acc.beta_g2 \in G2Points
    BY DEF Readable, Accumulators
<1>3. /\ \A v \in VectorsG1 : Len(acc[v]) > 1
      /\ Len(acc.tau_powers_g2) > 1
    BY DEF Readable, Vectors
<1>4. \A p \in G2Points : p.base = << >> /\ p.exp \in Scalars /\ p = OverG2(p.exp)
    BY DEF G2Points, OverG2, G2
<1>5. \A v \in VectorsG1 :
        Len(acc[v]) \in Nat /\ \A i \in 1..Len(acc[v]) : acc[v][i] \in Scalars
    BY <1>1, ElementOfSeq, LenProperties
<1>6. /\ Len(acc.tau_powers_g2) \in Nat
      /\ \A i \in 1..Len(acc.tau_powers_g2) : acc.tau_powers_g2[i] \in G2Points
    BY <1>2, ElementOfSeq, LenProperties
<1> QED BY <1>1, <1>2, <1>3, <1>4, <1>5, <1>6

\* The consecutive elements that power_pairs lines up.
LEMMA HeadsAndTails ==
    ASSUME NEW S, NEW v \in Seq(S), Len(v) >= 2
    PROVE  /\ DOMAIN Heads(v) = 1..(Len(v) - 1)
           /\ \A i \in 1..(Len(v) - 1) : Heads(v)[i] = v[i] /\ Tails(v)[i] = v[i + 1]
BY SubSeqProperties DEF Heads, Tails

\* What the checks on whole vectors say: the powers of one tau, in G1 and in G2.
LEMMA GeometricIsPowers ==
    ASSUME NEW acc, Readable(acc), Geometric(acc),
           acc.tau_powers_g1[1] = One, acc.tau_powers_g2[1] = OverG2(One)
    PROVE  LET tau == acc.tau_powers_g1[2]
           IN  /\ acc.tau_powers_g2[2] = OverG2(tau)
               /\ \A v \in VectorsG1 :
                    \A i \in 1..(Len(acc[v]) - 1) : acc[v][i + 1] = Mul(acc[v][i], tau)
               /\ \A i \in 1..(Len(acc.tau_powers_g2) - 1) :
                    acc.tau_powers_g2[i + 1] = Times(acc.tau_powers_g2[i], tau)
<1> DEFINE tau == acc.tau_powers_g1[2]
           x == acc.tau_powers_g2[2].exp
<1>1. tau \in Scalars /\ x \in Scalars /\ acc.tau_powers_g2[2] = OverG2(x)
    BY Elements DEF VectorsG1
<1>2. acc.tau_powers_g2[1].exp = One
    BY DEF OverG2, G2
<1>3. ASSUME NEW v \in VectorsG1, NEW i \in 1..(Len(acc[v]) - 1)
      PROVE  acc[v][i + 1] = Mul(acc[v][i], x)
    <2>1. /\ acc[v] \in Seq(Scalars) /\ Len(acc[v]) \in Nat /\ Len(acc[v]) >= 2
          /\ acc[v][i] \in Scalars /\ acc[v][i + 1] \in Scalars
        BY Elements, i \in 1..Len(acc[v]), i + 1 \in 1..Len(acc[v])
    <2>2. CheckMergedRatio(Heads(acc[v]), Tails(acc[v]),
                           <<acc.tau_powers_g2[1], acc.tau_powers_g2[2]>>)
        BY DEF Geometric, VectorsG1
    <2>3. Pairing(Heads(acc[v])[i], acc.tau_powers_g2[2])
            = Pairing(Tails(acc[v])[i], acc.tau_powers_g2[1])
        BY <2>1, <2>2, HeadsAndTails DEF CheckMergedRatio
    <2>4. Mul(acc[v][i], x) = Mul(acc[v][i + 1], One)
        BY <2>1, <2>3, <1>2, HeadsAndTails DEF Pairing
    <2> QED BY <2>1, <2>4, FieldAssumption
<1>4. x = tau
    <2>1. tau = Mul(One, x)
        BY <1>3, Elements, 1 \in 1..(Len(acc.tau_powers_g1) - 1) DEF VectorsG1
    <2> QED BY <2>1, <1>1, FieldAssumption
<1>5. ASSUME NEW i \in 1..(Len(acc.tau_powers_g2) - 1)
      PROVE  acc.tau_powers_g2[i + 1] = Times(acc.tau_powers_g2[i], tau)
    <2> DEFINE p == acc.tau_powers_g2[i]
               q == acc.tau_powers_g2[i + 1]
    <2>1. /\ p = OverG2(p.exp) /\ q = OverG2(q.exp) /\ p.exp \in Scalars /\ q.exp \in Scalars
          /\ acc.tau_powers_g2 \in Seq(G2Points) /\ Len(acc.tau_powers_g2) >= 2
        BY Elements, i \in 1..Len(acc.tau_powers_g2), i + 1 \in 1..Len(acc.tau_powers_g2)
    <2>2. CheckMergedRatioG2(<<acc.tau_powers_g1[1], tau>>,
                             Heads(acc.tau_powers_g2), Tails(acc.tau_powers_g2))
        BY DEF Geometric
    <2>3. Pairing(One, q) = Pairing(tau, p)
        BY <2>1, <2>2, HeadsAndTails DEF CheckMergedRatioG2
    <2>4. Mul(One, q.exp) = Mul(tau, p.exp)
        BY <2>3 DEF Pairing
    <2>5. q.exp = Mul(p.exp, tau)
        BY <2>1, <2>4, <1>1, FieldAssumption
    <2> QED BY <2>1, <2>5 DEF Times, OverG2, G2
<1> QED BY <1>1, <1>3, <1>4, <1>5

\* beta_g2 moves by the secret that the powers of beta in G1 move by.
LEMMA BetaMovesInBoth ==
    ASSUME NEW before, NEW after, NEW pubkey,
           Readable(before), Readable(after), WellFormedKey(pubkey),
           before.beta_g2 = OverG2(before.beta_tau_powers_g1[1]),
           VerifyPowers(before, after, pubkey)
    PROVE  after.beta_g2 = OverG2(after.beta_tau_powers_g1[1])
<1> DEFINE proof == pubkey.beta
           b == before.beta_tau_powers_g1[1]
           a == after.beta_tau_powers_g1[1]
           k == proof.g2_s_x.exp
<1>1. /\ b \in Scalars /\ a \in Scalars /\ after.beta_g2.exp \in Scalars
      /\ after.beta_g2 = OverG2(after.beta_g2.exp)
      /\ proof.g1_s \in Scalars /\ proof.g1_s_x \in Scalars /\ k \in Scalars
    BY Elements DEF VectorsG1, WellFormedKey, Personalizations
<1>2. G2S(before, proof, "beta").exp = One
    BY DEF G2S, ComputeG2S, HashToG2
<1>3. /\ CheckSameRatio(<<proof.g1_s, proof.g1_s_x>>,
                        <<G2S(before, proof, "beta"), proof.g2_s_x>>)
      /\ CheckSameRatio(<<b, a>>, <<G2S(before, proof, "beta"), proof.g2_s_x>>)
      /\ CheckSameRatio(<<proof.g1_s, proof.g1_s_x>>, <<before.beta_g2, after.beta_g2>>)
    BY DEF VerifyPowers, KnowsSecret, ChangedInG1, ChangedInG2, Personalizations
<1>4. Mul(proof.g1_s, k) = Mul(proof.g1_s_x, One) /\ proof.g1_s # Zero
    BY <1>2, <1>3 DEF CheckSameRatio, Pairing
<1>5. Mul(b, k) = Mul(a, One)
    BY <1>2, <1>3 DEF CheckSameRatio, Pairing
<1>6. Mul(proof.g1_s, after.beta_g2.exp) = Mul(proof.g1_s_x, b)
    <2>1. before.beta_g2.exp = b
        BY DEF OverG2, G2
    <2> QED BY <2>1, <1>3 DEF CheckSameRatio, Pairing
<1>7. Mul(proof.g1_s, after.beta_g2.exp) = Mul(proof.g1_s, Mul(b, k))
    <2>1. proof.g1_s_x = Mul(proof.g1_s, k)
        BY <1>1, <1>4, FieldAssumption
    <2>2. Mul(Mul(proof.g1_s, k), b) = Mul(proof.g1_s, Mul(b, k))
        BY <1>1, Regroup
    <2>3. Mul(proof.g1_s_x, b) = Mul(Mul(proof.g1_s, k), b)
        BY <2>1
    <2> QED BY <2>2, <2>3, <1>6
<1>8. after.beta_g2.exp = Mul(b, k) /\ a = Mul(b, k)
    <2>1. Mul(b, k) \in Scalars /\ Mul(a, One) = a
        BY <1>1, FieldAssumption
    <2>2. after.beta_g2.exp = Mul(b, k)
        BY <2>1, <1>1, <1>4, <1>7, Cancel
    <2> QED BY <2>1, <2>2, <1>5
<1> QED BY <1>1, <1>8

\* One hop: verify accepts nothing but powers of one tau after powers of one tau.
LEMMA HopKeepsPowers ==
    ASSUME NEW before, NEW after, NEW pubkey,
           Readable(before), Readable(after), WellFormedKey(pubkey),
           IsPowersOfTau(before), VerifyPowers(before, after, pubkey)
    PROVE  IsPowersOfTau(after)
<1>1. after.tau_powers_g1[1] = One /\ after.tau_powers_g2[1] = OverG2(One) /\ Geometric(after)
    BY DEF VerifyPowers, G1, G2, OverG2
<1>2. after.beta_g2 = OverG2(after.beta_tau_powers_g1[1])
    BY BetaMovesInBoth DEF IsPowersOfTau
<1> QED BY <1>1, <1>2, GeometricIsPowers DEF IsPowersOfTau

----------------------------------------------------------------------------
(* The specification.                                                      *)

PublicKeysOK ==
    /\ offers = [c \in Contributors |-> offers[c]]
    /\ \A c \in Contributors : offers[c] # NoOffer => WellFormedKey(offers[c].pubkey)

StatesOK ==
    /\ states \in Seq(Accumulators) /\ states # << >>
    /\ \A i \in 1..Len(states) : Readable(states[i])

\* The inductive invariant: the chain and the public keys are well formed, and every
\* accumulator of the chain is of the powers of one tau.
SetupInv == StatesOK /\ PublicKeysOK /\ PowersOfOneTau

\* The accumulator that phase 1 starts with, where tau, alpha and beta are One.
LEMMA NewIsPowers ==
    ASSUME NEW size \in Nat, size > 1
    PROVE  Readable(NewAccumulator(size)) /\ IsPowersOfTau(NewAccumulator(size))
<1> DEFINE acc == NewAccumulator(size)
<1>1. One \in Scalars /\ Mul(One, One) = One
    BY FieldAssumption
<1>2. /\ acc.tau_powers_g1 = [i \in 1..(2 * size - 1) |-> One]
      /\ acc.alpha_tau_powers_g1 = [i \in 1..size |-> One]
      /\ acc.beta_tau_powers_g1 = [i \in 1..size |-> One]
      /\ acc.tau_powers_g2 = [i \in 1..size |-> G2]
      /\ acc.beta_g2 = G2
    BY DEF NewAccumulator, G1
<1>3. /\ Len(acc.tau_powers_g1) = 2 * size - 1 /\ Len(acc.tau_powers_g2) = size
      /\ Len(acc.alpha_tau_powers_g1) = size /\ Len(acc.beta_tau_powers_g1) = size
    BY <1>2
<1>4. G2 \in G2Points /\ G2 = OverG2(One) /\ Times(G2, One) = G2
    BY <1>1 DEF G2, G2Points, OverG2, Times
<1>5. Readable(acc)
    <2>1. acc \in Accumulators
        <3>1. /\ acc.tau_powers_g1 \in Seq(Scalars) /\ acc.alpha_tau_powers_g1 \in Seq(Scalars)
              /\ acc.beta_tau_powers_g1 \in Seq(Scalars) /\ acc.tau_powers_g2 \in Seq(G2Points)
            BY <1>1, <1>2, <1>4
        <3> QED BY <3>1, <1>2, <1>4 DEF NewAccumulator, Accumulators
    <2> QED BY <2>1, <1>3 DEF Readable, Vectors, VectorsG1
<1>6. IsPowersOfTau(acc)
    <2>1. ASSUME NEW v \in VectorsG1, NEW i \in 1..(Len(acc[v]) - 1)
          PROVE  acc[v][i + 1] = Mul(acc[v][i], acc.tau_powers_g1[2])
        <3>1. acc[v] = [j \in 1..Len(acc[v]) |-> One] /\ Len(acc[v]) \in Nat
            BY <1>2, <1>3 DEF VectorsG1
        <3>2. acc[v][i] = One /\ acc[v][i + 1] = One
            BY <3>1, i \in 1..Len(acc[v]), i + 1 \in 1..Len(acc[v])
        <3>3. acc.tau_powers_g1[2] = One
            BY <1>2, 2 \in 1..(2 * size - 1)
        <3> HIDE DEF acc
        <3> QED BY <1>1, <3>2, <3>3
    <2>2. ASSUME NEW i \in 1..(Len(acc.tau_powers_g2) - 1)
          PROVE  acc.tau_powers_g2[i + 1] = Times(acc.tau_powers_g2[i], acc.tau_powers_g1[2])
        BY <1>2, <1>3, <1>4
    <2> QED BY <2>1, <2>2, <1>2, <1>4 DEF IsPowersOfTau
<1> QED BY <1>5, <1>6

\* The public key that contribute returns.
LEMMA MadeKey ==
    ASSUME NEW c \in Contributors, NEW before
    PROVE  WellFormedKey(ProveSecrets(Secrets[c], before, Points[c]))
<1> SUFFICES ASSUME NEW name \in Personalizations
             PROVE  LET proof == ProveSecrets(Secrets[c], before, Points[c])[name]
                    IN  /\ proof.g1_s \in Scalars /\ proof.g1_s_x \in Scalars
                        /\ proof.g2_s_x.exp \in Scalars
    BY DEF WellFormedKey
<1>1. Secrets[c][name] \in Scalars /\ Points[c][name] \in Scalars
    BY ContributorsAssumption DEF Personalizations
<1>2. /\ Mul(Points[c][name], Secrets[c][name]) \in Scalars
      /\ Mul(One, Secrets[c][name]) \in Scalars
    BY <1>1, FieldAssumption
<1> QED BY <1>1, <1>2 DEF ProveSecrets, ProveSecret, ComputeG2S, HashToG2, Times

\* Phase 1 starts with the powers of One.
LEMMA InitEstablishes == Init => SetupInv
<1> SUFFICES ASSUME Init PROVE SetupInv
    OBVIOUS
<1>1. PICK size \in Sizes : states = <<NewAccumulator(size)>>
    BY DEF Init
<1>2. Readable(NewAccumulator(size)) /\ IsPowersOfTau(NewAccumulator(size))
    BY NewIsPowers, ContributorsAssumption
<1>3. StatesOK /\ PowersOfOneTau
    <2> DEFINE acc == NewAccumulator(size)
    <2> HIDE DEF acc
    <2>1. states = <<acc>> /\ acc \in Accumulators /\ Readable(acc) /\ IsPowersOfTau(acc)
        BY <1>1, <1>2 DEF acc, Readable
    <2>2. states \in Seq(Accumulators) /\ Len(states) = 1 /\ states[1] = acc
        BY <2>1
    <2> QED BY <2>1, <2>2 DEF StatesOK, PowersOfOneTau
<1>4. PublicKeysOK
    BY DEF Init, PublicKeysOK
<1> QED BY <1>3, <1>4 DEF SetupInv

\* No step puts anything else into the chain.
LEMMA StepPreserves == SetupInv /\ [Next]_vars => SetupInv'
<1> SUFFICES ASSUME SetupInv, [Next]_vars PROVE SetupInv'
    OBVIOUS
<1>1. ASSUME UNCHANGED <<states, offers>> PROVE SetupInv'
    BY <1>1 DEF SetupInv, StatesOK, PublicKeysOK, PowersOfOneTau, WellFormedKey, Readable,
                IsPowersOfTau
<1>2. ASSUME NEW c \in Contributors, MakeOffer(c) PROVE SetupInv'
    <2>1. StatesOK' /\ PowersOfOneTau'
        BY <1>2 DEF MakeOffer, SetupInv, StatesOK, PowersOfOneTau
    <2>2. PublicKeysOK'
        BY <1>2, MadeKey DEF MakeOffer, SetupInv, PublicKeysOK
    <2> QED BY <2>1, <2>2 DEF SetupInv
<1>3. ASSUME NEW c \in Contributors, Accept(c) PROVE SetupInv'
    <2>1. PICK d \in Contributors, after \in Arrivals(offers[c].after) :
            /\ offers[d] # NoOffer /\ Readable(after)
            /\ VerifyPowers(LastState, after, offers[d].pubkey)
            /\ states' = Append(states, after)
        BY <1>3 DEF Accept
    <2>2. Readable(LastState) /\ IsPowersOfTau(LastState) /\ WellFormedKey(offers[d].pubkey)
        BY <2>1 DEF SetupInv, StatesOK, PublicKeysOK, PowersOfOneTau, LastState
    <2>3. IsPowersOfTau(after)
        BY <2>1, <2>2, HopKeepsPowers
    <2>4. /\ states' \in Seq(Accumulators) /\ Len(states') = Len(states) + 1
          /\ Len(states) \in Nat /\ DOMAIN states' = 1..Len(states')
          /\ \A i \in 1..Len(states) : states'[i] = states[i]
          /\ states'[Len(states) + 1] = after
        BY <2>1, AppendProperties DEF SetupInv, StatesOK, Readable
    <2>5. \A i \in 1..Len(states') : Readable(states'[i]) /\ IsPowersOfTau(states'[i])
        <3> SUFFICES ASSUME NEW i \in 1..Len(states')
                     PROVE  Readable(states'[i]) /\ IsPowersOfTau(states'[i])
            OBVIOUS
        <3>1. CASE i \in 1..Len(states)
            BY <3>1, <2>4 DEF SetupInv, StatesOK, PowersOfOneTau
        <3>2. CASE i = Len(states) + 1
            BY <3>2, <2>1, <2>3, <2>4
        <3> QED BY <3>1, <3>2, <2>4
    <2>6. StatesOK' /\ PowersOfOneTau'
        BY <2>4, <2>5 DEF StatesOK, PowersOfOneTau
    <2>7. PublicKeysOK'
        BY <1>3 DEF Accept, SetupInv, PublicKeysOK
    <2> QED BY <2>6, <2>7 DEF SetupInv
<1>4. ASSUME NEW c \in Contributors, ContributeDelta(c) PROVE SetupInv'
    BY <1>1, <1>4 DEF ContributeDelta
<1>5. CASE BridgePhases
    BY <1>1, <1>5 DEF BridgePhases
<1>6. CASE UNCHANGED vars
    BY <1>1, <1>6 DEF vars
<1> QED BY <1>2, <1>3, <1>4, <1>5, <1>6 DEF Next

\* Every accumulator that phase 1 ever accepts is of the powers of one tau, for every
\* commutative field, any contributors and any size, whatever arrives in the place of what
\* they made: verify needs to look at nothing else.
THEOREM AcceptedPowersOfOneTau == Spec => []PowersOfOneTau
<1>1. SetupInv => PowersOfOneTau
    BY DEF SetupInv
<1> QED BY <1>1, InitEstablishes, StepPreserves, PTL DEF Spec

----------------------------------------------------------------------------
(* Honest work is accepted.                                                *)

\* A field has no divisors of zero.
LEMMA NonZero ==
    ASSUME NEW a \in Scalars \ {Zero}, NEW b \in Scalars \ {Zero}
    PROVE  Mul(a, b) \in Scalars \ {Zero}
<1>1. a \in Scalars /\ b \in Scalars /\ Zero \in Scalars /\ Mul(a, b) \in Scalars
    BY FieldAssumption
<1>2. Mul(a, Zero) = Zero
    BY <1>1, FieldAssumption
<1>3. Mul(a, b) = Mul(a, Zero) => b = Zero
    BY <1>1, Cancel
<1> QED BY <1>1, <1>2, <1>3

\* The factors of two products change places.
LEMMA Exchange ==
    ASSUME NEW a \in Scalars, NEW b \in Scalars, NEW c \in Scalars, NEW d \in Scalars
    PROVE  Mul(Mul(a, b), Mul(c, d)) = Mul(Mul(a, c), Mul(b, d))
<1>1. /\ Mul(a, b) \in Scalars /\ Mul(a, c) \in Scalars
      /\ Mul(b, d) \in Scalars /\ Mul(c, d) \in Scalars
    BY FieldAssumption
<1>2. Mul(Mul(a, b), Mul(c, d)) = Mul(Mul(Mul(a, b), c), d)
    BY <1>1, FieldAssumption
<1>3. Mul(Mul(a, b), c) = Mul(Mul(a, c), b)
    <2>1. Mul(Mul(a, b), c) = Mul(a, Mul(c, b))
        BY Regroup
    <2> QED BY <2>1, FieldAssumption
<1>4. Mul(Mul(Mul(a, c), b), d) = Mul(Mul(a, c), Mul(b, d))
    BY <1>1, FieldAssumption
<1> QED BY <1>2, <1>3, <1>4

\* The recursive function of the powers is what its equation says.
LEMMA PowersEquation ==
    ASSUME NEW x, NEW n \in Nat
    PROVE  PowersOf(x, n) =
            [i \in 0..n |-> IF i = 0 THEN One ELSE Mul(PowersOf(x, n)[i - 1], x)]
<1> DEFINE Is(f, m) == f = [i \in 0..m |-> IF i = 0 THEN One ELSE Mul(f[i - 1], x)]
           S == {m \in Nat : \E f : Is(f, m)}
<1>1. 0 \in S
    <2> DEFINE g == [i \in 0..0 |-> One]
    <2>1. Is(g, 0)
        OBVIOUS
    <2> QED BY <2>1
<1>2. ASSUME NEW m \in Nat, m \in S PROVE m + 1 \in S
    <2>1. PICK f : Is(f, m)
        BY <1>2
    <2> DEFINE g == [i \in 0..(m + 1) |-> IF i = 0 THEN One ELSE Mul(f[i - 1], x)]
    <2>2. ASSUME NEW i \in 0..(m + 1), i # 0 PROVE g[i - 1] = f[i - 1]
        BY <2>1, <2>2
    <2>3. Is(g, m + 1)
        BY <2>2
    <2> HIDE DEF g, Is
    <2> QED BY <2>3
<1>3. n \in S
    <2> HIDE DEF S
    <2> QED BY <1>1, <1>2, InductionOnSet
<1> QED BY <1>3 DEF PowersOf

\* No power of a factor other than Zero is Zero.
LEMMA Powers ==
    ASSUME NEW x \in Scalars \ {Zero}, NEW n \in Nat
    PROVE  /\ PowersOf(x, n)[0] = One
           /\ \A i \in 0..n : PowersOf(x, n)[i] \in Scalars \ {Zero}
           /\ \A i \in 1..n : PowersOf(x, n)[i] = Mul(PowersOf(x, n)[i - 1], x)
<1> DEFINE p == PowersOf(x, n)
           S == {m \in Nat : m <= n => p[m] \in Scalars \ {Zero}}
<1>1. p[0] = One /\ \A i \in 1..n : p[i] = Mul(p[i - 1], x)
    BY PowersEquation
<1> HIDE DEF p
<1>2. 0 \in S
    BY <1>1, FieldAssumption
<1>3. ASSUME NEW m \in Nat, m \in S PROVE m + 1 \in S
    <2> SUFFICES ASSUME m + 1 <= n PROVE p[m + 1] \in Scalars \ {Zero}
        OBVIOUS
    <2>1. p[m] \in Scalars \ {Zero}
        BY <1>3
    <2>2. p[m + 1] = Mul(p[m], x)
        BY <1>1, m + 1 \in 1..n, (m + 1) - 1 = m
    <2> QED BY <2>1, <2>2, NonZero
<1>4. \A m \in Nat : m \in S
    <2> HIDE DEF S
    <2> QED BY <1>2, <1>3, InductionOnSet
<1>5. \A i \in 0..n : p[i] \in Scalars \ {Zero}
    BY <1>4
<1> QED BY <1>1, <1>5 DEF p

\* What prove_secret makes shows that its maker knows the secret, to whoever hashes the
\* same accumulator.
LEMMA SecretShown ==
    ASSUME NEW before, NEW name, NEW s \in Scalars \ {Zero}, NEW g \in Scalars \ {Zero},
           NEW proof, proof = ProveSecret(s, name, before, g)
    PROVE  /\ KnowsSecret(before, proof, name)
           /\ \A x \in Scalars \ {Zero} : ChangedInG1(before, x, Mul(x, s), proof, name)
           /\ \A x \in Scalars \ {Zero} : ChangedInG2(OverG2(x), OverG2(Mul(x, s)), proof)
<1> DEFINE h == G2S(before, proof, name)
           y == Mul(g, s)
<1>1. /\ proof.g1_s = g /\ proof.g1_s_x = y
      /\ proof.g2_s_x = Times(ComputeG2S(before, g, y, name), s)
    BY DEF ProveSecret
<1>2. h = ComputeG2S(before, g, y, name) /\ proof.g2_s_x = Times(h, s)
    BY <1>1 DEF G2S
<1>3. h.exp = One /\ h = [base |-> h.base, exp |-> One]
    BY <1>2 DEF ComputeG2S, HashToG2
<1> HIDE DEF h
<1>4. Times(h, s).base = h.base /\ Times(h, s).exp = Mul(One, s)
    BY <1>3 DEF Times
<1>5. /\ One \in Scalars \ {Zero} /\ y \in Scalars \ {Zero} /\ Mul(One, s) = s
      /\ g \in Scalars /\ s \in Scalars
    BY NonZero, FieldAssumption
<1>6. ASSUME NEW x \in Scalars \ {Zero}
      PROVE  CheckSameRatio(<<x, Mul(x, s)>>, <<h, proof.g2_s_x>>)
    <2>1. Mul(x, s) \in Scalars \ {Zero} /\ Mul(Mul(x, s), One) = Mul(x, s)
        BY NonZero, FieldAssumption
    <2>2. Pairing(x, proof.g2_s_x) = Pairing(Mul(x, s), h)
        BY <1>2, <1>3, <1>4, <1>5, <2>1 DEF Pairing
    <2> QED BY <1>2, <1>3, <1>4, <1>5, <2>1, <2>2 DEF CheckSameRatio
<1>7. ASSUME NEW x \in Scalars \ {Zero} PROVE ChangedInG2(OverG2(x), OverG2(Mul(x, s)), proof)
    <2>1. Mul(x, s) \in Scalars \ {Zero}
        BY NonZero
    <2>2. Mul(Mul(g, s), x) = Mul(g, Mul(x, s))
        BY <1>5, Regroup
    <2>3. /\ OverG2(x).exp = x /\ OverG2(x).base = << >>
          /\ OverG2(Mul(x, s)).exp = Mul(x, s) /\ OverG2(Mul(x, s)).base = << >>
        BY DEF OverG2, G2
    <2>4. Pairing(g, OverG2(Mul(x, s))) = Pairing(y, OverG2(x))
        BY <2>2, <2>3 DEF Pairing
    <2> QED BY <1>1, <1>5, <2>1, <2>3, <2>4 DEF ChangedInG2, CheckSameRatio
<1>8. KnowsSecret(before, proof, name)
    BY <1>1, <1>6 DEF KnowsSecret, h
<1>9. ASSUME NEW x \in Scalars \ {Zero} PROVE ChangedInG1(before, x, Mul(x, s), proof, name)
    BY <1>6 DEF ChangedInG1, h
<1> QED BY <1>7, <1>8, <1>9

\* The powers of one tau that the checks have let through do not vanish.
NoZeros(acc) ==
    /\ acc.tau_powers_g1[2] # Zero
    /\ acc.alpha_tau_powers_g1[1] # Zero
    /\ acc.beta_tau_powers_g1[1] # Zero

LEMMA VerifiedHasNoZeros ==
    ASSUME NEW before, NEW after, NEW pubkey, VerifyPowers(before, after, pubkey)
    PROVE  NoZeros(after)
BY DEF VerifyPowers, ChangedInG1, CheckSameRatio, NoZeros

\* Powers of x pass the check of whole vectors in G1,
LEMMA PowersPass ==
    ASSUME NEW x \in Scalars \ {Zero}, NEW w \in Seq(Scalars), Len(w) >= 2, w[1] # Zero,
           \A i \in 1..(Len(w) - 1) : w[i + 1] = Mul(w[i], x)
    PROVE  CheckMergedRatio(Heads(w), Tails(w), <<OverG2(One), OverG2(x)>>)
<1> DEFINE n == Len(w) - 1
           q == <<OverG2(One), OverG2(x)>>
<1>1. /\ q[1] = OverG2(One) /\ q[2] = OverG2(x)
      /\ OverG2(One).exp = One /\ OverG2(One).base = << >>
      /\ OverG2(x).exp = x /\ OverG2(x).base = << >>
    BY DEF OverG2, G2
<1>2. /\ Len(w) \in Nat /\ n \in Nat /\ 1 \in 1..n
      /\ \A i \in 1..n : w[i] \in Scalars /\ w[i + 1] \in Scalars
    BY ElementOfSeq, LenProperties
<1>3. /\ DOMAIN Heads(w) = 1..n /\ DOMAIN Tails(w) = 1..n
      /\ \A i \in 1..n : Heads(w)[i] = w[i] /\ Tails(w)[i] = w[i + 1]
    BY <1>2, HeadsAndTails, SubSeqProperties DEF Tails
<1>4. One # Zero /\ x # Zero /\ x \in Scalars
    BY FieldAssumption
<1>5. Heads(w)[1] # Zero /\ Tails(w)[1] # Zero
    <2>1. w[1 + 1] = Mul(w[1], x) /\ w[1] \in Scalars \ {Zero}
        BY <1>2
    <2> QED BY <1>2, <1>3, <1>4, <2>1, NonZero
<1>6. ASSUME NEW i \in 1..n PROVE Pairing(Heads(w)[i], q[2]) = Pairing(Tails(w)[i], q[1])
    <2>1. w[i + 1] = Mul(w[i], x) /\ Mul(w[i + 1], One) = w[i + 1]
        BY <1>2, FieldAssumption
    <2> QED BY <1>1, <1>3, <2>1 DEF Pairing
<1> HIDE DEF q, n
<1>7. CheckMergedRatio(Heads(w), Tails(w), q)
    BY <1>1, <1>2, <1>3, <1>4, <1>5, <1>6 DEF CheckMergedRatio
<1> QED BY <1>7 DEF q

\* and in G2.
LEMMA PowersPassG2 ==
    ASSUME NEW x \in Scalars \ {Zero}, NEW w \in Seq(G2Points), Len(w) >= 2, w[1].exp # Zero,
           \A i \in 1..(Len(w) - 1) : w[i + 1] = Times(w[i], x)
    PROVE  CheckMergedRatioG2(<<One, x>>, Heads(w), Tails(w))
<1> DEFINE n == Len(w) - 1
<1>1. /\ Len(w) \in Nat /\ n \in Nat /\ 1 \in 1..n
      /\ \A i \in 1..n : w[i] \in G2Points /\ w[i + 1] \in G2Points
    BY ElementOfSeq, LenProperties
<1>2. /\ DOMAIN Heads(w) = 1..n /\ DOMAIN Tails(w) = 1..n
      /\ \A i \in 1..n : Heads(w)[i] = w[i] /\ Tails(w)[i] = w[i + 1]
    BY <1>1, HeadsAndTails, SubSeqProperties DEF Tails
<1>3. One # Zero /\ x # Zero /\ x \in Scalars
    BY FieldAssumption
<1>4. ASSUME NEW i \in 1..n
      PROVE  /\ w[i].exp \in Scalars /\ w[i + 1].exp = Mul(w[i].exp, x)
             /\ w[i].base = << >> /\ w[i + 1].base = << >>
    <2>1. w[i + 1] = Times(w[i], x) /\ w[i] \in G2Points /\ w[i + 1] \in G2Points
        BY <1>1
    <2> QED BY <2>1 DEF Times, G2Points
<1>5. Heads(w)[1].exp # Zero /\ Tails(w)[1].exp # Zero
    <2>1. w[1 + 1].exp = Mul(w[1].exp, x) /\ w[1].exp \in Scalars \ {Zero}
        BY <1>1, <1>4
    <2> QED BY <1>1, <1>2, <1>3, <2>1, NonZero
<1>6. ASSUME NEW i \in 1..n PROVE Pairing(One, Tails(w)[i]) = Pairing(x, Heads(w)[i])
    <2>1. Mul(One, w[i + 1].exp) = Mul(x, w[i].exp)
        BY <1>3, <1>4, FieldAssumption
    <2> QED BY <1>2, <1>4, <2>1 DEF Pairing
<1> HIDE DEF n
<1> QED BY <1>1, <1>2, <1>3, <1>5, <1>6 DEF CheckMergedRatioG2

\* The i-th power of tau times k times the i-th power of t: a geometric vector stays one,
\* and its ratio is multiplied by t.
LEMMA NextElement ==
    ASSUME NEW a \in Scalars, NEW b \in Scalars, NEW c \in Scalars, NEW d \in Scalars,
           NEW e \in Scalars
    PROVE  Mul(Mul(a, b), Mul(c, Mul(d, e))) = Mul(Mul(a, Mul(c, d)), Mul(b, e))
<1>1. Mul(c, d) \in Scalars /\ Mul(c, Mul(d, e)) = Mul(Mul(c, d), e)
    BY FieldAssumption
<1> QED BY <1>1, Exchange

\* What contribute makes of a vector of powers of tau.
NextPowers(v, k, t, m, n) == [i \in 1..n |-> Mul(v[i], Mul(k, PowersOf(t, m)[i - 1]))]

LEMMA NextVector ==
    ASSUME NEW v \in Seq(Scalars), Len(v) >= 2, v[1] # Zero,
           NEW tau \in Scalars \ {Zero},
           \A i \in 1..(Len(v) - 1) : v[i + 1] = Mul(v[i], tau),
           NEW t \in Scalars \ {Zero}, NEW k \in Scalars \ {Zero},
           NEW n \in Nat, n >= 2, n <= Len(v), NEW m \in Nat, m >= n,
           NEW w, w = NextPowers(v, k, t, m, n)
    PROVE  /\ w \in Seq(Scalars) /\ Len(w) = n
           /\ w[1] = Mul(v[1], k)
           /\ CheckMergedRatio(Heads(w), Tails(w), <<OverG2(One), OverG2(Mul(tau, t))>>)
<1> DEFINE p == PowersOf(t, m)
           x == Mul(tau, t)
<1>1. /\ p[0] = One /\ \A i \in 0..m : p[i] \in Scalars
      /\ \A i \in 1..m : p[i] = Mul(p[i - 1], t)
    BY Powers
<1>2. w = [i \in 1..n |-> Mul(v[i], Mul(k, p[i - 1]))]
    BY DEF NextPowers
<1> HIDE DEF p
<1>3. \A i \in 1..n : v[i] \in Scalars /\ p[i - 1] \in Scalars /\ Mul(k, p[i - 1]) \in Scalars
    <2> SUFFICES ASSUME NEW i \in 1..n
                 PROVE  v[i] \in Scalars /\ p[i - 1] \in Scalars /\ Mul(k, p[i - 1]) \in Scalars
        OBVIOUS
    <2>1. v[i] \in Scalars
        BY ElementOfSeq, LenProperties, i \in 1..Len(v)
    <2>2. p[i - 1] \in Scalars
        BY <1>1, i - 1 \in 0..m
    <2> QED BY <2>1, <2>2, FieldAssumption
<1>4. w \in Seq(Scalars) /\ Len(w) = n /\ \A i \in 1..n : w[i] = Mul(v[i], Mul(k, p[i - 1]))
    <2>1. \A i \in 1..n : Mul(v[i], Mul(k, p[i - 1])) \in Scalars
        BY <1>3, FieldAssumption
    <2> QED BY <1>2, <2>1
<1>5. w[1] = Mul(v[1], k) /\ w[1] # Zero
    <2>1. w[1] = Mul(v[1], Mul(k, p[0]))
        BY <1>4, 1 \in 1..n, 1 - 1 = 0
    <2>2. Mul(k, One) = k
        BY FieldAssumption
    <2>3. v[1] \in Scalars \ {Zero}
        BY <1>3, 1 \in 1..n
    <2> QED BY <1>1, <2>1, <2>2, <2>3, NonZero
<1>6. ASSUME NEW i \in 1..(n - 1) PROVE w[i + 1] = Mul(w[i], x)
    <2>1. i \in 1..n /\ i + 1 \in 1..n /\ (i + 1) - 1 = i /\ i \in 1..m /\ i \in 1..(Len(v) - 1)
        BY LenProperties
    <2>2. v[i + 1] = Mul(v[i], tau) /\ p[i] = Mul(p[i - 1], t)
        BY <1>1, <2>1
    <2>3. w[i + 1] = Mul(Mul(v[i], tau), Mul(k, Mul(p[i - 1], t)))
        BY <1>4, <2>1, <2>2
    <2>4. v[i] \in Scalars /\ p[i - 1] \in Scalars
        BY <1>3, <2>1
    <2>5. w[i] = Mul(v[i], Mul(k, p[i - 1]))
        BY <1>4, <2>1
    <2>6. Mul(Mul(v[i], tau), Mul(k, Mul(p[i - 1], t)))
            = Mul(Mul(v[i], Mul(k, p[i - 1])), Mul(tau, t))
        <3>1. tau \in Scalars /\ t \in Scalars /\ k \in Scalars
            OBVIOUS
        <3>2. \A a, b \in Scalars :
                Mul(Mul(a, tau), Mul(k, Mul(b, t))) = Mul(Mul(a, Mul(k, b)), Mul(tau, t))
            BY ONLY <3>1, NextElement
        <3> QED BY ONLY <2>4, <3>2
    <2> QED BY <2>3, <2>5, <2>6
<1>7. x \in Scalars \ {Zero}
    BY NonZero
<1> HIDE DEF x
<1>8. CheckMergedRatio(Heads(w), Tails(w), <<OverG2(One), OverG2(x)>>)
    BY <1>4, <1>5, <1>6, <1>7, PowersPass
<1> QED BY <1>4, <1>5, <1>8 DEF x

\* And of the powers of tau in G2.
NextPowersG2(v, t, m) == [i \in 1..Len(v) |-> Times(v[i], PowersOf(t, m)[i - 1])]

LEMMA NextVectorG2 ==
    ASSUME NEW v \in Seq(G2Points), Len(v) >= 2, v[1] = OverG2(One),
           NEW tau \in Scalars \ {Zero}, v[2] = OverG2(tau),
           \A i \in 1..(Len(v) - 1) : v[i + 1] = Times(v[i], tau),
           NEW t \in Scalars \ {Zero}, NEW m \in Nat, m >= Len(v),
           NEW w, w = NextPowersG2(v, t, m)
    PROVE  /\ w[1] = OverG2(One) /\ w[2] = OverG2(Mul(tau, t))
           /\ CheckMergedRatioG2(<<One, Mul(tau, t)>>, Heads(w), Tails(w))
<1> DEFINE p == PowersOf(t, m)
           x == Mul(tau, t)
           n == Len(v)
<1>1. /\ p[0] = One /\ \A i \in 0..m : p[i] \in Scalars
      /\ \A i \in 1..m : p[i] = Mul(p[i - 1], t)
    BY Powers
<1>2. w = [i \in 1..n |-> Times(v[i], p[i - 1])] /\ n \in Nat /\ n >= 2 /\ n <= m
    BY LenProperties DEF NextPowersG2
<1>3. \A i \in 1..n : v[i] \in G2Points
    BY ElementOfSeq, LenProperties
<1> HIDE DEF p, n
<1>4. \A i \in 1..n : /\ w[i] = Times(v[i], p[i - 1]) /\ p[i - 1] \in Scalars
                      /\ v[i].exp \in Scalars /\ v[i].base = << >>
                      /\ w[i] = OverG2(Mul(v[i].exp, p[i - 1]))
                      /\ Mul(v[i].exp, p[i - 1]) \in Scalars
    <2> SUFFICES ASSUME NEW i \in 1..n
                 PROVE  /\ w[i] = Times(v[i], p[i - 1]) /\ p[i - 1] \in Scalars
                        /\ v[i].exp \in Scalars /\ v[i].base = << >>
                        /\ w[i] = OverG2(Mul(v[i].exp, p[i - 1]))
                        /\ Mul(v[i].exp, p[i - 1]) \in Scalars
        OBVIOUS
    <2>1. p[i - 1] \in Scalars
        BY <1>1, <1>2, i - 1 \in 0..m
    <2>2. v[i] \in G2Points /\ w[i] = Times(v[i], p[i - 1])
        BY <1>2, <1>3
    <2>3. v[i].exp \in Scalars /\ v[i].base = << >>
        BY <2>2 DEF G2Points
    <2>4. w[i] = OverG2(Mul(v[i].exp, p[i - 1]))
        BY <2>2 DEF G2Points, Times, OverG2, G2
    <2> QED BY <2>1, <2>2, <2>3, <2>4, FieldAssumption
<1>5. w \in Seq(G2Points) /\ Len(w) = n
    <2>1. \A y \in Scalars : OverG2(y) \in G2Points
        BY DEF OverG2, G2, G2Points
    <2>2. \A i \in 1..n : Times(v[i], p[i - 1]) \in G2Points
        BY <1>4, <2>1
    <2> QED BY <1>2, <2>2
<1>6. w[1] = OverG2(One) /\ w[2] = OverG2(x)
    <2>1. /\ OverG2(One).exp = One /\ OverG2(tau).exp = tau
        BY DEF OverG2, G2
    <2>2. w[1] = OverG2(Mul(One, p[0]))
        BY <1>2, <1>4, <2>1, 1 \in 1..n, 1 - 1 = 0
    <2>3. p[1] = t
        <3>1. 1 \in 1..m /\ 1 - 1 = 0
            BY <1>2
        <3>2. p[1] = Mul(p[0], t)
            BY <1>1, <3>1
        <3> QED BY <1>1, <3>2, FieldAssumption
    <2>4. w[2] = OverG2(Mul(tau, p[1]))
        BY <1>2, <1>4, <2>1, 2 \in 1..n, 2 - 1 = 1
    <2> QED BY <1>1, <2>2, <2>3, <2>4, FieldAssumption
<1>7. ASSUME NEW i \in 1..(n - 1) PROVE w[i + 1] = Times(w[i], x)
    <2>1. i \in 1..n /\ i + 1 \in 1..n /\ (i + 1) - 1 = i /\ i \in 1..m
        BY <1>2
    <2>2. v[i + 1] = Times(v[i], tau) /\ p[i] = Mul(p[i - 1], t)
        BY <1>1, <2>1 DEF n
    <2>3. v[i + 1].exp = Mul(v[i].exp, tau)
        BY <1>3, <2>1, <2>2 DEF Times, G2Points
    <2>4. w[i + 1] = OverG2(Mul(Mul(v[i].exp, tau), Mul(p[i - 1], t)))
        BY <1>4, <2>1, <2>2, <2>3
    <2>5. Mul(Mul(v[i].exp, tau), Mul(p[i - 1], t)) = Mul(Mul(v[i].exp, p[i - 1]), Mul(tau, t))
        <3>1. tau \in Scalars /\ t \in Scalars
            OBVIOUS
        <3>2. \A a, b \in Scalars : Mul(Mul(a, tau), Mul(b, t)) = Mul(Mul(a, b), Mul(tau, t))
            BY ONLY <3>1, Exchange
        <3> QED BY <1>4, <2>1, <3>2
    <2>6. w[i] = OverG2(Mul(v[i].exp, p[i - 1]))
        BY <1>4, <2>1
    <2>7. \A y : Times(OverG2(y), x) = OverG2(Mul(y, x))
        BY DEF Times, OverG2, G2
    <2> QED BY <2>4, <2>5, <2>6, <2>7
<1>8. x \in Scalars \ {Zero}
    BY NonZero
<1>9. w[1].exp # Zero
    BY <1>6, FieldAssumption DEF OverG2, G2
<1> HIDE DEF x
<1>10. CheckMergedRatioG2(<<One, x>>, Heads(w), Tails(w))
    BY <1>2, <1>5, <1>7, <1>8, <1>9, PowersPassG2
<1> QED BY <1>6, <1>10 DEF x

\* One honest hop: verify accepts what contribute makes of the powers of one tau.
LEMMA HonestHop ==
    ASSUME NEW before, Readable(before), IsPowersOfTau(before), NoZeros(before),
           CanContribute(before), NEW secrets, NEW points,
           \A name \in Personalizations :
                secrets[name] \in Scalars \ {Zero} /\ points[name] \in Scalars \ {Zero}
    PROVE  VerifyPowers(before, ContributePowers(before, secrets),
                        ProveSecrets(secrets, before, points))
<1> DEFINE after == ContributePowers(before, secrets)
           key == ProveSecrets(secrets, before, points)
           tau == before.tau_powers_g1[2]
           t == secrets["tau"]
           x == Mul(tau, t)
           size == Len(before.tau_powers_g2)
           n1 == Len(before.tau_powers_g1)
           m == n1 + size
           p == PowersOf(t, m)
<1>1. /\ t \in Scalars \ {Zero} /\ secrets["alpha"] \in Scalars \ {Zero}
      /\ secrets["beta"] \in Scalars \ {Zero}
      /\ One \in Scalars \ {Zero} /\ tau \in Scalars \ {Zero} /\ x \in Scalars \ {Zero}
    <2>1. 2 \in 1..n1 /\ before.tau_powers_g1[2] \in Scalars
        BY Elements DEF VectorsG1
    <2> QED BY <2>1, NonZero, FieldAssumption DEF Personalizations, NoZeros
<1>2. /\ n1 \in Nat /\ size \in Nat /\ n1 >= 2 /\ size >= 2 /\ m \in Nat /\ m >= n1 /\ m >= size
      /\ size <= Len(before.alpha_tau_powers_g1) /\ size <= Len(before.beta_tau_powers_g1)
    <2>1. n1 \in Nat /\ n1 >= 2 /\ size \in Nat /\ size >= 2
        BY Elements DEF VectorsG1
    <2>2. /\ size <= Len(before.alpha_tau_powers_g1) /\ size <= Len(before.beta_tau_powers_g1)
        BY DEF CanContribute, Size
    <2> HIDE DEF n1, size
    <2> QED BY <2>1, <2>2
<1>3. /\ after.tau_powers_g1 = [i \in 1..n1 |-> Mul(before.tau_powers_g1[i], p[i - 1])]
      /\ after.tau_powers_g2 = [i \in 1..size |-> Times(before.tau_powers_g2[i], p[i - 1])]
      /\ after.alpha_tau_powers_g1 = [i \in 1..size |->
            Mul(before.alpha_tau_powers_g1[i], Mul(secrets["alpha"], p[i - 1]))]
      /\ after.beta_tau_powers_g1 = [i \in 1..size |->
            Mul(before.beta_tau_powers_g1[i], Mul(secrets["beta"], p[i - 1]))]
      /\ after.beta_g2 = Times(before.beta_g2, secrets["beta"])
    BY DEF ContributePowers, Size
<1>4. \A i \in 0..m : p[i] \in Scalars /\ Mul(One, p[i]) = p[i]
    BY <1>1, <1>2, Powers, FieldAssumption
<1>5. after.tau_powers_g1
        = [i \in 1..n1 |-> Mul(before.tau_powers_g1[i], Mul(One, p[i - 1]))]
    <2>1. \A i \in 1..n1 : Mul(One, p[i - 1]) = p[i - 1]
        <3> HIDE DEF p, n1, m
        <3>1. \A i \in 1..n1 : i - 1 \in 0..m
            BY <1>2
        <3> QED BY <1>4, <3>1
    <2> HIDE DEF p, n1, after
    <2> QED BY <1>3, <2>1
<1>6. \A name \in Personalizations :
        key[name] = ProveSecret(secrets[name], name, before, points[name])
    BY DEF ProveSecrets
<1> HIDE DEF after, key
<1>7. \A name \in Personalizations :
        /\ KnowsSecret(before, key[name], name)
        /\ \A e \in Scalars \ {Zero} :
            /\ ChangedInG1(before, e, Mul(e, secrets[name]), key[name], name)
            /\ ChangedInG2(OverG2(e), OverG2(Mul(e, secrets[name])), key[name])
    BY <1>6, SecretShown
<1>8. /\ before.tau_powers_g1[1] = One /\ before.tau_powers_g2[1] = OverG2(One)
      /\ before.tau_powers_g2[2] = OverG2(tau)
      /\ \A v \in VectorsG1 : \A i \in 1..(Len(before[v]) - 1) :
            before[v][i + 1] = Mul(before[v][i], tau)
      /\ \A i \in 1..(size - 1) : before.tau_powers_g2[i + 1] = Times(before.tau_powers_g2[i], tau)
      /\ before.beta_g2 = OverG2(before.beta_tau_powers_g1[1])
    BY DEF IsPowersOfTau
<1> HIDE DEF tau, x, size, n1, m, p
<1>9. /\ after.tau_powers_g1 \in Seq(Scalars) /\ Len(after.tau_powers_g1) = n1
      /\ after.tau_powers_g1[1] = Mul(One, One)
      /\ CheckMergedRatio(Heads(after.tau_powers_g1), Tails(after.tau_powers_g1),
                          <<OverG2(One), OverG2(x)>>)
    <2>1. /\ before.tau_powers_g1 \in Seq(Scalars) /\ before.tau_powers_g1[1] # Zero
        BY <1>1, <1>8, Elements DEF VectorsG1
    <2>2. \A i \in 1..(Len(before.tau_powers_g1) - 1) :
            before.tau_powers_g1[i + 1] = Mul(before.tau_powers_g1[i], tau)
        BY <1>8 DEF VectorsG1
    <2>3. after.tau_powers_g1 = NextPowers(before.tau_powers_g1, One, t, m, n1)
        BY <1>5 DEF NextPowers, p
    <2>4. /\ Len(before.tau_powers_g1) >= 2 /\ n1 <= Len(before.tau_powers_g1)
          /\ n1 \in Nat /\ n1 >= 2 /\ m \in Nat /\ m >= n1
        BY <1>2 DEF n1
    <2> HIDE DEF t
    <2>5. /\ after.tau_powers_g1 \in Seq(Scalars) /\ Len(after.tau_powers_g1) = n1
          /\ after.tau_powers_g1[1] = Mul(before.tau_powers_g1[1], One)
          /\ CheckMergedRatio(Heads(after.tau_powers_g1), Tails(after.tau_powers_g1),
                              <<OverG2(One), OverG2(Mul(tau, t))>>)
        BY ONLY <1>1, <2>1, <2>2, <2>3, <2>4, NextVector
    <2> QED BY <1>8, <2>5 DEF x
<1>10. ASSUME NEW v \in {"alpha_tau_powers_g1", "beta_tau_powers_g1"}, NEW k \in Scalars \ {Zero},
              after[v] = [i \in 1..size |-> Mul(before[v][i], Mul(k, p[i - 1]))]
       PROVE  /\ before[v][1] \in Scalars \ {Zero}
              /\ after[v][1] = Mul(before[v][1], k)
              /\ CheckMergedRatio(Heads(after[v]), Tails(after[v]), <<OverG2(One), OverG2(x)>>)
    <2>1. before[v] \in Seq(Scalars) /\ Len(before[v]) >= 2 /\ before[v][1] \in Scalars \ {Zero}
        BY Elements, 1 \in 1..Len(before[v]) DEF VectorsG1, NoZeros
    <2>2. \A i \in 1..(Len(before[v]) - 1) : before[v][i + 1] = Mul(before[v][i], tau)
        BY <1>8 DEF VectorsG1
    <2>3. /\ size <= Len(before[v]) /\ size \in Nat /\ size >= 2 /\ m \in Nat /\ m >= size
          /\ k \in Scalars \ {Zero}
        BY <1>2
    <2>4. after[v] = NextPowers(before[v], k, t, m, size)
        BY <1>10 DEF NextPowers, p
    <2> HIDE DEF t
    <2>5. /\ after[v][1] = Mul(before[v][1], k)
          /\ CheckMergedRatio(Heads(after[v]), Tails(after[v]),
                              <<OverG2(One), OverG2(Mul(tau, t))>>)
        BY ONLY <1>1, <2>1, <2>2, <2>3, <2>4, NextVector
    <2> QED BY <2>1, <2>5 DEF x
<1>11. /\ after.tau_powers_g2[1] = OverG2(One) /\ after.tau_powers_g2[2] = OverG2(x)
       /\ CheckMergedRatioG2(<<One, x>>, Heads(after.tau_powers_g2), Tails(after.tau_powers_g2))
    <2>1. before.tau_powers_g2 \in Seq(G2Points)
        BY Elements
    <2>2. after.tau_powers_g2 = NextPowersG2(before.tau_powers_g2, t, m)
        BY <1>3 DEF NextPowersG2, p, size
    <2>3. size = Len(before.tau_powers_g2)
        BY DEF size
    <2> QED BY <1>1, <1>2, <1>8, <2>1, <2>2, <2>3, NextVectorG2 DEF x
<1>12. after.tau_powers_g1[1] = One /\ after.tau_powers_g1[2] = x
    <2>1. Mul(One, One) = One
        BY FieldAssumption
    <2>2. after.tau_powers_g1[2] = Mul(before.tau_powers_g1[2], p[2 - 1])
        BY <1>2, <1>3, 2 \in 1..n1
    <2>3. p[0] = One /\ p[1] = Mul(p[1 - 1], t)
        <3>1. 1 \in 1..m
            BY <1>2
        <3> QED BY <1>1, <1>2, <3>1, Powers DEF p
    <2>4. 2 - 1 = 1 /\ 1 - 1 = 0
        OBVIOUS
    <2>5. Mul(One, t) = t
        <3> HIDE DEF t
        <3> QED BY <1>1, FieldAssumption
    <2> QED BY <1>9, <2>1, <2>2, <2>3, <2>4, <2>5 DEF x, tau
<1>13. /\ before.alpha_tau_powers_g1[1] \in Scalars \ {Zero}
       /\ after.alpha_tau_powers_g1[1] = Mul(before.alpha_tau_powers_g1[1], secrets["alpha"])
       /\ CheckMergedRatio(Heads(after.alpha_tau_powers_g1), Tails(after.alpha_tau_powers_g1),
                           <<OverG2(One), OverG2(x)>>)
    BY <1>1, <1>3, <1>10
<1>14. /\ before.beta_tau_powers_g1[1] \in Scalars \ {Zero}
       /\ after.beta_tau_powers_g1[1] = Mul(before.beta_tau_powers_g1[1], secrets["beta"])
       /\ CheckMergedRatio(Heads(after.beta_tau_powers_g1), Tails(after.beta_tau_powers_g1),
                           <<OverG2(One), OverG2(x)>>)
    BY <1>1, <1>3, <1>10
<1>15. Geometric(after)
    BY <1>9, <1>11, <1>12, <1>13, <1>14 DEF Geometric
<1>16. after.beta_g2 = OverG2(Mul(before.beta_tau_powers_g1[1], secrets["beta"]))
    BY <1>3, <1>8 DEF Times, OverG2, G2
<1>17. \A name \in Personalizations : KnowsSecret(before, key[name], name)
    BY <1>7
<1>18. /\ ChangedInG1(before, tau, x, key["tau"], "tau")
       /\ ChangedInG2(OverG2(tau), OverG2(x), key["tau"])
    BY <1>1, <1>7 DEF Personalizations, x
<1>19. ChangedInG1(before, before.alpha_tau_powers_g1[1], after.alpha_tau_powers_g1[1],
                   key["alpha"], "alpha")
    BY <1>7, <1>13 DEF Personalizations
<1>20. /\ ChangedInG1(before, before.beta_tau_powers_g1[1], after.beta_tau_powers_g1[1],
                      key["beta"], "beta")
       /\ ChangedInG2(before.beta_g2, after.beta_g2, key["beta"])
    BY <1>7, <1>8, <1>14, <1>16 DEF Personalizations
<1>21. G1 = One /\ G2 = OverG2(One) /\ before.tau_powers_g1[2] = tau
    BY DEF G1, G2, OverG2, tau
<1> HIDE DEF t
<1>22. VerifyPowers(before, after, key)
    BY <1>8, <1>11, <1>12, <1>15, <1>17, <1>18, <1>19, <1>20, <1>21 DEF VerifyPowers
<1> QED BY <1>22 DEF after, key

\* What an offer that was made on the last accumulator is.
OfferOn(c, acc) ==
    /\ CanContribute(acc)
    /\ offers[c].after = ContributePowers(acc, Secrets[c])
    /\ offers[c].pubkey = ProveSecrets(Secrets[c], acc, Points[c])

OffersHonest == \A c \in Contributors : offers[c] # NoOffer =>
    /\ offers[c].on \in Nat /\ offers[c].on <= Len(states)
    /\ offers[c].on = Len(states) => OfferOn(c, LastState)

\* Every hop so far verifies, and the last accumulator can be gone on with.
ChainVerified ==
    /\ \E keys : pubkeys \in Seq(keys)
    /\ Len(states) = Len(pubkeys) + 1
    /\ \A i \in 1..Len(pubkeys) : VerifyPowers(states[i], states[i + 1], pubkeys[i])
    /\ NoZeros(LastState)

HonestInv == OffersHonest /\ ChainVerified

\* One more hop at the end of the chain.
LEMMA OneMoreHop ==
    ASSUME SetupInv, ChainVerified, NEW after, NEW key, VerifyPowers(LastState, after, key)
    PROVE  LET ss == Append(states, after)
               ks == Append(pubkeys, key)
           IN  /\ \E keys : ks \in Seq(keys)
               /\ Len(ss) = Len(states) + 1 /\ Len(ks) = Len(pubkeys) + 1
               /\ ss[Len(ss)] = after
               /\ \A i \in 1..Len(ks) : VerifyPowers(ss[i], ss[i + 1], ks[i])
<1> DEFINE ss == Append(states, after)
           ks == Append(pubkeys, key)
           n == Len(pubkeys)
<1>1. PICK keys : pubkeys \in Seq(keys)
    BY DEF ChainVerified
<1>2. /\ ks \in Seq(keys \cup {key}) /\ Len(ks) = n + 1 /\ n \in Nat
      /\ \A i \in 1..n : ks[i] = pubkeys[i]
      /\ ks[n + 1] = key
    <2>1. pubkeys \in Seq(keys \cup {key})
        BY <1>1
    <2> QED BY <2>1, AppendProperties, LenProperties
<1>3. /\ Len(states) = n + 1
      /\ Len(ss) = n + 2
      /\ \A i \in 1..(n + 1) : ss[i] = states[i]
      /\ ss[n + 2] = after
    <2> DEFINE all == Accumulators \cup {after}
    <2>1. states \in Seq(all) /\ after \in all
        BY DEF SetupInv, StatesOK
    <2> HIDE DEF all
    <2> QED BY <1>2, <2>1, AppendProperties, LenProperties DEF ChainVerified
<1> HIDE DEF ss, ks
<1>4. ASSUME NEW i \in 1..(n + 1) PROVE VerifyPowers(ss[i], ss[i + 1], ks[i])
    <2>1. CASE i \in 1..n
        <3>1. ss[i] = states[i] /\ ss[i + 1] = states[i + 1] /\ ks[i] = pubkeys[i]
            BY <1>2, <1>3, <2>1, i \in 1..(n + 1), i + 1 \in 1..(n + 1)
        <3> QED BY <2>1, <3>1 DEF ChainVerified
    <2>2. CASE i = n + 1
        <3>1. ss[i] = LastState /\ ss[i + 1] = after /\ ks[i] = key
            BY <1>2, <1>3, <2>2, i + 1 = n + 2 DEF LastState
        <3> QED BY <3>1
    <2> QED BY <1>2, <2>1, <2>2
<1>5. /\ \E S : ks \in Seq(S)
      /\ Len(ss) = Len(states) + 1 /\ Len(ks) = n + 1 /\ ss[Len(ss)] = after
    BY <1>2, <1>3
<1> HIDE DEF n
<1>6. \A i \in 1..Len(ks) : VerifyPowers(ss[i], ss[i + 1], ks[i])
    BY <1>4, <1>5
<1> QED BY <1>5, <1>6 DEF ss, ks, n

LEMMA HonestInit == Init => HonestInv
<1> SUFFICES ASSUME Init PROVE HonestInv
    OBVIOUS
<1>1. PICK size \in Sizes : states = <<NewAccumulator(size)>>
    BY DEF Init
<1>2. size \in Nat /\ size > 1
    BY ContributorsAssumption
<1>3. LastState = NewAccumulator(size) /\ Len(states) = 1
    BY <1>1 DEF LastState
<1>4. NoZeros(NewAccumulator(size))
    <2>1. 2 \in 1..(2 * size - 1) /\ 1 \in 1..size
        BY <1>2
    <2> QED BY <2>1, FieldAssumption DEF NoZeros, NewAccumulator, G1
<1>5. pubkeys = << >> /\ Len(pubkeys) = 0 /\ pubkeys \in Seq({})
    BY DEF Init
<1> QED BY <1>3, <1>4, <1>5 DEF Init, HonestInv, OffersHonest, ChainVerified

LEMMA HonestStep == SetupInv /\ HonestInv /\ [Next]_vars => HonestInv'
<1> SUFFICES ASSUME SetupInv, HonestInv, [Next]_vars PROVE HonestInv'
    OBVIOUS
<1>1. ASSUME UNCHANGED <<states, pubkeys, offers>> PROVE HonestInv'
    BY <1>1 DEF HonestInv, OffersHonest, OfferOn, ChainVerified, LastState
<1>2. ASSUME NEW c \in Contributors, MakeOffer(c) PROVE HonestInv'
    <2>1. UNCHANGED <<states, pubkeys>>
        BY <1>2 DEF MakeOffer
    <2>2. ChainVerified' /\ LastState' = LastState
        BY <2>1 DEF HonestInv, ChainVerified, LastState
    <2>3. Len(states) \in Nat
        BY LenProperties DEF SetupInv, StatesOK
    <2>4. ASSUME NEW d \in Contributors, offers'[d] # NoOffer
          PROVE  /\ offers'[d].on \in Nat /\ offers'[d].on <= Len(states)
                 /\ offers'[d].on = Len(states) => OfferOn(d, LastState)'
        <3>1. CASE d = c
            BY <1>2, <2>2, <2>3, <3>1 DEF MakeOffer, OfferOn, SetupInv, PublicKeysOK
        <3>2. CASE d # c
            <4>1. offers'[d] = offers[d]
                BY <1>2, <3>2 DEF MakeOffer, SetupInv, PublicKeysOK
            <4> QED BY <2>2, <2>4, <4>1 DEF HonestInv, OffersHonest, OfferOn
        <3> QED BY <3>1, <3>2
    <2> QED BY <2>1, <2>2, <2>4 DEF HonestInv, OffersHonest
<1>3. ASSUME NEW c \in Contributors, Accept(c) PROVE HonestInv'
    <2>1. PICK d \in Contributors, after \in Arrivals(offers[c].after) :
            /\ VerifyPowers(LastState, after, offers[d].pubkey)
            /\ states' = Append(states, after)
            /\ pubkeys' = Append(pubkeys, offers[d].pubkey)
        BY <1>3 DEF Accept
    <2>2. /\ \E keys : pubkeys' \in Seq(keys)
          /\ Len(states') = Len(states) + 1 /\ Len(pubkeys') = Len(pubkeys) + 1
          /\ states'[Len(states')] = after
          /\ \A i \in 1..Len(pubkeys') : VerifyPowers(states'[i], states'[i + 1], pubkeys'[i])
        BY <2>1, OneMoreHop DEF HonestInv
    <2>3. LastState' = after /\ NoZeros(after)
        BY <2>1, <2>2, VerifiedHasNoZeros DEF LastState
    <2>4. ChainVerified'
        BY <2>2, <2>3 DEF HonestInv, ChainVerified
    <2>5. Len(states) \in Nat
        BY LenProperties DEF SetupInv, StatesOK
    <2>6. UNCHANGED offers
        BY <1>3 DEF Accept
    <2>7. \A e \in Contributors : offers[e] # NoOffer =>
            offers[e].on \in Nat /\ offers[e].on <= Len(states)
        BY DEF HonestInv, OffersHonest
    <2>8. OffersHonest'
        BY <2>2, <2>5, <2>6, <2>7 DEF OffersHonest
    <2> QED BY <2>4, <2>8 DEF HonestInv
<1>4. ASSUME NEW c \in Contributors, ContributeDelta(c) PROVE HonestInv'
    BY <1>1, <1>4 DEF ContributeDelta
<1>5. CASE BridgePhases
    BY <1>1, <1>5 DEF BridgePhases
<1>6. CASE UNCHANGED vars
    BY <1>1, <1>6 DEF vars
<1> QED BY <1>2, <1>3, <1>4, <1>5, <1>6 DEF Next

\* An offer on the last accumulator is accepted as it is.
LEMMA LastOfferVerifies == SetupInv /\ HonestInv => HonestOfferVerifies
<1> SUFFICES ASSUME SetupInv, HonestInv, NEW c \in Contributors,
                    offers[c] # NoOffer, offers[c].on = Len(states)
             PROVE  VerifyChain(Append(states, offers[c].after),
                                Append(pubkeys, offers[c].pubkey))
    BY DEF HonestOfferVerifies
<1>1. OfferOn(c, LastState) /\ NoZeros(LastState) /\ ChainVerified
    BY DEF HonestInv, OffersHonest, ChainVerified
<1>2. Readable(LastState) /\ IsPowersOfTau(LastState)
    BY DEF SetupInv, StatesOK, PowersOfOneTau, LastState
<1>3. \A name \in Personalizations :
        Secrets[c][name] \in Scalars \ {Zero} /\ Points[c][name] \in Scalars \ {Zero}
    BY ContributorsAssumption DEF Personalizations
<1>4. VerifyPowers(LastState, offers[c].after, offers[c].pubkey)
    BY <1>1, <1>2, <1>3, HonestHop DEF OfferOn
<1> QED BY <1>1, <1>4, OneMoreHop DEF VerifyChain

\* Nobody's honest work is refused: for every commutative field, any contributors and any
\* size, after whatever was accepted so far, what contribute makes of the last accumulator
\* passes verify, and the whole chain passes verify_chain with it at the end.
THEOREM HonestWorkIsAccepted == Spec => []HonestOfferVerifies
<1>1. SetupInv /\ HonestInv /\ [Next]_vars => (SetupInv /\ HonestInv)'
    BY StepPreserves, HonestStep
<1> QED BY <1>1, InitEstablishes, HonestInit, LastOfferVerifies, PTL DEF Spec

----------------------------------------------------------------------------
(* Every secret counts once.                                               *)

\* The products of the secrets of the first people of a row.
IsProducts(f, people, name, n) ==
    f = [i \in 0..n |-> IF i = 0 THEN One ELSE Mul(f[i - 1], Secrets[people[i]][name])]

\* There is one such function for every length, which ProductAlong takes the last value of.
LEMMA ProductsExist ==
    ASSUME NEW people, NEW name, NEW n \in Nat
    PROVE  \E f : IsProducts(f, people, name, n)
<1> DEFINE S == {m \in Nat : \E f : IsProducts(f, people, name, m)}
<1>1. 0 \in S
    <2> DEFINE g == [i \in 0..0 |-> One]
    <2>1. IsProducts(g, people, name, 0)
        BY DEF IsProducts
    <2> QED BY <2>1
<1>2. ASSUME NEW m \in Nat, m \in S PROVE m + 1 \in S
    <2>1. PICK f : IsProducts(f, people, name, m)
        BY <1>2
    <2> DEFINE g == [i \in 0..(m + 1) |->
                        IF i = 0 THEN One ELSE Mul(f[i - 1], Secrets[people[i]][name])]
    <2>2. ASSUME NEW i \in 0..(m + 1), i # 0 PROVE g[i - 1] = f[i - 1]
        BY <2>1, <2>2 DEF IsProducts
    <2>3. IsProducts(g, people, name, m + 1)
        BY <2>2 DEF IsProducts
    <2> HIDE DEF g
    <2> QED BY <2>3
<1> HIDE DEF S
<1>3. n \in S
    BY <1>1, <1>2, InductionOnSet
<1> QED BY <1>3 DEF S

LEMMA ProductIsLast ==
    ASSUME NEW people, NEW name, Len(people) \in Nat
    PROVE  \E f : /\ IsProducts(f, people, name, Len(people))
                  /\ ProductAlong(people, name) = f[Len(people)]
<1> DEFINE n == Len(people)
           f == CHOOSE g : g = [i \in 0..n |->
                            IF i = 0 THEN One ELSE Mul(g[i - 1], Secrets[people[i]][name])]
<1>1. IsProducts(f, people, name, n)
    BY ProductsExist DEF IsProducts
<1>2. ProductAlong(people, name) = f[n]
    BY DEF ProductAlong
<1> QED BY <1>1, <1>2

\* Two such functions agree as far as both go and the people are the same.
LEMMA ProductsAgree ==
    ASSUME NEW p, NEW q, NEW name, NEW n \in Nat, NEW m \in Nat, n <= m,
           \A i \in 1..n : p[i] = q[i],
           NEW f, IsProducts(f, p, name, n), NEW g, IsProducts(g, q, name, m)
    PROVE  f[n] = g[n]
<1> DEFINE S == {k \in Nat : k <= n => f[k] = g[k]}
<1>1. 0 \in S
    BY DEF IsProducts
<1>2. ASSUME NEW k \in Nat, k \in S PROVE k + 1 \in S
    <2> SUFFICES ASSUME k + 1 <= n PROVE f[k + 1] = g[k + 1]
        OBVIOUS
    <2>1. k + 1 \in 1..n /\ k + 1 \in 0..n /\ k + 1 \in 0..m /\ k + 1 # 0 /\ (k + 1) - 1 = k
        OBVIOUS
    <2>2. f[k] = g[k] /\ p[k + 1] = q[k + 1]
        BY <1>2, <2>1
    <2>3. f[k + 1] = Mul(f[k], Secrets[p[k + 1]][name])
        BY <2>1 DEF IsProducts
    <2>4. g[k + 1] = Mul(g[k], Secrets[q[k + 1]][name])
        BY <2>1 DEF IsProducts
    <2> QED BY <2>2, <2>3, <2>4
<1> HIDE DEF S
<1>3. n \in S
    BY <1>1, <1>2, InductionOnSet
<1> QED BY <1>3 DEF S

\* Nobody's product is One, and one more factor comes with one more person.
LEMMA NobodysProduct == ASSUME NEW name PROVE ProductAlong(<< >>, name) = One
<1>1. Len(<< >>) = 0
    OBVIOUS
<1> QED BY <1>1, ProductIsLast DEF IsProducts

LEMMA OneMoreFactor ==
    ASSUME NEW people \in Seq(Contributors), NEW c \in Contributors, NEW name
    PROVE  ProductAlong(Append(people, c), name) = Mul(ProductAlong(people, name), Secrets[c][name])
<1> DEFINE more == Append(people, c)
           n == Len(people)
<1>1. /\ n \in Nat /\ Len(more) = n + 1 /\ more[n + 1] = c
      /\ \A i \in 1..n : people[i] = more[i]
    BY AppendProperties, LenProperties
<1> HIDE DEF more
<1>2. PICK f : IsProducts(f, people, name, n) /\ ProductAlong(people, name) = f[n]
    BY <1>1, ProductIsLast
<1>3. PICK g : IsProducts(g, more, name, n + 1) /\ ProductAlong(more, name) = g[n + 1]
    BY <1>1, ProductIsLast
<1> HIDE DEF n
<1>4. f[n] = g[n]
    BY <1>1, <1>2, <1>3, n + 1 \in Nat, n <= n + 1, ProductsAgree
<1>5. g[n + 1] = Mul(g[n], Secrets[more[n + 1]][name])
    <2>1. n + 1 \in 0..(n + 1) /\ n + 1 # 0 /\ (n + 1) - 1 = n
        BY <1>1
    <2> QED BY <1>3, <2>1 DEF IsProducts
<1>6. ProductAlong(more, name) = Mul(ProductAlong(people, name), Secrets[c][name])
    BY <1>1, <1>2, <1>3, <1>4, <1>5
<1> QED BY <1>6 DEF more

\* The first of the powers that a secret of each name is in.
FirstOf(acc, name) ==
    IF name = "tau" THEN acc.tau_powers_g1[2]
    ELSE IF name = "alpha" THEN acc.alpha_tau_powers_g1[1] ELSE acc.beta_tau_powers_g1[1]

\* Every accumulator of the chain is the product of the secrets of those before it.
ProductsOK ==
    /\ chain \in Seq(Contributors) /\ IsInjective(chain)
    /\ Len(states) = Len(chain) + 1
    /\ \A i \in 1..Len(states) : \A name \in Personalizations :
        FirstOf(states[i], name) = ProductAlong(SubSeq(chain, 1, i - 1), name)

\* Every offer was made on an accumulator of the chain, before its maker was accepted.
OffersMade == \A c \in Contributors : offers[c] # NoOffer =>
    /\ offers[c].on \in 1..Len(states)
    /\ offers[c].after = ContributePowers(states[offers[c].on], Secrets[c])
    /\ offers[c].pubkey = ProveSecrets(Secrets[c], states[offers[c].on], Points[c])
    /\ \A i \in 1..Len(chain) : chain[i] = c => offers[c].on <= i

CountInv == ProductsOK /\ OffersMade

\* An accepted hop was proved for the last accumulator, and multiplies each of the first
\* powers by the secret of whoever proved it.
LEMMA HopMultiplies ==
    ASSUME NEW before, NEW after, Readable(before), Readable(after),
           NEW digest, NEW secrets, NEW points, NEW key,
           key = ProveSecrets(secrets, digest, points),
           \A name \in Personalizations : secrets[name] \in Scalars,
           VerifyPowers(before, after, key)
    PROVE  /\ digest = before
           /\ \A name \in Personalizations :
                FirstOf(after, name) = Mul(FirstOf(before, name), secrets[name])
<1>1. \A name \in Personalizations :
        key[name] = ProveSecret(secrets[name], name, digest, points[name])
    BY DEF ProveSecrets
<1>2. ASSUME NEW name \in Personalizations
      PROVE  LET shown == key[name].g2_s_x
                 asked == G2S(before, key[name], name)
                 g1_s == key[name].g1_s
                 g1_s_x == key[name].g1_s_x
             IN  /\ asked.base = << <<name, before, g1_s, g1_s_x>> >> /\ asked.exp = One
                 /\ shown.base = << <<name, digest, g1_s, g1_s_x>> >>
                 /\ shown.exp = Mul(One, secrets[name])
    <2>1. key[name] = ProveSecret(secrets[name], name, digest, points[name])
        BY <1>1
    <2> HIDE DEF Personalizations
    <2> QED BY <2>1 DEF G2S, ComputeG2S, HashToG2, ProveSecret, Times
<1>3. digest = before
    <2>1. KnowsSecret(before, key["tau"], "tau")
        BY DEF VerifyPowers, Personalizations
    <2>2. Pairing(key["tau"].g1_s, key["tau"].g2_s_x).base
            = Pairing(key["tau"].g1_s_x, G2S(before, key["tau"], "tau")).base
        BY <2>1 DEF KnowsSecret, CheckSameRatio
    <2>3. key["tau"].g2_s_x.base = G2S(before, key["tau"], "tau").base
        BY <2>2 DEF Pairing
    <2> DEFINE t == <<"tau", digest, key["tau"].g1_s, key["tau"].g1_s_x>>
               u == <<"tau", before, key["tau"].g1_s, key["tau"].g1_s_x>>
    <2>4. <<t>> = <<u>>
        BY <1>2, <2>3 DEF Personalizations
    <2>5. t = u
        <3> HIDE DEF t, u
        <3> QED BY <2>4
    <2> QED BY <2>5
<1>4. ASSUME NEW name \in Personalizations
      PROVE  FirstOf(after, name) = Mul(FirstOf(before, name), secrets[name])
    <2> DEFINE x == FirstOf(before, name)
               y == FirstOf(after, name)
               s == secrets[name]
    <2>1. x \in Scalars /\ y \in Scalars /\ s \in Scalars
        BY Elements DEF FirstOf, VectorsG1
    <2>2. ChangedInG1(before, x, y, key[name], name)
        BY DEF VerifyPowers, FirstOf, Personalizations
    <2> HIDE DEF x, y
    <2>3. Pairing(x, key[name].g2_s_x) = Pairing(y, G2S(before, key[name], name))
        BY <2>2 DEF ChangedInG1, CheckSameRatio
    <2>4. Mul(x, key[name].g2_s_x.exp) = Mul(y, G2S(before, key[name], name).exp)
        <3>1. \A a, b, p, q : Pairing(a, p) = Pairing(b, q) => Mul(a, p.exp) = Mul(b, q.exp)
            BY DEF Pairing
        <3> HIDE DEF s
        <3> QED BY <2>3, <3>1
    <2>6. key[name].g2_s_x.exp = Mul(One, s) /\ G2S(before, key[name], name).exp = One
        BY <1>2
    <2>5. Mul(One, s) = s /\ Mul(y, One) = y
        BY <2>1, FieldAssumption
    <2> QED BY <2>4, <2>5, <2>6 DEF x, y
<1> QED BY <1>3, <1>4

\* Of the powers of alpha and of beta that arrive, one has the first element of the offer.
LEMMA OneIsUntouched ==
    ASSUME NEW made, NEW after \in Arrivals(made),
           {"alpha_tau_powers_g1", "beta_tau_powers_g1"} \subseteq DOMAIN made
    PROVE  \E name \in {"alpha", "beta"} : FirstOf(after, name) = FirstOf(made, name)
<1> DEFINE Kept == \/ after["alpha_tau_powers_g1"] = made["alpha_tau_powers_g1"]
                   \/ after["beta_tau_powers_g1"] = made["beta_tau_powers_g1"]
<1>1. Kept => \E name \in {"alpha", "beta"} : FirstOf(after, name) = FirstOf(made, name)
    BY DEF FirstOf
<1>2. ASSUME NEW part, NEW new, after = [made EXCEPT ![part] = new] PROVE Kept
    <2>1. CASE part = "alpha_tau_powers_g1"
        BY <1>2, <2>1
    <2>2. CASE part # "alpha_tau_powers_g1"
        BY <1>2, <2>2
    <2> QED BY <2>1, <2>2
<1>3. after = made => Kept
    OBVIOUS
<1> HIDE DEF Kept
<1>4. ASSUME after \in Scaled(made) PROVE Kept
    <2>1. CASE \E v \in VectorsG1,
                  wrong \in {{i} : i \in DOMAIN made.tau_powers_g1} \cup {DOMAIN made.tau_powers_g1} :
                after = [made EXCEPT ![v] =
                    [i \in DOMAIN @ |-> IF i \in wrong THEN Mul(@[i], Factor) ELSE @[i]]]
        BY <1>2, <2>1
    <2>2. CASE \E wrong \in DOMAIN made.tau_powers_g2 :
                after = [made EXCEPT !.tau_powers_g2 =
                    [i \in DOMAIN @ |-> IF i = wrong THEN Times(@[i], Factor) ELSE @[i]]]
        BY <1>2, <2>2
    <2> QED BY <1>4, <2>1, <2>2 DEF Scaled
<1>5. ASSUME NEW other, after \in Mixed(made, other) PROVE Kept
    BY <1>2, <1>5 DEF Mixed
<1>6. ASSUME after \in Cut(made) PROVE Kept
    BY <1>2, <1>6 DEF Cut
<1>7. \/ after = made \/ after \in Scaled(made) \/ after \in Cut(made)
      \/ after \in Mixed(made, LastState)
      \/ \E d \in Contributors : after \in Mixed(made, offers[d].after)
    BY DEF Arrivals
<1> QED BY <1>1, <1>3, <1>4, <1>5, <1>6, <1>7

\* Contributors in a row, each at most once, are no more than there are.
LEMMA IsLineUp ==
    ASSUME IsFiniteSet(Contributors), NEW people \in Seq(Contributors), IsInjective(people)
    PROVE  people \in LineUps
<1> DEFINE n == Len(people)
<1>1. n \in Nat /\ people \in [1..n -> Contributors] /\ DOMAIN people = 1..n
    BY LenProperties
<1>2. people \in Injection(1..n, Contributors)
    BY <1>1 DEF Injection, IsInjective
<1>3. Cardinality(1..n) <= Cardinality(Contributors)
    BY <1>2, FS_Injection
<1>4. Cardinality(1..n) = n
    BY <1>1, FS_Interval
<1>5. Cardinality(Contributors) \in Nat
    BY FS_CardinalityType
<1>6. n \in 0..Cardinality(Contributors)
    BY <1>1, <1>3, <1>4, <1>5
<1> QED BY <1>1, <1>6 DEF LineUps

\* One more person who was not in the row.
LEMMA OneMorePerson ==
    ASSUME NEW people \in Seq(Contributors), IsInjective(people), NEW c \in Contributors,
           \A i \in DOMAIN people : people[i] # c
    PROVE  /\ Append(people, c) \in Seq(Contributors) /\ IsInjective(Append(people, c))
           /\ Range(Append(people, c)) = Range(people) \cup {c}
<1> DEFINE more == Append(people, c)
           n == Len(people)
<1>1. /\ n \in Nat /\ more \in Seq(Contributors) /\ Len(more) = n + 1 /\ more[n + 1] = c
      /\ \A i \in 1..n : more[i] = people[i]
      /\ DOMAIN more = 1..(n + 1) /\ DOMAIN people = 1..n
    BY AppendProperties, LenProperties
<1> HIDE DEF more, n
<1>2. IsInjective(more)
    BY <1>1 DEF IsInjective
<1>3. Range(more) = Range(people) \cup {c}
    <2>1. ASSUME NEW x \in Range(more) PROVE x \in Range(people) \cup {c}
        BY <1>1 DEF Range
    <2>2. ASSUME NEW x \in Range(people) PROVE x \in Range(more)
        <3>1. PICK i \in 1..n : x = people[i]
            BY <1>1 DEF Range
        <3>2. i \in DOMAIN more /\ more[i] = x
            BY <1>1, <3>1
        <3> QED BY <3>2 DEF Range
    <2>3. c \in Range(more)
        <3>1. n + 1 \in DOMAIN more
            BY <1>1
        <3> QED BY <1>1, <3>1 DEF Range
    <2> QED BY <2>1, <2>2, <2>3
<1> QED BY <1>1, <1>2, <1>3 DEF more

\* The first n people of a row.
LEMMA FirstPeople ==
    ASSUME NEW people \in Seq(Contributors), IsInjective(people), NEW n \in 0..Len(people)
    PROVE  LET some == SubSeq(people, 1, n)
           IN  /\ some \in Seq(Contributors) /\ IsInjective(some) /\ DOMAIN some = 1..n
               /\ \A i \in 1..n : some[i] = people[i]
<1> DEFINE some == SubSeq(people, 1, n)
<1>1. n \in Nat /\ Len(people) \in Nat /\ DOMAIN people = 1..Len(people) /\ n <= Len(people)
    BY LenProperties
<1>2. \A i \in 1..n : people[i] \in Contributors
    BY <1>1, ElementOfSeq
<1>3. some \in Seq(Contributors) /\ Len(some) = n /\ \A i \in 1..n : some[i] = people[i]
    <2>1. Len(some) = IF 1 <= n THEN n - 1 + 1 ELSE 0
        BY <1>1, <1>2, SubSeqProperties
    <2> QED BY <1>1, <1>2, <2>1, SubSeqProperties
<1> HIDE DEF some
<1>4. DOMAIN some = 1..n
    BY <1>3, LenProperties
<1>5. IsInjective(some)
    BY <1>1, <1>3, <1>4 DEF IsInjective
<1> QED BY <1>3, <1>4, <1>5 DEF some

\* Whoever shows a secret that the last accumulator is multiplied by is its next
\* contributor: nobody else's products are the same.
LEMMA NextIsOne ==
    ASSUME IndependentSecrets, NEW some \in Seq(Contributors), NEW all \in Seq(Contributors),
           IsInjective(some), IsInjective(all),
           NEW c \in Contributors, NEW d \in Contributors, NEW name \in Personalizations,
           c \notin Range(some), c \notin Range(all), d \notin Range(all),
           ProductAlong(Append(some, c), name) = ProductAlong(Append(all, d), name)
    PROVE  c = d
<1>1. ASSUME NEW people \in Seq(Contributors), NEW x, x \notin Range(people)
      PROVE  \A i \in DOMAIN people : people[i] # x
    BY <1>1 DEF Range
<1>2. /\ Append(some, c) \in LineUps /\ Append(all, d) \in LineUps
      /\ Range(Append(some, c)) = Range(some) \cup {c}
      /\ Range(Append(all, d)) = Range(all) \cup {d}
    BY <1>1, OneMorePerson, IsLineUp DEF IndependentSecrets
<1>3. Range(some) \cup {c} = Range(all) \cup {d}
    BY <1>2 DEF IndependentSecrets
<1> QED BY <1>3

\* What contribute makes of the first powers.
LEMMA ContributesFirst ==
    ASSUME NEW before, Readable(before), NEW secrets, NEW name \in {"alpha", "beta"},
           \A p \in Personalizations : secrets[p] \in Scalars
    PROVE  FirstOf(ContributePowers(before, secrets), name)
                = Mul(FirstOf(before, name), secrets[name])
<1> DEFINE size == Len(before.tau_powers_g2)
           m == Len(before.tau_powers_g1) + size
           tau == PowersOf(secrets["tau"], m)
           after == ContributePowers(before, secrets)
<1>1. size \in Nat /\ size >= 2 /\ m \in Nat
    <2>1. size \in Nat /\ size >= 2 /\ Len(before.tau_powers_g1) \in Nat
        BY Elements DEF VectorsG1
    <2> HIDE DEF size
    <2> QED BY <2>1
<1>2. tau[0] = One
    <2> HIDE DEF m
    <2>1. 0 \in 0..m /\ m \in Nat
        BY <1>1
    <2> QED BY <2>1, PowersEquation
<1>3. /\ after.alpha_tau_powers_g1 = [i \in 1..size |->
            Mul(before.alpha_tau_powers_g1[i], Mul(secrets["alpha"], tau[i - 1]))]
      /\ after.beta_tau_powers_g1 = [i \in 1..size |->
            Mul(before.beta_tau_powers_g1[i], Mul(secrets["beta"], tau[i - 1]))]
    BY DEF ContributePowers, Size
<1> HIDE DEF tau, size, after
<1>4. 1 \in 1..size /\ 1 - 1 = 0
    BY <1>1
<1>5. /\ after.alpha_tau_powers_g1[1] = Mul(before.alpha_tau_powers_g1[1], Mul(secrets["alpha"], One))
      /\ after.beta_tau_powers_g1[1] = Mul(before.beta_tau_powers_g1[1], Mul(secrets["beta"], One))
    BY <1>2, <1>3, <1>4
<1>6. Mul(secrets["alpha"], One) = secrets["alpha"] /\ Mul(secrets["beta"], One) = secrets["beta"]
    <2>1. secrets["alpha"] \in Scalars /\ secrets["beta"] \in Scalars
        BY DEF Personalizations
    <2> QED BY <2>1, FieldAssumption
<1> QED BY <1>5, <1>6 DEF FirstOf, after

LEMMA CountInit == Init => CountInv
<1> SUFFICES ASSUME Init PROVE CountInv
    OBVIOUS
<1>1. PICK size \in Sizes : states = <<NewAccumulator(size)>>
    BY DEF Init
<1>2. size \in Nat /\ size > 1
    BY ContributorsAssumption
<1>3. ASSUME NEW name \in Personalizations PROVE FirstOf(NewAccumulator(size), name) = One
    BY <1>2 DEF FirstOf, NewAccumulator, G1
<1>4. chain = << >> /\ Len(chain) = 0 /\ chain \in Seq(Contributors) /\ IsInjective(chain)
    BY DEF Init, IsInjective
<1>5. SubSeq(chain, 1, 1 - 1) = << >>
    BY <1>4, SubSeqEmpty
<1> DEFINE acc == NewAccumulator(size)
<1> HIDE DEF acc
<1>6. Len(states) = 1 /\ states[1] = acc
    BY <1>1 DEF acc
<1>7. \A name \in Personalizations : FirstOf(states[1], name)
                                        = ProductAlong(SubSeq(chain, 1, 1 - 1), name)
    BY <1>3, <1>5, <1>6, NobodysProduct DEF acc
<1>8. ProductsOK
    BY <1>4, <1>6, <1>7 DEF ProductsOK
<1>9. OffersMade
    BY DEF Init, OffersMade
<1> QED BY <1>8, <1>9 DEF CountInv

\* Who is accepted is who has shown the secrets, and has worked on the last accumulator.
LEMMA AcceptedIsNext ==
    ASSUME IndependentSecrets, SetupInv, CountInv, NEW c \in Contributors, ~ Accepted(c),
           offers[c] # NoOffer, NEW d \in Contributors, offers[d] # NoOffer,
           NEW after \in Arrivals(offers[c].after), Readable(after),
           VerifyPowers(LastState, after, offers[d].pubkey)
    PROVE  /\ c = d
           /\ \A name \in Personalizations :
                FirstOf(after, name) = Mul(FirstOf(LastState, name), Secrets[c][name])
<1> DEFINE n == Len(states)
           k == offers[d].on
           m == offers[c].on
<1>1. /\ chain \in Seq(Contributors) /\ IsInjective(chain) /\ Len(chain) \in Nat
      /\ n = Len(chain) + 1 /\ DOMAIN chain = 1..Len(chain)
      /\ \A i \in 1..n : \A name \in Personalizations :
            FirstOf(states[i], name) = ProductAlong(SubSeq(chain, 1, i - 1), name)
    BY LenProperties DEF CountInv, ProductsOK
<1>2. /\ k \in 1..n /\ offers[d].pubkey = ProveSecrets(Secrets[d], states[k], Points[d])
      /\ \A i \in 1..Len(chain) : chain[i] = d => k <= i
      /\ m \in 1..n /\ offers[c].after = ContributePowers(states[m], Secrets[c])
    BY DEF CountInv, OffersMade
<1>3. /\ \A i \in 1..n : Readable(states[i])
      /\ Readable(LastState) /\ LastState = states[n] /\ n \in 1..n
    BY <1>1 DEF SetupInv, StatesOK, LastState
<1>4. \A e \in Contributors : \A name \in Personalizations : Secrets[e][name] \in Scalars
    BY ContributorsAssumption DEF Personalizations
<1>5. /\ states[k] = LastState
      /\ \A name \in Personalizations :
            FirstOf(after, name) = Mul(FirstOf(LastState, name), Secrets[d][name])
    <2> DEFINE digest == states[k]
               key == offers[d].pubkey
    <2>1. key = ProveSecrets(Secrets[d], digest, Points[d])
        BY <1>2
    <2>2. VerifyPowers(LastState, after, key)
        OBVIOUS
    <2> HIDE DEF digest, key
    <2>3. \A name \in Personalizations : Secrets[d][name] \in Scalars
        BY <1>4
    <2> QED BY <1>3, <2>1, <2>2, <2>3, HopMultiplies DEF digest
<1> HIDE DEF n, k, m
<1>6. /\ SubSeq(chain, 1, n - 1) = chain
      /\ \A i \in 1..n : /\ SubSeq(chain, 1, i - 1) \in Seq(Contributors)
                         /\ IsInjective(SubSeq(chain, 1, i - 1))
                         /\ Range(SubSeq(chain, 1, i - 1)) = {chain[j] : j \in 1..(i - 1)}
    <2>1. n - 1 = Len(chain)
        BY <1>1
    <2>2. SubSeq(chain, 1, Len(chain)) = chain
        BY <1>1, SubSeqFull
    <2>3. ASSUME NEW i \in 1..n
          PROVE  /\ SubSeq(chain, 1, i - 1) \in Seq(Contributors)
                 /\ IsInjective(SubSeq(chain, 1, i - 1))
                 /\ Range(SubSeq(chain, 1, i - 1)) = {chain[j] : j \in 1..(i - 1)}
        <3>1. i - 1 \in 0..Len(chain)
            BY <1>1
        <3> DEFINE some == SubSeq(chain, 1, i - 1)
        <3>2. /\ some \in Seq(Contributors) /\ IsInjective(some) /\ DOMAIN some = 1..(i - 1)
              /\ \A j \in 1..(i - 1) : some[j] = chain[j]
            BY <1>1, <3>1, FirstPeople
        <3> HIDE DEF some
        <3>3. Range(some) = {chain[j] : j \in 1..(i - 1)}
            BY <3>2 DEF Range
        <3> QED BY <3>2, <3>3 DEF some
    <2> QED BY <2>1, <2>2, <2>3
\* d has worked on the last accumulator: no other one is the same.
<1>7. k = n
    <2> SUFFICES ASSUME k # n PROVE FALSE
        OBVIOUS
    <2>1. ProductAlong(SubSeq(chain, 1, k - 1), "tau") = ProductAlong(chain, "tau")
        <3>1. "tau" \in Personalizations
            BY DEF Personalizations
        <3>2. FirstOf(states[k], "tau") = ProductAlong(SubSeq(chain, 1, k - 1), "tau")
            BY <1>1, <1>2, <3>1
        <3>3. FirstOf(states[n], "tau") = ProductAlong(SubSeq(chain, 1, n - 1), "tau")
            BY <1>1, <1>3, <3>1
        <3> QED BY <1>3, <1>5, <1>6, <3>2, <3>3
    <2>2. SubSeq(chain, 1, k - 1) \in LineUps /\ chain \in LineUps
        BY <1>1, <1>2, <1>6, IsLineUp DEF IndependentSecrets
    <2>3. Range(SubSeq(chain, 1, k - 1)) = Range(chain)
        BY <2>1, <2>2 DEF IndependentSecrets, Personalizations
    <2>4. k \in 1..Len(chain) /\ k \notin 1..(k - 1)
        BY <1>1, <1>2
    <2>5. chain[k] \in Range(chain)
        BY <1>1, <2>4 DEF Range
    <2>6. PICK j \in 1..(k - 1) : chain[k] = chain[j]
        BY <1>2, <1>6, <2>3, <2>5
    <2>7. j \in 1..Len(chain) /\ j # k
        BY <1>1, <2>4
    <2> QED BY <1>1, <2>4, <2>6, <2>7 DEF IsInjective
<1>8. c \notin Range(chain) /\ d \notin Range(chain)
    <2>1. c \notin Range(chain)
        BY DEF Accepted, Range
    <2>2. ASSUME NEW i \in 1..Len(chain), chain[i] = d PROVE FALSE
        BY <1>1, <1>2, <1>7, <2>2
    <2> QED BY <1>1, <2>1, <2>2 DEF Range
\* The untouched part of what c sends tells that c is d.
<1>9. PICK name \in {"alpha", "beta"} : FirstOf(after, name) = FirstOf(offers[c].after, name)
    <2>1. {"alpha_tau_powers_g1", "beta_tau_powers_g1"} \subseteq DOMAIN offers[c].after
        BY <1>2 DEF ContributePowers
    <2> QED BY <2>1, OneIsUntouched
<1>10. FirstOf(offers[c].after, name) = Mul(FirstOf(states[m], name), Secrets[c][name])
    BY <1>2, <1>3, <1>4, ContributesFirst
<1>11. ProductAlong(Append(SubSeq(chain, 1, m - 1), c), name)
            = ProductAlong(Append(chain, d), name)
    <2>1. name \in Personalizations
        BY DEF Personalizations
    <2>2. FirstOf(after, name) = ProductAlong(Append(SubSeq(chain, 1, m - 1), c), name)
        <3> DEFINE some == SubSeq(chain, 1, m - 1)
        <3>1. some \in Seq(Contributors) /\ FirstOf(states[m], name) = ProductAlong(some, name)
            BY <1>1, <1>2, <1>6, <2>1
        <3>2. FirstOf(after, name) = Mul(FirstOf(states[m], name), Secrets[c][name])
            BY <1>9, <1>10
        <3> HIDE DEF some
        <3>3. FirstOf(after, name) = ProductAlong(Append(some, c), name)
            BY <3>1, <3>2, OneMoreFactor
        <3> QED BY <3>3 DEF some
    <2>3. FirstOf(after, name) = ProductAlong(Append(chain, d), name)
        <3>1. FirstOf(LastState, name) = ProductAlong(chain, name)
            BY <1>1, <1>3, <1>6, <2>1
        <3>2. FirstOf(after, name) = Mul(FirstOf(LastState, name), Secrets[d][name])
            BY <1>5, <2>1
        <3> QED BY <1>1, <3>1, <3>2, OneMoreFactor
    <2> QED BY <2>2, <2>3
<1>12. c = d
    <2>1. name \in Personalizations
        BY DEF Personalizations
    <2>2. c \notin Range(SubSeq(chain, 1, m - 1))
        <3>1. \A j \in 1..(m - 1) : j \in DOMAIN chain
            BY <1>1, <1>2
        <3> QED BY <1>2, <1>6, <1>8, <3>1 DEF Range
    <2> DEFINE some == SubSeq(chain, 1, m - 1)
    <2>3. some \in Seq(Contributors) /\ IsInjective(some) /\ c \notin Range(some)
        BY <1>2, <1>6, <2>2
    <2>4. ProductAlong(Append(some, c), name) = ProductAlong(Append(chain, d), name)
        BY <1>11
    <2> HIDE DEF some
    <2> QED BY <1>1, <1>8, <2>1, <2>3, <2>4, NextIsOne
<1> QED BY <1>5, <1>12

\* What the first people of a row are does not change when one more comes.
LEMMA SameBeginning ==
    ASSUME NEW p \in Seq(Contributors), NEW q \in Seq(Contributors),
           NEW n \in Nat, n <= Len(p), n <= Len(q), \A i \in 1..n : p[i] = q[i]
    PROVE  SubSeq(p, 1, n) = SubSeq(q, 1, n)
<1>1. Len(p) \in Nat /\ Len(q) \in Nat
    BY LenProperties
<1>2. n \in 0..Len(p) /\ n \in 0..Len(q)
    BY <1>1
<1>3. SubSeq(p, 1, n) = Restrict(p, 1..n) /\ SubSeq(q, 1, n) = Restrict(q, 1..n)
    BY <1>2, SubSeqRestrict
<1> QED BY <1>3 DEF Restrict

LEMMA CountStep == IndependentSecrets /\ SetupInv /\ CountInv /\ [Next]_vars => CountInv'
<1> SUFFICES ASSUME IndependentSecrets, SetupInv, CountInv, [Next]_vars PROVE CountInv'
    OBVIOUS
<1>1. ASSUME UNCHANGED <<states, chain, offers>> PROVE CountInv'
    BY <1>1 DEF CountInv, ProductsOK, OffersMade
<1>2. ASSUME NEW c \in Contributors, MakeOffer(c) PROVE CountInv'
    <2>1. UNCHANGED <<states, chain>>
        BY <1>2 DEF MakeOffer
    <2>2. ProductsOK'
        BY <2>1 DEF CountInv, ProductsOK
    <2>3. Len(states) \in 1..Len(states) /\ DOMAIN chain = 1..Len(chain)
        BY LenProperties DEF CountInv, ProductsOK
    <2>4. \A i \in 1..Len(chain) : chain[i] # c
        BY <1>2, <2>3 DEF MakeOffer, Accepted
    <2>5. ASSUME NEW e \in Contributors, offers'[e] # NoOffer
          PROVE  /\ offers'[e].on \in 1..Len(states)
                 /\ offers'[e].after = ContributePowers(states[offers'[e].on], Secrets[e])
                 /\ offers'[e].pubkey
                        = ProveSecrets(Secrets[e], states[offers'[e].on], Points[e])
                 /\ \A i \in 1..Len(chain) : chain[i] = e => offers'[e].on <= i
        <3>1. CASE e = c
            <4>1. offers'[c] = [on |-> Len(states),
                                after |-> ContributePowers(LastState, Secrets[c]),
                                pubkey |-> ProveSecrets(Secrets[c], LastState, Points[c])]
                BY <1>2 DEF MakeOffer, SetupInv, PublicKeysOK
            <4> QED BY <2>3, <2>4, <3>1, <4>1 DEF LastState
        <3>2. CASE e # c
            <4>1. offers'[e] = offers[e]
                BY <1>2, <3>2 DEF MakeOffer, SetupInv, PublicKeysOK
            <4> QED BY <2>5, <4>1 DEF CountInv, OffersMade
        <3> QED BY <3>1, <3>2
    <2>6. OffersMade'
        BY <2>1, <2>5 DEF OffersMade
    <2> QED BY <2>2, <2>6 DEF CountInv
<1>3. ASSUME NEW c \in Contributors, Accept(c) PROVE CountInv'
    <2>1. PICK d \in Contributors, after \in Arrivals(offers[c].after) :
            /\ offers[d] # NoOffer /\ Readable(after)
            /\ VerifyPowers(LastState, after, offers[d].pubkey)
            /\ states' = Append(states, after)
        BY <1>3 DEF Accept
    <2>2. /\ ~ Accepted(c) /\ offers[c] # NoOffer
          /\ chain' = Append(chain, c) /\ UNCHANGED offers
        BY <1>3 DEF Accept
    <2>3. \A name \in Personalizations :
            FirstOf(after, name) = Mul(FirstOf(LastState, name), Secrets[c][name])
        BY <2>1, <2>2, AcceptedIsNext
    <2>4. /\ chain \in Seq(Contributors) /\ IsInjective(chain) /\ Len(chain) \in Nat
          /\ Len(states) = Len(chain) + 1 /\ DOMAIN chain = 1..Len(chain)
          /\ \A i \in 1..Len(states) : \A name \in Personalizations :
                FirstOf(states[i], name) = ProductAlong(SubSeq(chain, 1, i - 1), name)
        BY LenProperties DEF CountInv, ProductsOK
    <2>5. /\ Len(states') = Len(states) + 1 /\ states'[Len(states) + 1] = after
          /\ \A i \in 1..Len(states) : states'[i] = states[i]
        BY <2>1, AppendProperties DEF SetupInv, StatesOK, Readable
    <2>6. /\ chain' \in Seq(Contributors) /\ IsInjective(chain')
          /\ Len(chain') = Len(chain) + 1 /\ chain'[Len(chain) + 1] = c
          /\ \A i \in 1..Len(chain) : chain'[i] = chain[i]
        <3>1. \A i \in DOMAIN chain : chain[i] # c
            BY <2>2 DEF Accepted
        <3> QED BY <2>2, <2>4, <3>1, OneMorePerson, AppendProperties
    <2>7. ASSUME NEW i \in 1..Len(states') PROVE
            \A name \in Personalizations :
                FirstOf(states'[i], name) = ProductAlong(SubSeq(chain', 1, i - 1), name)
        <3>1. CASE i \in 1..Len(states)
            <4>1. SubSeq(chain', 1, i - 1) = SubSeq(chain, 1, i - 1)
                BY <2>4, <2>6, <3>1, SameBeginning
            <4> QED BY <2>4, <2>5, <3>1, <4>1
        <3>2. CASE i = Len(states) + 1
            <4>1. SubSeq(chain', 1, i - 1) = chain' /\ i - 1 = Len(chain')
                <5>1. i - 1 = Len(chain')
                    BY <2>4, <2>6, <3>2
                <5> QED BY <2>6, <5>1, SubSeqFull
            <4>2. \A name \in Personalizations :
                    FirstOf(LastState, name) = ProductAlong(chain, name)
                <5>1. SubSeq(chain, 1, Len(states) - 1) = chain /\ Len(states) \in 1..Len(states)
                    <6>1. Len(states) - 1 = Len(chain)
                        BY <2>4
                    <6> QED BY <2>4, <6>1, SubSeqFull
                <5> QED BY <2>4, <5>1 DEF LastState
            <4>3. \A name \in Personalizations : FirstOf(after, name) = ProductAlong(chain', name)
                BY <2>2, <2>3, <2>4, <4>2, OneMoreFactor
            <4> QED BY <2>5, <3>2, <4>1, <4>3
        <3> QED BY <2>4, <2>5, <3>1, <3>2
    <2>8. ProductsOK'
        BY <2>4, <2>5, <2>6, <2>7 DEF ProductsOK
    <2>9. ASSUME NEW e \in Contributors, offers[e] # NoOffer
          PROVE  /\ offers[e].on \in 1..Len(states')
                 /\ offers[e].after = ContributePowers(states'[offers[e].on], Secrets[e])
                 /\ offers[e].pubkey
                        = ProveSecrets(Secrets[e], states'[offers[e].on], Points[e])
                 /\ \A i \in 1..Len(chain') : chain'[i] = e => offers[e].on <= i
        <3>1. /\ offers[e].on \in 1..Len(states)
              /\ offers[e].after = ContributePowers(states[offers[e].on], Secrets[e])
              /\ offers[e].pubkey = ProveSecrets(Secrets[e], states[offers[e].on], Points[e])
              /\ \A i \in 1..Len(chain) : chain[i] = e => offers[e].on <= i
            BY <2>9 DEF CountInv, OffersMade
        <3>2. ASSUME NEW i \in 1..Len(chain'), chain'[i] = e PROVE offers[e].on <= i
            BY <2>4, <2>6, <3>1, <3>2
        <3> QED BY <2>4, <2>5, <3>1, <3>2
    <2>10. OffersMade'
        BY <2>2, <2>9 DEF OffersMade
    <2> QED BY <2>8, <2>10 DEF CountInv
<1>4. ASSUME NEW c \in Contributors, ContributeDelta(c) PROVE CountInv'
    BY <1>1, <1>4 DEF ContributeDelta
<1>5. CASE BridgePhases
    BY <1>1, <1>5 DEF BridgePhases
<1>6. CASE UNCHANGED vars
    BY <1>1, <1>6 DEF vars
<1> QED BY <1>2, <1>3, <1>4, <1>5, <1>6 DEF Next

LEMMA ProductsSuffice == CountInv => EachSecretCountsOnce
<1> SUFFICES ASSUME CountInv PROVE EachSecretCountsOnce
    OBVIOUS
<1>1. /\ chain \in Seq(Contributors) /\ Len(chain) \in Nat /\ Len(states) = Len(chain) + 1
      /\ \A name \in Personalizations :
            FirstOf(LastState, name) = ProductAlong(SubSeq(chain, 1, Len(states) - 1), name)
    BY LenProperties DEF CountInv, ProductsOK, LastState
<1>2. SubSeq(chain, 1, Len(states) - 1) = chain
    <2>1. Len(states) - 1 = Len(chain)
        BY <1>1
    <2> QED BY <1>1, <2>1, SubSeqFull
<1>3. \A name \in Personalizations : FirstOf(LastState, name) = ProductAlong(chain, name)
    BY <1>1, <1>2
<1> QED BY <1>3 DEF EachSecretCountsOnce, FirstOf, Personalizations

\* tau, alpha and beta are each the product of the secrets of exactly those who were
\* accepted, each once: for every commutative field and any contributors whose products of
\* secrets tell whose they are, whatever arrives, with whoever's public key, and made of
\* whichever accumulator.
THEOREM SecretsCountOnce == ASSUME IndependentSecrets PROVE Spec => []EachSecretCountsOnce
<1>1. SetupInv /\ CountInv /\ [Next]_vars => (SetupInv /\ CountInv)'
    BY StepPreserves, CountStep
<1> QED BY <1>1, InitEstablishes, CountInit, ProductsSuffice, PTL DEF Spec

----------------------------------------------------------------------------
(* Sums of scalars.                                                        *)

LEMMA AddType ==
    /\ Zero \in Scalars /\ One \in Scalars
    /\ \A a, b \in Scalars : Add(a, b) \in Scalars /\ Sub(a, b) \in Scalars /\ Mul(a, b) \in Scalars
BY FieldAssumption, AdditionAssumption

\* The sum of f over a set.
SumOver(f, S) == FoldFunctionOnSet(Add, Zero, f, S)

\* g adds up the values of f over every part of S, one after the other.
AddsScalars(g, f, S) ==
    \A s \in SUBSET S : g[s] = IF s = {} THEN Zero ELSE Add(f[AnyOf(s)], g[s \ {AnyOf(s)}])

LEMMA ScalarSumExists ==
    ASSUME NEW f, NEW S, IsFiniteSet(S)
    PROVE  \E g : AddsScalars(g, f, S) /\ SumOver(f, S) = g[S]
<1> DEFINE e(g, s) == IF s = {} THEN Zero ELSE Add(f[AnyOf(s)], g[s \ {AnyOf(s)}])
           Upto(g, m) == \A s \in SUBSET S : Cardinality(s) <= m => g[s] = e(g, s)
           N == {m \in Nat : \E g : Upto(g, m)}
<1>1. \A s \in SUBSET S : IsFiniteSet(s) /\ Cardinality(s) \in Nat
    BY FS_Subset, FS_CardinalityType
<1>2. 0 \in N
    <2> DEFINE g == [s \in SUBSET S |-> Zero]
    <2>1. \A s \in SUBSET S : Cardinality(s) <= 0 => s = {}
        BY <1>1, FS_EmptySet
    <2>2. Upto(g, 0)
        BY <2>1
    <2> QED BY <2>2
<1>3. ASSUME NEW m \in Nat, m \in N PROVE m + 1 \in N
    <2>1. PICK g : Upto(g, m)
        BY <1>3
    <2> DEFINE h == [s \in SUBSET S |-> e(g, s)]
    <2>2. ASSUME NEW s \in SUBSET S, Cardinality(s) <= m + 1 PROVE h[s] = e(h, s)
        <3>1. CASE s = {}
            BY <3>1
        <3>2. CASE s # {}
            <4> DEFINE t == s \ {AnyOf(s)}
            <4>1. t \in SUBSET S /\ Cardinality(t) <= m
                BY <1>1, <2>2, <3>2, AnyIsIn, OneLess
            <4>2. h[t] = g[t]
                BY <2>1, <4>1
            <4> QED BY <3>2, <4>2
        <3> QED BY <3>1, <3>2
    <2>3. Upto(h, m + 1)
        BY <2>2
    <2> HIDE DEF h, Upto
    <2> QED BY <2>3
<1>4. Cardinality(S) \in N
    <2> HIDE DEF N
    <2> QED BY <1>1, <1>2, <1>3, InductionOnSet
<1>5. PICK g : Upto(g, Cardinality(S))
    BY <1>4
<1>6. \A s \in SUBSET S : Cardinality(s) <= Cardinality(S)
    BY FS_Subset
<1> DEFINE whole == [s \in SUBSET S |-> g[s]]
<1>7. \A s \in SUBSET S : s \ {AnyOf(s)} \in SUBSET S
    OBVIOUS
<1>8. whole = [s \in SUBSET S |-> e(whole, s)]
    BY <1>5, <1>6, <1>7
<1> HIDE DEF whole
<1> DEFINE total == CHOOSE h : h = [s \in SUBSET S |-> e(h, s)]
<1>9. total = [s \in SUBSET S |-> e(total, s)]
    BY <1>8
<1>10. SumOver(f, S) = total[S]
    BY DEF SumOver, FoldFunctionOnSet, MapThenFoldSet, AnyOf
<1> HIDE DEF total
<1>11. AddsScalars(total, f, S)
    BY <1>9 DEF AddsScalars
<1> QED BY <1>10, <1>11

\* Two functions that agree on a set have one sum over it.
LEMMA ScalarSumsAgree ==
    ASSUME NEW S, NEW t \in SUBSET S, IsFiniteSet(S), NEW f, NEW h,
           \A x \in t : f[x] = h[x],
           NEW g, NEW k, AddsScalars(g, f, S), AddsScalars(k, h, t)
    PROVE  g[t] = k[t]
<1> DEFINE P == {s \in SUBSET t : g[s] = k[s]}
           N == {m \in Nat : \A s \in SUBSET t : Cardinality(s) <= m => s \in P}
<1>1. \A s \in SUBSET t : s \in SUBSET S /\ IsFiniteSet(s) /\ Cardinality(s) \in Nat
    BY FS_Subset, FS_CardinalityType
<1>2. 0 \in N
    <2>1. \A s \in SUBSET t : Cardinality(s) <= 0 => s = {}
        BY <1>1, FS_EmptySet
    <2>2. g[{}] = Zero /\ k[{}] = Zero
        BY DEF AddsScalars
    <2> QED BY <2>1, <2>2
<1>3. ASSUME NEW m \in Nat, m \in N PROVE m + 1 \in N
    <2> SUFFICES ASSUME NEW s \in SUBSET t, Cardinality(s) <= m + 1 PROVE g[s] = k[s]
        OBVIOUS
    <2>1. CASE s = {}
        BY <1>1, <2>1 DEF AddsScalars
    <2>2. CASE s # {}
        <3> DEFINE r == s \ {AnyOf(s)}
        <3>1. r \in SUBSET t /\ Cardinality(r) <= m /\ AnyOf(s) \in t
            BY <1>1, <2>2, AnyIsIn, OneLess
        <3>2. g[r] = k[r]
            BY <1>3, <3>1
        <3>3. g[s] = Add(f[AnyOf(s)], g[r]) /\ k[s] = Add(h[AnyOf(s)], k[r])
            BY <1>1, <2>2 DEF AddsScalars
        <3> QED BY <3>1, <3>2, <3>3
    <2> QED BY <2>1, <2>2
<1>4. Cardinality(t) \in N
    <2> HIDE DEF N
    <2> QED BY <1>1, <1>2, <1>3, InductionOnSet
<1> QED BY <1>1, <1>4

LEMMA SameSums ==
    ASSUME NEW S, IsFiniteSet(S), NEW f, NEW h, \A x \in S : f[x] = h[x]
    PROVE  SumOver(f, S) = SumOver(h, S)
<1>1. PICK g : AddsScalars(g, f, S) /\ SumOver(f, S) = g[S]
    BY ScalarSumExists
<1>2. PICK k : AddsScalars(k, h, S) /\ SumOver(h, S) = k[S]
    BY ScalarSumExists
<1> QED BY <1>1, <1>2, ScalarSumsAgree

\* What a sum begins with, and what it takes first.
LEMMA SumUnfolds ==
    ASSUME NEW f, NEW S, IsFiniteSet(S)
    PROVE  SumOver(f, S) = IF S = {} THEN Zero
                           ELSE Add(f[AnyOf(S)], SumOver(f, S \ {AnyOf(S)}))
<1> DEFINE rest == S \ {AnyOf(S)}
<1>1. rest \in SUBSET S /\ IsFiniteSet(rest)
    BY FS_Subset
<1>2. PICK g : AddsScalars(g, f, S) /\ SumOver(f, S) = g[S]
    BY ScalarSumExists
<1> HIDE DEF rest
<1>3. PICK k : AddsScalars(k, f, rest) /\ SumOver(f, rest) = k[rest]
    BY <1>1, ScalarSumExists
<1>4. g[rest] = k[rest]
    BY <1>1, <1>2, <1>3, ScalarSumsAgree
<1>5. g[S] = IF S = {} THEN Zero ELSE Add(f[AnyOf(S)], g[rest])
    BY <1>2 DEF AddsScalars, rest
<1> QED BY <1>2, <1>3, <1>4, <1>5 DEF rest

\* The values of f are scalars throughout a finite set.
ScalarOn(f, S) == IsFiniteSet(S) /\ \A x \in S : f[x] \in Scalars

\* A sum of scalars is one.
LEMMA SumType ==
    ASSUME NEW f, NEW S, ScalarOn(f, S)
    PROVE  SumOver(f, S) \in Scalars
<1> DEFINE P == {s \in SUBSET S : SumOver(f, s) \in Scalars}
           N == {m \in Nat : \A s \in SUBSET S : Cardinality(s) <= m => s \in P}
<1>1. \A s \in SUBSET S : IsFiniteSet(s) /\ Cardinality(s) \in Nat
    BY FS_Subset, FS_CardinalityType DEF ScalarOn
<1>2. 0 \in N
    <2>1. \A s \in SUBSET S : Cardinality(s) <= 0 => s = {}
        BY <1>1, FS_EmptySet
    <2>2. SumOver(f, {}) = Zero /\ Zero \in Scalars
        BY <1>1, SumUnfolds, FieldAssumption
    <2> QED BY <2>1, <2>2
<1>3. ASSUME NEW m \in Nat, m \in N PROVE m + 1 \in N
    <2> SUFFICES ASSUME NEW s \in SUBSET S, Cardinality(s) <= m + 1
                 PROVE  SumOver(f, s) \in Scalars
        OBVIOUS
    <2>1. CASE s = {}
        BY <1>1, <2>1, SumUnfolds, FieldAssumption
    <2>2. CASE s # {}
        <3> DEFINE r == s \ {AnyOf(s)}
        <3>1. r \in SUBSET S /\ Cardinality(r) <= m /\ AnyOf(s) \in S
            BY <1>1, <2>2, AnyIsIn, OneLess
        <3>2. SumOver(f, r) \in Scalars /\ f[AnyOf(s)] \in Scalars
            BY <1>3, <3>1 DEF ScalarOn
        <3>3. SumOver(f, s) = Add(f[AnyOf(s)], SumOver(f, r))
            BY <1>1, <2>2, SumUnfolds
        <3> QED BY <3>2, <3>3, AddType
    <2> QED BY <2>1, <2>2
<1>4. Cardinality(S) \in N
    <2> HIDE DEF N
    <2> QED BY <1>1, <1>2, <1>3, InductionOnSet DEF ScalarOn
<1> QED BY <1>1, <1>4 DEF ScalarOn

\* Terms change places.
LEMMA AddExchange ==
    ASSUME NEW a \in Scalars, NEW b \in Scalars, NEW c \in Scalars
    PROVE  Add(a, Add(b, c)) = Add(b, Add(a, c))
<1>1. Add(a, Add(b, c)) = Add(Add(a, b), c) /\ Add(b, Add(a, c)) = Add(Add(b, a), c)
    BY AdditionAssumption
<1>2. Add(a, b) = Add(b, a)
    BY AdditionAssumption
<1> QED BY <1>1, <1>2

\* A sum is the value of any element, and the sum of the others.
LEMMA SumTakesOut ==
    ASSUME NEW f, NEW S, ScalarOn(f, S), NEW y \in S
    PROVE  SumOver(f, S) = Add(f[y], SumOver(f, S \ {y}))
<1> DEFINE Sum(s) == SumOver(f, s)
           Holds(s, x) == Sum(s) = Add(f[x], Sum(s \ {x}))
           N == {m \in Nat : \A s \in SUBSET S : \A x \in s : Cardinality(s) <= m => Holds(s, x)}
<1>1. \A s \in SUBSET S : IsFiniteSet(s) /\ Cardinality(s) \in Nat /\ Sum(s) \in Scalars
    <2> SUFFICES ASSUME NEW s \in SUBSET S
                 PROVE  IsFiniteSet(s) /\ Cardinality(s) \in Nat /\ Sum(s) \in Scalars
        OBVIOUS
    <2>1. IsFiniteSet(s) /\ \A x \in s : f[x] \in Scalars
        BY FS_Subset DEF ScalarOn
    <2> QED BY <2>1, SumType, FS_CardinalityType DEF ScalarOn
<1>2. 0 \in N
    <2>1. \A s \in SUBSET S : Cardinality(s) <= 0 => s = {}
        BY <1>1, FS_EmptySet
    <2> QED BY <2>1
<1>3. ASSUME NEW m \in Nat, m \in N PROVE m + 1 \in N
    <2> SUFFICES ASSUME NEW s \in SUBSET S, NEW x \in s, Cardinality(s) <= m + 1
                 PROVE  Holds(s, x)
        OBVIOUS
    <2> DEFINE a == AnyOf(s)
               r == s \ {a}
               q == s \ {x}
    <2>1. a \in s
        BY AnyIsIn
    <2>2. Sum(s) = Add(f[a], Sum(r))
        BY <1>1, SumUnfolds
    <2>3. CASE x = a
        BY <2>2, <2>3
    <2>4. CASE x # a
        <3>1. r \in SUBSET S /\ x \in r /\ Cardinality(r) <= m
            BY <1>1, <2>1, <2>4, OneLess
        <3>2. q \in SUBSET S /\ a \in q /\ Cardinality(q) <= m
            BY <1>1, <2>1, <2>4, OneLess
        <3>3. Sum(r) = Add(f[x], Sum(r \ {x})) /\ Sum(q) = Add(f[a], Sum(q \ {a}))
            BY <1>3, <3>1, <3>2
        <3>4. r \ {x} = q \ {a} /\ r \ {x} \in SUBSET S
            OBVIOUS
        <3>5. f[x] \in Scalars /\ f[a] \in Scalars /\ Sum(r \ {x}) \in Scalars
            BY <1>1, <2>1, <3>4 DEF ScalarOn
        <3> HIDE DEF Sum, a, r, q
        <3>6. Add(f[a], Add(f[x], Sum(r \ {x}))) = Add(f[x], Add(f[a], Sum(r \ {x})))
            BY <3>5, AddExchange
        <3>7. Sum(s) = Add(f[x], Sum(q))
            BY <2>2, <3>3, <3>4, <3>6
        <3> QED BY <3>7 DEF q
    <2> QED BY <2>3, <2>4
<1>4. Cardinality(S) \in N
    <2> HIDE DEF N
    <2> QED BY <1>1, <1>2, <1>3, InductionOnSet DEF ScalarOn
<1>5. S \in SUBSET S /\ Cardinality(S) <= Cardinality(S)
    BY <1>1
<1> QED BY <1>4, <1>5

LEMMA SumPutsIn ==
    ASSUME NEW f, NEW S, NEW y, y \notin S, ScalarOn(f, S \cup {y})
    PROVE  /\ SumOver(f, S \cup {y}) = Add(f[y], SumOver(f, S))
           /\ SumOver(f, S) \in Scalars /\ f[y] \in Scalars
<1>1. (S \cup {y}) \ {y} = S /\ y \in S \cup {y} /\ ScalarOn(f, S)
    BY FS_Subset DEF ScalarOn
<1> QED BY <1>1, SumTakesOut, SumType DEF ScalarOn

\* A sum is proved to be what it is by putting one element in after the other.
LEMMA SumOfNone ==
    ASSUME NEW f PROVE SumOver(f, {}) = Zero
BY SumUnfolds, FS_EmptySet

\* Parts of a sum.
LEMMA ScalarOnPart ==
    ASSUME NEW f, NEW S, ScalarOn(f, S), NEW s \in SUBSET S
    PROVE  ScalarOn(f, s) /\ SumOver(f, s) \in Scalars
BY FS_Subset, SumType DEF ScalarOn

\* A sum of sums.
LEMMA SumOfSums ==
    ASSUME NEW f, NEW g, NEW h, NEW S, ScalarOn(f, S), ScalarOn(g, S),
           \A x \in S : h[x] = Add(f[x], g[x])
    PROVE  SumOver(h, S) = Add(SumOver(f, S), SumOver(g, S))
<1> DEFINE P == {s \in SUBSET S : SumOver(h, s) = Add(SumOver(f, s), SumOver(g, s))}
<1>1. ScalarOn(h, S)
    BY AddType DEF ScalarOn
<1>2. {} \in P
    BY SumOfNone, AdditionAssumption, FieldAssumption
<1>3. ASSUME NEW s \in SUBSET S, NEW x \in S \ s, s \in P PROVE s \cup {x} \in P
    <2> DEFINE t == s \cup {x}
    <2>1. t \in SUBSET S /\ ScalarOn(f, t) /\ ScalarOn(g, t) /\ ScalarOn(h, t)
        BY <1>1, ScalarOnPart
    <2>2. /\ SumOver(f, t) = Add(f[x], SumOver(f, s)) /\ f[x] \in Scalars
          /\ SumOver(g, t) = Add(g[x], SumOver(g, s)) /\ g[x] \in Scalars
          /\ SumOver(h, t) = Add(h[x], SumOver(h, s))
          /\ SumOver(f, s) \in Scalars /\ SumOver(g, s) \in Scalars
        BY <2>1, SumPutsIn
    <2>3. h[x] = Add(f[x], g[x]) /\ SumOver(h, s) = Add(SumOver(f, s), SumOver(g, s))
        BY <1>3
    <2>4. ASSUME NEW a \in Scalars, NEW b \in Scalars, NEW c \in Scalars, NEW d \in Scalars
          PROVE  Add(Add(a, b), Add(c, d)) = Add(Add(a, c), Add(b, d))
        <3>1. /\ Add(Add(a, b), Add(c, d)) = Add(a, Add(b, Add(c, d)))
              /\ Add(Add(a, c), Add(b, d)) = Add(a, Add(c, Add(b, d)))
            BY AdditionAssumption
        <3>2. Add(b, Add(c, d)) = Add(c, Add(b, d))
            BY AddExchange
        <3> QED BY <3>1, <3>2
    <2> QED BY <2>1, <2>2, <2>3, <2>4
<1>4. S \in P
    <2> HIDE DEF P
    <2> QED BY <1>2, <1>3, InductionOnFiniteSet DEF ScalarOn
<1> QED BY <1>4

\* A common factor.
LEMMA SumOfProducts ==
    ASSUME NEW f, NEW h, NEW S, ScalarOn(f, S), NEW c \in Scalars,
           \A x \in S : h[x] = Mul(c, f[x])
    PROVE  SumOver(h, S) = Mul(c, SumOver(f, S))
<1> DEFINE P == {s \in SUBSET S : SumOver(h, s) = Mul(c, SumOver(f, s))}
<1>1. ScalarOn(h, S)
    BY AddType DEF ScalarOn
<1>2. {} \in P
    <2>1. Mul(c, Zero) = Zero
        BY FieldAssumption
    <2> QED BY <2>1, SumOfNone
<1>3. ASSUME NEW s \in SUBSET S, NEW x \in S \ s, s \in P PROVE s \cup {x} \in P
    <2> DEFINE t == s \cup {x}
    <2>1. t \in SUBSET S /\ ScalarOn(f, t) /\ ScalarOn(h, t)
        BY <1>1, ScalarOnPart
    <2>2. /\ SumOver(f, t) = Add(f[x], SumOver(f, s)) /\ f[x] \in Scalars
          /\ SumOver(h, t) = Add(h[x], SumOver(h, s))
          /\ SumOver(f, s) \in Scalars
        BY <2>1, SumPutsIn
    <2>3. h[x] = Mul(c, f[x]) /\ SumOver(h, s) = Mul(c, SumOver(f, s))
        BY <1>3
    <2>4. \A a, b \in Scalars : Mul(c, Add(a, b)) = Add(Mul(c, a), Mul(c, b))
        BY AdditionAssumption
    <2> QED BY <2>1, <2>2, <2>3, <2>4
<1>4. S \in P
    <2> HIDE DEF P
    <2> QED BY <1>2, <1>3, InductionOnFiniteSet DEF ScalarOn
<1> QED BY <1>4

\* Only what is not Zero counts.
LEMMA SumOfSupport ==
    ASSUME NEW f, NEW S, ScalarOn(f, S), NEW T \in SUBSET S, \A x \in S \ T : f[x] = Zero
    PROVE  SumOver(f, S) = SumOver(f, T)
<1> DEFINE P == {s \in SUBSET S : SumOver(f, s) = SumOver(f, s \cap T)}
<1>1. {} \in P
    OBVIOUS
<1>2. ASSUME NEW s \in SUBSET S, NEW x \in S \ s, s \in P PROVE s \cup {x} \in P
    <2> DEFINE t == s \cup {x}
               q == s \cap T
    <2>1. t \in SUBSET S /\ q \in SUBSET S /\ ScalarOn(f, t) /\ SumOver(f, q) \in Scalars
        BY ScalarOnPart
    <2>2. SumOver(f, t) = Add(f[x], SumOver(f, s)) /\ SumOver(f, s) = SumOver(f, q)
        BY <1>2, <2>1, SumPutsIn
    <2>3. CASE x \in T
        <3>1. t \cap T = q \cup {x} /\ x \notin q
            BY <2>3
        <3>2. ScalarOn(f, q \cup {x})
            BY ScalarOnPart
        <3>3. SumOver(f, q \cup {x}) = Add(f[x], SumOver(f, q))
            BY <3>1, <3>2, SumPutsIn
        <3> QED BY <2>2, <3>1, <3>3
    <2>4. CASE x \notin T
        <3>1. t \cap T = q /\ f[x] = Zero
            BY <2>4
        <3>2. Add(Zero, SumOver(f, q)) = SumOver(f, q)
            BY <2>1, AdditionAssumption
        <3> QED BY <2>2, <3>1, <3>2
    <2> QED BY <2>3, <2>4
<1>3. S \in P
    <2> HIDE DEF P
    <2> QED BY <1>1, <1>2, InductionOnFiniteSet DEF ScalarOn
<1>4. S \cap T = T
    OBVIOUS
<1> QED BY <1>3, <1>4

LEMMA SumOfZeroes ==
    ASSUME NEW f, NEW S, IsFiniteSet(S), \A x \in S : f[x] = Zero
    PROVE  SumOver(f, S) = Zero
<1>1. ScalarOn(f, S) /\ {} \in SUBSET S
    BY FieldAssumption DEF ScalarOn
<1> QED BY <1>1, SumOfSupport, SumOfNone

LEMMA SumOfOne ==
    ASSUME NEW f, NEW S, ScalarOn(f, S), NEW y \in S, \A x \in S \ {y} : f[x] = Zero
    PROVE  SumOver(f, S) = f[y]
<1>1. SumOver(f, S) = SumOver(f, {y}) /\ ScalarOn(f, {y}) /\ {} \cup {y} = {y}
    BY SumOfSupport, ScalarOnPart
<1>2. SumOver(f, {} \cup {y}) = Add(f[y], SumOver(f, {})) /\ f[y] \in Scalars
    BY <1>1, SumPutsIn
<1>3. Add(f[y], Zero) = f[y]
    <2>1. Add(f[y], Zero) = Add(Zero, f[y]) /\ Add(Zero, f[y]) = f[y]
        BY <1>2, AddType, AdditionAssumption
    <2> QED BY <2>1
<1> QED BY <1>1, <1>2, <1>3, SumOfNone

\* A sum may run over other names of the same values.
LEMMA SumMoved ==
    ASSUME NEW S, NEW T, NEW f, NEW g, ScalarOn(f, S), ScalarOn(g, T),
           NEW h \in [S -> T], \A x, y \in S : h[x] = h[y] => x = y,
           \A z \in T : \E x \in S : h[x] = z,
           \A x \in S : f[x] = g[h[x]]
    PROVE  SumOver(f, S) = SumOver(g, T)
<1> DEFINE Image(s) == {h[x] : x \in s}
           P == {s \in SUBSET S : SumOver(f, s) = SumOver(g, Image(s))}
<1>1. {} \in P
    <2>1. Image({}) = {}
        OBVIOUS
    <2> QED BY <2>1, SumOfNone
<1>2. ASSUME NEW s \in SUBSET S, NEW x \in S \ s, s \in P PROVE s \cup {x} \in P
    <2>1. Image(s \cup {x}) = Image(s) \cup {h[x]} /\ h[x] \notin Image(s)
        OBVIOUS
    <2>2. Image(s \cup {x}) \in SUBSET T
        OBVIOUS
    <2>3. SumOver(f, s) = SumOver(g, Image(s)) /\ f[x] = g[h[x]]
        BY <1>2
    <2> HIDE DEF Image
    <2>4. ScalarOn(f, s \cup {x}) /\ ScalarOn(g, Image(s) \cup {h[x]})
        BY <2>1, <2>2, ScalarOnPart
    <2>5. /\ SumOver(f, s \cup {x}) = Add(f[x], SumOver(f, s))
          /\ SumOver(g, Image(s) \cup {h[x]}) = Add(g[h[x]], SumOver(g, Image(s)))
        BY <2>1, <2>4, SumPutsIn
    <2>6. SumOver(f, s \cup {x}) = SumOver(g, Image(s \cup {x}))
        BY <2>1, <2>3, <2>5
    <2> QED BY <2>6
<1>3. S \in P
    <2> HIDE DEF P
    <2> QED BY <1>1, <1>2, InductionOnFiniteSet DEF ScalarOn
<1>4. Image(S) = T
    OBVIOUS
<1> QED BY <1>3, <1>4

\* Every row of f adds up to what rows says.
RowsAddUp(rows, f, S, T) == \A x \in S : rows[x] = SumOver(f[x], T)

\* g is the table f of scalars, read by columns.
IsTable(f, g, S, T) == \A x \in S : \A y \in T : f[x][y] \in Scalars /\ g[y][x] = f[x][y]

\* The values of a table, by rows and by columns.
LEMMA SumsSwap ==
    ASSUME NEW S, NEW T, IsFiniteSet(S), IsFiniteSet(T), NEW f, NEW rows, NEW columns, NEW g,
           IsTable(f, g, S, T), RowsAddUp(rows, f, S, T), RowsAddUp(columns, g, T, S)
    PROVE  SumOver(rows, S) = SumOver(columns, T)
<1> DEFINE part(s) == [y \in T |-> SumOver(g[y], s)]
           P == {s \in SUBSET S : SumOver(rows, s) = SumOver(part(s), T)}
<1>0. /\ \A x \in S : \A y \in T : f[x][y] \in Scalars /\ g[y][x] = f[x][y]
      /\ \A x \in S : rows[x] = SumOver(f[x], T)
      /\ \A y \in T : columns[y] = SumOver(g[y], S)
    BY DEF IsTable, RowsAddUp
<1>1. /\ \A x \in S : ScalarOn(f[x], T)
      /\ \A y \in T : ScalarOn(g[y], S)
    BY <1>0 DEF ScalarOn
<1>2. ScalarOn(rows, S)
    <2>1. \A x \in S : rows[x] \in Scalars
        BY <1>0, <1>1, SumType
    <2> QED BY <2>1 DEF ScalarOn
<1>3. \A s \in SUBSET S : ScalarOn(part(s), T)
    <2>1. ASSUME NEW s \in SUBSET S, NEW y \in T PROVE part(s)[y] \in Scalars
        BY <1>1, ScalarOnPart
    <2> HIDE DEF part
    <2> QED BY <2>1 DEF ScalarOn
<1>4. {} \in P
    <2>1. \A y \in T : part({})[y] = Zero
        BY SumOfNone
    <2> HIDE DEF part
    <2>2. SumOver(part({}), T) = Zero
        BY <2>1, SumOfZeroes
    <2> QED BY <2>2, SumOfNone
<1>5. ASSUME NEW s \in SUBSET S, NEW x \in S \ s, s \in P PROVE s \cup {x} \in P
    <2> DEFINE t == s \cup {x}
    <2>1. t \in SUBSET S /\ ScalarOn(rows, t)
        BY <1>2, ScalarOnPart
    <2>2. SumOver(rows, t) = Add(rows[x], SumOver(rows, s))
        BY <2>1, SumPutsIn
    <2>3. ASSUME NEW y \in T PROVE part(t)[y] = Add(f[x][y], part(s)[y])
        <3>1. ScalarOn(g[y], t)
            BY <1>1, <2>1, ScalarOnPart
        <3>2. SumOver(g[y], t) = Add(g[y][x], SumOver(g[y], s))
            BY <3>1, SumPutsIn
        <3> QED BY <1>0, <3>2
    <2>4. ScalarOn(part(s), T) /\ ScalarOn(f[x], T)
        BY <1>1, <1>3
    <2>5. rows[x] = SumOver(f[x], T) /\ SumOver(rows, s) = SumOver(part(s), T)
        BY <1>0, <1>5
    <2> HIDE DEF part
    <2>6. SumOver(part(t), T) = Add(SumOver(f[x], T), SumOver(part(s), T))
        <3> DEFINE row == f[x]
                   before == part(s)
                   after == part(t)
        <3>1. \A y \in T : after[y] = Add(row[y], before[y])
            BY <2>3
        <3>2. ScalarOn(row, T) /\ ScalarOn(before, T)
            BY <2>4
        <3> HIDE DEF row, before, after
        <3>3. SumOver(after, T) = Add(SumOver(row, T), SumOver(before, T))
            BY <3>1, <3>2, SumOfSums
        <3> QED BY <3>3 DEF row, before, after
    <2> QED BY <2>1, <2>2, <2>5, <2>6
<1>6. S \in P
    <2> HIDE DEF P
    <2> QED BY <1>4, <1>5, InductionOnFiniteSet
<1>7. SumOver(part(S), T) = SumOver(columns, T)
    <2>1. \A y \in T : part(S)[y] = columns[y]
        BY <1>0
    <2> HIDE DEF part
    <2> QED BY <2>1, SameSums
<1> QED BY <1>6, <1>7

\* A sum over a domain.
LEMMA ScalarSumType ==
    ASSUME NEW f, IsFiniteSet(DOMAIN f), \A x \in DOMAIN f : f[x] \in Scalars
    PROVE  SumOf(f) \in Scalars
<1>1. SumOf(f) = SumOver(f, DOMAIN f) /\ ScalarOn(f, DOMAIN f)
    BY DEF SumOf, SumOver, FoldFunction, ScalarOn
<1> QED BY <1>1, SumType

----------------------------------------------------------------------------
(* Powers of a scalar, and the evaluation domain.                          *)

\* The laws that are used one at a time.
LEMMA MulLaws ==
    /\ \A a, b \in Scalars : Mul(a, b) = Mul(b, a)
    /\ \A a, b, c \in Scalars : Mul(Mul(a, b), c) = Mul(a, Mul(b, c))
    /\ \A a \in Scalars : Mul(One, a) = a /\ Mul(a, One) = a /\ Mul(Zero, a) = Zero /\ Mul(a, Zero) = Zero
<1>1. /\ \A a, b \in Scalars : Mul(a, b) = Mul(b, a)
      /\ \A a, b, c \in Scalars : Mul(Mul(a, b), c) = Mul(a, Mul(b, c))
      /\ \A a \in Scalars : Mul(One, a) = a /\ Mul(Zero, a) = Zero
      /\ Zero \in Scalars /\ One \in Scalars
    BY FieldAssumption
<1> QED BY <1>1

LEMMA AddLaws ==
    /\ \A a, b \in Scalars : Add(a, b) = Add(b, a)
    /\ \A a, b, c \in Scalars : Add(Add(a, b), c) = Add(a, Add(b, c))
    /\ \A a \in Scalars : Add(Zero, a) = a /\ Add(a, Zero) = a
<1>1. \A a, b \in Scalars : Add(a, b) = Add(b, a)
    BY AdditionAssumption
<1>2. \A a, b, c \in Scalars : Add(Add(a, b), c) = Add(a, Add(b, c))
    BY AdditionAssumption
<1>3. \A a \in Scalars : Add(Zero, a) = a
    BY AdditionAssumption
<1>4. Zero \in Scalars
    BY AddType
<1>5. \A a \in Scalars : Add(a, Zero) = a
    BY <1>1, <1>3, <1>4
<1> QED BY <1>1, <1>2, <1>3, <1>5

LEMMA Distribute ==
    ASSUME NEW a \in Scalars, NEW b \in Scalars, NEW c \in Scalars
    PROVE  /\ Mul(a, Add(b, c)) = Add(Mul(a, b), Mul(a, c))
           /\ Mul(Add(b, c), a) = Add(Mul(b, a), Mul(c, a))
<1>1. Mul(a, Add(b, c)) = Add(Mul(a, b), Mul(a, c))
    BY AdditionAssumption
<1>2. Mul(a, b) = Mul(b, a) /\ Mul(a, c) = Mul(c, a) /\ Mul(Add(b, c), a) = Mul(a, Add(b, c))
    BY AddType, MulLaws
<1> QED BY <1>1, <1>2

\* A term cancels.
LEMMA AddCancel ==
    ASSUME NEW a \in Scalars, NEW b \in Scalars, NEW c \in Scalars, Add(a, b) = Add(a, c)
    PROVE  b = c
<1> DEFINE n == Sub(Zero, a)
<1>1. n \in Scalars /\ Add(n, a) = Zero
    BY AddType, AdditionAssumption
<1> HIDE DEF n
<1>2. Add(n, Add(a, b)) = Add(Add(n, a), b) /\ Add(n, Add(a, c)) = Add(Add(n, a), c)
    BY <1>1, AddLaws
<1>3. Add(Zero, b) = b /\ Add(Zero, c) = c
    BY AddLaws
<1> QED BY <1>1, <1>2, <1>3

\* x^k
Pow(x, k) == PowersOf(x, k)[k]

LEMMA PowIs ==
    ASSUME NEW x, NEW n \in Nat, NEW k \in 0..n
    PROVE  PowersOf(x, n)[k] = Pow(x, k)
<1> DEFINE S == {j \in Nat : \A i, l \in Nat : j <= i /\ j <= l => PowersOf(x, i)[j] = PowersOf(x, l)[j]}
<1>1. ASSUME NEW i \in Nat PROVE PowersOf(x, i)[0] = One
    <2>1. 0 \in 0..i
        OBVIOUS
    <2> HIDE DEF S
    <2>2. PowersOf(x, i) = [j \in 0..i |-> IF j = 0 THEN One ELSE Mul(PowersOf(x, i)[j - 1], x)]
        BY PowersEquation
    <2> QED BY <2>1, <2>2
<1>2. ASSUME NEW i \in Nat, NEW j \in 1..i
      PROVE  PowersOf(x, i)[j] = Mul(PowersOf(x, i)[j - 1], x)
    <2>1. PowersOf(x, i) = [t \in 0..i |-> IF t = 0 THEN One ELSE Mul(PowersOf(x, i)[t - 1], x)]
        BY PowersEquation
    <2>2. j \in 0..i /\ j # 0
        OBVIOUS
    <2> QED BY <2>1, <2>2
<1>3. 0 \in S
    BY <1>1
<1>4. ASSUME NEW j \in Nat, j \in S PROVE j + 1 \in S
    <2> SUFFICES ASSUME NEW i \in Nat, NEW l \in Nat, j + 1 <= i, j + 1 <= l
                 PROVE  PowersOf(x, i)[j + 1] = PowersOf(x, l)[j + 1]
        OBVIOUS
    <2>1. PowersOf(x, i)[j] = PowersOf(x, l)[j]
        BY <1>4
    <2>2. j + 1 \in 1..i /\ j + 1 \in 1..l /\ (j + 1) - 1 = j
        OBVIOUS
    <2> QED BY <1>2, <2>1, <2>2
<1>5. k \in S
    <2> HIDE DEF S
    <2> QED BY <1>3, <1>4, InductionOnSet
<1> QED BY <1>5 DEF Pow

LEMMA PowFacts ==
    ASSUME NEW x \in Scalars
    PROVE  /\ Pow(x, 0) = One
           /\ \A k \in Nat : Pow(x, k) \in Scalars /\ Pow(x, k + 1) = Mul(Pow(x, k), x)
<1>1. Pow(x, 0) = One
    <2>1. 0 \in 0..0 /\ PowersOf(x, 0) = [i \in 0..0 |-> IF i = 0 THEN One ELSE Mul(PowersOf(x, 0)[i - 1], x)]
        BY PowersEquation
    <2> QED BY <2>1 DEF Pow
<1>2. ASSUME NEW k \in Nat PROVE Pow(x, k + 1) = Mul(Pow(x, k), x)
    <2>1. PowersOf(x, k + 1) =
            [i \in 0..(k + 1) |-> IF i = 0 THEN One ELSE Mul(PowersOf(x, k + 1)[i - 1], x)]
        BY PowersEquation
    <2>2. k + 1 \in 0..(k + 1) /\ k + 1 # 0 /\ (k + 1) - 1 = k /\ k \in 0..(k + 1)
        OBVIOUS
    <2>3. PowersOf(x, k + 1)[k + 1] = Mul(PowersOf(x, k + 1)[k], x)
        BY <2>1, <2>2
    <2>4. PowersOf(x, k + 1)[k] = Pow(x, k)
        BY <2>2, PowIs
    <2> QED BY <2>3, <2>4 DEF Pow
<1> DEFINE S == {k \in Nat : Pow(x, k) \in Scalars}
<1>3. 0 \in S
    BY <1>1, AddType
<1>4. \A k \in Nat : k \in S => k + 1 \in S
    BY <1>2, AddType
<1>5. \A k \in Nat : k \in S
    <2> HIDE DEF S
    <2> QED BY <1>3, <1>4, InductionOnSet
<1> QED BY <1>1, <1>2, <1>5

LEMMA PowAdd ==
    ASSUME NEW x \in Scalars, NEW a \in Nat, NEW b \in Nat
    PROVE  Pow(x, a + b) = Mul(Pow(x, a), Pow(x, b))
<1> DEFINE S == {k \in Nat : Pow(x, a + k) = Mul(Pow(x, a), Pow(x, k))}
<1>1. 0 \in S
    <2>1. a + 0 = a /\ Pow(x, 0) = One /\ Pow(x, a) \in Scalars
        BY PowFacts
    <2> QED BY <2>1, MulLaws
<1>2. ASSUME NEW k \in Nat, k \in S PROVE k + 1 \in S
    <2>1. a + (k + 1) = (a + k) + 1 /\ a + k \in Nat
        OBVIOUS
    <2>2. /\ Pow(x, (a + k) + 1) = Mul(Pow(x, a + k), x) /\ Pow(x, k + 1) = Mul(Pow(x, k), x)
          /\ Pow(x, a) \in Scalars /\ Pow(x, k) \in Scalars
        BY <2>1, PowFacts
    <2>3. Mul(Mul(Pow(x, a), Pow(x, k)), x) = Mul(Pow(x, a), Mul(Pow(x, k), x))
        BY <2>2, MulLaws
    <2> QED BY <1>2, <2>1, <2>2, <2>3
<1>3. b \in S
    <2> HIDE DEF S
    <2> QED BY <1>1, <1>2, InductionOnSet
<1> QED BY <1>3

LEMMA PowMul ==
    ASSUME NEW x \in Scalars, NEW a \in Nat, NEW b \in Nat
    PROVE  Pow(x, a * b) = Pow(Pow(x, a), b)
<1> DEFINE S == {k \in Nat : Pow(x, a * k) = Pow(Pow(x, a), k)}
<1>1. 0 \in S
    <2>1. a * 0 = 0 /\ Pow(x, a) \in Scalars
        BY PowFacts
    <2>2. Pow(x, 0) = One /\ Pow(Pow(x, a), 0) = One
        BY <2>1, PowFacts
    <2> QED BY <2>1, <2>2
<1>2. ASSUME NEW k \in Nat, k \in S PROVE k + 1 \in S
    <2>1. a * (k + 1) = a * k + a /\ a * k \in Nat
        OBVIOUS
    <2>2. Pow(x, a) \in Scalars /\ Pow(x, a * k) = Pow(Pow(x, a), k)
        BY <1>2, PowFacts
    <2>3. Pow(x, a * k + a) = Mul(Pow(x, a * k), Pow(x, a))
        BY <2>1, PowAdd
    <2>4. Pow(Pow(x, a), k + 1) = Mul(Pow(Pow(x, a), k), Pow(x, a))
        BY <2>2, PowFacts
    <2> QED BY <2>1, <2>2, <2>3, <2>4
<1>3. b \in S
    <2> HIDE DEF S
    <2> QED BY <1>1, <1>2, InductionOnSet
<1> QED BY <1>3

LEMMA PowOne == \A k \in Nat : Pow(One, k) = One
<1> DEFINE S == {k \in Nat : Pow(One, k) = One}
<1>1. One \in Scalars
    BY AddType
<1>2. 0 \in S /\ \A k \in Nat : k \in S => k + 1 \in S
    BY <1>1, PowFacts, MulLaws
<1>3. \A k \in Nat : k \in S
    <2> HIDE DEF S
    <2> QED BY <1>2, InductionOnSet
<1> QED BY <1>3

LEMMA PowOfProduct ==
    ASSUME NEW x \in Scalars, NEW y \in Scalars, NEW k \in Nat
    PROVE  Pow(Mul(x, y), k) = Mul(Pow(x, k), Pow(y, k))
<1> DEFINE S == {j \in Nat : Pow(Mul(x, y), j) = Mul(Pow(x, j), Pow(y, j))}
<1>1. Mul(x, y) \in Scalars
    BY AddType
<1>2. 0 \in S
    <2>1. Pow(Mul(x, y), 0) = One /\ Pow(x, 0) = One /\ Pow(y, 0) = One /\ One \in Scalars
        BY <1>1, PowFacts, AddType
    <2> QED BY <2>1, MulLaws
<1>3. ASSUME NEW j \in Nat, j \in S PROVE j + 1 \in S
    <2>1. /\ Pow(Mul(x, y), j + 1) = Mul(Pow(Mul(x, y), j), Mul(x, y))
          /\ Pow(x, j + 1) = Mul(Pow(x, j), x) /\ Pow(y, j + 1) = Mul(Pow(y, j), y)
          /\ Pow(x, j) \in Scalars /\ Pow(y, j) \in Scalars
        BY <1>1, PowFacts
    <2>2. Mul(Mul(Pow(x, j), Pow(y, j)), Mul(x, y)) = Mul(Mul(Pow(x, j), x), Mul(Pow(y, j), y))
        BY <2>1, Exchange
    <2> QED BY <1>3, <2>1, <2>2
<1>4. k \in S
    <2> HIDE DEF S
    <2> QED BY <1>2, <1>3, InductionOnSet
<1> QED BY <1>4

\* An inverse is not Zero, and its factor cancels it.
LEMMA InverseFacts ==
    ASSUME NEW delta \in Scalars \ {Zero}
    PROVE  /\ Inv(delta) \in Scalars \ {Zero}
           /\ \A q, d \in Scalars : Mul(Mul(q, Inv(delta)), Mul(d, delta)) = Mul(q, d)
<1>1. /\ delta \in Scalars /\ Zero \in Scalars /\ One # Zero /\ Inv(delta) \in Scalars
      /\ Mul(delta, Inv(delta)) = One /\ Mul(Inv(delta), delta) = One
    BY FieldAssumption
<1>2. Mul(delta, Zero) = Zero
    BY <1>1, FieldAssumption
<1>3. ASSUME NEW q \in Scalars, NEW d \in Scalars
      PROVE  Mul(Mul(q, Inv(delta)), Mul(d, delta)) = Mul(q, d)
    <2>1. Mul(Mul(q, Inv(delta)), Mul(d, delta)) = Mul(Mul(q, d), Mul(Inv(delta), delta))
        BY <1>1, Exchange
    <2>2. Mul(q, d) \in Scalars /\ Mul(Mul(q, d), One) = Mul(q, d)
        BY FieldAssumption
    <2> QED BY <1>1, <2>1, <2>2
<1> QED BY <1>1, <1>2, <1>3

\* The domain has room for the constraints and the instance variables.
LEMMA DomainHasRoom ==
    /\ DomainSize \in Nat /\ DomainSize >= 1
    /\ DomainSize >= Constraints + Instances
    /\ Constraints \in Nat /\ Instances \in Nat /\ Variables \in Nat
<1> DEFINE n == Constraints + Instances
           Is(f, m) == f = [k \in 0..m |-> IF k = 0 THEN 1 ELSE 2 * f[k - 1]]
           twoTo == CHOOSE f : Is(f, n)
           roomy == {m \in {twoTo[k] : k \in 0..n} : m >= n}
<1>1. Constraints \in Nat /\ Instances \in 1..Variables /\ Instances \in Nat
      /\ Instances >= 1 /\ Variables \in Nat /\ n \in Nat /\ n >= 1
    BY CircuitAssumption
<1>2. Is(twoTo, n)
    <2> DEFINE S == {m \in Nat : \E f : Is(f, m)}
    <2>1. 0 \in S
        <3> DEFINE g == [k \in 0..0 |-> 1]
        <3>1. Is(g, 0)
            OBVIOUS
        <3> QED BY <3>1
    <2>2. ASSUME NEW m \in Nat, m \in S PROVE m + 1 \in S
        <3>1. PICK f : Is(f, m)
            BY <2>2
        <3> DEFINE g == [k \in 0..(m + 1) |-> IF k = 0 THEN 1 ELSE 2 * f[k - 1]]
        <3>2. ASSUME NEW k \in 0..(m + 1), k # 0 PROVE g[k - 1] = f[k - 1]
            BY <3>1, <3>2
        <3>3. Is(g, m + 1)
            BY <3>2
        <3> HIDE DEF g, Is
        <3> QED BY <3>3
    <2>3. n \in S
        <3> HIDE DEF S, n
        <3> QED BY <1>1, <2>1, <2>2, InductionOnSet
    <2> QED BY <2>3
<1>3. DomainSize = CHOOSE m \in roomy : \A k \in roomy : m <= k
    BY DEF DomainSize
<1> HIDE DEF twoTo, n
<1>4. \A k \in 0..n : twoTo[k] \in Nat /\ twoTo[k] > k
    <2> DEFINE S == {k \in Nat : k <= n => twoTo[k] \in Nat /\ twoTo[k] > k}
    <2>1. 0 \in S
        BY <1>1, <1>2
    <2>2. ASSUME NEW k \in Nat, k \in S PROVE k + 1 \in S
        <3> SUFFICES ASSUME k + 1 <= n PROVE twoTo[k + 1] \in Nat /\ twoTo[k + 1] > k + 1
            OBVIOUS
        <3>1. twoTo[k] \in Nat /\ twoTo[k] > k
            BY <1>1, <2>2
        <3>2. k + 1 \in 0..n /\ k + 1 # 0 /\ (k + 1) - 1 = k
            BY <1>1
        <3>3. twoTo[k + 1] = 2 * twoTo[k]
            BY <1>2, <3>2
        <3> QED BY <3>1, <3>3
    <2> HIDE DEF S
    <2>3. \A k \in Nat : k \in S
        BY <2>1, <2>2, InductionOnSet
    <2> QED BY <1>1, <2>3 DEF S
<1>5. twoTo[n] \in roomy /\ roomy \subseteq Nat
    BY <1>1, <1>4
<1> HIDE DEF roomy
<1>6. PICK m \in roomy : \A k \in roomy : m <= k
    BY <1>5, LeastElement
<1>7. DomainSize \in roomy
    BY <1>3, <1>6
<1>8. DomainSize \in Nat /\ DomainSize >= n
    BY <1>5, <1>7 DEF roomy
<1> QED BY <1>1, <1>8 DEF n

\* The places of the evaluation domain, its generator and the inverse of it.
Places == 0..(DomainSize - 1)
Omega == RootOfUnity(DomainSize)
Theta == Inv(Omega)

LEMMA DomainFacts ==
    /\ DomainSize \in Nat /\ DomainSize >= 1 /\ IsFiniteSet(Places)
    /\ Omega \in Scalars \ {Zero} /\ Theta \in Scalars \ {Zero} /\ Mul(Omega, Theta) = One
    /\ Pow(Omega, DomainSize) = One
    /\ \A k \in 1..(DomainSize - 1) : Pow(Omega, k) # One
    /\ FromNat(DomainSize) \in Scalars \ {Zero}
    /\ Inv(FromNat(DomainSize)) \in Scalars
    /\ Mul(Inv(FromNat(DomainSize)), FromNat(DomainSize)) = One
<1> DEFINE m == DomainSize
           ones == [i \in Places |-> One]
<1>1. m \in Nat /\ m >= 1
    BY DomainHasRoom
<1>2. IsFiniteSet(Places)
    BY <1>1, FS_Interval DEF Places
<1>3. /\ Omega \in Scalars /\ PowersOf(Omega, m)[m] = One
      /\ \A k \in 1..(m - 1) : PowersOf(Omega, m)[k] # One
      /\ FromNat(m) = SumOf(ones) /\ FromNat(m) # Zero
    BY DomainAssumption DEF Omega, Places
<1>4. FromNat(m) \in Scalars
    <2>1. ScalarOn(ones, Places) /\ DOMAIN ones = Places
        BY <1>2, AddType DEF ScalarOn
    <2> HIDE DEF ones
    <2>2. SumOf(ones) = SumOver(ones, Places)
        BY <2>1 DEF SumOf, SumOver, FoldFunction
    <2> QED BY <1>3, <2>1, <2>2, SumType
<1> HIDE DEF m, ones
<1>5. \A k \in 0..m : PowersOf(Omega, m)[k] = Pow(Omega, k)
    BY <1>1, PowIs
<1>6. Pow(Omega, m) = One /\ \A k \in 1..(m - 1) : Pow(Omega, k) # One
    <2>1. m \in 0..m /\ \A k \in 1..(m - 1) : k \in 0..m
        BY <1>1
    <2> QED BY <1>3, <1>5, <2>1
<1>7. ASSUME NEW x \in Scalars \ {Zero}
      PROVE  Inv(x) \in Scalars \ {Zero} /\ Mul(x, Inv(x)) = One /\ Mul(Inv(x), x) = One
    <2>1. Inv(x) \in Scalars \ {Zero}
        BY InverseFacts
    <2>2. Mul(x, Inv(x)) = One
        BY FieldAssumption
    <2> QED BY <2>1, <2>2, MulLaws
<1>8. Omega # Zero
    <2> SUFFICES ASSUME Omega = Zero PROVE FALSE
        OBVIOUS
    <2>1. m - 1 \in Nat /\ (m - 1) + 1 = m
        BY <1>1
    <2>2. Pow(Omega, m) = Mul(Pow(Omega, m - 1), Omega) /\ Pow(Omega, m - 1) \in Scalars
        BY <1>3, <2>1, PowFacts
    <2>3. Pow(Omega, m) = Zero
        BY <2>2, MulLaws
    <2>4. Zero # One
        BY FieldAssumption
    <2> QED BY <1>6, <2>3, <2>4
<1> QED BY <1>1, <1>2, <1>3, <1>4, <1>6, <1>7, <1>8 DEF Theta, m

\* The powers of the inverse undo those of the generator.
LEMMA PowersUndo ==
    ASSUME NEW k \in Nat
    PROVE  /\ Mul(Pow(Omega, k), Pow(Theta, k)) = One
           /\ Pow(Omega, k) \in Scalars /\ Pow(Theta, k) \in Scalars
<1>1. Omega \in Scalars /\ Theta \in Scalars /\ Mul(Omega, Theta) = One
    BY DomainFacts
<1>2. Pow(Mul(Omega, Theta), k) = Mul(Pow(Omega, k), Pow(Theta, k))
    BY <1>1, PowOfProduct
<1> QED BY <1>1, <1>2, PowOne, PowFacts

\* What the sums of a row of the transform are of the powers of.
Ratio(n, j) == Mul(Pow(Omega, n), Pow(Theta, j))

LEMMA RatioFacts ==
    ASSUME NEW n \in Places, NEW j \in Places
    PROVE  /\ Ratio(n, j) \in Scalars
           /\ Pow(Ratio(n, j), DomainSize) = One
           /\ Ratio(n, j) = One <=> n = j
<1> DEFINE m == DomainSize
<1>1. /\ m \in Nat /\ m >= 1 /\ Omega \in Scalars /\ Theta \in Scalars
      /\ Pow(Omega, m) = One /\ \A k \in 1..(m - 1) : Pow(Omega, k) # One
    BY DomainFacts
<1>2. n \in Nat /\ j \in Nat /\ n \in 0..(m - 1) /\ j \in 0..(m - 1)
    BY <1>1 DEF Places
<1> HIDE DEF m
<1>3. Pow(Omega, n) \in Scalars /\ Pow(Theta, j) \in Scalars /\ Ratio(n, j) \in Scalars
    BY <1>1, <1>2, PowFacts, AddType DEF Ratio
<1>4. Pow(Theta, m) = One
    <2>1. Mul(Pow(Omega, m), Pow(Theta, m)) = One /\ Pow(Theta, m) \in Scalars
        BY <1>1, PowersUndo
    <2> QED BY <1>1, <2>1, MulLaws
<1>5. Pow(Ratio(n, j), m) = One
    <2>1. Pow(Ratio(n, j), m) = Mul(Pow(Pow(Omega, n), m), Pow(Pow(Theta, j), m))
        BY <1>1, <1>3, PowOfProduct DEF Ratio
    <2>2. Pow(Pow(Omega, n), m) = Pow(Omega, n * m) /\ Pow(Pow(Theta, j), m) = Pow(Theta, j * m)
        BY <1>1, <1>2, PowMul
    <2>3. Pow(Omega, m * n) = Pow(One, n) /\ Pow(Theta, m * j) = Pow(One, j)
        BY <1>1, <1>2, <1>4, PowMul
    <2>4. n * m = m * n /\ j * m = m * j
        BY <1>1, <1>2
    <2>5. Pow(One, n) = One /\ Pow(One, j) = One /\ One \in Scalars
        BY <1>2, PowOne, AddType
    <2> QED BY <2>1, <2>2, <2>3, <2>4, <2>5, MulLaws
<1>6. CASE n = j
    BY <1>2, <1>3, <1>5, <1>6, PowersUndo DEF Ratio, m
<1>7. CASE n > j
    <2> DEFINE k == n - j
    <2>1. k \in Nat /\ k \in 1..(m - 1) /\ n = k + j
        BY <1>1, <1>2, <1>7
    <2> HIDE DEF k
    <2>2. Pow(Omega, n) = Mul(Pow(Omega, k), Pow(Omega, j)) /\ Pow(Omega, k) \in Scalars
        BY <1>1, <1>2, <2>1, PowAdd, PowFacts
    <2>3. /\ Mul(Pow(Omega, j), Pow(Theta, j)) = One
          /\ Pow(Omega, j) \in Scalars
        BY <1>2, PowersUndo
    <2>4. Ratio(n, j) = Pow(Omega, k)
        <3>1. Mul(Mul(Pow(Omega, k), Pow(Omega, j)), Pow(Theta, j)) =
              Mul(Pow(Omega, k), Mul(Pow(Omega, j), Pow(Theta, j)))
            BY <1>3, <2>2, <2>3, MulLaws
        <3> QED BY <2>2, <2>3, <3>1, MulLaws DEF Ratio
    <2> QED BY <1>1, <1>3, <1>5, <1>7, <1>2, <2>1, <2>4 DEF m
<1>8. CASE n < j
    <2> DEFINE k == j - n
    <2>1. k \in Nat /\ k \in 1..(m - 1) /\ j = n + k
        BY <1>1, <1>2, <1>8
    <2> HIDE DEF k
    <2>2. /\ Pow(Theta, j) = Mul(Pow(Theta, n), Pow(Theta, k)) /\ Pow(Theta, n) \in Scalars
          /\ Mul(Pow(Omega, n), Pow(Theta, n)) = One
          /\ Mul(Pow(Omega, k), Pow(Theta, k)) = One
          /\ Pow(Omega, k) \in Scalars /\ Pow(Theta, k) \in Scalars
        BY <1>1, <1>2, <2>1, PowAdd, PowersUndo
    <2>3. Ratio(n, j) = Pow(Theta, k)
        <3>1. Mul(Pow(Omega, n), Mul(Pow(Theta, n), Pow(Theta, k))) =
              Mul(Mul(Pow(Omega, n), Pow(Theta, n)), Pow(Theta, k))
            BY <1>3, <2>2, MulLaws
        <3> QED BY <2>2, <3>1, MulLaws DEF Ratio
    <2>4. Pow(Theta, k) # One
        BY <1>1, <2>1, <2>2, MulLaws
    <2> QED BY <1>3, <1>5, <1>8, <1>2, <2>3, <2>4 DEF m
<1> QED BY <1>2, <1>6, <1>7, <1>8

\* A geometric sum: the sum of the powers of x, up to the one before the m-th.
LEMMA GeometricSum ==
    ASSUME NEW x \in Scalars, NEW m \in Nat, NEW f, f = [i \in Nat |-> Pow(x, i)]
    PROVE  /\ SumOver(f, 0..(m - 1)) \in Scalars
           /\ Add(Mul(SumOver(f, 0..(m - 1)), x), One) = Add(SumOver(f, 0..(m - 1)), Pow(x, m))
<1> DEFINE G(k) == SumOver(f, 0..(k - 1))
           S == {k \in Nat : G(k) \in Scalars /\ Add(Mul(G(k), x), One) = Add(G(k), Pow(x, k))}
<1>1. 0 \in S
    <2>1. 0..(0 - 1) = {}
        OBVIOUS
    <2>2. G(0) = Zero /\ Pow(x, 0) = One /\ Zero \in Scalars /\ Mul(Zero, x) = Zero
        BY <2>1, SumOfNone, PowFacts, AddType, MulLaws
    <2> QED BY <2>2
<1>2. ASSUME NEW k \in Nat, k \in S PROVE k + 1 \in S
    <2> DEFINE p == Pow(x, k)
               q == Pow(x, k + 1)
    <2>1. p \in Scalars /\ q = Mul(p, x) /\ q \in Scalars
        BY PowFacts
    <2>2. G(k + 1) = Add(p, G(k)) /\ G(k) \in Scalars
        <3>1. 0..((k + 1) - 1) = (0..(k - 1)) \cup {k} /\ k \notin 0..(k - 1)
            OBVIOUS
        <3>2. ScalarOn(f, (0..(k - 1)) \cup {k})
            <4>1. IsFiniteSet(0..((k + 1) - 1))
                BY FS_Interval
            <4>2. \A i \in Nat : f[i] \in Scalars
                BY PowFacts
            <4>3. \A i \in (0..(k - 1)) \cup {k} : i \in Nat
                OBVIOUS
            <4> QED BY <3>1, <4>1, <4>2, <4>3 DEF ScalarOn
        <3>3. SumOver(f, (0..(k - 1)) \cup {k}) = Add(f[k], SumOver(f, 0..(k - 1)))
            BY <3>1, <3>2, SumPutsIn
        <3> QED BY <1>2, <3>1, <3>3
    <2> DEFINE g == G(k)
    <2>3. Add(Mul(g, x), One) = Add(g, p) /\ g \in Scalars /\ G(k + 1) = Add(p, g)
        BY <1>2, <2>2
    <2> HIDE DEF p, q, g, G
    <2>4. /\ Mul(Add(p, g), x) = Add(q, Mul(g, x))
          /\ Mul(g, x) \in Scalars /\ One \in Scalars
        BY <2>1, <2>3, Distribute, AddType
    <2>5. Add(Add(q, Mul(g, x)), One) = Add(q, Add(Mul(g, x), One))
        BY <2>1, <2>4, AddLaws
    <2>6. Add(g, p) = Add(p, g) /\ Add(p, g) \in Scalars /\ Add(q, Add(p, g)) = Add(Add(p, g), q)
        BY <2>1, <2>3, AddLaws, AddType
    <2>7. G(k + 1) \in Scalars /\ Add(Mul(G(k + 1), x), One) = Add(G(k + 1), q)
        BY <2>3, <2>4, <2>5, <2>6
    <2> QED BY <2>7 DEF q
<1>3. m \in S
    <2> HIDE DEF S
    <2> QED BY <1>1, <1>2, InductionOnSet
<1> QED BY <1>3

\* The powers of a root of unity other than One add up to nothing.
LEMMA RootsAddUp ==
    ASSUME NEW x \in Scalars, Pow(x, DomainSize) = One,
           NEW f, \A i \in Places : f[i] = Pow(x, i)
    PROVE  SumOver(f, Places) = IF x = One THEN FromNat(DomainSize) ELSE Zero
<1> DEFINE m == DomainSize
           p == [i \in Nat |-> Pow(x, i)]
           g == SumOver(p, 0..(m - 1))
<1>1. m \in Nat /\ Places = 0..(m - 1) /\ IsFiniteSet(Places)
    BY DomainFacts DEF Places
<1>2. SumOver(f, Places) = g
    <2>1. \A i \in Places : f[i] = p[i]
        BY <1>1
    <2> HIDE DEF p
    <2> QED BY <1>1, <2>1, SameSums
<1>3. g \in Scalars /\ Add(Mul(g, x), One) = Add(g, One)
    BY <1>1, GeometricSum
<1>4. CASE x = One
    <2> DEFINE ones == [i \in 0..(DomainSize - 1) |-> One]
    <2>1. FromNat(m) = SumOf(ones)
        BY DomainAssumption
    <2>2. SumOf(ones) = SumOver(ones, Places)
        BY <1>1 DEF SumOf, SumOver, FoldFunction
    <2>3. \A i \in Places : f[i] = ones[i]
        BY <1>1, <1>4, PowOne DEF Places
    <2> HIDE DEF ones
    <2>4. SumOver(f, Places) = SumOver(ones, Places)
        BY <1>1, <2>3, SameSums
    <2> QED BY <1>4, <2>1, <2>2, <2>4
<1>5. CASE x # One
    <2> HIDE DEF g, p
    <2>1. Mul(g, x) \in Scalars /\ One \in Scalars
        BY <1>3, AddType
    <2>2. Mul(g, x) = g
        <3>1. Add(One, Mul(g, x)) = Add(One, g)
            BY <1>3, <2>1, AddLaws
        <3> QED BY <1>3, <2>1, <3>1, AddCancel
    <2>3. g = Zero
        <3> SUFFICES ASSUME g # Zero PROVE FALSE
            OBVIOUS
        <3>1. Mul(g, x) = Mul(g, One)
            BY <1>3, <2>2, MulLaws
        <3> QED BY <1>3, <1>5, <2>1, <3>1, Cancel
    <2> QED BY <1>2, <1>5, <2>3
<1> QED BY <1>4, <1>5

----------------------------------------------------------------------------
(* The transform.                                                          *)

\* The sum of every row of f, times what a is there.
IsWeighed(rows, a, f, S, T) == \A x \in S : rows[x] = Mul(a[x], SumOver(f[x], T))

\* f and g are the table k with a factor of its columns, and one of its rows.
AreWeighed(f, g, a, c, k, S, T) ==
    /\ \A x \in S : a[x] \in Scalars
    /\ \A y \in T : c[y] \in Scalars
    /\ \A x \in S : \A y \in T : k[x][y] \in Scalars
    /\ \A x \in S : \A y \in T : f[x][y] = Mul(c[y], k[x][y]) /\ g[y][x] = Mul(a[x], k[x][y])

\* A sum of sums with a factor of each row and of each column may run over the columns first.
LEMMA SumByColumns ==
    ASSUME NEW S, NEW T, IsFiniteSet(S), IsFiniteSet(T), NEW a, NEW c, NEW k, NEW f, NEW g,
           AreWeighed(f, g, a, c, k, S, T), NEW rows, IsWeighed(rows, a, f, S, T),
           NEW columns, IsWeighed(columns, c, g, T, S)
    PROVE  SumOver(rows, S) = SumOver(columns, T)
<1> DEFINE F == [x \in S |-> [y \in T |-> Mul(a[x], f[x][y])]]
           G == [y \in T |-> [x \in S |-> Mul(c[y], g[y][x])]]
<1>1. ASSUME NEW x \in S, NEW y \in T
      PROVE  /\ f[x][y] \in Scalars /\ g[y][x] \in Scalars
             /\ F[x][y] = Mul(a[x], f[x][y]) /\ G[y][x] = Mul(c[y], g[y][x])
             /\ F[x][y] \in Scalars /\ G[y][x] = F[x][y]
    <2>1. /\ f[x][y] = Mul(c[y], k[x][y]) /\ g[y][x] = Mul(a[x], k[x][y])
          /\ a[x] \in Scalars /\ c[y] \in Scalars /\ k[x][y] \in Scalars
        BY DEF AreWeighed
    <2>2. f[x][y] \in Scalars /\ g[y][x] \in Scalars /\ Mul(a[x], f[x][y]) \in Scalars
        BY <2>1, AddType
    <2>3. Mul(a[x], Mul(c[y], k[x][y])) = Mul(c[y], Mul(a[x], k[x][y]))
        <3>1. /\ Mul(a[x], Mul(c[y], k[x][y])) = Mul(Mul(a[x], c[y]), k[x][y])
              /\ Mul(c[y], Mul(a[x], k[x][y])) = Mul(Mul(c[y], a[x]), k[x][y])
              /\ Mul(a[x], c[y]) = Mul(c[y], a[x])
            BY <2>1, MulLaws
        <3> QED BY <3>1
    <2> QED BY <2>1, <2>2, <2>3
<1>2. ASSUME NEW x \in S PROVE rows[x] = SumOver(F[x], T)
    <2> DEFINE row == f[x]
               scaled == F[x]
    <2>1. ScalarOn(row, T) /\ \A y \in T : scaled[y] = Mul(a[x], row[y])
        BY <1>1 DEF ScalarOn
    <2> HIDE DEF row, scaled
    <2>2. SumOver(scaled, T) = Mul(a[x], SumOver(row, T))
        BY <2>1, SumOfProducts DEF AreWeighed
    <2> QED BY <2>2 DEF row, scaled, IsWeighed
<1>3. ASSUME NEW y \in T PROVE columns[y] = SumOver(G[y], S)
    <2> DEFINE column == g[y]
               scaled == G[y]
    <2>1. ScalarOn(column, S) /\ \A x \in S : scaled[x] = Mul(c[y], column[x])
        BY <1>1 DEF ScalarOn
    <2> HIDE DEF column, scaled
    <2>2. SumOver(scaled, S) = Mul(c[y], SumOver(column, S))
        BY <2>1, SumOfProducts DEF AreWeighed
    <2> QED BY <2>2 DEF column, scaled, IsWeighed
<1> HIDE DEF F, G
<1>4. IsTable(F, G, S, T) /\ RowsAddUp(rows, F, S, T) /\ RowsAddUp(columns, G, T, S)
    BY <1>1, <1>2, <1>3 DEF IsTable, RowsAddUp
<1> QED BY <1>4, SumsSwap

\* 1/m
Nu == Inv(FromNat(DomainSize))

\* The first m elements of a sequence are scalars.
Full(u) == \A i \in Places : u[i + 1] \in Scalars

\* What Ifft sums up at j.
Terms(u, j) == [i \in Places |-> Mul(u[i + 1], Pow(Theta, i * j))]

LEMMA PlaceFacts ==
    /\ DomainSize \in Nat /\ IsFiniteSet(Places) /\ Places \subseteq Nat
    /\ Nu \in Scalars /\ Mul(Nu, FromNat(DomainSize)) = One
    /\ \A i, j \in Places : i * j \in Nat /\ j * i = i * j
    /\ \A k \in Nat : Pow(Omega, k) \in Scalars /\ Pow(Theta, k) \in Scalars
<1>1. /\ DomainSize \in Nat /\ IsFiniteSet(Places) /\ Omega \in Scalars /\ Theta \in Scalars
      /\ Nu \in Scalars /\ Mul(Nu, FromNat(DomainSize)) = One
    BY DomainFacts DEF Nu
<1>2. Places \subseteq Nat
    BY <1>1 DEF Places
<1>3. \A i, j \in Places : i * j \in Nat /\ j * i = i * j
    BY <1>2
<1> QED BY <1>1, <1>2, <1>3, PowFacts

LEMMA IfftIs ==
    ASSUME NEW u, Full(u), NEW j \in Places
    PROVE  /\ Ifft(u)[j] = Mul(Nu, SumOver(Terms(u, j), Places))
           /\ ScalarOn(Terms(u, j), Places)
           /\ Ifft(u)[j] \in Scalars
<1> DEFINE m == DomainSize
           root == PowersOf(Theta, m * m)
           f == [i \in Places |-> Mul(u[i + 1], root[i * j])]
<1>1. m \in Nat /\ j \in Nat /\ Places = 0..(m - 1) /\ m * m \in Nat
    BY PlaceFacts DEF Places
<1>2. Ifft(u)[j] = Mul(Nu, SumOf(f))
    BY DEF Ifft, Nu, Places, Theta, Omega
<1>3. ASSUME NEW i \in Places PROVE i * j \in 0..(m * m)
    <2>1. i \in Nat /\ i <= m /\ j <= m
        BY <1>1
    <2> HIDE DEF m
    <2>2. i * j <= m * m
        BY <1>1, <2>1
    <2> QED BY <1>1, <2>1, <2>2
<1> HIDE DEF m
<1>4. \A i \in Places : root[i * j] = Pow(Theta, i * j)
    BY <1>1, <1>3, PowIs
<1> HIDE DEF root
<1>5. f = Terms(u, j)
    BY <1>4 DEF Terms
<1>6. SumOf(f) = SumOver(f, Places)
    BY DEF SumOf, SumOver, FoldFunction
<1>7. ScalarOn(Terms(u, j), Places)
    <2>1. ASSUME NEW i \in Places PROVE Terms(u, j)[i] \in Scalars
        <3>1. Pow(Theta, i * j) \in Scalars /\ u[i + 1] \in Scalars
            BY PlaceFacts DEF Full
        <3> QED BY <3>1, AddType DEF Terms
    <2> QED BY <2>1, PlaceFacts DEF ScalarOn
<1> HIDE DEF f
<1>8. SumOver(Terms(u, j), Places) \in Scalars
    BY <1>7, SumType
<1> QED BY <1>2, <1>5, <1>6, <1>7, <1>8, PlaceFacts, AddType

\* Evaluating the coefficients of u at a point of the domain gives u there.
LEMMA Inversion ==
    ASSUME NEW u, Full(u), NEW n \in Places,
           NEW f, \A l \in Places : f[l] = Mul(Ifft(u)[l], Pow(Omega, l * n))
    PROVE  SumOver(f, Places) = u[n + 1]
<1> DEFINE a == [l \in Places |-> Mul(Nu, Pow(Omega, l * n))]
           c == [i \in Places |-> u[i + 1]]
           k == [l \in Places |-> [i \in Places |-> Pow(Theta, i * l)]]
           inner == [l \in Places |-> Terms(u, l)]
           outer == [i \in Places |-> [l \in Places |-> Mul(a[l], k[l][i])]]
           columns == [i \in Places |-> Mul(c[i], SumOver(outer[i], Places))]
<1>1. /\ \A l \in Places : a[l] \in Scalars /\ c[l] \in Scalars
      /\ \A l, i \in Places : k[l][i] \in Scalars
      /\ \A l, i \in Places : inner[l][i] = Mul(c[i], k[l][i]) /\ outer[i][l] = Mul(a[l], k[l][i])
    BY PlaceFacts, AddType DEF Full, Terms
<1>2. ASSUME NEW l \in Places PROVE f[l] = Mul(a[l], SumOver(inner[l], Places))
    <2> DEFINE s == SumOver(Terms(u, l), Places)
               p == Pow(Omega, l * n)
    <2>1. Ifft(u)[l] = Mul(Nu, s) /\ s \in Scalars
        BY IfftIs, SumType
    <2>2. p \in Scalars /\ Nu \in Scalars
        BY PlaceFacts
    <2>3. f[l] = Mul(Ifft(u)[l], p) /\ a[l] = Mul(Nu, p) /\ inner[l] = Terms(u, l)
        OBVIOUS
    <2> HIDE DEF p
    <2>4. Mul(Mul(Nu, s), p) = Mul(Mul(Nu, p), s)
        <3>1. Mul(Mul(Nu, s), p) = Mul(Nu, Mul(p, s)) /\ Mul(Mul(Nu, p), s) = Mul(Nu, Mul(p, s))
            BY <2>1, <2>2, Regroup, MulLaws
        <3> QED BY <3>1
    <2> QED BY <2>1, <2>3, <2>4
<1>3. SumOver(f, Places) = SumOver(columns, Places)
    <2>1. \A i \in Places : columns[i] = Mul(c[i], SumOver(outer[i], Places))
        OBVIOUS
    <2> HIDE DEF a, c, k, inner, outer, columns
    <2>2. /\ AreWeighed(inner, outer, a, c, k, Places, Places)
          /\ IsWeighed(f, a, inner, Places, Places) /\ IsWeighed(columns, c, outer, Places, Places)
        BY <1>1, <1>2, <2>1 DEF AreWeighed, IsWeighed
    <2>3. IsFiniteSet(Places)
        BY PlaceFacts
    <2> QED BY <2>2, <2>3, SumByColumns
<1>4. ASSUME NEW i \in Places
      PROVE  SumOver(outer[i], Places) = IF i = n THEN One ELSE Zero
    <2> DEFINE r == Ratio(n, i)
               p == [l \in Places |-> Pow(r, l)]
    <2>1. r \in Scalars /\ Pow(r, DomainSize) = One /\ (r = One <=> n = i)
        BY RatioFacts
    <2> HIDE DEF r
    <2>2. SumOver(p, Places) = IF r = One THEN FromNat(DomainSize) ELSE Zero
        BY <2>1, RootsAddUp
    <2>3. ASSUME NEW l \in Places PROVE outer[i][l] = Mul(Nu, p[l])
        <3>1. l \in Nat /\ n \in Nat /\ i \in Nat /\ l * n = n * l
            BY PlaceFacts
        <3>2. Omega \in Scalars /\ Theta \in Scalars
            BY DomainFacts
        <3>3. Pow(Omega, n) \in Scalars /\ Pow(Theta, i) \in Scalars
            BY <3>1, PlaceFacts
        <3>4. Pow(r, l) = Mul(Pow(Pow(Omega, n), l), Pow(Pow(Theta, i), l))
            BY <3>1, <3>3, PowOfProduct DEF r, Ratio
        <3>5. Pow(Omega, n * l) = Pow(Pow(Omega, n), l) /\ Pow(Theta, i * l) = Pow(Pow(Theta, i), l)
            BY <3>1, <3>2, PowMul
        <3>6. Pow(Omega, n * l) \in Scalars /\ Pow(Theta, i * l) \in Scalars /\ Nu \in Scalars
            BY PlaceFacts
        <3>7. Mul(Mul(Nu, Pow(Omega, n * l)), Pow(Theta, i * l)) =
              Mul(Nu, Mul(Pow(Omega, n * l), Pow(Theta, i * l)))
            BY <3>6, MulLaws
        <3>8. outer[i][l] = Mul(Mul(Nu, Pow(Omega, l * n)), Pow(Theta, i * l))
            OBVIOUS
        <3> QED BY <3>1, <3>4, <3>5, <3>7, <3>8
    <2>4. ScalarOn(p, Places)
        BY <2>1, PowFacts, PlaceFacts DEF ScalarOn
    <2> DEFINE h == outer[i]
    <2>5. \A l \in Places : h[l] = Mul(Nu, p[l])
        BY <2>3
    <2> HIDE DEF h, p
    <2>6. SumOver(h, Places) = Mul(Nu, SumOver(p, Places))
        <3>1. Nu \in Scalars
            BY PlaceFacts
        <3> QED BY <2>4, <2>5, <3>1, SumOfProducts
    <2>7. Mul(Nu, FromNat(DomainSize)) = One /\ Mul(Nu, Zero) = Zero
        BY PlaceFacts, MulLaws
    <2> QED BY <2>1, <2>2, <2>6, <2>7 DEF h
<1>5. \A i \in Places : columns[i] = Mul(u[i + 1], IF i = n THEN One ELSE Zero)
    BY <1>4
<1> HIDE DEF a, c, k, inner, outer, columns
<1>6. /\ \A i \in Places : columns[i] \in Scalars
      /\ \A i \in Places \ {n} : columns[i] = Zero
      /\ columns[n] = u[n + 1]
    <2>1. ASSUME NEW i \in Places PROVE /\ Mul(u[i + 1], One) = u[i + 1]
                                        /\ Mul(u[i + 1], Zero) = Zero
                                        /\ u[i + 1] \in Scalars /\ Zero \in Scalars
        BY MulLaws, AddType DEF Full
    <2> QED BY <1>5, <2>1
<1>7. ScalarOn(columns, Places)
    BY <1>6, PlaceFacts DEF ScalarOn
<1> QED BY <1>3, <1>6, <1>7, SumOfOne

\* The transform may be applied to either factor of a sum of products.
LEMMA TransformMoves ==
    ASSUME NEW u, NEW v, Full(u), Full(v),
           NEW f, \A j \in Places : f[j] = Mul(Ifft(u)[j], v[j + 1]),
           NEW g, \A i \in Places : g[i] = Mul(u[i + 1], Ifft(v)[i])
    PROVE  SumOver(f, Places) = SumOver(g, Places)
<1> DEFINE a == [j \in Places |-> Mul(Nu, v[j + 1])]
           c == [i \in Places |-> u[i + 1]]
           k == [j \in Places |-> [i \in Places |-> Pow(Theta, i * j)]]
           inner == [j \in Places |-> Terms(u, j)]
           outer == [i \in Places |-> [j \in Places |-> Mul(a[j], k[j][i])]]
<1>1. /\ \A j \in Places : a[j] \in Scalars /\ c[j] \in Scalars
      /\ \A j, i \in Places : k[j][i] \in Scalars
      /\ \A j, i \in Places : inner[j][i] = Mul(c[i], k[j][i]) /\ outer[i][j] = Mul(a[j], k[j][i])
    BY PlaceFacts, AddType DEF Full, Terms
<1>2. ASSUME NEW j \in Places PROVE f[j] = Mul(a[j], SumOver(inner[j], Places))
    <2> DEFINE s == SumOver(Terms(u, j), Places)
               p == v[j + 1]
    <2>1. Ifft(u)[j] = Mul(Nu, s) /\ s \in Scalars
        BY IfftIs, SumType
    <2>2. p \in Scalars /\ Nu \in Scalars
        BY PlaceFacts DEF Full
    <2>3. f[j] = Mul(Ifft(u)[j], p) /\ a[j] = Mul(Nu, p) /\ inner[j] = Terms(u, j)
        OBVIOUS
    <2> HIDE DEF p
    <2>4. Mul(Mul(Nu, s), p) = Mul(Mul(Nu, p), s)
        <3>1. Mul(Mul(Nu, s), p) = Mul(Nu, Mul(p, s)) /\ Mul(Mul(Nu, p), s) = Mul(Nu, Mul(p, s))
            BY <2>1, <2>2, Regroup, MulLaws
        <3> QED BY <3>1
    <2> QED BY <2>1, <2>3, <2>4
<1>3. ASSUME NEW i \in Places PROVE g[i] = Mul(c[i], SumOver(outer[i], Places))
    <2> DEFINE h == outer[i]
               t == Terms(v, i)
    <2>1. Ifft(v)[i] = Mul(Nu, SumOver(t, Places)) /\ ScalarOn(t, Places)
        BY IfftIs
    <2>2. ASSUME NEW j \in Places PROVE h[j] = Mul(Nu, t[j])
        <3>1. /\ h[j] = Mul(Mul(Nu, v[j + 1]), Pow(Theta, i * j))
              /\ t[j] = Mul(v[j + 1], Pow(Theta, j * i)) /\ j * i = i * j
            BY PlaceFacts DEF Terms
        <3>2. Nu \in Scalars /\ v[j + 1] \in Scalars /\ Pow(Theta, i * j) \in Scalars
            BY PlaceFacts DEF Full
        <3>3. Mul(Mul(Nu, v[j + 1]), Pow(Theta, i * j)) = Mul(Nu, Mul(v[j + 1], Pow(Theta, i * j)))
            BY <3>2, MulLaws
        <3> HIDE DEF h, t
        <3> QED BY <3>1, <3>3
    <2> HIDE DEF h, t
    <2>3. SumOver(h, Places) = Mul(Nu, SumOver(t, Places))
        <3>1. Nu \in Scalars
            BY PlaceFacts
        <3> QED BY <2>1, <2>2, <3>1, SumOfProducts
    <2> QED BY <2>1, <2>3 DEF h
<1> HIDE DEF a, c, k, inner, outer
<1>4. /\ AreWeighed(inner, outer, a, c, k, Places, Places)
      /\ IsWeighed(f, a, inner, Places, Places) /\ IsWeighed(g, c, outer, Places, Places)
    BY <1>1, <1>2, <1>3 DEF AreWeighed, IsWeighed
<1>5. IsFiniteSet(Places)
    BY PlaceFacts
<1> QED BY <1>4, <1>5, SumByColumns

----------------------------------------------------------------------------
(* The bridge, and what phase 2 makes of its key.                          *)

\* The powers of an accumulator that the bridge reads are scalars.
ReadableForKey(acc) ==
    /\ \A i \in 1..(2 * DomainSize - 1) : acc.tau_powers_g1[i] \in Scalars
    /\ \A i \in 1..DomainSize :
        acc.alpha_tau_powers_g1[i] \in Scalars /\ acc.beta_tau_powers_g1[i] \in Scalars

\* And two accumulators have the same.
SameForKey(a, b) ==
    /\ \A i \in 1..(2 * DomainSize - 1) : a.tau_powers_g1[i] = b.tau_powers_g1[i]
    /\ \A i \in 1..DomainSize :
        /\ a.alpha_tau_powers_g1[i] = b.alpha_tau_powers_g1[i]
        /\ a.beta_tau_powers_g1[i] = b.beta_tau_powers_g1[i]

LEMMA IfftType ==
    ASSUME NEW p, \A i \in 1..DomainSize : p[i] \in Scalars
    PROVE  \A j \in 0..(DomainSize - 1) : Ifft(p)[j] \in Scalars
<1>1. Full(p)
    <2>1. \A i \in Places : i + 1 \in 1..DomainSize
        BY DomainFacts DEF Places
    <2> QED BY <2>1 DEF Full
<1> QED BY <1>1, IfftIs DEF Places

LEMMA IfftSame ==
    ASSUME NEW p, NEW q, \A i \in 1..DomainSize : p[i] = q[i]
    PROVE  Ifft(p) = Ifft(q)
<1> DEFINE m == DomainSize
           root == PowersOf(Inv(RootOfUnity(m)), m * m)
           f(s, j) == [i \in 0..(m - 1) |-> Mul(s[i + 1], root[i * j])]
<1>1. m \in Nat
    BY DomainHasRoom
<1>2. \A s : Ifft(s) = [j \in 0..(m - 1) |-> Mul(Inv(FromNat(m)), SumOf(f(s, j)))]
    BY DEF Ifft
<1> HIDE DEF root
<1>3. ASSUME NEW j PROVE f(p, j) = f(q, j)
    BY <1>1
<1> HIDE DEF f
<1> QED BY <1>2, <1>3

LEMMA MatrixType ==
    ASSUME NEW name \in {"a", "b", "c"}, NEW lagrange, NEW out,
           \A j \in 0..(Constraints - 1) : lagrange[j] \in Scalars,
           DOMAIN out = 0..(Variables - 1), \A v \in 0..(Variables - 1) : out[v] \in Scalars
    PROVE  \A v \in 0..(Variables - 1) :
                AccumulateMatrix(Matrices[name], lagrange, out)[v] \in Scalars
<1> DEFINE matrix == Matrices[name]
           f(v) == [j \in DOMAIN matrix |-> Mul(lagrange[j], matrix[j][v])]
<1>1. matrix \in [0..(Constraints - 1) -> [0..(Variables - 1) -> Scalars]]
    BY CircuitAssumption
<1> HIDE DEF matrix
<1>2. DOMAIN matrix = 0..(Constraints - 1) /\ IsFiniteSet(0..(Constraints - 1))
    BY <1>1, DomainHasRoom, FS_Interval
<1>3. ASSUME NEW v \in 0..(Variables - 1) PROVE SumOf(f(v)) \in Scalars
    <2>1. ASSUME NEW j \in 0..(Constraints - 1) PROVE f(v)[j] \in Scalars
        <3>1. matrix[j][v] \in Scalars
            BY <1>1
        <3> QED BY <1>2, <3>1, FieldAssumption
    <2>2. DOMAIN f(v) = 0..(Constraints - 1)
        BY <1>2
    <2> HIDE DEF f
    <2> QED BY <1>2, <2>1, <2>2, ScalarSumType
<1>4. AccumulateMatrix(matrix, lagrange, out) = [v \in DOMAIN out |-> Add(out[v], SumOf(f(v)))]
    BY DEF AccumulateMatrix
<1> HIDE DEF f
<1>5. \A v \in 0..(Variables - 1) : AccumulateMatrix(matrix, lagrange, out)[v] \in Scalars
    BY <1>3, <1>4, AddType
<1> QED BY <1>5 DEF matrix

\* The queries of a bridged key that phase 2 rescales are sequences of scalars.
LEMMA BridgedQueries ==
    ASSUME NEW acc, ReadableForKey(acc)
    PROVE  /\ FromPhase1(acc).h_query \in Seq(Scalars)
           /\ FromPhase1(acc).l_query \in Seq(Scalars)
<1> DEFINE m == DomainSize
<1>1. /\ m \in Nat /\ m >= 1 /\ m >= Constraints + Instances
      /\ Constraints \in Nat /\ Instances \in Nat /\ Variables \in Nat /\ Instances <= Variables
    BY DomainHasRoom, CircuitAssumption
<1>2. HQueryOf(acc) \in Seq(Scalars)
    <2>1. ASSUME NEW i \in 1..(m - 1)
          PROVE  Sub(acc.tau_powers_g1[i + m], acc.tau_powers_g1[i]) \in Scalars
        <3>1. i + m \in 1..(2 * m - 1) /\ i \in 1..(2 * m - 1)
            BY <1>1
        <3> QED BY <3>1, AddType DEF ReadableForKey
    <2>2. HQueryOf(acc) = [i \in 1..(m - 1) |->
                                Sub(acc.tau_powers_g1[i + m], acc.tau_powers_g1[i])]
        BY DEF HQueryOf
    <2> HIDE DEF m
    <2>3. m - 1 \in Nat
        BY <1>1
    <2> QED BY <2>1, <2>2, <2>3
<1>3. \A v \in 0..(Variables - 1) : Ext(acc)[v] \in Scalars
    <2> DEFINE alpha_lagrange == Ifft(acc.alpha_tau_powers_g1)
               beta_lagrange == Ifft(acc.beta_tau_powers_g1)
               lagrange == Ifft(acc.tau_powers_g1)
               beta_a == AccumulateMatrix(Matrices.a, beta_lagrange, InstanceBlock(beta_lagrange))
               alpha_b == AccumulateMatrix(Matrices.b, alpha_lagrange, ZeroVector)
               c == AccumulateMatrix(Matrices.c, lagrange, ZeroVector)
    <2>1. \A j \in 0..(m - 1) : /\ alpha_lagrange[j] \in Scalars /\ beta_lagrange[j] \in Scalars
                                /\ lagrange[j] \in Scalars
        <3>1. \A i \in 1..m : acc.tau_powers_g1[i] \in Scalars
            <4>1. \A i \in 1..m : i \in 1..(2 * m - 1)
                BY <1>1
            <4> QED BY <4>1 DEF ReadableForKey
        <3> QED BY <3>1, IfftType DEF ReadableForKey
    <2>2. Ext(acc) = [v \in 0..(Variables - 1) |-> Add(Add(beta_a[v], alpha_b[v]), c[v])]
        BY DEF Ext
    <2> HIDE DEF alpha_lagrange, beta_lagrange, lagrange
    <2>3. /\ \A j \in 0..(Constraints - 1) : j \in 0..(m - 1)
          /\ \A v \in 0..(Instances - 1) : Constraints + v \in 0..(m - 1)
        BY <1>1
    <2>4. /\ DOMAIN ZeroVector = 0..(Variables - 1)
          /\ \A v \in 0..(Variables - 1) : ZeroVector[v] \in Scalars
        BY FieldAssumption DEF ZeroVector
    <2>5. /\ DOMAIN InstanceBlock(beta_lagrange) = 0..(Variables - 1)
          /\ \A v \in 0..(Variables - 1) : InstanceBlock(beta_lagrange)[v] \in Scalars
        <3>1. ASSUME NEW v \in 0..(Variables - 1)
              PROVE  InstanceBlock(beta_lagrange)[v] \in Scalars
            <4>1. CASE v < Instances
                <5>1. v \in 0..(Instances - 1)
                    BY <1>1, <4>1
                <5> QED BY <2>1, <2>3, <4>1, <5>1 DEF InstanceBlock
            <4>2. CASE ~ v < Instances
                BY <4>2, FieldAssumption DEF InstanceBlock
            <4> QED BY <4>1, <4>2
        <3> QED BY <3>1 DEF InstanceBlock
    <2>6. \A v \in 0..(Variables - 1) : beta_a[v] \in Scalars
        BY <2>1, <2>3, <2>5, MatrixType
    <2>7. \A v \in 0..(Variables - 1) : alpha_b[v] \in Scalars /\ c[v] \in Scalars
        BY <2>1, <2>3, <2>4, MatrixType
    <2> HIDE DEF beta_a, alpha_b, c
    <2> QED BY <2>2, <2>6, <2>7, AddType
<1>4. Listed(Ext(acc), Instances, Variables - 1) \in Seq(Scalars)
    <2> DEFINE n == Variables - 1 - Instances + 1
               e == Ext(acc)
    <2>1. \A i \in 1..n : Instances + i - 1 \in 0..(Variables - 1)
        BY <1>1
    <2> HIDE DEF e
    <2>2. Listed(e, Instances, Variables - 1) = [i \in 1..n |-> e[Instances + i - 1]]
        BY DEF Listed
    <2>3. n \in Nat
        BY <1>1
    <2>4. \A i \in 1..n : e[Instances + i - 1] \in Scalars
        BY <1>3, <2>1 DEF e
    <2> HIDE DEF n
    <2>5. Listed(e, Instances, Variables - 1) \in Seq(Scalars)
        BY <2>2, <2>3, <2>4
    <2> QED BY <2>5 DEF e
<1>5. /\ FromPhase1(acc).h_query = HQueryOf(acc)
      /\ FromPhase1(acc).l_query = Listed(Ext(acc), Instances, Variables - 1)
    BY DEF FromPhase1
<1> QED BY <1>2, <1>4, <1>5

LEMMA SameQueries ==
    ASSUME NEW a, NEW b, SameForKey(a, b)
    PROVE  /\ FromPhase1(a).h_query = FromPhase1(b).h_query
           /\ FromPhase1(a).l_query = FromPhase1(b).l_query
<1> DEFINE m == DomainSize
<1>1. m \in Nat /\ m >= 1
    BY DomainHasRoom
<1>2. HQueryOf(a) = HQueryOf(b)
    <2>1. \A i \in 1..(m - 1) : i + m \in 1..(2 * m - 1) /\ i \in 1..(2 * m - 1)
        BY <1>1
    <2>2. \A i \in 1..(m - 1) : /\ a.tau_powers_g1[i + m] = b.tau_powers_g1[i + m]
                                /\ a.tau_powers_g1[i] = b.tau_powers_g1[i]
        BY <2>1 DEF SameForKey
    <2> QED BY <2>2 DEF HQueryOf
<1>3. /\ Ifft(a.alpha_tau_powers_g1) = Ifft(b.alpha_tau_powers_g1)
      /\ Ifft(a.beta_tau_powers_g1) = Ifft(b.beta_tau_powers_g1)
    BY IfftSame DEF SameForKey
<1>4. Ifft(a.tau_powers_g1) = Ifft(b.tau_powers_g1)
    <2>1. \A i \in 1..m : i \in 1..(2 * m - 1)
        BY <1>1
    <2>2. \A i \in 1..m : a.tau_powers_g1[i] = b.tau_powers_g1[i]
        BY <2>1 DEF SameForKey
    <2> QED BY <2>2, IfftSame
<1>5. Ext(a) = Ext(b)
    BY <1>3, <1>4 DEF Ext
<1> QED BY <1>2, <1>5 DEF FromPhase1

\* The first elements of u are each the one before times x.
IsRow(u, x, n) == \A i \in 1..(n - 1) : u[i + 1] = Mul(u[i], x)

\* Such a row is what its first element makes it.
LEMMA SameRow ==
    ASSUME NEW u, NEW w, NEW x, NEW n \in Nat, n >= 1, u[1] = w[1],
           IsRow(u, x, n), IsRow(w, x, n)
    PROVE  \A i \in 1..n : u[i] = w[i]
<1> DEFINE S == {k \in Nat : k + 1 <= n => u[k + 1] = w[k + 1]}
<1>1. 0 \in S
    OBVIOUS
<1>2. ASSUME NEW k \in Nat, k \in S PROVE k + 1 \in S
    <2> SUFFICES ASSUME (k + 1) + 1 <= n PROVE u[(k + 1) + 1] = w[(k + 1) + 1]
        OBVIOUS
    <2>1. k + 1 \in 1..(n - 1) /\ k + 1 <= n
        OBVIOUS
    <2>2. u[k + 1] = w[k + 1]
        BY <1>2, <2>1
    <2> QED BY <2>1, <2>2 DEF IsRow
<1>3. \A k \in Nat : k \in S
    <2> HIDE DEF S
    <2> QED BY <1>1, <1>2, InductionOnSet
<1> SUFFICES ASSUME NEW i \in 1..n PROVE u[i] = w[i]
    OBVIOUS
<1>4. i - 1 \in Nat /\ (i - 1) + 1 = i
    OBVIOUS
<1> QED BY <1>3, <1>4

\* The accumulator that whoever draws some secrets makes of the first one.
LEMMA FirstHop ==
    ASSUME NEW size \in Nat, size > 1, NEW secrets,
           \A name \in Personalizations : secrets[name] \in Scalars \ {Zero}
    PROVE  LET acc == ContributePowers(NewAccumulator(size), secrets)
               t == secrets["tau"]
           IN  /\ acc.tau_powers_g1[1] = One
               /\ \A i \in 1..(2 * size - 2) :
                    acc.tau_powers_g1[i + 1] = Mul(acc.tau_powers_g1[i], t)
               /\ acc.alpha_tau_powers_g1[1] = secrets["alpha"]
               /\ acc.beta_tau_powers_g1[1] = secrets["beta"]
               /\ \A i \in 1..(size - 1) :
                    /\ acc.alpha_tau_powers_g1[i + 1] = Mul(acc.alpha_tau_powers_g1[i], t)
                    /\ acc.beta_tau_powers_g1[i + 1] = Mul(acc.beta_tau_powers_g1[i], t)
<1> DEFINE new == NewAccumulator(size)
           acc == ContributePowers(new, secrets)
           t == secrets["tau"]
           a == secrets["alpha"]
           b == secrets["beta"]
           m == Len(new.tau_powers_g1) + Len(new.tau_powers_g2)
           p == PowersOf(t, m)
<1>1. t \in Scalars \ {Zero} /\ a \in Scalars /\ b \in Scalars
    BY DEF Personalizations
<1>2. /\ Len(new.tau_powers_g1) = 2 * size - 1 /\ Len(new.tau_powers_g2) = size
      /\ m = 3 * size - 1 /\ m \in Nat
      /\ \A i \in 1..(2 * size - 1) : new.tau_powers_g1[i] = One
      /\ \A i \in 1..size : new.alpha_tau_powers_g1[i] = One /\ new.beta_tau_powers_g1[i] = One
    BY DEF NewAccumulator, G1
<1>3. /\ acc.tau_powers_g1 = [i \in 1..(2 * size - 1) |-> Mul(new.tau_powers_g1[i], p[i - 1])]
      /\ acc.alpha_tau_powers_g1 =
            [i \in 1..size |-> Mul(new.alpha_tau_powers_g1[i], Mul(a, p[i - 1]))]
      /\ acc.beta_tau_powers_g1 =
            [i \in 1..size |-> Mul(new.beta_tau_powers_g1[i], Mul(b, p[i - 1]))]
    <2> HIDE DEF p, new
    <2> QED BY <1>2 DEF ContributePowers, Size, p
<1> HIDE DEF new, acc, m
<1>4. /\ p[0] = One /\ \A i \in 0..m : p[i] \in Scalars
      /\ \A i \in 1..m : p[i] = Mul(p[i - 1], t)
    BY <1>1, <1>2, Powers
<1> HIDE DEF p, t, a, b
<1>5. \A x \in Scalars : Mul(One, x) = x /\ Mul(x, One) = x
    BY FieldAssumption
<1>6. ASSUME NEW i \in 1..(2 * size - 1) PROVE acc.tau_powers_g1[i] = p[i - 1]
    <2>1. i - 1 \in 0..m
        BY <1>2
    <2> QED BY <1>2, <1>3, <1>4, <1>5, <2>1
<1>7. ASSUME NEW i \in 1..size
      PROVE  /\ acc.alpha_tau_powers_g1[i] = Mul(a, p[i - 1])
             /\ acc.beta_tau_powers_g1[i] = Mul(b, p[i - 1])
    <2>1. i - 1 \in 0..m
        BY <1>2
    <2>2. Mul(a, p[i - 1]) \in Scalars /\ Mul(b, p[i - 1]) \in Scalars
        BY <1>1, <1>4, <2>1, FieldAssumption
    <2> QED BY <1>2, <1>3, <1>5, <2>2
<1>8. ASSUME NEW i \in 1..(2 * size - 2)
      PROVE  acc.tau_powers_g1[i + 1] = Mul(acc.tau_powers_g1[i], t)
    <2>1. /\ i \in 1..(2 * size - 1) /\ i + 1 \in 1..(2 * size - 1) /\ (i + 1) - 1 = i
          /\ i \in 1..m
        BY <1>2
    <2>2. acc.tau_powers_g1[i + 1] = p[i] /\ acc.tau_powers_g1[i] = p[i - 1]
        BY <1>6, <2>1
    <2> QED BY <1>4, <2>1, <2>2
<1>9. ASSUME NEW i \in 1..(size - 1)
      PROVE  /\ acc.alpha_tau_powers_g1[i + 1] = Mul(acc.alpha_tau_powers_g1[i], t)
             /\ acc.beta_tau_powers_g1[i + 1] = Mul(acc.beta_tau_powers_g1[i], t)
    <2>1. /\ i \in 1..size /\ i + 1 \in 1..size /\ (i + 1) - 1 = i /\ i \in 1..m
          /\ i - 1 \in 0..m
        BY <1>2
    <2>2. PICK y \in Scalars : y = p[i - 1] /\ p[i] = Mul(y, t)
        BY <1>4, <2>1
    <2>3. /\ Mul(a, p[i]) = Mul(Mul(a, p[i - 1]), t)
          /\ Mul(b, p[i]) = Mul(Mul(b, p[i - 1]), t)
        <3>1. Mul(Mul(a, y), t) = Mul(a, Mul(y, t)) /\ Mul(Mul(b, y), t) = Mul(b, Mul(y, t))
            BY <1>1, FieldAssumption
        <3> QED BY <2>2, <3>1
    <2>4. /\ acc.alpha_tau_powers_g1[i + 1] = Mul(a, p[i])
          /\ acc.alpha_tau_powers_g1[i] = Mul(a, p[i - 1])
          /\ acc.beta_tau_powers_g1[i + 1] = Mul(b, p[i])
          /\ acc.beta_tau_powers_g1[i] = Mul(b, p[i - 1])
        BY <1>7, <2>1
    <2> QED BY <2>3, <2>4
<1>10. /\ acc.tau_powers_g1[1] = One
       /\ acc.alpha_tau_powers_g1[1] = a /\ acc.beta_tau_powers_g1[1] = b
    <2>1. 1 \in 1..(2 * size - 1) /\ 1 \in 1..size /\ 1 - 1 = 0
        OBVIOUS
    <2> QED BY <1>1, <1>4, <1>5, <1>6, <1>7, <2>1
<1> QED BY <1>8, <1>9, <1>10 DEF acc, new, t, a, b

\* The last accumulator of a chain is, as far as the bridge reads it, the one that
\* whoever draws the product of the chain's secrets makes.
LEMMA AsIfOneContributed ==
    ASSUME NEW acc, Readable(acc), IsPowersOfTau(acc), NoZeros(acc), NEW secrets,
           \A name \in Personalizations : secrets[name] = FirstOf(acc, name),
           ~ AccumulatorTooSmall(acc), ~ SliceOutOfRange(acc)
    PROVE  /\ ReadableForKey(acc)
           /\ SameForKey(acc, ContributePowers(NewAccumulator(DomainSize + 1), secrets))
<1> DEFINE m == DomainSize
           one == ContributePowers(NewAccumulator(m + 1), secrets)
           t == acc.tau_powers_g1[2]
<1>1. m \in Nat /\ m >= 1 /\ m + 1 \in Nat /\ m + 1 > 1
    BY DomainHasRoom
<1>2. \A v \in VectorsG1 :
        /\ acc[v] \in Seq(Scalars) /\ Len(acc[v]) \in Nat /\ Len(acc[v]) >= 2
        /\ \A i \in 1..Len(acc[v]) : acc[v][i] \in Scalars
    BY Elements
<1>3. /\ Len(acc.tau_powers_g1) >= 2 * m - 1
      /\ Len(acc.alpha_tau_powers_g1) >= m /\ Len(acc.beta_tau_powers_g1) >= m
    <2>1. /\ Len(acc.tau_powers_g1) \in Nat /\ Len(acc.alpha_tau_powers_g1) \in Nat
          /\ Len(acc.beta_tau_powers_g1) \in Nat
        BY <1>2 DEF VectorsG1
    <2> QED BY <1>1, <2>1 DEF AccumulatorTooSmall, SliceOutOfRange
<1>4. /\ secrets["tau"] = t /\ secrets["alpha"] = acc.alpha_tau_powers_g1[1]
      /\ secrets["beta"] = acc.beta_tau_powers_g1[1]
    BY DEF Personalizations, FirstOf
<1>5. \A name \in Personalizations : secrets[name] \in Scalars \ {Zero}
    <2>1. /\ t \in Scalars /\ acc.alpha_tau_powers_g1[1] \in Scalars
          /\ acc.beta_tau_powers_g1[1] \in Scalars
        BY <1>2, 2 \in 1..Len(acc["tau_powers_g1"]), 1 \in 1..Len(acc["alpha_tau_powers_g1"]),
           1 \in 1..Len(acc["beta_tau_powers_g1"]) DEF VectorsG1
    <2> QED BY <1>4, <2>1 DEF NoZeros, Personalizations
<1>6. /\ one.tau_powers_g1[1] = One
      /\ \A i \in 1..(2 * (m + 1) - 2) :
            one.tau_powers_g1[i + 1] = Mul(one.tau_powers_g1[i], t)
      /\ one.alpha_tau_powers_g1[1] = secrets["alpha"]
      /\ one.beta_tau_powers_g1[1] = secrets["beta"]
      /\ \A i \in 1..((m + 1) - 1) :
            /\ one.alpha_tau_powers_g1[i + 1] = Mul(one.alpha_tau_powers_g1[i], t)
            /\ one.beta_tau_powers_g1[i + 1] = Mul(one.beta_tau_powers_g1[i], t)
    BY <1>1, <1>4, <1>5, FirstHop
<1> HIDE DEF one
<1>7. /\ acc.tau_powers_g1[1] = One
      /\ \A v \in VectorsG1 : \A i \in 1..(Len(acc[v]) - 1) : acc[v][i + 1] = Mul(acc[v][i], t)
    BY DEF IsPowersOfTau
<1> HIDE DEF m, t
<1>8. \A i \in 1..(2 * m - 1) : acc.tau_powers_g1[i] = one.tau_powers_g1[i]
    <2> DEFINE n == 2 * m - 1
    <2>1. n \in Nat /\ n >= 1
        BY <1>1
    <2>2. \A i \in 1..(n - 1) : i \in 1..(2 * (m + 1) - 2) /\ i \in 1..(Len(acc.tau_powers_g1) - 1)
        BY <1>1, <1>2, <1>3 DEF VectorsG1
    <2>3. /\ \A i \in 1..(n - 1) : acc.tau_powers_g1[i + 1] = Mul(acc.tau_powers_g1[i], t)
          /\ \A i \in 1..(n - 1) : one.tau_powers_g1[i + 1] = Mul(one.tau_powers_g1[i], t)
        BY <1>6, <1>7, <2>2 DEF VectorsG1
    <2> DEFINE u == acc.tau_powers_g1
               w == one.tau_powers_g1
    <2>4. u[1] = w[1] /\ IsRow(u, t, n) /\ IsRow(w, t, n)
        BY <1>6, <1>7, <2>3 DEF IsRow
    <2> HIDE DEF n, u, w
    <2>5. \A i \in 1..n : u[i] = w[i]
        BY <2>1, <2>4, SameRow
    <2> QED BY <2>5 DEF n, u, w
<1>9. ASSUME NEW v \in {"alpha_tau_powers_g1", "beta_tau_powers_g1"}
      PROVE  \A i \in 1..m : acc[v][i] = one[v][i]
    <2>1. \A i \in 1..(m - 1) : i \in 1..((m + 1) - 1) /\ i \in 1..(Len(acc[v]) - 1)
        BY <1>1, <1>2, <1>3 DEF VectorsG1
    <2>2. /\ \A i \in 1..(m - 1) : acc[v][i + 1] = Mul(acc[v][i], t)
          /\ \A i \in 1..(m - 1) : one[v][i + 1] = Mul(one[v][i], t)
          /\ acc[v][1] = one[v][1]
        BY <1>4, <1>6, <1>7, <2>1 DEF VectorsG1
    <2> DEFINE u == acc[v]
               w == one[v]
    <2>3. u[1] = w[1] /\ IsRow(u, t, m) /\ IsRow(w, t, m)
        BY <2>2 DEF IsRow
    <2> HIDE DEF u, w
    <2>4. \A i \in 1..m : u[i] = w[i]
        BY <1>1, <2>3, SameRow
    <2> QED BY <2>4 DEF u, w
<1>10. SameForKey(acc, one)
    BY <1>8, <1>9 DEF SameForKey, m
<1>11. ReadableForKey(acc)
    <2>1. /\ \A i \in 1..(2 * m - 1) : i \in 1..Len(acc["tau_powers_g1"])
          /\ \A i \in 1..m : /\ i \in 1..Len(acc["alpha_tau_powers_g1"])
                             /\ i \in 1..Len(acc["beta_tau_powers_g1"])
        BY <1>1, <1>2, <1>3 DEF VectorsG1
    <2> QED BY <1>2, <2>1 DEF ReadableForKey, VectorsG1, m
<1> QED BY <1>10, <1>11 DEF one, m

----------------------------------------------------------------------------
(* A contribution to phase 2 of a key of the bridge is accepted.           *)

\* A contribution shows its secret: next to a point, and in the point that its transcript
\* hashes to.
LEMMA DeltaShown ==
    ASSUME NEW a \in Scalars \ {Zero}, NEW delta \in Scalars \ {Zero}, NEW transcript
    PROVE  Hop!CheckSameRatio(<<a, Mul(a, delta)>>,
                <<Hop!HashToG2(transcript), Hop!Times(Hop!HashToG2(transcript), delta)>>)
<1> DEFINE r == Hop!HashToG2(transcript)
           d == Hop!Times(Hop!HashToG2(transcript), delta)
<1>1. Mul(a, delta) \in Scalars \ {Zero} /\ a \in Scalars /\ delta \in Scalars /\ One # Zero
    BY NonZero, FieldAssumption
<1>2. Mul(One, delta) = delta /\ Mul(Mul(a, delta), One) = Mul(a, delta)
    BY <1>1, FieldAssumption
<1>3. r = [base |-> <<transcript>>, exp |-> One] /\ d = [base |-> <<transcript>>, exp |-> delta]
    BY <1>2 DEF Hop!HashToG2, Hop!Times
<1>4. Hop!Pairing(a, d) = Hop!Pairing(Mul(a, delta), r)
    BY <1>2, <1>3 DEF Hop!Pairing
<1> HIDE DEF r, d
<1>5. Hop!CheckSameRatio(<<a, Mul(a, delta)>>, <<r, d>>)
    BY <1>1, <1>3, <1>4 DEF Hop!CheckSameRatio
<1> QED BY <1>5 DEF r, d

\* A sequence of some elements.
IsSeq(s) == \E S : s \in Seq(S)

\* One more element leaves the beginnings as they are.
LEMMA AppendFacts ==
    ASSUME NEW s, IsSeq(s), NEW e
    PROVE  /\ IsSeq(Append(s, e)) /\ Len(s) \in Nat /\ DOMAIN s = 1..Len(s)
           /\ Len(Append(s, e)) = Len(s) + 1 /\ DOMAIN Append(s, e) = 1..(Len(s) + 1)
           /\ \A i \in 1..Len(s) : Append(s, e)[i] = s[i]
           /\ Append(s, e)[Len(s) + 1] = e
           /\ SubSeq(s, 1, Len(s)) = s
           /\ \A n \in 0..Len(s) : SubSeq(Append(s, e), 1, n) = SubSeq(s, 1, n)
<1>1. PICK S : s \in Seq(S)
    BY DEF IsSeq
<1> DEFINE T == S \cup {e}
           t == Append(s, e)
<1>2. s \in Seq(T) /\ e \in T
    BY <1>1
<1> HIDE DEF T
<1>3. /\ t \in Seq(T) /\ Len(t) = Len(s) + 1 /\ Len(s) \in Nat
      /\ \A i \in 1..Len(s) : t[i] = s[i]
      /\ t[Len(s) + 1] = e
    BY <1>2, AppendProperties, LenProperties
<1>4. DOMAIN s = 1..Len(s) /\ DOMAIN t = 1..Len(t) /\ SubSeq(s, 1, Len(s)) = s
    BY <1>2, <1>3, LenProperties, SubSeqFull
<1> HIDE DEF t
<1>5. ASSUME NEW n \in 0..Len(s) PROVE SubSeq(t, 1, n) = SubSeq(s, 1, n)
    <2>1. n \in 0..Len(t)
        BY <1>3
    <2>2. SubSeq(t, 1, n) = Restrict(t, 1..n) /\ SubSeq(s, 1, n) = Restrict(s, 1..n)
        BY <1>2, <1>3, <2>1, SubSeqRestrict
    <2>3. \A i \in 1..n : t[i] = s[i]
        BY <1>3
    <2> QED BY <2>2, <2>3 DEF Restrict
<1> QED BY <1>3, <1>4, <1>5 DEF IsSeq, t

\* A history that verifies still does with one more contribution to the delta it leads to.
LEMMA TranscriptGrows ==
    ASSUME NEW hash, NEW h, IsSeq(h), Hop!TranscriptVerifies(hash, h),
           NEW d \in Scalars \ {Zero},
           d = IF h = << >> THEN One ELSE h[Len(h)].delta_after,
           NEW delta \in Scalars \ {Zero}, NEW s \in Scalars \ {Zero}
    PROVE  Hop!TranscriptVerifies(hash, Append(h, Hop!PublicKey(d, hash, h, delta, s)))
<1> DEFINE key == Hop!PublicKey(d, hash, h, delta, s)
           t == Append(h, key)
           transcript == Hop!Transcript(hash, h, s, Mul(s, delta))
           Sound(hist, i) ==
                LET pubkey == hist[i]
                    told == Hop!Transcript(hash, SubSeq(hist, 1, i - 1), pubkey.s, pubkey.s_delta)
                    r == Hop!HashToG2(told)
                    old_delta == IF i = 1 THEN One ELSE hist[i - 1].delta_after
                IN  /\ pubkey.transcript = told
                    /\ Hop!CheckSameRatio(<<pubkey.s, pubkey.s_delta>>, <<r, pubkey.r_delta>>)
                    /\ Hop!CheckSameRatio(<<old_delta, pubkey.delta_after>>, <<r, pubkey.r_delta>>)
<1>1. /\ IsSeq(t) /\ Len(h) \in Nat /\ DOMAIN h = 1..Len(h) /\ DOMAIN t = 1..(Len(h) + 1)
      /\ \A i \in 1..Len(h) : t[i] = h[i]
      /\ t[Len(h) + 1] = key
      /\ SubSeq(h, 1, Len(h)) = h
      /\ \A n \in 0..Len(h) : SubSeq(t, 1, n) = SubSeq(h, 1, n)
    BY AppendFacts
<1>2. key = [delta_after |-> Mul(d, delta), s |-> s, s_delta |-> Mul(s, delta),
             r_delta |-> Hop!Times(Hop!HashToG2(transcript), delta), transcript |-> transcript]
    BY DEF Hop!PublicKey
<1>3. \A i \in DOMAIN h : Sound(h, i)
    BY DEF Hop!TranscriptVerifies, Hop!G1
<1>4. ASSUME NEW i \in 1..Len(h)
      PROVE  Sound(t, i)
    <2>1. Sound(h, i)
        BY <1>1, <1>3
    <2>2. t[i] = h[i] /\ (i # 1 => t[i - 1] = h[i - 1])
        BY <1>1
    <2>3. SubSeq(t, 1, i - 1) = SubSeq(h, 1, i - 1)
        BY <1>1
    <2> HIDE DEF t, key, transcript
    <2> QED BY <2>1, <2>2, <2>3
<1>5. Sound(t, Len(h) + 1)
    <2> DEFINE n == Len(h) + 1
               old == IF n = 1 THEN One ELSE t[n - 1].delta_after
    <2>1. SubSeq(t, 1, n - 1) = h
        BY <1>1
    <2>2. old = d
        <3>1. CASE h = << >>
            BY <3>1
        <3>2. CASE h # << >>
            <4>1. Len(h) # 0
                BY <1>1, <3>2, EmptySeq DEF IsSeq
            <4>2. n # 1 /\ n - 1 = Len(h) /\ Len(h) \in 1..Len(h)
                BY <1>1, <4>1
            <4>3. t[n - 1] = h[Len(h)]
                BY <1>1, <4>2
            <4> QED BY <3>2, <4>2, <4>3
        <3> QED BY <3>1, <3>2
    <2>3. /\ Hop!CheckSameRatio(<<s, Mul(s, delta)>>,
                <<Hop!HashToG2(transcript), Hop!Times(Hop!HashToG2(transcript), delta)>>)
          /\ Hop!CheckSameRatio(<<d, Mul(d, delta)>>,
                <<Hop!HashToG2(transcript), Hop!Times(Hop!HashToG2(transcript), delta)>>)
        BY DeltaShown
    <2>4. t[n] = key
        BY <1>1
    <2>5. /\ key.delta_after = Mul(d, delta) /\ key.s = s /\ key.s_delta = Mul(s, delta)
          /\ key.r_delta = Hop!Times(Hop!HashToG2(transcript), delta)
          /\ key.transcript = transcript
        BY <1>2
    <2>6. transcript = Hop!Transcript(hash, SubSeq(t, 1, n - 1), key.s, key.s_delta)
        BY <2>1, <2>5
    <2> HIDE DEF t, key, transcript, old
    <2>7. /\ t[n].transcript = transcript
          /\ Hop!CheckSameRatio(<<t[n].s, t[n].s_delta>>,
                                <<Hop!HashToG2(transcript), t[n].r_delta>>)
          /\ Hop!CheckSameRatio(<<old, t[n].delta_after>>,
                                <<Hop!HashToG2(transcript), t[n].r_delta>>)
        BY <2>2, <2>3, <2>4, <2>5
    <2> QED BY <2>4, <2>6, <2>7 DEF old
<1>6. \A i \in DOMAIN t : Sound(t, i)
    <2>1. \A i \in DOMAIN t : i \in 1..Len(h) \/ i = Len(h) + 1
        BY <1>1
    <2> HIDE DEF t, Sound
    <2> QED BY <2>1, <1>4, <1>5
<1> HIDE DEF key, t
<1>7. Hop!TranscriptVerifies(hash, t)
    BY <1>6 DEF Hop!TranscriptVerifies, Hop!G1
<1> QED BY <1>7 DEF key, t

\* A query divided by a secret that the delta was multiplied with passes its check, and
\* stays alive.
LEMMA DividedIsRescaled ==
    ASSUME NEW before, NEW after, NEW q \in Seq(Scalars),
           NEW d \in Scalars \ {Zero}, NEW delta \in Scalars \ {Zero},
           before.delta_g2 = [base |-> << >>, exp |-> d],
           after.delta_g2 = [base |-> << >>, exp |-> Mul(d, delta)]
    PROVE  /\ Hop!ScaledBy(q, Inv(delta)) \in Seq(Scalars)
           /\ Live(q) =>
                /\ Live(Hop!ScaledBy(q, Inv(delta)))
                /\ Hop!QueryRescaled(before, after, q, Hop!ScaledBy(q, Inv(delta)))
<1> DEFINE r == Hop!ScaledBy(q, Inv(delta))
           x == Inv(delta)
<1>1. /\ x \in Scalars \ {Zero} /\ Mul(d, delta) \in Scalars \ {Zero}
      /\ \A y \in Scalars : Mul(Mul(y, x), Mul(d, delta)) = Mul(y, d)
    BY InverseFacts, NonZero
<1>2. /\ Len(q) \in Nat /\ DOMAIN q = 1..Len(q) /\ \A i \in 1..Len(q) : q[i] \in Scalars
    BY ElementOfSeq, LenProperties
<1>3. r = [i \in DOMAIN q |-> Mul(q[i], x)]
    BY DEF Hop!ScaledBy
<1> HIDE DEF r, x
<1>4. \A i \in 1..Len(q) : r[i] = Mul(q[i], x) /\ r[i] \in Scalars
    BY <1>1, <1>2, <1>3, FieldAssumption
<1>5. r \in Seq(Scalars) /\ Len(r) = Len(q) /\ DOMAIN r = DOMAIN q
    BY <1>2, <1>3, <1>4
<1>6. ASSUME Live(q), q # << >>
      PROVE  Live(r) /\ Hop!CheckMergedRatio(q, r, <<after.delta_g2, before.delta_g2>>)
    <2>1. PICK i \in DOMAIN q : q[i] # Zero
        BY <1>6 DEF Live
    <2>2. r[i] # Zero
        BY <1>1, <1>2, <1>4, <2>1, NonZero
    <2>3. ASSUME NEW j \in DOMAIN q
          PROVE  Hop!Pairing(q[j], before.delta_g2) = Hop!Pairing(r[j], after.delta_g2)
        <3>1. Mul(r[j], Mul(d, delta)) = Mul(q[j], d)
            BY <1>1, <1>2, <1>4
        <3> QED BY <3>1 DEF Hop!Pairing
    <2>4. after.delta_g2.exp # Zero /\ before.delta_g2.exp # Zero
        BY <1>1
    <2> QED BY <1>5, <2>1, <2>2, <2>3, <2>4 DEF Hop!CheckMergedRatio, Live
<1>7. Live(q) => Hop!QueryRescaled(before, after, q, r)
    BY <1>5, <1>6 DEF Hop!QueryRescaled
<1>8. Live(q) => Live(r)
    <2>1. CASE q = << >>
        <3>1. DOMAIN r = {}
            BY <1>5, <2>1
        <3>2. r = << >>
            BY <1>5, <2>1, EmptySeq
        <3> QED BY <3>2 DEF Live
    <2> QED BY <1>6, <2>1
<1> QED BY <1>5, <1>7, <1>8 DEF r, x

\* A key that contributors to phase 2 have been able to go on with.
LastDelta(p) ==
    IF p.contributions = << >> THEN One ELSE p.contributions[Len(p.contributions)].delta_after

KeyFields(p) ==
    p = [fixed_vk |-> p.fixed_vk, fixed_pk |-> p.fixed_pk,
         delta_g1 |-> p.delta_g1, delta_g2 |-> p.delta_g2,
         h_query |-> p.h_query, l_query |-> p.l_query,
         cs_hash |-> p.cs_hash, contributions |-> p.contributions]

GoodKey(p) ==
    /\ KeyFields(p)
    /\ p.delta_g1 \in Scalars \ {Zero} /\ p.delta_g2 = [base |-> << >>, exp |-> p.delta_g1]
    /\ p.h_query \in Seq(Scalars) /\ p.l_query \in Seq(Scalars)
    /\ IsSeq(p.contributions) /\ LastDelta(p) = p.delta_g1
    /\ Hop!TranscriptVerifies(p.cs_hash, p.contributions)

LEMMA ContributeFields ==
    ASSUME NEW p, KeyFields(p), NEW delta, NEW s
    PROVE  LET c == Hop!Contribute(p, delta, s)
           IN  /\ KeyFields(c)
               /\ c.fixed_vk = p.fixed_vk /\ c.fixed_pk = p.fixed_pk /\ c.cs_hash = p.cs_hash
               /\ c.delta_g1 = Mul(p.delta_g1, delta)
               /\ c.delta_g2 = Hop!Times(p.delta_g2, delta)
               /\ c.h_query = Hop!ScaledBy(p.h_query, Inv(delta))
               /\ c.l_query = Hop!ScaledBy(p.l_query, Inv(delta))
               /\ c.contributions = Append(p.contributions,
                    Hop!PublicKey(p.delta_g1, p.cs_hash, p.contributions, delta, s))
<1> DEFINE c == Hop!Contribute(p, delta, s)
           key == Hop!PublicKey(p.delta_g1, p.cs_hash, p.contributions, delta, s)
<1>1. c = [p EXCEPT !.h_query = Hop!ScaledBy(p.h_query, Inv(delta)),
                    !.l_query = Hop!ScaledBy(p.l_query, Inv(delta)),
                    !.delta_g2 = Hop!Times(p.delta_g2, delta),
                    !.delta_g1 = Mul(p.delta_g1, delta),
                    !.contributions = Append(p.contributions, key)]
    BY DEF Hop!Contribute, KeyFields
<1> HIDE DEF c, key
<1>2. c = [fixed_vk |-> p.fixed_vk, fixed_pk |-> p.fixed_pk,
           delta_g1 |-> Mul(p.delta_g1, delta), delta_g2 |-> Hop!Times(p.delta_g2, delta),
           h_query |-> Hop!ScaledBy(p.h_query, Inv(delta)),
           l_query |-> Hop!ScaledBy(p.l_query, Inv(delta)),
           cs_hash |-> p.cs_hash, contributions |-> Append(p.contributions, key)]
    BY <1>1 DEF KeyFields
<1>3. KeyFields(c)
    BY <1>2 DEF KeyFields
<1> QED BY <1>2, <1>3 DEF c, key

\* Whoever contributes to such a key makes another one, and the hop verifies if the
\* queries are not dead.
LEMMA BridgedHopAccepted ==
    ASSUME NEW p, GoodKey(p),
           NEW delta \in Scalars \ {Zero}, NEW s \in Scalars \ {Zero}
    PROVE  LET c == Hop!Contribute(p, delta, s)
           IN  /\ GoodKey(c)
               /\ Live(p.h_query) /\ Live(p.l_query) =>
                    Live(c.h_query) /\ Live(c.l_query) /\ Hop!Verify(p, c) = "ok"
<1> DEFINE c == Hop!Contribute(p, delta, s)
           h == p.contributions
           key == Hop!PublicKey(p.delta_g1, p.cs_hash, h, delta, s)
           after == c.contributions
           d == p.delta_g1
<1>1. /\ KeyFields(c)
      /\ c.fixed_vk = p.fixed_vk /\ c.fixed_pk = p.fixed_pk /\ c.cs_hash = p.cs_hash
      /\ c.delta_g1 = Mul(d, delta) /\ c.delta_g2 = Hop!Times(p.delta_g2, delta)
      /\ c.h_query = Hop!ScaledBy(p.h_query, Inv(delta))
      /\ c.l_query = Hop!ScaledBy(p.l_query, Inv(delta))
      /\ after = Append(h, key)
    BY ContributeFields DEF GoodKey
<1>2. /\ d \in Scalars \ {Zero} /\ p.delta_g2 = [base |-> << >>, exp |-> d] /\ IsSeq(h)
      /\ p.h_query \in Seq(Scalars) /\ p.l_query \in Seq(Scalars)
    BY DEF GoodKey
<1>3. Mul(d, delta) \in Scalars \ {Zero}
    BY <1>2, NonZero
<1>4. c.delta_g2 = [base |-> << >>, exp |-> Mul(d, delta)]
    BY <1>1, <1>2 DEF Hop!Times
<1>5. /\ IsSeq(after) /\ Len(h) \in Nat /\ Len(after) = Len(h) + 1
      /\ after[Len(h) + 1] = key /\ SubSeq(after, 1, Len(h)) = h
    <2>1. Len(h) \in 0..Len(h) /\ SubSeq(Append(h, key), 1, Len(h)) = SubSeq(h, 1, Len(h))
        BY <1>2, AppendFacts
    <2> QED BY <1>1, <1>2, <2>1, AppendFacts
<1>6. Hop!TranscriptVerifies(p.cs_hash, after)
    <2>1. d = IF h = << >> THEN One ELSE h[Len(h)].delta_after
        BY DEF GoodKey, LastDelta
    <2>2. Hop!TranscriptVerifies(p.cs_hash, Append(h, key))
        BY <1>2, <2>1, TranscriptGrows DEF GoodKey
    <2> QED BY <1>1, <2>2
<1>7. key.delta_after = Mul(d, delta)
    BY DEF Hop!PublicKey
<1>8. /\ c.h_query \in Seq(Scalars) /\ c.l_query \in Seq(Scalars)
      /\ Live(p.h_query) => Live(c.h_query) /\ Hop!QueryRescaled(p, c, p.h_query, c.h_query)
      /\ Live(p.l_query) => Live(c.l_query) /\ Hop!QueryRescaled(p, c, p.l_query, c.l_query)
    <2> HIDE DEF c, d
    <2>1. ASSUME NEW q \in Seq(Scalars)
          PROVE  /\ Hop!ScaledBy(q, Inv(delta)) \in Seq(Scalars)
                 /\ Live(q) => /\ Live(Hop!ScaledBy(q, Inv(delta)))
                               /\ Hop!QueryRescaled(p, c, q, Hop!ScaledBy(q, Inv(delta)))
        BY <1>2, <1>4, DividedIsRescaled
    <2> QED BY <1>1, <1>2, <2>1
<1> HIDE DEF c, key, d
<1>9. after # << >>
    BY <1>5
<1>10. LastDelta(c) = c.delta_g1
    BY <1>1, <1>5, <1>7, <1>9 DEF LastDelta
<1>11. GoodKey(c)
    BY <1>1, <1>3, <1>4, <1>5, <1>6, <1>8, <1>10 DEF GoodKey
<1>12. Hop!DeltaIsLast(c)
    <2>1. after[Len(after)].delta_after = c.delta_g1
        BY <1>1, <1>5, <1>7
    <2>2. /\ One # Zero /\ Mul(One, c.delta_g1) = c.delta_g1 /\ Mul(c.delta_g1, One) = c.delta_g1
        BY <1>1, <1>3, FieldAssumption
    <2>3. Hop!CheckSameRatio(<<Hop!G1, c.delta_g1>>, <<Hop!G2, c.delta_g2>>)
        BY <1>1, <1>3, <1>4, <2>2 DEF Hop!CheckSameRatio, Hop!Pairing, Hop!G1, Hop!G2
    <2> QED BY <2>1, <2>3 DEF Hop!DeltaIsLast
<1>13. Hop!KeepsContributions(p, c) /\ ~ Len(after) < Len(h)
    BY <1>5 DEF Hop!KeepsContributions
<1>14. ASSUME Live(p.h_query), Live(p.l_query)
       PROVE  Hop!Verify(p, c) = "ok"
    <2>1. Hop!KeepsFixedParts(p, c) /\ Hop!QueriesRescaled(p, c)
        BY <1>1, <1>8, <1>14 DEF Hop!KeepsFixedParts, Hop!QueriesRescaled
    <2> QED BY <1>6, <1>9, <1>12, <1>13, <2>1 DEF Hop!Verify
<1> QED BY <1>8, <1>11, <1>14 DEF c

\* The key of the bridge, and what phase 2 has made of it, can be gone on with; once
\* anybody has contributed to phase 1, its queries are not dead.
HopInv == HasKey =>
    /\ GoodKey(params)
    /\ chain # << >> => Live(params.h_query) /\ Live(params.l_query)

\* What the bridge makes of the last accumulator.
LEMMA BridgedKeyIsGood ==
    ASSUME IndependentSecrets, LiveKeys, SetupInv, HonestInv, CountInv,
           ~ AccumulatorTooSmall(LastState), ~ SliceOutOfRange(LastState)
    PROVE  LET p == ParamsOf(FromPhase1(LastState))
           IN  /\ GoodKey(p)
               /\ chain # << >> => Live(p.h_query) /\ Live(p.l_query)
<1> DEFINE acc == LastState
           key == FromPhase1(acc)
           p == ParamsOf(key)
           product == [name \in Personalizations |-> ProductAlong(chain, name)]
           one == ContributePowers(NewAccumulator(DomainSize + 1), product)
<1>1. Readable(acc) /\ IsPowersOfTau(acc) /\ NoZeros(acc)
    <2>1. Len(states) \in 1..Len(states) /\ DOMAIN states = 1..Len(states)
        BY LenProperties, EmptySeq DEF SetupInv, StatesOK
    <2>2. Readable(states[Len(states)]) /\ IsPowersOfTau(states[Len(states)])
        BY <2>1 DEF SetupInv, StatesOK, PowersOfOneTau
    <2> QED BY <2>2 DEF LastState, HonestInv, ChainVerified
<1>2. \A name \in Personalizations : product[name] = FirstOf(acc, name)
    BY ProductsSuffice DEF EachSecretCountsOnce, FirstOf, Personalizations
<1>3. ReadableForKey(acc) /\ SameForKey(acc, one)
    <2> HIDE DEF product, acc
    <2> QED BY <1>1, <1>2, AsIfOneContributed DEF acc
<1>4. key.h_query \in Seq(Scalars) /\ key.l_query \in Seq(Scalars)
    BY <1>3, BridgedQueries
<1>5. ASSUME chain # << >> PROVE Live(key.h_query) /\ Live(key.l_query)
    <2>1. chain \in LineUps
        BY IsLineUp DEF CountInv, ProductsOK, IndependentSecrets
    <2>2. Live(FromPhase1(one).h_query) /\ Live(FromPhase1(one).l_query)
        BY <1>5, <2>1 DEF LiveKeys
    <2> HIDE DEF acc, one
    <2> QED BY <1>3, <2>2, SameQueries
<1>6. key.delta_g1 = One /\ key.delta_g2 = [base |-> << >>, exp |-> One]
    BY DEF FromPhase1, G1, G2
<1> HIDE DEF key
<1>7. /\ p.delta_g1 = key.delta_g1 /\ p.delta_g2 = key.delta_g2
      /\ p.h_query = key.h_query /\ p.l_query = key.l_query /\ p.contributions = << >>
      /\ KeyFields(p)
    BY DEF ParamsOf, KeyFields
<1> HIDE DEF p
<1>8. One \in Scalars \ {Zero}
    BY FieldAssumption
<1>9. IsSeq(<< >>) /\ Hop!TranscriptVerifies(p.cs_hash, << >>)
    <2>1. << >> \in Seq({})
        OBVIOUS
    <2> QED BY <2>1 DEF IsSeq, Hop!TranscriptVerifies
<1>10. GoodKey(p)
    BY <1>4, <1>6, <1>7, <1>8, <1>9 DEF GoodKey, LastDelta
<1> QED BY <1>5, <1>7, <1>10 DEF p, key

LEMMA HopInit == Init => HopInv
BY DEF Init, HopInv, HasKey

LEMMA HopStep ==
    IndependentSecrets /\ LiveKeys /\ SetupInv /\ HonestInv /\ CountInv /\ HopInv /\ [Next]_vars
        => HopInv'
<1> SUFFICES ASSUME IndependentSecrets, LiveKeys, SetupInv, HonestInv, CountInv, HopInv,
                    [Next]_vars
             PROVE  HopInv'
    OBVIOUS
<1>1. ASSUME UNCHANGED params, params = NoParams PROVE HopInv'
    BY <1>1 DEF HopInv, HasKey
<1>2. ASSUME NEW c \in Contributors, MakeOffer(c) PROVE HopInv'
    BY <1>1, <1>2 DEF MakeOffer
<1>3. ASSUME NEW c \in Contributors, Accept(c) PROVE HopInv'
    BY <1>1, <1>3 DEF Accept
<1>4. ASSUME NEW c \in Contributors, ContributeDelta(c) PROVE HopInv'
    <2>1. HasKey /\ params' = Contribution(c) /\ UNCHANGED chain
        BY <1>4 DEF ContributeDelta
    <2>2. Secrets[c].delta \in Scalars \ {Zero} /\ Points[c].delta \in Scalars \ {Zero}
        BY ContributorsAssumption
    <2>3. GoodKey(params)
        BY <2>1 DEF HopInv
    <2>4. GoodKey(params') /\ (chain # << >> => Live(params'.h_query) /\ Live(params'.l_query))
        BY <2>1, <2>2, <2>3, BridgedHopAccepted DEF HopInv, Contribution
    <2> QED BY <2>1, <2>4 DEF HopInv
<1>5. CASE BridgePhases
    <2>1. CASE AccumulatorTooSmall(LastState)
        BY <1>5, <2>1 DEF BridgePhases, HopInv, HasKey
    <2>2. CASE ~ AccumulatorTooSmall(LastState)
        <3>1. /\ ~ SliceOutOfRange(LastState) /\ UNCHANGED chain
              /\ params' = ParamsOf(FromPhase1(LastState))
            BY <1>5, <2>2 DEF BridgePhases
        <3> QED BY <2>2, <3>1, BridgedKeyIsGood DEF HopInv
    <2> QED BY <2>1, <2>2
<1>6. CASE UNCHANGED vars
    BY <1>6 DEF vars, HopInv, HasKey
<1> QED BY <1>2, <1>3, <1>4, <1>5, <1>6 DEF Next

LEMMA HopSuffices == HopInv => BridgedHopVerifies
<1> SUFFICES ASSUME HopInv, HasKey, chain # << >>, NEW c \in Contributors
             PROVE  Hop!Verify(params, Contribution(c)) = "ok"
    BY DEF BridgedHopVerifies
<1>1. Secrets[c].delta \in Scalars \ {Zero} /\ Points[c].delta \in Scalars \ {Zero}
    BY ContributorsAssumption
<1> QED BY <1>1, BridgedHopAccepted DEF HopInv, Contribution

\* Whoever contributes to phase 2 after at least one contribution to phase 1 is accepted,
\* for every circuit, every commutative field with a domain for it and any contributors
\* whose draws are good ones.
THEOREM BridgedHopsVerify ==
    ASSUME IndependentSecrets, LiveKeys PROVE Spec => []BridgedHopVerifies
<1> DEFINE Inv1 == SetupInv /\ HonestInv /\ CountInv /\ HopInv
<1>1. Init => Inv1
    BY InitEstablishes, HonestInit, CountInit, HopInit
<1>2. Inv1 /\ [Next]_vars => Inv1'
    BY StepPreserves, HonestStep, CountStep, HopStep
<1> QED BY <1>1, <1>2, HopSuffices, PTL DEF Spec

----------------------------------------------------------------------------
(* Sums over pairs.                                                        *)

\* A sum over two sets without a common element.
LEMMA SumOfUnion ==
    ASSUME NEW f, NEW S, NEW T, S \cap T = {}, ScalarOn(f, S), ScalarOn(f, T)
    PROVE  SumOver(f, S \cup T) = Add(SumOver(f, S), SumOver(f, T)) /\ ScalarOn(f, S \cup T)
<1> DEFINE P == {t \in SUBSET T : SumOver(f, S \cup t) = Add(SumOver(f, S), SumOver(f, t))}
<1>1. ScalarOn(f, S \cup T)
    <2>1. IsFiniteSet(S \cup T)
        BY FS_Union DEF ScalarOn
    <2> QED BY <2>1 DEF ScalarOn
<1>2. {} \in P
    <2>1. SumOver(f, S) \in Scalars /\ SumOver(f, {}) = Zero
        BY SumType, SumOfNone
    <2>2. Add(SumOver(f, S), Zero) = SumOver(f, S) /\ S \cup {} = S
        BY <2>1, AddLaws
    <2> QED BY <2>1, <2>2
<1>3. ASSUME NEW t \in SUBSET T, NEW x \in T \ t, t \in P PROVE t \cup {x} \in P
    <2> DEFINE s == SumOver(f, S)
               r == SumOver(f, t)
               big == S \cup t
    <2>1. ScalarOn(f, big \cup {x}) /\ ScalarOn(f, t \cup {x}) /\ x \notin big /\ x \notin t
        <3>1. big \cup {x} \in SUBSET (S \cup T) /\ t \cup {x} \in SUBSET (S \cup T)
            OBVIOUS
        <3> QED BY <1>1, <3>1, ScalarOnPart
    <2>2. s \in Scalars
        BY SumType
    <2> HIDE DEF big
    <2>3. SumOver(f, big \cup {x}) = Add(f[x], SumOver(f, big)) /\ f[x] \in Scalars
        BY <2>1, SumPutsIn
    <2>4. SumOver(f, t \cup {x}) = Add(f[x], r) /\ r \in Scalars
        BY <2>1, SumPutsIn
    <2>5. SumOver(f, big) = Add(s, r)
        BY <1>3 DEF big
    <2>6. S \cup (t \cup {x}) = big \cup {x}
        BY DEF big
    <2> HIDE DEF s, r
    <2>7. Add(f[x], Add(s, r)) = Add(s, Add(f[x], r))
        BY <2>2, <2>3, <2>4, AddExchange
    <2> QED BY <2>3, <2>4, <2>5, <2>6, <2>7 DEF s
<1>4. T \in P
    <2> HIDE DEF P
    <2> QED BY <1>2, <1>3, InductionOnFiniteSet DEF ScalarOn
<1> QED BY <1>1, <1>4

\* f is the table g, indexed by pairs.
IsPaired(f, g, S, T) ==
    \A x \in S : \A y \in T : f[<<x, y>>] = g[x][y] /\ g[x][y] \in Scalars

\* A sum over pairs is a sum of sums.
LEMMA SumOverPairs ==
    ASSUME NEW S, NEW T, IsFiniteSet(S), IsFiniteSet(T), NEW f, NEW g, IsPaired(f, g, S, T),
           NEW rows, RowsAddUp(rows, g, S, T)
    PROVE  SumOver(f, S \X T) = SumOver(rows, S) /\ ScalarOn(f, S \X T) /\ ScalarOn(rows, S)
<1> DEFINE P == {s \in SUBSET S : SumOver(f, s \X T) = SumOver(rows, s) /\ IsFiniteSet(s \X T)}
<1>1. /\ \A x \in S : \A y \in T : f[<<x, y>>] = g[x][y] /\ g[x][y] \in Scalars
      /\ \A x \in S : rows[x] = SumOver(g[x], T)
    BY DEF IsPaired, RowsAddUp
<1>2. \A x \in S : ScalarOn(g[x], T)
    BY <1>1 DEF ScalarOn
<1>3. ScalarOn(rows, S)
    <2>1. \A x \in S : rows[x] \in Scalars
        BY <1>1, <1>2, SumType
    <2> QED BY <2>1 DEF ScalarOn
<1>4. \A p \in S \X T : f[p] \in Scalars
    <2>1. \A p \in S \X T : p = <<p[1], p[2]>> /\ p[1] \in S /\ p[2] \in T
        OBVIOUS
    <2> QED BY <1>1, <2>1
<1>5. {} \in P
    <2>1. {} \X T = {}
        OBVIOUS
    <2> QED BY <2>1, SumOfNone, FS_EmptySet
<1>6. ASSUME NEW s \in SUBSET S, NEW x \in S \ s, s \in P PROVE s \cup {x} \in P
    <2> DEFINE row == {x} \X T
               old == s \X T
               h == [y \in T |-> <<x, y>>]
               r == g[x]
    <2>1. (s \cup {x}) \X T = old \cup row /\ old \cap row = {}
        OBVIOUS
    <2>2. /\ h \in [T -> row] /\ \A y, z \in T : h[y] = h[z] => y = z
          /\ \A p \in row : \E y \in T : h[y] = p
          /\ \A y \in T : r[y] = f[h[y]]
        BY <1>1
    <2>3. IsFiniteSet(row)
        <3>1. \A p \in row : \E y \in T : p = h[y]
            BY <2>2
        <3>2. h \in Surjection(T, row)
            BY <2>2, <3>1 DEF Surjection
        <3> HIDE DEF row, h
        <3> QED BY <3>2, FS_Surjection
    <2>4. ScalarOn(f, row) /\ ScalarOn(f, old) /\ ScalarOn(r, T)
        <3>1. row \subseteq S \X T /\ old \subseteq S \X T
            OBVIOUS
        <3>2. IsFiniteSet(old)
            BY <1>6
        <3> HIDE DEF row, old
        <3> QED BY <1>2, <1>4, <2>3, <3>1, <3>2 DEF ScalarOn
    <2>5. SumOver(f, old) = SumOver(rows, s)
        BY <1>6
    <2>6. ScalarOn(rows, s \cup {x}) /\ x \notin s
        BY <1>3, ScalarOnPart
    <2>7. rows[x] = SumOver(r, T)
        BY <1>1
    <2> HIDE DEF row, old, h, r
    <2>8. SumOver(r, T) = SumOver(f, row)
        BY <2>2, <2>4, SumMoved
    <2>9. SumOver(f, old \cup row) = Add(SumOver(f, old), SumOver(f, row))
        BY <2>1, <2>4, SumOfUnion
    <2>10. SumOver(rows, s \cup {x}) = Add(rows[x], SumOver(rows, s))
           /\ rows[x] \in Scalars /\ SumOver(rows, s) \in Scalars
        BY <2>6, SumPutsIn
    <2>11. Add(rows[x], SumOver(rows, s)) = Add(SumOver(rows, s), rows[x])
        BY <2>10, AddLaws
    <2>12. IsFiniteSet(old \cup row)
        BY <2>4, FS_Union DEF ScalarOn
    <2> QED BY <2>1, <2>5, <2>7, <2>8, <2>9, <2>10, <2>11, <2>12
<1>7. S \in P
    <2> HIDE DEF P
    <2> QED BY <1>5, <1>6, InductionOnFiniteSet
<1> QED BY <1>3, <1>4, <1>7 DEF ScalarOn

\* h is what f and g multiply to.
AreProducts(h, f, g, S, T) == \A x \in S : \A y \in T : h[<<x, y>>] = Mul(f[x], g[y])

\* A product of sums is the sum of the products.
LEMMA SumTimesSum ==
    ASSUME NEW S, NEW T, NEW f, NEW g, ScalarOn(f, S), ScalarOn(g, T),
           NEW h, AreProducts(h, f, g, S, T), NEW U, U = S \X T
    PROVE  Mul(SumOver(f, S), SumOver(g, T)) = SumOver(h, U) /\ ScalarOn(h, U)
<1> DEFINE table == [x \in S |-> [y \in T |-> Mul(f[x], g[y])]]
           rows == [x \in S |-> SumOver(table[x], T)]
<1>1. IsPaired(h, table, S, T)
    BY AddType DEF ScalarOn, IsPaired, AreProducts
<1>2. RowsAddUp(rows, table, S, T)
    BY DEF RowsAddUp
<1>3. SumOver(f, S) \in Scalars /\ SumOver(g, T) \in Scalars
    BY SumType
<1>4. ASSUME NEW x \in S PROVE rows[x] = Mul(SumOver(g, T), f[x])
    <2> DEFINE row == table[x]
    <2>1. \A y \in T : row[y] = Mul(f[x], g[y])
        OBVIOUS
    <2>2. f[x] \in Scalars
        BY DEF ScalarOn
    <2> HIDE DEF row
    <2>3. SumOver(row, T) = Mul(f[x], SumOver(g, T))
        BY <2>1, <2>2, SumOfProducts
    <2> QED BY <1>3, <2>2, <2>3, MulLaws DEF row
<1>5. IsFiniteSet(S) /\ IsFiniteSet(T)
    BY DEF ScalarOn
<1> HIDE DEF table, rows
<1>6. SumOver(rows, S) = Mul(SumOver(g, T), SumOver(f, S))
    BY <1>3, <1>4, SumOfProducts
<1>7. SumOver(h, S \X T) = SumOver(rows, S) /\ ScalarOn(h, S \X T)
    BY <1>1, <1>2, <1>5, SumOverPairs
<1> QED BY <1>3, <1>6, <1>7, MulLaws

----------------------------------------------------------------------------
(* The product of two polynomials on the domain, and its quotient.         *)

\* The polynomial that is u on the domain, at the scalar whose powers are t.
Evaluated(t, u) == SumOver([j \in Places |-> Mul(Ifft(t)[j], u[j + 1])], Places)

ArePowers(t, tau) == tau \in Scalars /\ \A i \in 0..(2 * DomainSize - 2) : t[i + 1] = Pow(tau, i)

\* How an exponent below 2 m comes out on the domain, and what is left.
Wrap(n) == IF n < DomainSize THEN n ELSE n - DomainSize
Rest(h, n) == IF n < DomainSize THEN Zero ELSE h[n - DomainSize + 1]

\* The h_query of a key.
IsVanishing(h, t) ==
    \A i \in 1..(DomainSize - 1) : h[i] \in Scalars /\ Add(h[i], t[i]) = t[i + DomainSize]

\* The upper half of the coefficients of a product.
UpperHalf(a, b) ==
    [s \in 1..(DomainSize - 1) |->
        SumOver([j \in s..(DomainSize - 1) |-> Mul(a[j], b[DomainSize + s - 1 - j])],
                s..(DomainSize - 1))]

Pairs == Places \X Places

LEMMA PairFacts ==
    /\ IsFiniteSet(Pairs)
    /\ \A p \in Pairs : /\ p = <<p[1], p[2]>> /\ p[1] \in Places /\ p[2] \in Places
                        /\ p[1] \in Nat /\ p[2] \in Nat
                        /\ Wrap(p[1] + p[2]) \in Places
                        /\ p[1] + p[2] \in 0..(2 * DomainSize - 2)
<1> DEFINE m == DomainSize
<1>1. m \in Nat /\ Places = 0..(m - 1) /\ IsFiniteSet(Places) /\ Wrap(0) = Wrap(0)
    BY PlaceFacts DEF Places
<1>2. IsFiniteSet(Pairs)
    BY <1>1, FS_Product DEF Pairs
<1>3. ASSUME NEW p \in Pairs
      PROVE  p = <<p[1], p[2]>> /\ p[1] \in Places /\ p[2] \in Places
    BY DEF Pairs
<1>4. ASSUME NEW i \in Places, NEW k \in Places
      PROVE  i \in Nat /\ k \in Nat /\ Wrap(i + k) \in Places /\ i + k \in 0..(2 * m - 2)
    <2> HIDE DEF m
    <2> QED BY <1>1 DEF Wrap, m
<1> QED BY <1>2, <1>3, <1>4

\* Coefficients that evaluate to u and v on the domain multiply to what is u times v there.
LEMMA ProductOnDomain ==
    ASSUME NEW u, NEW v, NEW w, Full(u), Full(v), Full(w), NEW t, Full(t),
           \A l \in Places : w[l + 1] = Mul(u[l + 1], v[l + 1]),
           NEW f, \A p \in Pairs : f[p] = Mul(Mul(Ifft(u)[p[1]], Ifft(v)[p[2]]), t[Wrap(p[1] + p[2]) + 1])
    PROVE  SumOver(f, Pairs) = Evaluated(t, w)
<1> DEFINE L == Ifft(t)
           a == Ifft(u)
           b == Ifft(v)
           c == [p \in Pairs |-> Mul(a[p[1]], b[p[2]])]
           k == [l \in Places |-> [p \in Pairs |-> Pow(Omega, l * Wrap(p[1] + p[2]))]]
           inner == [l \in Places |-> [p \in Pairs |-> Mul(c[p], k[l][p])]]
           outer == [p \in Pairs |-> [l \in Places |-> Mul(L[l], k[l][p])]]
           rows == [l \in Places |-> Mul(L[l], w[l + 1])]
<1>1. \A j \in Places : L[j] \in Scalars /\ a[j] \in Scalars /\ b[j] \in Scalars
    BY IfftIs
<1>2. ASSUME NEW l \in Places, NEW p \in Pairs
      PROVE  /\ c[p] \in Scalars /\ k[l][p] \in Scalars
             /\ inner[l][p] = Mul(c[p], k[l][p]) /\ outer[p][l] = Mul(L[l], k[l][p])
             /\ k[l][p] = Mul(Pow(Omega, p[1] * l), Pow(Omega, p[2] * l))
    <2> DEFINE i == p[1]
               j == p[2]
               n == Wrap(i + j)
    <2>1. /\ i \in Places /\ j \in Places /\ n \in Places /\ i \in Nat /\ j \in Nat /\ n \in Nat
          /\ l \in Nat /\ DomainSize \in Nat
        BY PairFacts, PlaceFacts
    <2>2. Omega \in Scalars /\ Pow(Omega, DomainSize) = One
        BY DomainFacts
    <2>3. c[p] = Mul(a[i], b[j]) /\ k[l][p] = Pow(Omega, l * n)
        OBVIOUS
    <2>4. inner[l][p] = Mul(c[p], k[l][p]) /\ outer[p][l] = Mul(L[l], k[l][p])
        OBVIOUS
    <2>5. Pow(Omega, i + j) = Pow(Omega, n)
        <3>1. CASE i + j < DomainSize
            BY <3>1 DEF Wrap
        <3>2. CASE ~ (i + j < DomainSize)
            <4>1. n = i + j - DomainSize /\ n \in Nat /\ i + j = n + DomainSize
                BY <2>1, <3>2 DEF Wrap
            <4> HIDE DEF n, i, j
            <4>2. Pow(Omega, n + DomainSize) = Mul(Pow(Omega, n), Pow(Omega, DomainSize))
                  /\ Pow(Omega, n) \in Scalars
                BY <2>1, <2>2, <4>1, PowAdd, PowFacts
            <4> QED BY <2>2, <4>1, <4>2, MulLaws
        <3> QED BY <3>1, <3>2
    <2> HIDE DEF i, j, n, a, b, L, c, k
    <2>6. Pow(Omega, l * n) = Mul(Pow(Omega, i * l), Pow(Omega, j * l))
        <3>1. l * n = n * l /\ i * l + j * l = (i + j) * l /\ i + j \in Nat
              /\ i * l \in Nat /\ j * l \in Nat
            BY <2>1
        <3>2. /\ Pow(Omega, n * l) = Pow(Pow(Omega, n), l)
              /\ Pow(Omega, (i + j) * l) = Pow(Pow(Omega, i + j), l)
            BY <2>1, <2>2, <3>1, PowMul
        <3>3. Pow(Omega, i * l + j * l) = Mul(Pow(Omega, i * l), Pow(Omega, j * l))
            BY <2>2, <3>1, PowAdd
        <3> QED BY <2>5, <3>1, <3>2, <3>3
    <2>7. Pow(Omega, l * n) \in Scalars
        <3>1. l * n \in Nat
            BY <2>1
        <3> QED BY <3>1, PlaceFacts
    <2>8. c[p] \in Scalars
        BY <1>1, <2>1, <2>3, AddType
    <2> QED BY <2>3, <2>4, <2>6, <2>7, <2>8 DEF i, j
<1>3. ASSUME NEW l \in Places PROVE SumOver(inner[l], Pairs) = w[l + 1]
    <2> DEFINE at == [i \in Places |-> Mul(a[i], Pow(Omega, i * l))]
               bt == [i \in Places |-> Mul(b[i], Pow(Omega, i * l))]
               prod == inner[l]
    <2>1. ScalarOn(at, Places) /\ ScalarOn(bt, Places)
        <3>1. ASSUME NEW i \in Places PROVE at[i] \in Scalars /\ bt[i] \in Scalars
            <4>1. i * l \in Nat
                BY PlaceFacts
            <4>2. Pow(Omega, i * l) \in Scalars
                BY <4>1, PlaceFacts
            <4> QED BY <1>1, <4>2, AddType
        <3> HIDE DEF at, bt
        <3> QED BY <3>1, PlaceFacts DEF ScalarOn
    <2>2. SumOver(at, Places) = u[l + 1] /\ SumOver(bt, Places) = v[l + 1]
        <3>1. /\ \A i \in Places : at[i] = Mul(Ifft(u)[i], Pow(Omega, i * l))
              /\ \A i \in Places : bt[i] = Mul(Ifft(v)[i], Pow(Omega, i * l))
            OBVIOUS
        <3> HIDE DEF at, bt
        <3> QED BY <3>1, Inversion
    <2>3. ASSUME NEW i \in Places, NEW j \in Places PROVE prod[<<i, j>>] = Mul(at[i], bt[j])
        <3> DEFINE p == <<i, j>>
        <3>1. p \in Pairs /\ p[1] = i /\ p[2] = j
            BY DEF Pairs
        <3>2. c[p] = Mul(a[i], b[j])
            BY <3>1
        <3>3. prod[p] = Mul(c[p], Mul(Pow(Omega, i * l), Pow(Omega, j * l)))
            BY <1>2, <3>1
        <3>4. i * l \in Nat /\ j * l \in Nat
            BY PlaceFacts
        <3>5. Pow(Omega, i * l) \in Scalars /\ Pow(Omega, j * l) \in Scalars
            BY <3>4, PlaceFacts
        <3>6. a[i] \in Scalars /\ b[j] \in Scalars
            BY <1>1
        <3> HIDE DEF a, b, c, prod, p
        <3>7. Mul(Mul(a[i], b[j]), Mul(Pow(Omega, i * l), Pow(Omega, j * l))) =
              Mul(Mul(a[i], Pow(Omega, i * l)), Mul(b[j], Pow(Omega, j * l)))
            BY <3>5, <3>6, Exchange
        <3> QED BY <3>2, <3>3, <3>7 DEF p
    <2> HIDE DEF at, bt, prod
    <2>4. Mul(SumOver(at, Places), SumOver(bt, Places)) = SumOver(prod, Pairs)
        <3>1. AreProducts(prod, at, bt, Places, Places) /\ Pairs = Places \X Places
            BY <2>3 DEF AreProducts, Pairs
        <3> QED BY <2>1, <3>1, SumTimesSum
    <2> QED BY <2>2, <2>4 DEF prod
<1>4. ASSUME NEW p \in Pairs PROVE f[p] = Mul(c[p], SumOver(outer[p], Places))
    <2> DEFINE h == outer[p]
               n == Wrap(p[1] + p[2])
    <2>1. n \in Places
        BY PairFacts
    <2>2. \A l \in Places : h[l] = Mul(Ifft(t)[l], Pow(Omega, l * n))
        OBVIOUS
    <2>3. f[p] = Mul(c[p], t[n + 1])
        OBVIOUS
    <2> HIDE DEF h, n
    <2>4. SumOver(h, Places) = t[n + 1]
        BY <2>1, <2>2, Inversion
    <2> QED BY <2>3, <2>4 DEF h
<1>5. \A l \in Places : rows[l] = Mul(L[l], SumOver(inner[l], Pairs))
    BY <1>3
<1>6. Evaluated(t, w) = SumOver(rows, Places)
    BY DEF Evaluated
<1> HIDE DEF L, a, b, c, k, inner, outer, rows
<1>7. IsWeighed(rows, L, inner, Places, Pairs) /\ IsWeighed(f, c, outer, Pairs, Places)
    BY <1>4, <1>5 DEF IsWeighed
<1>8. IsFiniteSet(Places) /\ IsFiniteSet(Pairs)
    BY PlaceFacts, PairFacts
<1>9. AreWeighed(inner, outer, L, c, k, Places, Pairs)
    <2>1. \A p \in Pairs : c[p] \in Scalars
        <3>1. 0 \in Places
            BY DomainFacts DEF Places
        <3> QED BY <1>2, <3>1
    <2> QED BY <1>1, <1>2, <2>1 DEF AreWeighed
<1> QED BY <1>6, <1>7, <1>8, <1>9, SumByColumns

Upper == 1..(DomainSize - 1)

\* What is left of a product past the domain is its upper half times the vanishing part.
LEMMA UpperPart ==
    ASSUME NEW a, NEW b, NEW h, NEW f, NEW g,
           \A i \in Places : a[i] \in Scalars /\ b[i] \in Scalars,
           \A s \in Upper : h[s] \in Scalars,
           \A p \in Pairs : f[p] = Mul(Mul(a[p[1]], b[p[2]]), Rest(h, p[1] + p[2])),
           \A s \in Upper : g[s] = Mul(UpperHalf(a, b)[s], h[s])
    PROVE  SumOver(f, Pairs) = SumOver(g, Upper) /\ ScalarOn(f, Pairs) /\ ScalarOn(g, Upper)
<1> DEFINE m == DomainSize
           U == Upper \X Places
           term(s, j) == Mul(a[j], b[m + s - 1 - j])
           table == [s \in Upper |-> [j \in Places |->
                        IF s <= j THEN Mul(h[s], term(s, j)) ELSE Zero]]
           F == [p \in U |-> table[p[1]][p[2]]]
           inU == {p \in U : p[1] <= p[2]}
           inP == {p \in Pairs : p[1] + p[2] >= m}
           move == [p \in inU |-> <<p[2], m + p[1] - 1 - p[2]>>]
<1>1. m \in Nat /\ m >= 1 /\ Places = 0..(m - 1) /\ Upper = 1..(m - 1)
    BY DomainFacts DEF Places, Upper
<1>2. IsFiniteSet(Places) /\ IsFiniteSet(Upper) /\ IsFiniteSet(Pairs) /\ IsFiniteSet(U)
    <2>1. IsFiniteSet(1..(m - 1))
        BY <1>1, FS_Interval
    <2>2. IsFiniteSet(Upper) /\ IsFiniteSet(Places) /\ IsFiniteSet(Pairs)
        BY <1>1, <2>1, PlaceFacts, PairFacts
    <2> QED BY <2>2, FS_Product
<1>3. \A p \in U : p = <<p[1], p[2]>> /\ p[1] \in Upper /\ p[2] \in Places
    OBVIOUS
<1> HIDE DEF m
<1>4. ASSUME NEW s \in Upper, NEW j \in Places, s <= j
      PROVE  /\ m + s - 1 - j \in Places /\ j + (m + s - 1 - j) >= m
             /\ (j + (m + s - 1 - j)) - m + 1 = s
             /\ term(s, j) \in Scalars
    <2>1. /\ m + s - 1 - j \in Places /\ j + (m + s - 1 - j) >= m
          /\ (j + (m + s - 1 - j)) - m + 1 = s
        BY <1>1, <1>4
    <2> QED BY <2>1, AddType
<1>5. ASSUME NEW s \in Upper, NEW j \in Places
      PROVE  table[s][j] \in Scalars /\ F[<<s, j>>] = table[s][j]
    <2>1. h[s] \in Scalars /\ Zero \in Scalars
        BY AddType
    <2>2. table[s][j] \in Scalars
        <3>1. CASE s <= j
            BY <1>4, <2>1, <3>1, AddType
        <3>2. CASE ~ (s <= j)
            BY <2>1, <3>2
        <3> QED BY <3>1, <3>2
    <2>3. <<s, j>> \in U /\ <<s, j>>[1] = s /\ <<s, j>>[2] = j
        OBVIOUS
    <2> HIDE DEF table, U
    <2> QED BY <2>2, <2>3
<1>6. ASSUME NEW s \in Upper PROVE g[s] = SumOver(table[s], Places)
    <2> DEFINE row == table[s]
               part == s..(m - 1)
               terms == [j \in part |-> term(s, j)]
    <2>1. part \in SUBSET Places /\ \A j \in Places \ part : row[j] = Zero
        BY <1>1
    <2>2. \A j \in part : j \in Places /\ s <= j /\ row[j] = Mul(h[s], terms[j])
        BY <1>1
    <2>3. UpperHalf(a, b)[s] = SumOver(terms, part)
        BY DEF UpperHalf, Upper, m
    <2>4. ScalarOn(row, Places)
        BY <1>2, <1>5 DEF ScalarOn
    <2>5. ScalarOn(terms, part)
        <3>1. IsFiniteSet(part)
            BY <1>2, <2>1, FS_Subset
        <3> QED BY <1>4, <2>2, <3>1 DEF ScalarOn
    <2> HIDE DEF row, part, terms
    <2>6. SumOver(row, Places) = SumOver(row, part)
        BY <2>1, <2>4, SumOfSupport
    <2>7. h[s] \in Scalars /\ g[s] = Mul(UpperHalf(a, b)[s], h[s])
        OBVIOUS
    <2>8. SumOver(row, part) = Mul(h[s], SumOver(terms, part)) /\ SumOver(terms, part) \in Scalars
        BY <2>2, <2>5, <2>7, SumOfProducts, SumType
    <2> QED BY <2>3, <2>6, <2>7, <2>8, MulLaws DEF row
<1>7. SumOver(F, U) = SumOver(g, Upper) /\ ScalarOn(F, U) /\ ScalarOn(g, Upper)
    <2>1. IsPaired(F, table, Upper, Places) /\ RowsAddUp(g, table, Upper, Places)
        BY <1>5, <1>6 DEF IsPaired, RowsAddUp
    <2> HIDE DEF F, table
    <2> QED BY <1>2, <2>1, SumOverPairs
<1>8. ASSUME NEW p \in Pairs
      PROVE  /\ p[1] \in Places /\ p[2] \in Places /\ p = <<p[1], p[2]>>
             /\ f[p] \in Scalars
             /\ p \notin inP => f[p] = Zero
    <2>1. /\ p[1] \in Places /\ p[2] \in Places /\ p = <<p[1], p[2]>>
          /\ p[1] + p[2] \in 0..(2 * m - 2)
        BY PairFacts DEF m
    <2>2. Mul(a[p[1]], b[p[2]]) \in Scalars /\ f[p] = Mul(Mul(a[p[1]], b[p[2]]), Rest(h, p[1] + p[2]))
        BY <2>1, AddType
    <2>3. Rest(h, p[1] + p[2]) \in Scalars
        <3>1. CASE p[1] + p[2] < m
            BY <3>1, AddType DEF Rest, m
        <3>2. CASE ~ (p[1] + p[2] < m)
            <4> DEFINE n == p[1] + p[2]
            <4>1. n - m + 1 \in Upper
                BY <1>1, <2>1, <3>2
            <4>2. Rest(h, n) = h[n - m + 1]
                BY <3>2 DEF Rest, m
            <4> HIDE DEF n
            <4>3. Rest(h, n) \in Scalars
                BY <4>1, <4>2
            <4> QED BY <4>3 DEF n
        <3> QED BY <3>1, <3>2
    <2>4. p \notin inP => Rest(h, p[1] + p[2]) = Zero
        <3>1. p \notin inP => p[1] + p[2] < m
            BY <1>1, <2>1
        <3> QED BY <3>1 DEF Rest, m
    <2> QED BY <2>1, <2>2, <2>3, <2>4, AddType, MulLaws
<1>9. ScalarOn(f, Pairs)
    BY <1>2, <1>8 DEF ScalarOn
<1>10. SumOver(f, Pairs) = SumOver(f, inP) /\ ScalarOn(f, inP)
    <2>1. inP \in SUBSET Pairs /\ \A p \in Pairs \ inP : f[p] = Zero
        BY <1>8
    <2> HIDE DEF inP
    <2> QED BY <1>9, <2>1, SumOfSupport, ScalarOnPart
<1>11. SumOver(F, U) = SumOver(F, inU) /\ ScalarOn(F, inU)
    <2>1. inU \in SUBSET U
        OBVIOUS
    <2>2. ASSUME NEW p \in U, p \notin inU PROVE F[p] = Zero
        BY <1>3, <2>2
    <2> HIDE DEF inU, F, U
    <2> QED BY <1>7, <2>1, <2>2, SumOfSupport, ScalarOnPart
<1>12. SumOver(F, inU) = SumOver(f, inP)
    <2>1. ASSUME NEW p \in inU
          PROVE  /\ move[p] \in inP /\ move[p][1] = p[2] /\ move[p][2] = m + p[1] - 1 - p[2]
                 /\ F[p] = f[move[p]]
        <3> DEFINE s == p[1]
                   j == p[2]
                   k == m + s - 1 - j
                   q == <<j, k>>
        <3>1. p \in U /\ s \in Upper /\ j \in Places /\ s <= j /\ p = <<s, j>>
            BY <1>3
        <3>2. k \in Places /\ j + k >= m /\ (j + k) - m + 1 = s /\ term(s, j) \in Scalars
            BY <1>4, <3>1
        <3>3. F[p] = Mul(h[s], Mul(a[j], b[k]))
            BY <3>1
        <3>4. move[p] = q
            OBVIOUS
        <3> HIDE DEF s, k
        <3>5. q \in Pairs /\ q[1] = j /\ q[2] = k
            BY <3>1, <3>2 DEF Pairs
        <3>6. f[q] = Mul(Mul(a[j], b[k]), Rest(h, j + k))
            BY <3>5
        <3>7. Rest(h, j + k) = h[s]
            <4>1. ~ (j + k < m)
                BY <1>1, <3>1, <3>2
            <4> QED BY <3>2, <4>1 DEF Rest, m
        <3>8. Mul(h[s], Mul(a[j], b[k])) = Mul(Mul(a[j], b[k]), h[s])
            <4>1. h[s] \in Scalars /\ Mul(a[j], b[k]) \in Scalars
                BY <3>1, <3>2, AddType
            <4> QED BY <4>1, MulLaws
        <3>9. q \in inP
            BY <3>2, <3>5
        <3> HIDE DEF move, F, q, inP
        <3> QED BY <3>3, <3>4, <3>5, <3>6, <3>7, <3>8, <3>9 DEF k, s
    <2>2. ASSUME NEW x \in inU, NEW y \in inU, move[x] = move[y] PROVE x = y
        <3>1. /\ x[2] = y[2] /\ m + x[1] - 1 - x[2] = m + y[1] - 1 - y[2]
            BY <2>1, <2>2
        <3>2. /\ x = <<x[1], x[2]>> /\ y = <<y[1], y[2]>> /\ x[1] \in Upper /\ y[1] \in Upper
              /\ x[2] \in Places
            BY <1>3
        <3> HIDE DEF inU
        <3>3. x[1] = y[1]
            BY <1>1, <3>1, <3>2
        <3> QED BY <3>1, <3>2, <3>3
    <2>3. ASSUME NEW z \in inP PROVE \E x \in inU : move[x] = z
        <3> DEFINE i == z[1]
                   k == z[2]
                   s == i + k - m + 1
                   x == <<s, i>>
        <3>1. i \in Places /\ k \in Places /\ z = <<i, k>> /\ i + k >= m
            BY <1>8
        <3> HIDE DEF i, k
        <3>2. s \in Upper /\ s <= i /\ m + s - 1 - i = k
            BY <1>1, <3>1
        <3> HIDE DEF s
        <3>3. x \in inU /\ x[1] = s /\ x[2] = i
            BY <3>1, <3>2
        <3>4. move[x] = <<i, k>>
            BY <3>2, <3>3
        <3> QED BY <3>1, <3>3, <3>4
    <2>4. move \in [inU -> inP]
        BY <2>1
    <2> HIDE DEF inU, inP, move, F
    <2>5. \A x, y \in inU : move[x] = move[y] => x = y
        BY <2>2
    <2> QED BY <1>10, <1>11, <2>1, <2>3, <2>4, <2>5, SumMoved
<1> QED BY <1>7, <1>9, <1>10, <1>11, <1>12

\* What the prover counts on: where A times B is C on the domain, A times B is C and the
\* quotient times the vanishing polynomial everywhere.
LEMMA ProductAnywhere ==
    ASSUME NEW t, NEW tau, ArePowers(t, tau), NEW h, IsVanishing(h, t),
           NEW u, NEW v, NEW w, Full(u), Full(v), Full(w),
           \A l \in Places : w[l + 1] = Mul(u[l + 1], v[l + 1]),
           NEW g, \A s \in Upper : g[s] = Mul(UpperHalf(Ifft(u), Ifft(v))[s], h[s])
    PROVE  Mul(Evaluated(t, u), Evaluated(t, v)) = Add(Evaluated(t, w), SumOver(g, Upper))
<1> DEFINE m == DomainSize
           a == Ifft(u)
           b == Ifft(v)
           at == [i \in Places |-> Mul(t[i + 1], a[i])]
           bt == [i \in Places |-> Mul(t[i + 1], b[i])]
           c(p) == Mul(a[p[1]], b[p[2]])
           whole == [p \in Pairs |-> Mul(at[p[1]], bt[p[2]])]
           wrapped == [p \in Pairs |-> Mul(c(p), t[Wrap(p[1] + p[2]) + 1])]
           past == [p \in Pairs |-> Mul(c(p), Rest(h, p[1] + p[2]))]
<1>1. m \in Nat /\ m >= 1 /\ Places = 0..(m - 1) /\ Upper = 1..(m - 1) /\ IsFiniteSet(Places)
    BY DomainFacts DEF Places, Upper
<1>2. tau \in Scalars /\ \A i \in 0..(2 * m - 2) : t[i + 1] = Pow(tau, i) /\ t[i + 1] \in Scalars
    <2>1. tau \in Scalars /\ \A i \in 0..(2 * m - 2) : t[i + 1] = Pow(tau, i)
        BY DEF ArePowers
    <2>2. \A i \in 0..(2 * m - 2) : i \in Nat
        BY <1>1
    <2> QED BY <2>1, <2>2, PowFacts
<1> HIDE DEF m
<1>3. Full(t)
    <2>1. \A i \in Places : i \in 0..(2 * m - 2)
        BY <1>1
    <2> QED BY <1>2, <2>1 DEF Full
<1>4. \A i \in Places : a[i] \in Scalars /\ b[i] \in Scalars /\ t[i + 1] \in Scalars
    BY <1>3, IfftIs DEF Full
<1>5. Evaluated(t, u) = SumOver(at, Places) /\ Evaluated(t, v) = SumOver(bt, Places)
    <2> DEFINE uf == [j \in Places |-> Mul(Ifft(t)[j], u[j + 1])]
               vf == [j \in Places |-> Mul(Ifft(t)[j], v[j + 1])]
    <2>1. /\ \A j \in Places : uf[j] = Mul(Ifft(t)[j], u[j + 1])
          /\ \A j \in Places : vf[j] = Mul(Ifft(t)[j], v[j + 1])
          /\ \A i \in Places : at[i] = Mul(t[i + 1], Ifft(u)[i])
          /\ \A i \in Places : bt[i] = Mul(t[i + 1], Ifft(v)[i])
        OBVIOUS
    <2>2. Evaluated(t, u) = SumOver(uf, Places) /\ Evaluated(t, v) = SumOver(vf, Places)
        BY DEF Evaluated
    <2> HIDE DEF uf, vf, at, bt
    <2>3. SumOver(uf, Places) = SumOver(at, Places)
        BY <1>3, <2>1, TransformMoves
    <2>4. SumOver(vf, Places) = SumOver(bt, Places)
        BY <1>3, <2>1, TransformMoves
    <2> QED BY <2>2, <2>3, <2>4
<1>6. Mul(SumOver(at, Places), SumOver(bt, Places)) = SumOver(whole, Pairs)
    <2>1. ScalarOn(at, Places) /\ ScalarOn(bt, Places)
        BY <1>1, <1>4, AddType DEF ScalarOn
    <2>2. AreProducts(whole, at, bt, Places, Places) /\ Pairs = Places \X Places
        BY DEF AreProducts, Pairs
    <2> HIDE DEF at, bt, whole
    <2> QED BY <2>1, <2>2, SumTimesSum
<1>7. SumOver(past, Pairs) = SumOver(g, Upper) /\ ScalarOn(past, Pairs)
    <2>1. \A s \in Upper : h[s] \in Scalars
        BY <1>1 DEF IsVanishing, m
    <2>2. \A p \in Pairs : past[p] = Mul(Mul(a[p[1]], b[p[2]]), Rest(h, p[1] + p[2]))
        OBVIOUS
    <2>3. \A s \in Upper : g[s] = Mul(UpperHalf(a, b)[s], h[s])
        OBVIOUS
    <2> HIDE DEF a, b, past
    <2> QED BY <1>4, <2>1, <2>2, <2>3, UpperPart
<1>8. SumOver(wrapped, Pairs) = Evaluated(t, w)
    <2>1. \A p \in Pairs :
            wrapped[p] = Mul(Mul(Ifft(u)[p[1]], Ifft(v)[p[2]]), t[Wrap(p[1] + p[2]) + 1])
        OBVIOUS
    <2> HIDE DEF wrapped
    <2> QED BY <1>3, <2>1, ProductOnDomain
<1>9. ASSUME NEW p \in Pairs
      PROVE  whole[p] = Add(wrapped[p], past[p]) /\ wrapped[p] \in Scalars
    <2> DEFINE i == p[1]
               k == p[2]
               n == i + k
    <2>1. i \in Places /\ k \in Places /\ n \in 0..(2 * m - 2) /\ Wrap(n) \in Places
          /\ i \in Nat /\ k \in Nat
        BY PairFacts DEF m
    <2>2. /\ whole[p] = Mul(Mul(t[i + 1], a[i]), Mul(t[k + 1], b[k]))
          /\ wrapped[p] = Mul(Mul(a[i], b[k]), t[Wrap(n) + 1])
          /\ past[p] = Mul(Mul(a[i], b[k]), Rest(h, n))
        BY <2>1
    <2>3. a[i] \in Scalars /\ b[k] \in Scalars /\ t[i + 1] \in Scalars /\ t[k + 1] \in Scalars
          /\ t[Wrap(n) + 1] \in Scalars
        BY <1>4, <2>1
    <2>4. Mul(t[i + 1], t[k + 1]) = t[n + 1]
        <3>1. i \in 0..(2 * m - 2) /\ k \in 0..(2 * m - 2)
            BY <1>1, <2>1
        <3>2. t[i + 1] = Pow(tau, i) /\ t[k + 1] = Pow(tau, k) /\ t[n + 1] = Pow(tau, n)
            BY <1>2, <2>1, <3>1
        <3>3. Pow(tau, i + k) = Mul(Pow(tau, i), Pow(tau, k))
            BY <1>2, <2>1, PowAdd
        <3> QED BY <3>2, <3>3
    <2>5. t[n + 1] = Add(t[Wrap(n) + 1], Rest(h, n)) /\ Rest(h, n) \in Scalars
        <3>1. CASE n < m
            <4>1. Wrap(n) = n /\ Rest(h, n) = Zero
                BY <3>1 DEF Wrap, Rest, m
            <4> HIDE DEF n
            <4> QED BY <2>3, <4>1, AddLaws, AddType
        <3>2. CASE ~ (n < m)
            <4> DEFINE s == n - m + 1
            <4>1. s \in 1..(m - 1) /\ s + m = n + 1
                BY <1>1, <2>1, <3>2
            <4>2. Wrap(n) + 1 = s /\ Rest(h, n) = h[s]
                <5>1. Wrap(n) = n - m /\ Rest(h, n) = h[n - m + 1]
                    BY <3>2 DEF Wrap, Rest, m
                <5> QED BY <5>1
            <4> HIDE DEF s, n
            <4>3. h[s] \in Scalars /\ Add(h[s], t[s]) = t[s + m]
                BY <4>1 DEF IsVanishing, m
            <4>4. Add(h[s], t[s]) = Add(t[s], h[s])
                BY <2>3, <4>2, <4>3, AddLaws
            <4> QED BY <4>1, <4>2, <4>3, <4>4
        <3> QED BY <3>1, <3>2
    <2> DEFINE x == Mul(a[i], b[k])
    <2>6. x \in Scalars
        BY <2>3, AddType
    <2>7. Mul(Mul(t[i + 1], a[i]), Mul(t[k + 1], b[k])) = Mul(t[n + 1], x)
        BY <2>3, <2>4, Exchange
    <2> HIDE DEF x
    <2>8. /\ Mul(t[n + 1], x) = Mul(x, t[n + 1])
          /\ Mul(x, t[n + 1]) = Add(Mul(x, t[Wrap(n) + 1]), Mul(x, Rest(h, n)))
          /\ Mul(x, t[Wrap(n) + 1]) \in Scalars
        <3> DEFINE y == t[Wrap(n) + 1]
                   z == Rest(h, n)
        <3>1. y \in Scalars /\ z \in Scalars /\ t[n + 1] = Add(y, z)
            BY <2>3, <2>5
        <3> HIDE DEF y, z, n
        <3>2. t[n + 1] \in Scalars
            BY <3>1, AddType
        <3>3. Mul(x, Add(y, z)) = Add(Mul(x, y), Mul(x, z)) /\ Mul(x, y) \in Scalars
            BY <2>6, <3>1, Distribute, AddType
        <3>4. Mul(t[n + 1], x) = Mul(x, t[n + 1])
            BY <2>6, <3>2, MulLaws
        <3> QED BY <3>1, <3>3, <3>4 DEF y, z
    <2> HIDE DEF whole, wrapped, past, a, b, i, k, n
    <2> QED BY <2>2, <2>7, <2>8 DEF x
<1>10. ScalarOn(wrapped, Pairs)
    <2>1. IsFiniteSet(Pairs)
        BY PairFacts
    <2> HIDE DEF wrapped
    <2> QED BY <1>9, <2>1 DEF ScalarOn
<1>11. \A p \in Pairs : whole[p] = Add(wrapped[p], past[p])
    BY <1>9
<1> HIDE DEF whole, wrapped, past, at, bt
<1>12. SumOver(whole, Pairs) = Add(SumOver(wrapped, Pairs), SumOver(past, Pairs))
    BY <1>7, <1>10, <1>11, SumOfSums
<1> QED BY <1>5, <1>6, <1>7, <1>8, <1>12

----------------------------------------------------------------------------
(* The matrices of the circuit.                                            *)

Names == 0..(Variables - 1)
Rows == 0..(Constraints - 1)

\* The matrix of a name has Rows, and a scalar for every variable in each.
LEMMA MatrixFacts ==
    ASSUME NEW name \in {"a", "b", "c"}
    PROVE  /\ DOMAIN Matrices[name] = Rows
           /\ \A j \in Rows : \A v \in Names : Matrices[name][j][v] \in Scalars
           /\ IsFiniteSet(Rows) /\ IsFiniteSet(Names) /\ Rows \subseteq Places
<1>1. Matrices[name] \in [Rows -> [Names -> Scalars]]
    BY CircuitAssumption DEF Rows, Names
<1>2. /\ Constraints \in Nat /\ Variables \in Nat /\ Instances \in Nat
      /\ DomainSize \in Nat /\ DomainSize >= Constraints + Instances
    BY DomainHasRoom
<1>3. IsFiniteSet(Rows) /\ IsFiniteSet(Names)
    BY <1>2, FS_Interval DEF Rows, Names
<1>4. Rows \subseteq Places
    BY <1>2 DEF Rows, Places
<1> QED BY <1>1, <1>3, <1>4

IsAssignment(z) == DOMAIN z = Names /\ \A v \in Names : z[v] \in Scalars

\* What row j of a matrix makes of z.
RowOf(name, z, j) == SumOver([v \in Names |-> Mul(Matrices[name][j][v], z[v])], Names)

LEMMA RowType ==
    ASSUME NEW name \in {"a", "b", "c"}, NEW z, IsAssignment(z), NEW j \in Rows
    PROVE  RowOf(name, z, j) \in Scalars
<1> DEFINE f == [v \in Names |-> Mul(Matrices[name][j][v], z[v])]
<1>1. ScalarOn(f, Names)
    BY MatrixFacts, AddType DEF ScalarOn, IsAssignment
<1> HIDE DEF f
<1>2. SumOver(f, Names) \in Scalars
    BY <1>1, SumType
<1> QED BY <1>2 DEF RowOf, f

\* The matrix, accumulated on top of out: each variable's place in it.
Column(name, lagrange, out, v) ==
    Add(out[v], SumOver([j \in Rows |-> Mul(lagrange[j], Matrices[name][j][v])], Rows))

LEMMA AccumulateIs ==
    ASSUME NEW name \in {"a", "b", "c"}, NEW lagrange, NEW out, DOMAIN out = Names
    PROVE  AccumulateMatrix(Matrices[name], lagrange, out) =
                [v \in Names |-> Column(name, lagrange, out, v)]
<1>1. DOMAIN Matrices[name] = Rows
    BY MatrixFacts
<1>2. AccumulateMatrix(Matrices[name], lagrange, out) =
        [v \in Names |-> Add(out[v],
            SumOf([j \in Rows |-> Mul(lagrange[j], Matrices[name][j][v])]))]
    BY <1>1 DEF AccumulateMatrix
<1>3. ASSUME NEW v
      PROVE  SumOf([j \in Rows |-> Mul(lagrange[j], Matrices[name][j][v])]) =
             SumOver([j \in Rows |-> Mul(lagrange[j], Matrices[name][j][v])], Rows)
    BY DEF SumOf, SumOver, FoldFunction
<1> QED BY <1>2, <1>3 DEF Column

\* An assignment times an accumulated matrix: what it is accumulated on, and the rows.
LEMMA WeighedMatrix ==
    ASSUME NEW name \in {"a", "b", "c"}, NEW z, IsAssignment(z),
           NEW lagrange, \A j \in Places : lagrange[j] \in Scalars,
           NEW out, DOMAIN out = Names, \A v \in Names : out[v] \in Scalars,
           NEW f, \A v \in Names : f[v] = Mul(z[v], AccumulateMatrix(Matrices[name], lagrange, out)[v]),
           NEW g, \A v \in Names : g[v] = Mul(z[v], out[v]),
           NEW h, \A j \in Rows : h[j] = Mul(lagrange[j], RowOf(name, z, j))
    PROVE  /\ SumOver(f, Names) = Add(SumOver(g, Names), SumOver(h, Rows))
           /\ ScalarOn(f, Names) /\ ScalarOn(g, Names) /\ ScalarOn(h, Rows)
<1> DEFINE M == Matrices[name]
           k == [v \in Names |-> [j \in Rows |-> M[j][v]]]
           inner == [v \in Names |-> [j \in Rows |-> Mul(lagrange[j], M[j][v])]]
           outer == [j \in Rows |-> [v \in Names |-> Mul(z[v], M[j][v])]]
           part == [v \in Names |-> Mul(z[v], SumOver(inner[v], Rows))]
<1>1. /\ IsFiniteSet(Rows) /\ IsFiniteSet(Names) /\ Rows \subseteq Places
      /\ \A j \in Rows : \A v \in Names : M[j][v] \in Scalars
    BY MatrixFacts
<1>2. /\ \A v \in Names : z[v] \in Scalars
      /\ \A j \in Rows : lagrange[j] \in Scalars
    BY <1>1 DEF IsAssignment
<1> HIDE DEF M
<1>3. AreWeighed(inner, outer, z, lagrange, k, Names, Rows)
    BY <1>1, <1>2 DEF AreWeighed
<1>4. IsWeighed(part, z, inner, Names, Rows)
    BY DEF IsWeighed
<1>5. ASSUME NEW j \in Rows PROVE h[j] = Mul(lagrange[j], SumOver(outer[j], Names))
    <2> DEFINE x == [v \in Names |-> Mul(M[j][v], z[v])]
               y == outer[j]
    <2>1. RowOf(name, z, j) = SumOver(x, Names)
        BY DEF RowOf, M
    <2>2. \A v \in Names : x[v] = y[v]
        BY <1>1, <1>2, MulLaws
    <2> HIDE DEF x, y
    <2>3. SumOver(x, Names) = SumOver(y, Names)
        BY <1>1, <2>2, SameSums
    <2> QED BY <2>1, <2>3 DEF y
<1>6. IsWeighed(h, lagrange, outer, Rows, Names)
    BY <1>5 DEF IsWeighed
<1>7. ASSUME NEW v \in Names
      PROVE  f[v] = Add(g[v], part[v]) /\ g[v] \in Scalars /\ part[v] \in Scalars /\ f[v] \in Scalars
    <2> DEFINE row == inner[v]
    <2>1. ScalarOn(row, Rows)
        BY <1>1, <1>2, AddType DEF ScalarOn
    <2>2. SumOver(row, Rows) \in Scalars
        <3> HIDE DEF row
        <3> QED BY <2>1, SumType
    <2>3. AccumulateMatrix(Matrices[name], lagrange, out)[v] = Add(out[v], SumOver(row, Rows))
        <3>1. Column(name, lagrange, out, v) = Add(out[v], SumOver(row, Rows))
            BY DEF Column, M
        <3>2. AccumulateMatrix(Matrices[name], lagrange, out) =
                [w \in Names |-> Column(name, lagrange, out, w)]
            BY AccumulateIs
        <3> HIDE DEF row, M
        <3> QED BY <3>1, <3>2
    <2>4. /\ part[v] = Mul(z[v], SumOver(row, Rows)) /\ g[v] = Mul(z[v], out[v])
          /\ out[v] \in Scalars /\ z[v] \in Scalars
        BY <1>2
    <2>5. f[v] = Mul(z[v], Add(out[v], SumOver(row, Rows)))
        BY <2>3
    <2> HIDE DEF row, part
    <2>6. Mul(z[v], Add(out[v], SumOver(row, Rows))) =
          Add(Mul(z[v], out[v]), Mul(z[v], SumOver(row, Rows)))
        BY <2>2, <2>4, Distribute
    <2> QED BY <2>2, <2>4, <2>5, <2>6, AddType
<1>8. ScalarOn(f, Names) /\ ScalarOn(g, Names) /\ ScalarOn(part, Names)
    <2> HIDE DEF part
    <2> QED BY <1>1, <1>7 DEF ScalarOn
<1>9. ScalarOn(h, Rows)
    <2>1. \A j \in Rows : RowOf(name, z, j) \in Scalars
        BY RowType
    <2> QED BY <1>1, <1>2, <2>1, AddType DEF ScalarOn
<1> HIDE DEF k, inner, outer, part
<1>10. SumOver(f, Names) = Add(SumOver(g, Names), SumOver(part, Names))
    BY <1>7, <1>8, SumOfSums
<1>11. SumOver(part, Names) = SumOver(h, Rows)
    BY <1>1, <1>3, <1>4, <1>6, SumByColumns
<1> QED BY <1>8, <1>9, <1>10, <1>11

\* The values of a matrix on the domain.
LEMMA ValuesAre ==
    ASSUME NEW name \in {"a", "b", "c"}, NEW z, IsAssignment(z), NEW l \in Places
    PROVE  /\ l \in Rows => Values(name, z)[l] = RowOf(name, z, l)
           /\ l \notin Rows /\ (name # "a" \/ l >= Constraints + Instances) =>
                Values(name, z)[l] = Zero
           /\ l \notin Rows /\ name = "a" /\ l < Constraints + Instances =>
                Values(name, z)[l] = z[l - Constraints] /\ l - Constraints \in 0..(Instances - 1)
           /\ Values(name, z)[l] \in Scalars
<1>1. /\ Constraints \in Nat /\ Variables \in Nat /\ Instances \in Nat /\ Instances <= Variables
      /\ DomainSize \in Nat /\ Places = 0..(DomainSize - 1)
    BY DomainHasRoom, CircuitAssumption DEF Places
<1>2. l < Constraints <=> l \in Rows
    BY <1>1 DEF Rows
<1>3. Values(name, z)[l] =
        IF l < Constraints THEN SumOf([v \in DOMAIN z |-> Mul(Matrices[name][l][v], z[v])])
        ELSE IF name = "a" /\ l < Constraints + Instances THEN z[l - Constraints]
        ELSE Zero
    BY DEF Values, Places
<1>4. SumOf([v \in DOMAIN z |-> Mul(Matrices[name][l][v], z[v])]) = RowOf(name, z, l)
    BY DEF SumOf, SumOver, FoldFunction, RowOf, IsAssignment
<1>5. CASE l \in Rows
    BY <1>2, <1>3, <1>4, <1>5, RowType
<1>6. CASE l \notin Rows /\ name = "a" /\ l < Constraints + Instances
    <2>1. l - Constraints \in 0..(Instances - 1) /\ l - Constraints \in Names
        BY <1>1, <1>2, <1>6 DEF Names
    <2> QED BY <1>1, <1>2, <1>3, <1>6, <2>1 DEF IsAssignment
<1>7. CASE l \notin Rows /\ (name # "a" \/ l >= Constraints + Instances)
    <2>1. Values(name, z)[l] = Zero
        BY <1>1, <1>2, <1>3, <1>7
    <2>2. ~ (name = "a" /\ l < Constraints + Instances)
        BY <1>1, <1>7
    <2> QED BY <1>7, <2>1, <2>2, AddType
<1>8. l < Constraints + Instances \/ l >= Constraints + Instances
    BY <1>1
<1> QED BY <1>5, <1>6, <1>7, <1>8

\* b and c times an assignment are their values times the Lagrange polynomials.
LEMMA WeighedPlain ==
    ASSUME NEW name \in {"b", "c"}, NEW z, IsAssignment(z),
           NEW lagrange, \A j \in Places : lagrange[j] \in Scalars,
           NEW f, \A v \in Names :
                f[v] = Mul(z[v], AccumulateMatrix(Matrices[name], lagrange, ZeroVector)[v]),
           NEW e, \A l \in Places : e[l] = Mul(lagrange[l], Values(name, z)[l])
    PROVE  SumOver(f, Names) = SumOver(e, Places) /\ ScalarOn(f, Names) /\ ScalarOn(e, Places)
<1> DEFINE g == [v \in Names |-> Mul(z[v], ZeroVector[v])]
<1>1. DOMAIN ZeroVector = Names /\ \A v \in Names : ZeroVector[v] = Zero /\ ZeroVector[v] \in Scalars
    BY AddType DEF ZeroVector, Names
<1>2. IsFiniteSet(Names) /\ IsFiniteSet(Rows) /\ Rows \subseteq Places /\ name \in {"a", "b", "c"}
    BY MatrixFacts
<1>3. \A l \in Rows : e[l] = Mul(lagrange[l], RowOf(name, z, l))
    BY <1>2, ValuesAre
<1>4. \A v \in Names : g[v] = Mul(z[v], ZeroVector[v]) /\ g[v] = Zero
    BY <1>1, MulLaws DEF IsAssignment
<1>5. /\ SumOver(f, Names) = Add(SumOver(g, Names), SumOver(e, Rows))
      /\ ScalarOn(f, Names) /\ ScalarOn(e, Rows)
    <2> HIDE DEF g
    <2>1. \A v \in Names : g[v] = Mul(z[v], ZeroVector[v])
        BY <1>4
    <2>2. \A v \in Names : ZeroVector[v] \in Scalars
        BY <1>1
    <2> QED BY <1>1, <1>2, <1>3, <2>1, <2>2, WeighedMatrix
<1>6. SumOver(g, Names) = Zero
    <2> HIDE DEF g
    <2> QED BY <1>2, <1>4, SumOfZeroes
<1>7. ASSUME NEW l \in Places PROVE e[l] \in Scalars /\ (l \notin Rows => e[l] = Zero)
    <2>1. /\ Values(name, z)[l] \in Scalars /\ lagrange[l] \in Scalars
          /\ l \notin Rows => Values(name, z)[l] = Zero
        BY <1>2, ValuesAre
    <2>2. e[l] = Mul(lagrange[l], Values(name, z)[l])
        OBVIOUS
    <2>3. Mul(lagrange[l], Values(name, z)[l]) \in Scalars /\ Mul(lagrange[l], Zero) = Zero
        BY <2>1, AddType, MulLaws
    <2> QED BY <2>1, <2>2, <2>3
<1>8. ScalarOn(e, Places)
    BY <1>7, PlaceFacts DEF ScalarOn
<1>9. SumOver(e, Places) = SumOver(e, Rows)
    BY <1>2, <1>7, <1>8, SumOfSupport
<1>10. Add(Zero, SumOver(e, Rows)) = SumOver(e, Rows)
    BY <1>5, SumType, AddLaws
<1> QED BY <1>5, <1>6, <1>8, <1>9, <1>10

\* And so is a, with the instance variables past the constraints.
LEMMA WeighedA ==
    ASSUME NEW z, IsAssignment(z),
           NEW lagrange, \A j \in Places : lagrange[j] \in Scalars,
           NEW f, \A v \in Names :
                f[v] = Mul(z[v], AccumulateMatrix(Matrices["a"], lagrange, InstanceBlock(lagrange))[v]),
           NEW e, \A l \in Places : e[l] = Mul(lagrange[l], Values("a", z)[l])
    PROVE  SumOver(f, Names) = SumOver(e, Places) /\ ScalarOn(f, Names) /\ ScalarOn(e, Places)
<1> DEFINE block == InstanceBlock(lagrange)
           g == [v \in Names |-> Mul(z[v], block[v])]
           Public == 0..(Instances - 1)
           Past == Constraints..(Constraints + Instances - 1)
           move == [v \in Public |-> Constraints + v]
<1>1. /\ Constraints \in Nat /\ Variables \in Nat /\ Instances \in Nat /\ Instances <= Variables
      /\ DomainSize \in Nat /\ Places = 0..(DomainSize - 1)
      /\ DomainSize >= Constraints + Instances
    BY DomainHasRoom, CircuitAssumption DEF Places
<1>2. IsFiniteSet(Names) /\ IsFiniteSet(Rows) /\ Rows \subseteq Places /\ IsFiniteSet(Places)
    BY MatrixFacts, PlaceFacts
<1>3. /\ Public \in SUBSET Names /\ Past \in SUBSET Places /\ Past \cap Rows = {}
      /\ Rows \cup Past \in SUBSET Places
      /\ \A l \in Places : l \notin Rows \cup Past => l >= Constraints + Instances
      /\ \A l \in Past : l < Constraints + Instances /\ l \notin Rows
    BY <1>1 DEF Names, Rows
<1>4. ASSUME NEW v \in Names
      PROVE  /\ block[v] \in Scalars /\ g[v] = Mul(z[v], block[v]) /\ g[v] \in Scalars
             /\ v \in Public => block[v] = lagrange[Constraints + v] /\ Constraints + v \in Past
             /\ v \notin Public => block[v] = Zero /\ g[v] = Zero
    <2>1. v \in Public <=> v < Instances
        BY <1>1 DEF Names
    <2>2. v \in Public => Constraints + v \in Past
        BY <1>1
    <2>3. block[v] = IF v < Instances THEN lagrange[Constraints + v] ELSE Zero
        BY DEF InstanceBlock, Names
    <2> HIDE DEF Public, Past, block
    <2>4. block[v] \in Scalars
        BY <1>3, <2>1, <2>2, <2>3, AddType
    <2>5. z[v] \in Scalars
        BY DEF IsAssignment
    <2> QED BY <2>1, <2>2, <2>3, <2>4, <2>5, AddType, MulLaws
<1>5. DOMAIN block = Names
    BY DEF InstanceBlock, Names
<1>6. \A l \in Rows : e[l] = Mul(lagrange[l], RowOf("a", z, l))
    BY <1>2, ValuesAre
<1>7. /\ SumOver(f, Names) = Add(SumOver(g, Names), SumOver(e, Rows))
      /\ ScalarOn(f, Names) /\ ScalarOn(g, Names) /\ ScalarOn(e, Rows)
    <2>1. /\ \A v \in Names : g[v] = Mul(z[v], block[v])
          /\ \A v \in Names : block[v] \in Scalars
          /\ \A v \in Names : f[v] = Mul(z[v], AccumulateMatrix(Matrices["a"], lagrange, block)[v])
        BY <1>4
    <2> HIDE DEF g, block
    <2> QED BY <1>5, <1>6, <2>1, WeighedMatrix
<1>8. ASSUME NEW l \in Places
      PROVE  /\ e[l] \in Scalars
             /\ l \notin Rows \cup Past => e[l] = Zero
             /\ l \in Past => /\ e[l] = Mul(lagrange[l], z[l - Constraints])
                              /\ l - Constraints \in Public
    <2>1. Values("a", z)[l] \in Scalars /\ lagrange[l] \in Scalars
        BY ValuesAre
    <2>2. l \notin Rows \cup Past => Values("a", z)[l] = Zero
        BY <1>3, ValuesAre
    <2>3. l \in Past => Values("a", z)[l] = z[l - Constraints] /\ l - Constraints \in Public
        BY <1>3, ValuesAre
    <2>4. e[l] = Mul(lagrange[l], Values("a", z)[l])
        OBVIOUS
    <2>5. Mul(lagrange[l], Values("a", z)[l]) \in Scalars /\ Mul(lagrange[l], Zero) = Zero
        BY <2>1, AddType, MulLaws
    <2> HIDE DEF Past, Public
    <2> QED BY <2>1, <2>2, <2>3, <2>4, <2>5
<1>9. ScalarOn(e, Places)
    BY <1>2, <1>8 DEF ScalarOn
<1>10. \A v \in Public : g[v] = e[move[v]]
    <2> SUFFICES ASSUME NEW v \in Public PROVE g[v] = e[move[v]]
        OBVIOUS
    <2> DEFINE l == Constraints + v
    <2>1. v \in Names /\ l \in Past /\ l - Constraints = v /\ l \in Places
        BY <1>1, <1>3
    <2>2. g[v] = Mul(z[v], lagrange[l])
        BY <1>4, <2>1
    <2>3. e[l] = Mul(lagrange[l], z[v])
        BY <1>8, <2>1
    <2>4. z[v] \in Scalars /\ lagrange[l] \in Scalars
        BY <2>1 DEF IsAssignment
    <2>5. move[v] = l
        OBVIOUS
    <2> HIDE DEF l, g, move
    <2> QED BY <2>2, <2>3, <2>4, <2>5, MulLaws
<1>11. /\ move \in [Public -> Past] /\ \A x, y \in Public : move[x] = move[y] => x = y
       /\ \A l \in Past : \E v \in Public : move[v] = l
    <2>1. move \in [Public -> Past] /\ \A x, y \in Public : move[x] = move[y] => x = y
        BY <1>1
    <2>2. ASSUME NEW l \in Past PROVE \E v \in Public : move[v] = l
        <3>1. l - Constraints \in Public /\ move[l - Constraints] = l
            BY <1>1
        <3> QED BY <3>1
    <2> QED BY <2>1, <2>2
<1>12. ScalarOn(g, Public) /\ ScalarOn(e, Past)
    <2> HIDE DEF g, Public, Past
    <2> QED BY <1>3, <1>7, <1>9, ScalarOnPart
<1>13. \A v \in Names \ Public : g[v] = Zero
    BY <1>4
<1> HIDE DEF g, Public, Past, move, block
<1>14. SumOver(g, Names) = SumOver(g, Public)
    BY <1>3, <1>7, <1>13, SumOfSupport
<1>15. SumOver(g, Public) = SumOver(e, Past)
    BY <1>10, <1>11, <1>12, SumMoved
<1>16. SumOver(e, Places) = SumOver(e, Rows \cup Past)
    BY <1>3, <1>8, <1>9, SumOfSupport
<1>17. SumOver(e, Past \cup Rows) = Add(SumOver(e, Past), SumOver(e, Rows))
    BY <1>3, <1>7, <1>12, SumOfUnion
<1>18. Past \cup Rows = Rows \cup Past
    OBVIOUS
<1> QED BY <1>7, <1>9, <1>14, <1>15, <1>16, <1>17, <1>18

----------------------------------------------------------------------------
(* What the key of the bridge adds up to.                                  *)

\* An accumulator that the bridge makes a key of.
Bridgeable(acc) ==
    /\ Readable(acc) /\ IsPowersOfTau(acc)
    /\ ~ AccumulatorTooSmall(acc) /\ ~ SliceOutOfRange(acc)

\* A row of powers is its first element times the powers of what it is multiplied by.
LEMMA RowIsPowers ==
    ASSUME NEW x \in Scalars, NEW n \in Nat, NEW u, u[1] \in Scalars,
           \A i \in 1..(n - 1) : u[i + 1] = Mul(u[i], x)
    PROVE  \A i \in 0..(n - 1) : u[i + 1] = Mul(u[1], Pow(x, i))
<1> DEFINE S == {i \in Nat : i <= n - 1 => u[i + 1] = Mul(u[1], Pow(x, i))}
<1>1. 0 \in S
    <2>1. Pow(x, 0) = One /\ Mul(u[1], One) = u[1]
        BY PowFacts, MulLaws
    <2> QED BY <2>1
<1>2. ASSUME NEW i \in Nat, i \in S PROVE i + 1 \in S
    <2> SUFFICES ASSUME i + 1 <= n - 1 PROVE u[(i + 1) + 1] = Mul(u[1], Pow(x, i + 1))
        OBVIOUS
    <2>1. i <= n - 1 /\ i + 1 \in 1..(n - 1)
        OBVIOUS
    <2>2. u[i + 1] = Mul(u[1], Pow(x, i)) /\ u[(i + 1) + 1] = Mul(u[i + 1], x)
        BY <1>2, <2>1
    <2>3. Pow(x, i) \in Scalars /\ Pow(x, i + 1) = Mul(Pow(x, i), x)
        BY PowFacts
    <2>4. Mul(Mul(u[1], Pow(x, i)), x) = Mul(u[1], Mul(Pow(x, i), x))
        BY <2>3, MulLaws
    <2> QED BY <2>2, <2>3, <2>4
<1>3. \A i \in Nat : i \in S
    <2> HIDE DEF S
    <2> QED BY <1>1, <1>2, InductionOnSet
<1> QED BY <1>3

\* The powers that the bridge reads.
LEMMA PowersRead ==
    ASSUME NEW acc, Bridgeable(acc)
    PROVE  /\ ArePowers(acc.tau_powers_g1, acc.tau_powers_g1[2]) /\ Full(acc.tau_powers_g1)
           /\ acc.alpha_tau_powers_g1[1] \in Scalars /\ acc.beta_tau_powers_g1[1] \in Scalars
           /\ \A i \in Places :
                /\ acc.alpha_tau_powers_g1[i + 1] =
                        Mul(acc.alpha_tau_powers_g1[1], acc.tau_powers_g1[i + 1])
                /\ acc.beta_tau_powers_g1[i + 1] =
                        Mul(acc.beta_tau_powers_g1[1], acc.tau_powers_g1[i + 1])
                /\ acc.tau_powers_g2[i + 1].exp = acc.tau_powers_g1[i + 1]
           /\ Places \subseteq {i \in Nat : i + 1 \in DOMAIN acc.tau_powers_g2}
           /\ acc.beta_g2.exp = acc.beta_tau_powers_g1[1]
           /\ \A i \in 1..(2 * DomainSize - 1) : acc.tau_powers_g1[i] \in Scalars
<1> DEFINE m == DomainSize
           t == acc.tau_powers_g1
           tau == t[2]
           two == acc.tau_powers_g2
           x == [i \in 1..Len(two) |-> two[i].exp]
<1>1. /\ m \in Nat /\ m >= 1 /\ Places = 0..(m - 1)
      /\ Readable(acc) /\ IsPowersOfTau(acc)
    BY DomainFacts DEF Places, Bridgeable
<1>2. /\ \A v \in VectorsG1 :
            /\ Len(acc[v]) \in Nat /\ Len(acc[v]) >= 2 /\ acc[v][1] \in Scalars
      /\ \A i \in 1..Len(t) : t[i] \in Scalars
      /\ Len(two) \in Nat /\ Len(two) >= 2 /\ DOMAIN two = 1..Len(two)
    <2>1. \A v \in VectorsG1 : 1 \in 1..Len(acc[v])
        BY <1>1, Elements
    <2> QED BY <1>1, <2>1, Elements DEF VectorsG1
<1>3. tau \in Scalars
    <2>1. 2 \in 1..Len(t)
        BY <1>2 DEF VectorsG1
    <2> QED BY <1>2, <2>1
<1>4. Len(two) >= m /\ Len(t) >= 2 * m - 1
    BY <1>1, <1>2 DEF Bridgeable, AccumulatorTooSmall, VectorsG1
<1>5. Len(acc.alpha_tau_powers_g1) >= m /\ Len(acc.beta_tau_powers_g1) >= m
    BY <1>1, <1>2 DEF Bridgeable, SliceOutOfRange, VectorsG1
<1>6. /\ t[1] = One /\ two[1] = OverG2(One)
      /\ \A v \in VectorsG1 : \A i \in 1..(Len(acc[v]) - 1) : acc[v][i + 1] = Mul(acc[v][i], tau)
      /\ \A i \in 1..(Len(two) - 1) : two[i + 1] = Times(two[i], tau)
      /\ acc.beta_g2 = OverG2(acc.beta_tau_powers_g1[1])
    BY <1>1 DEF IsPowersOfTau
<1> HIDE DEF m
<1>7. \A v \in VectorsG1 : \A i \in 0..(Len(acc[v]) - 1) : acc[v][i + 1] = Mul(acc[v][1], Pow(tau, i))
    <2> SUFFICES ASSUME NEW v \in VectorsG1
                 PROVE  \A i \in 0..(Len(acc[v]) - 1) : acc[v][i + 1] = Mul(acc[v][1], Pow(tau, i))
        OBVIOUS
    <2> DEFINE u == acc[v]
               n == Len(u)
    <2>1. n \in Nat /\ u[1] \in Scalars /\ \A i \in 1..(n - 1) : u[i + 1] = Mul(u[i], tau)
        BY <1>2, <1>6
    <2> HIDE DEF u, n, tau
    <2>2. \A i \in 0..(n - 1) : u[i + 1] = Mul(u[1], Pow(tau, i))
        BY <1>3, <2>1, RowIsPowers
    <2> QED BY <2>2 DEF u, n
<1>8. \A i \in 0..(2 * m - 2) : t[i + 1] = Pow(tau, i) /\ t[i + 1] \in Scalars
    <2> SUFFICES ASSUME NEW i \in 0..(2 * m - 2)
                 PROVE  t[i + 1] = Pow(tau, i) /\ t[i + 1] \in Scalars
        OBVIOUS
    <2>1. i \in 0..(Len(t) - 1) /\ i \in Nat
        BY <1>1, <1>2, <1>4 DEF VectorsG1
    <2>2. t[i + 1] = Mul(One, Pow(tau, i))
        BY <1>6, <1>7, <2>1 DEF VectorsG1
    <2>3. Pow(tau, i) \in Scalars
        BY <1>3, <2>1, PowFacts
    <2> QED BY <2>2, <2>3, MulLaws
<1>9. ArePowers(t, tau)
    BY <1>3, <1>8 DEF ArePowers, m
<1>10. \A i \in Places : i \in 0..(2 * m - 2) /\ i \in Nat
    BY <1>1
<1>11. Full(t)
    BY <1>8, <1>10 DEF Full
<1>12. \A i \in Places :
        /\ acc.alpha_tau_powers_g1[i + 1] = Mul(acc.alpha_tau_powers_g1[1], t[i + 1])
        /\ acc.beta_tau_powers_g1[i + 1] = Mul(acc.beta_tau_powers_g1[1], t[i + 1])
    <2> SUFFICES ASSUME NEW i \in Places
                 PROVE  /\ acc.alpha_tau_powers_g1[i + 1] = Mul(acc.alpha_tau_powers_g1[1], t[i + 1])
                        /\ acc.beta_tau_powers_g1[i + 1] = Mul(acc.beta_tau_powers_g1[1], t[i + 1])
        OBVIOUS
    <2>1. /\ i \in 0..(Len(acc.alpha_tau_powers_g1) - 1)
          /\ i \in 0..(Len(acc.beta_tau_powers_g1) - 1)
        BY <1>1, <1>2, <1>5 DEF VectorsG1
    <2>2. t[i + 1] = Pow(tau, i)
        BY <1>8, <1>10
    <2> QED BY <1>7, <2>1, <2>2 DEF VectorsG1
<1>13. \A i \in Places : two[i + 1].exp = t[i + 1] /\ i + 1 \in DOMAIN two
    <2>1. \A i \in 1..Len(two) : x[i] = two[i].exp
        OBVIOUS
    <2>2. x[1] = One
        BY <1>2, <1>6 DEF OverG2, G2
    <2>3. ASSUME NEW i \in 1..(Len(two) - 1) PROVE x[i + 1] = Mul(x[i], tau)
        <3>1. two[i + 1] = Times(two[i], tau) /\ i \in 1..Len(two) /\ i + 1 \in 1..Len(two)
            BY <1>2, <1>6
        <3>2. two[i] = OverG2(two[i].exp)
            BY <1>1, <3>1, Elements
        <3>3. two[i + 1].exp = Mul(two[i].exp, tau)
            BY <3>1, <3>2 DEF Times, OverG2, G2
        <3> QED BY <2>1, <3>1, <3>3
    <2> HIDE DEF x, tau, two, t
    <2>4. \A i \in 0..(Len(two) - 1) : x[i + 1] = Mul(x[1], Pow(tau, i))
        <3>1. x[1] \in Scalars
            BY <2>2, AddType
        <3> QED BY <1>2, <1>3, <2>3, <3>1, RowIsPowers
    <2> SUFFICES ASSUME NEW i \in Places PROVE two[i + 1].exp = t[i + 1] /\ i + 1 \in DOMAIN two
        OBVIOUS
    <2>5. i \in 0..(Len(two) - 1) /\ i + 1 \in 1..Len(two) /\ i \in 0..(2 * m - 2) /\ i \in Nat
        BY <1>1, <1>2, <1>4
    <2>6. x[i + 1] = Mul(One, Pow(tau, i)) /\ t[i + 1] = Pow(tau, i)
        BY <1>8, <2>2, <2>4, <2>5
    <2>7. Mul(One, Pow(tau, i)) = Pow(tau, i)
        BY <1>3, <2>5, PowFacts, MulLaws
    <2> QED BY <1>2, <2>1, <2>5, <2>6, <2>7
<1>14. acc.beta_g2.exp = acc.beta_tau_powers_g1[1]
    BY <1>6 DEF OverG2, G2
<1>15. \A i \in 1..(2 * m - 1) : t[i] \in Scalars
    <2> SUFFICES ASSUME NEW i \in 1..(2 * m - 1) PROVE t[i] \in Scalars
        OBVIOUS
    <2>1. i \in 1..Len(t)
        BY <1>1, <1>2, <1>4 DEF VectorsG1
    <2> QED BY <1>2, <2>1
<1> QED BY <1>2, <1>9, <1>10, <1>11, <1>12, <1>13, <1>14, <1>15 DEF VectorsG1, m

\* The transform of a multiple.
LEMMA IfftScaled ==
    ASSUME NEW u, Full(u), NEW c \in Scalars, NEW w, \A i \in Places : w[i + 1] = Mul(c, u[i + 1])
    PROVE  Full(w) /\ \A j \in Places : Ifft(w)[j] = Mul(c, Ifft(u)[j])
<1>1. Full(w)
    BY AddType DEF Full
<1>2. ASSUME NEW j \in Places PROVE Ifft(w)[j] = Mul(c, Ifft(u)[j])
    <2> DEFINE p == Terms(u, j)
               q == Terms(w, j)
    <2>1. /\ Ifft(u)[j] = Mul(Nu, SumOver(p, Places)) /\ ScalarOn(p, Places)
          /\ Ifft(w)[j] = Mul(Nu, SumOver(q, Places))
        BY <1>1, IfftIs
    <2>2. ASSUME NEW i \in Places PROVE q[i] = Mul(c, p[i])
        <3>1. q[i] = Mul(Mul(c, u[i + 1]), Pow(Theta, i * j)) /\ p[i] = Mul(u[i + 1], Pow(Theta, i * j))
            BY DEF Terms
        <3>2. u[i + 1] \in Scalars /\ Pow(Theta, i * j) \in Scalars
            BY PlaceFacts DEF Full
        <3>3. Mul(Mul(c, u[i + 1]), Pow(Theta, i * j)) = Mul(c, Mul(u[i + 1], Pow(Theta, i * j)))
            BY <3>2, MulLaws
        <3> HIDE DEF p, q
        <3> QED BY <3>1, <3>3
    <2> HIDE DEF p, q
    <2>3. SumOver(q, Places) = Mul(c, SumOver(p, Places)) /\ SumOver(p, Places) \in Scalars
        BY <2>1, <2>2, SumOfProducts, SumType
    <2>4. Nu \in Scalars
        BY PlaceFacts
    <2>5. Mul(Nu, Mul(c, SumOver(p, Places))) = Mul(c, Mul(Nu, SumOver(p, Places)))
        <3> DEFINE y == SumOver(p, Places)
        <3>1. y \in Scalars
            BY <2>3
        <3> HIDE DEF y
        <3>2. Mul(Nu, Mul(c, y)) = Mul(Mul(Nu, c), y) /\ Mul(c, Mul(Nu, y)) = Mul(Mul(c, Nu), y)
              /\ Mul(Nu, c) = Mul(c, Nu)
            BY <2>4, <3>1, MulLaws
        <3>3. Mul(Nu, Mul(c, y)) = Mul(c, Mul(Nu, y))
            BY <3>2
        <3> QED BY <3>3 DEF y
    <2> QED BY <2>1, <2>3, <2>5
<1> QED BY <1>1, <1>2

\* The values of a matrix on the domain, as a sequence.
ValuesOf(name, z) == Listed(Values(name, z), 0, DomainSize - 1)

LEMMA ValuesListed ==
    ASSUME NEW name \in {"a", "b", "c"}, NEW z, IsAssignment(z)
    PROVE  /\ Full(ValuesOf(name, z))
           /\ \A l \in Places : ValuesOf(name, z)[l + 1] = Values(name, z)[l]
<1>1. DomainSize \in Nat /\ Places = 0..(DomainSize - 1)
    BY PlaceFacts DEF Places
<1>2. ASSUME NEW l \in Places PROVE ValuesOf(name, z)[l + 1] = Values(name, z)[l]
    <2>1. l + 1 \in 1..(DomainSize - 1 - 0 + 1) /\ 0 + (l + 1) - 1 = l
        BY <1>1
    <2> QED BY <2>1 DEF ValuesOf, Listed
<1>3. \A l \in Places : Values(name, z)[l] \in Scalars
    BY ValuesAre
<1> QED BY <1>2, <1>3 DEF Full

\* A sum over the Lagrange polynomials of a multiple of the powers of tau.
LEMMA EvaluatedScaled ==
    ASSUME NEW name \in {"a", "b", "c"}, NEW z, IsAssignment(z), NEW t, Full(t),
           NEW c \in Scalars, NEW w, \A i \in Places : w[i + 1] = Mul(c, t[i + 1]),
           NEW e, \A l \in Places : e[l] = Mul(Ifft(w)[l], Values(name, z)[l])
    PROVE  /\ SumOver(e, Places) = Mul(c, Evaluated(t, ValuesOf(name, z)))
           /\ Evaluated(t, ValuesOf(name, z)) \in Scalars
<1> DEFINE f == [l \in Places |-> Mul(Ifft(t)[l], ValuesOf(name, z)[l + 1])]
<1>1. Evaluated(t, ValuesOf(name, z)) = SumOver(f, Places)
    BY DEF Evaluated
<1>2. ASSUME NEW l \in Places PROVE f[l] \in Scalars /\ e[l] = Mul(c, f[l])
    <2> DEFINE x == Ifft(t)[l]
               y == Values(name, z)[l]
    <2>1. x \in Scalars /\ y \in Scalars /\ Ifft(w)[l] = Mul(c, x)
        BY IfftIs, IfftScaled, ValuesAre
    <2>2. f[l] = Mul(x, y)
        BY ValuesListed
    <2>3. e[l] = Mul(Mul(c, x), y)
        BY <2>1
    <2> HIDE DEF f, x, y
    <2> QED BY <2>1, <2>2, <2>3, MulLaws, AddType
<1>3. ScalarOn(f, Places)
    <2> HIDE DEF f
    <2> QED BY <1>2, PlaceFacts DEF ScalarOn
<1> HIDE DEF f
<1>4. SumOver(e, Places) = Mul(c, SumOver(f, Places)) /\ SumOver(f, Places) \in Scalars
    BY <1>2, <1>3, SumOfProducts, SumType
<1> QED BY <1>1, <1>4

\* A list of a function's values, times the weights of their places.
IsListed(query, w, e, z, f, from, to) ==
    /\ query = Listed(e, from, to)
    /\ \A v \in from..to : e[v] \in Scalars /\ z[v] \in Scalars /\ f[v] = Mul(z[v], e[v])
    /\ \A i \in DOMAIN query : w[i] = z[from + i - 1]

LEMMA ListedSum ==
    ASSUME NEW from \in Nat, NEW to \in Int, from <= to + 1, NEW e, NEW z, NEW f, NEW query, NEW w,
           IsListed(query, w, e, z, f, from, to)
    PROVE  Weighted(query, w) = SumOver(f, from..to) /\ ScalarOn(f, from..to)
<1> DEFINE n == to - from + 1
           D == 1..n
           T == from..to
           g == [i \in D |-> Mul(w[i], query[i])]
           move == [i \in D |-> from + i - 1]
<1>0. /\ query = Listed(e, from, to)
      /\ \A v \in from..to : e[v] \in Scalars /\ z[v] \in Scalars /\ f[v] = Mul(z[v], e[v])
      /\ \A i \in DOMAIN query : w[i] = z[from + i - 1]
    BY DEF IsListed
<1>1. n \in Nat /\ query = [i \in D |-> e[from + i - 1]] /\ IsFiniteSet(D)
    <2>1. n \in Nat
        OBVIOUS
    <2> QED BY <1>0, <2>1, FS_Interval DEF Listed
<1>2. IsFiniteSet(T)
    BY FS_Interval
<1>3. \A i \in D : from + i - 1 \in T
    OBVIOUS
<1>4. ASSUME NEW i \in D PROVE g[i] = f[move[i]] /\ g[i] \in Scalars
    <2> DEFINE v == from + i - 1
    <2>1. v \in T /\ w[i] = z[v] /\ query[i] = e[v] /\ move[i] = v
        BY <1>0, <1>1, <1>3
    <2>2. g[i] = Mul(w[i], query[i])
        OBVIOUS
    <2> HIDE DEF v, g, move
    <2>3. z[v] \in Scalars /\ e[v] \in Scalars /\ f[v] = Mul(z[v], e[v])
        BY <1>0, <2>1
    <2> QED BY <2>1, <2>2, <2>3, AddType
<1>5. ScalarOn(f, T)
    BY <1>0, <1>2, AddType DEF ScalarOn
<1>6. /\ move \in [D -> T] /\ \A x, y \in D : move[x] = move[y] => x = y
      /\ \A v \in T : \E i \in D : move[i] = v
    <2>1. move \in [D -> T] /\ \A x, y \in D : move[x] = move[y] => x = y
        BY <1>3
    <2>2. ASSUME NEW v \in T PROVE \E i \in D : move[i] = v
        <3>1. v - from + 1 \in D /\ move[v - from + 1] = v
            OBVIOUS
        <3> QED BY <3>1
    <2> QED BY <2>1, <2>2
<1>7. Weighted(query, w) = SumOver(g, D)
    <2>1. DOMAIN query = D
        BY <1>1
    <2> QED BY <2>1 DEF Weighted, SumOf, SumOver, FoldFunction
<1> HIDE DEF D, T, g, move
<1>8. ScalarOn(g, D)
    BY <1>1, <1>4 DEF ScalarOn
<1>9. SumOver(g, D) = SumOver(f, T)
    BY <1>4, <1>5, <1>6, <1>8, SumMoved
<1> QED BY <1>5, <1>7, <1>9 DEF T

LEMMA WeightedIs ==
    ASSUME NEW query, DOMAIN query = Names, NEW z, NEW f, \A v \in Names : f[v] = Mul(z[v], query[v])
    PROVE  Weighted(query, z) = SumOver(f, Names)
<1> DEFINE g == [v \in Names |-> Mul(z[v], query[v])]
<1>1. Weighted(query, z) = SumOver(g, Names)
    BY DEF Weighted, SumOf, SumOver, FoldFunction
<1>2. \A v \in Names : g[v] = f[v]
    OBVIOUS
<1>3. IsFiniteSet(Names)
    BY MatrixFacts
<1> HIDE DEF g
<1>4. SumOver(g, Names) = SumOver(f, Names)
    BY <1>2, <1>3, SameSums
<1> QED BY <1>1, <1>4

\* The queries of a bridged key, times an assignment: the polynomials of the circuit at tau.
QueriesAddUp(key, z, a, b) ==
    /\ Weighted(key.a_query, z) = a
    /\ Weighted(key.b_g1_query, z) = b
    /\ Weighted(key.b_g2_query, z) = b

LEMMA BridgedQueriesAddUp ==
    ASSUME NEW acc, Bridgeable(acc), NEW z, IsAssignment(z)
    PROVE  QueriesAddUp(FromPhase1(acc), z, Evaluated(acc.tau_powers_g1, ValuesOf("a", z)),
                        Evaluated(acc.tau_powers_g1, ValuesOf("b", z)))
<1> DEFINE t == acc.tau_powers_g1
           L == Ifft(t)
           key == FromPhase1(acc)
<1>1. Full(t) /\ \A l \in Places : L[l] \in Scalars
    BY PowersRead, IfftIs
<1>2. Ifft(Exponents(acc.tau_powers_g2)) = L
    <2> DEFINE two == Exponents(acc.tau_powers_g2)
    <2>1. ASSUME NEW i \in 1..DomainSize PROVE two[i] = t[i]
        <3>1. i - 1 \in Places /\ (i - 1) + 1 = i
            BY PlaceFacts DEF Places
        <3> DEFINE k == i - 1
        <3>2. k \in Places /\ k + 1 = i
            BY <3>1
        <3> HIDE DEF k
        <3>3. k + 1 \in DOMAIN acc.tau_powers_g2 /\ acc.tau_powers_g2[k + 1].exp = t[k + 1]
            BY <3>2, PowersRead
        <3> QED BY <3>2, <3>3 DEF Exponents
    <2> HIDE DEF two, t
    <2>2. Ifft(two) = Ifft(t)
        BY <2>1, IfftSame
    <2> QED BY <2>2 DEF two
<1>3. /\ key.a_query = AccumulateMatrix(Matrices["a"], L, InstanceBlock(L))
      /\ key.b_g1_query = AccumulateMatrix(Matrices["b"], L, ZeroVector)
      /\ key.b_g2_query = AccumulateMatrix(Matrices["b"], L, ZeroVector)
    BY <1>2 DEF FromPhase1
<1>4. DOMAIN InstanceBlock(L) = Names /\ DOMAIN ZeroVector = Names
    BY DEF InstanceBlock, ZeroVector, Names
<1> DEFINE A == key.a_query
           B == key.b_g1_query
           fa == [v \in Names |-> Mul(z[v], A[v])]
           fb == [v \in Names |-> Mul(z[v], B[v])]
           ea == [l \in Places |-> Mul(L[l], Values("a", z)[l])]
           eb == [l \in Places |-> Mul(L[l], Values("b", z)[l])]
           va == [l \in Places |-> Mul(L[l], ValuesOf("a", z)[l + 1])]
           vb == [l \in Places |-> Mul(L[l], ValuesOf("b", z)[l + 1])]
<1>5. DOMAIN A = Names /\ DOMAIN B = Names
    BY <1>3, <1>4 DEF AccumulateMatrix
<1>6. Weighted(A, z) = SumOver(fa, Names) /\ Weighted(B, z) = SumOver(fb, Names)
    <2>1. /\ \A v \in Names : fa[v] = Mul(z[v], A[v])
          /\ \A v \in Names : fb[v] = Mul(z[v], B[v])
        OBVIOUS
    <2> HIDE DEF fa, fb, A, B
    <2> QED BY <1>5, <2>1, WeightedIs
<1>7. SumOver(fa, Names) = SumOver(ea, Places)
    <2>1. /\ \A v \in Names : fa[v] = Mul(z[v], AccumulateMatrix(Matrices["a"], L, InstanceBlock(L))[v])
          /\ \A l \in Places : ea[l] = Mul(L[l], Values("a", z)[l])
        BY <1>3
    <2> HIDE DEF fa, ea, L
    <2> QED BY <1>1, <2>1, WeighedA
<1>8. SumOver(fb, Names) = SumOver(eb, Places)
    <2>1. /\ \A v \in Names : fb[v] = Mul(z[v], AccumulateMatrix(Matrices["b"], L, ZeroVector)[v])
          /\ \A l \in Places : eb[l] = Mul(L[l], Values("b", z)[l])
        BY <1>3
    <2> HIDE DEF fb, eb, L
    <2> QED BY <1>1, <2>1, WeighedPlain
<1>9. ea = va /\ eb = vb
    BY ValuesListed
<1>10. Evaluated(t, ValuesOf("a", z)) = SumOver(va, Places)
       /\ Evaluated(t, ValuesOf("b", z)) = SumOver(vb, Places)
    BY DEF Evaluated
<1> HIDE DEF fa, fb, ea, eb, va, vb, t, key
<1> QED BY <1>3, <1>6, <1>7, <1>8, <1>9, <1>10 DEF QueriesAddUp, t, key

\* beta times A, alpha times B, and C, in two halves: of the instance variables, and of the
\* others.
LEMMA BridgedExtAddsUp ==
    ASSUME NEW acc, Bridgeable(acc), NEW z, IsAssignment(z),
           NEW public, \A i \in DOMAIN FromPhase1(acc).gamma_abc_g1 : public[i] = z[i - 1],
           NEW witness, \A i \in DOMAIN FromPhase1(acc).l_query : witness[i] = z[Instances + i - 1]
    PROVE  LET key == FromPhase1(acc)
               At(name) == Evaluated(acc.tau_powers_g1, ValuesOf(name, z))
           IN  /\ Add(Weighted(key.gamma_abc_g1, public), Weighted(key.l_query, witness)) =
                    Add(Add(Mul(acc.beta_tau_powers_g1[1], At("a")),
                            Mul(acc.alpha_tau_powers_g1[1], At("b"))),
                        At("c"))
               /\ Weighted(key.gamma_abc_g1, public) \in Scalars
               /\ Weighted(key.l_query, witness) \in Scalars
<1> DEFINE t == acc.tau_powers_g1
           alpha == acc.alpha_tau_powers_g1[1]
           beta == acc.beta_tau_powers_g1[1]
           At(name) == Evaluated(t, ValuesOf(name, z))
           LA == Ifft(acc.beta_tau_powers_g1)
           LB == Ifft(acc.alpha_tau_powers_g1)
           LC == Ifft(t)
           ma == AccumulateMatrix(Matrices["a"], LA, InstanceBlock(LA))
           mb == AccumulateMatrix(Matrices["b"], LB, ZeroVector)
           mc == AccumulateMatrix(Matrices["c"], LC, ZeroVector)
           fa == [v \in Names |-> Mul(z[v], ma[v])]
           fb == [v \in Names |-> Mul(z[v], mb[v])]
           fc == [v \in Names |-> Mul(z[v], mc[v])]
           ea == [l \in Places |-> Mul(LA[l], Values("a", z)[l])]
           eb == [l \in Places |-> Mul(LB[l], Values("b", z)[l])]
           ec == [l \in Places |-> Mul(LC[l], Values("c", z)[l])]
           fab == [v \in Names |-> Add(fa[v], fb[v])]
           ext == Ext(acc)
           f == [v \in Names |-> Mul(z[v], ext[v])]
<1>1. /\ Full(t) /\ alpha \in Scalars /\ beta \in Scalars
      /\ \A i \in Places : acc.alpha_tau_powers_g1[i + 1] = Mul(alpha, t[i + 1])
      /\ \A i \in Places : acc.beta_tau_powers_g1[i + 1] = Mul(beta, t[i + 1])
    BY PowersRead
<1>2. \A l \in Places : LA[l] \in Scalars /\ LB[l] \in Scalars /\ LC[l] \in Scalars
    <2>1. Full(acc.alpha_tau_powers_g1) /\ Full(acc.beta_tau_powers_g1)
        BY <1>1, AddType DEF Full
    <2> QED BY <1>1, <2>1, IfftIs
<1>3. /\ SumOver(fa, Names) = Mul(beta, At("a")) /\ ScalarOn(fa, Names)
    <2>1. /\ \A v \in Names : fa[v] = Mul(z[v], AccumulateMatrix(Matrices["a"], LA, InstanceBlock(LA))[v])
          /\ \A l \in Places : ea[l] = Mul(LA[l], Values("a", z)[l])
        OBVIOUS
    <2>2. SumOver(fa, Names) = SumOver(ea, Places) /\ ScalarOn(fa, Names)
        <3> HIDE DEF fa, ea, LA
        <3> QED BY <1>2, <2>1, WeighedA
    <2>3. SumOver(ea, Places) = Mul(beta, At("a"))
        <3> DEFINE w == acc.beta_tau_powers_g1
        <3>1. \A l \in Places : ea[l] = Mul(Ifft(w)[l], Values("a", z)[l])
            OBVIOUS
        <3>2. \A i \in Places : w[i + 1] = Mul(beta, t[i + 1])
            BY <1>1
        <3> HIDE DEF ea, w, t, beta
        <3> QED BY <1>1, <3>1, <3>2, EvaluatedScaled
    <2> HIDE DEF fa, ea
    <2> QED BY <2>2, <2>3
<1>4. /\ SumOver(fb, Names) = Mul(alpha, At("b")) /\ ScalarOn(fb, Names)
    <2>1. /\ \A v \in Names : fb[v] = Mul(z[v], AccumulateMatrix(Matrices["b"], LB, ZeroVector)[v])
          /\ \A l \in Places : eb[l] = Mul(LB[l], Values("b", z)[l])
        OBVIOUS
    <2>2. SumOver(fb, Names) = SumOver(eb, Places) /\ ScalarOn(fb, Names)
        <3> HIDE DEF fb, eb, LB
        <3> QED BY <1>2, <2>1, WeighedPlain
    <2>3. SumOver(eb, Places) = Mul(alpha, At("b"))
        <3> DEFINE w == acc.alpha_tau_powers_g1
        <3>1. \A l \in Places : eb[l] = Mul(Ifft(w)[l], Values("b", z)[l])
            OBVIOUS
        <3>2. \A i \in Places : w[i + 1] = Mul(alpha, t[i + 1])
            BY <1>1
        <3> HIDE DEF eb, w, t, alpha
        <3> QED BY <1>1, <3>1, <3>2, EvaluatedScaled
    <2> HIDE DEF fb, eb
    <2> QED BY <2>2, <2>3
<1>5. /\ SumOver(fc, Names) = At("c") /\ ScalarOn(fc, Names)
    <2>1. /\ \A v \in Names : fc[v] = Mul(z[v], AccumulateMatrix(Matrices["c"], LC, ZeroVector)[v])
          /\ \A l \in Places : ec[l] = Mul(LC[l], Values("c", z)[l])
        OBVIOUS
    <2>2. SumOver(fc, Names) = SumOver(ec, Places) /\ ScalarOn(fc, Names)
        <3> HIDE DEF fc, ec, LC
        <3> QED BY <1>2, <2>1, WeighedPlain
    <2>3. SumOver(ec, Places) = At("c")
        <3> DEFINE vc == [l \in Places |-> Mul(LC[l], ValuesOf("c", z)[l + 1])]
        <3>1. ec = vc
            BY ValuesListed
        <3>2. At("c") = SumOver(vc, Places)
            BY DEF Evaluated
        <3> HIDE DEF ec, vc
        <3> QED BY <3>1, <3>2
    <2> HIDE DEF fc, ec
    <2> QED BY <2>2, <2>3
<1>6. ext = [v \in Names |-> Add(Add(ma[v], mb[v]), mc[v])]
    BY DEF Ext, Names
<1>7. IsFiniteSet(Names) /\ \A v \in Names : z[v] \in Scalars
    BY MatrixFacts DEF IsAssignment
<1>8. \A v \in Names : ma[v] \in Scalars /\ mb[v] \in Scalars /\ mc[v] \in Scalars
    <2>1. /\ \A j \in 0..(Constraints - 1) : j \in Places
          /\ \A v \in 0..(Instances - 1) : Constraints + v \in Places
          /\ Instances \in Nat
        BY DomainHasRoom DEF Places
    <2>2. /\ DOMAIN ZeroVector = 0..(Variables - 1)
          /\ \A v \in 0..(Variables - 1) : ZeroVector[v] \in Scalars
        BY AddType DEF ZeroVector
    <2>3. /\ DOMAIN InstanceBlock(LA) = 0..(Variables - 1)
          /\ \A v \in 0..(Variables - 1) : InstanceBlock(LA)[v] \in Scalars
        <3>1. ASSUME NEW v \in 0..(Variables - 1) PROVE InstanceBlock(LA)[v] \in Scalars
            <4>1. v < Instances => v \in 0..(Instances - 1)
                BY <2>1
            <4>2. InstanceBlock(LA)[v] = IF v < Instances THEN LA[Constraints + v] ELSE Zero
                BY DEF InstanceBlock
            <4> HIDE DEF LA
            <4> QED BY <1>2, <2>1, <4>1, <4>2, AddType
        <3> QED BY <3>1 DEF InstanceBlock
    <2> HIDE DEF LA, LB, LC
    <2>4. \A v \in 0..(Variables - 1) : ma[v] \in Scalars
        BY <1>2, <2>1, <2>3, MatrixType
    <2>5. \A v \in 0..(Variables - 1) : mb[v] \in Scalars /\ mc[v] \in Scalars
        BY <1>2, <2>1, <2>2, MatrixType
    <2> HIDE DEF ma, mb, mc
    <2> QED BY <2>4, <2>5 DEF Names
<1> HIDE DEF ma, mb, mc, LA, LB, LC, t, alpha, beta, At
<1>9. ASSUME NEW v \in Names
      PROVE  /\ ext[v] \in Scalars
             /\ f[v] = Add(fab[v], fc[v]) /\ fab[v] = Add(fa[v], fb[v]) /\ fab[v] \in Scalars
    <2>1. ext[v] = Add(Add(ma[v], mb[v]), mc[v])
        BY <1>6
    <2>2. z[v] \in Scalars /\ ma[v] \in Scalars /\ mb[v] \in Scalars /\ mc[v] \in Scalars
          /\ Add(ma[v], mb[v]) \in Scalars
        BY <1>7, <1>8, AddType
    <2>3. /\ Mul(z[v], Add(Add(ma[v], mb[v]), mc[v])) =
                Add(Mul(z[v], Add(ma[v], mb[v])), Mul(z[v], mc[v]))
          /\ Mul(z[v], Add(ma[v], mb[v])) = Add(Mul(z[v], ma[v]), Mul(z[v], mb[v]))
        BY <2>2, Distribute
    <2>4. /\ f[v] = Mul(z[v], ext[v]) /\ fa[v] = Mul(z[v], ma[v]) /\ fb[v] = Mul(z[v], mb[v])
          /\ fc[v] = Mul(z[v], mc[v]) /\ fab[v] = Add(fa[v], fb[v])
        OBVIOUS
    <2> HIDE DEF f, fa, fb, fc, fab, ext
    <2> QED BY <2>1, <2>2, <2>3, <2>4, AddType
<1>10. ScalarOn(fab, Names)
    <2> HIDE DEF fab
    <2> QED BY <1>7, <1>9 DEF ScalarOn
<1>11. SumOver(f, Names) = Add(Add(Mul(beta, At("a")), Mul(alpha, At("b"))), At("c"))
    <2>1. \A v \in Names : f[v] = Add(fab[v], fc[v]) /\ fab[v] = Add(fa[v], fb[v])
        BY <1>9
    <2> HIDE DEF f, fa, fb, fc, fab
    <2>2. SumOver(fab, Names) = Add(SumOver(fa, Names), SumOver(fb, Names))
        BY <1>3, <1>4, <2>1, SumOfSums
    <2>3. SumOver(f, Names) = Add(SumOver(fab, Names), SumOver(fc, Names))
        BY <1>5, <1>10, <2>1, SumOfSums
    <2> QED BY <1>3, <1>4, <1>5, <2>2, <2>3
<1>12. /\ Variables \in Nat /\ Instances \in Nat /\ Instances >= 1 /\ Instances <= Variables
       /\ Names = 0..(Variables - 1)
    BY CircuitAssumption DEF Names
<1> DEFINE Public == 0..(Instances - 1)
           Private == Instances..(Variables - 1)
<1>13. /\ Public \cap Private = {} /\ Public \cup Private = Names
       /\ Public \subseteq Names /\ Private \subseteq Names
    BY <1>12
<1>14. /\ \A v \in Names : ext[v] \in Scalars /\ f[v] = Mul(z[v], ext[v])
       /\ \A v \in Names : z[v] \in Scalars
    BY <1>7, <1>9
<1>15. /\ FromPhase1(acc).gamma_abc_g1 = Listed(ext, 0, Instances - 1)
       /\ FromPhase1(acc).l_query = Listed(ext, Instances, Variables - 1)
    BY DEF FromPhase1
<1> DEFINE gamma == FromPhase1(acc).gamma_abc_g1
           l == FromPhase1(acc).l_query
<1>16. /\ \A i \in DOMAIN gamma : public[i] = z[0 + i - 1]
       /\ \A i \in DOMAIN l : witness[i] = z[Instances + i - 1]
    <2>1. \A i \in DOMAIN gamma : public[i] = z[i - 1] /\ i \in Int
        BY <1>15 DEF Listed
    <2>2. \A i \in Int : 0 + i - 1 = i - 1
        OBVIOUS
    <2> HIDE DEF gamma
    <2> QED BY <2>1, <2>2
<1> HIDE DEF ext, f, fa, fb, fc, fab, gamma, l
<1>17. Weighted(gamma, public) = SumOver(f, Public) /\ ScalarOn(f, Public)
    <2>1. 0 \in Nat /\ Instances - 1 \in Int /\ 0 <= (Instances - 1) + 1
        BY <1>12
    <2>2. IsListed(gamma, public, ext, z, f, 0, Instances - 1)
        BY <1>13, <1>14, <1>15, <1>16 DEF gamma, IsListed
    <2> QED BY <2>1, <2>2, ListedSum
<1>18. Weighted(l, witness) = SumOver(f, Private) /\ ScalarOn(f, Private)
    <2>1. Instances \in Nat /\ Variables - 1 \in Int /\ Instances <= (Variables - 1) + 1
        BY <1>12
    <2>2. IsListed(l, witness, ext, z, f, Instances, Variables - 1)
        BY <1>13, <1>14, <1>15, <1>16 DEF l, IsListed
    <2> QED BY <2>1, <2>2, ListedSum
<1> HIDE DEF Public, Private
<1>19. SumOver(f, Public \cup Private) = Add(SumOver(f, Public), SumOver(f, Private))
    BY <1>13, <1>17, <1>18, SumOfUnion
<1>20. SumOver(f, Public) \in Scalars /\ SumOver(f, Private) \in Scalars
    BY <1>17, <1>18, SumType
<1>21. SumOver(f, Names) = Add(SumOver(f, Public), SumOver(f, Private))
    BY <1>13, <1>19
<1> QED BY <1>11, <1>17, <1>18, <1>20, <1>21 DEF gamma, l, alpha, beta, At, t

----------------------------------------------------------------------------
(* The equation of a proof.                                                *)

\* Two sums of two, term by term.
LEMMA AddPairs ==
    ASSUME NEW a \in Scalars, NEW b \in Scalars, NEW c \in Scalars, NEW d \in Scalars
    PROVE  Add(Add(a, b), Add(c, d)) = Add(Add(a, c), Add(b, d))
<1>1. Add(c, d) \in Scalars /\ Add(b, d) \in Scalars
    BY AddType
<1>2. /\ Add(Add(a, b), Add(c, d)) = Add(a, Add(b, Add(c, d)))
      /\ Add(Add(a, c), Add(b, d)) = Add(a, Add(c, Add(b, d)))
    BY <1>1, AddLaws
<1>3. Add(b, Add(c, d)) = Add(c, Add(b, d))
    BY AddExchange
<1> QED BY <1>2, <1>3

\* The product of two sums.
LEMMA SumTimes ==
    ASSUME NEW a \in Scalars, NEW b \in Scalars, NEW c \in Scalars, NEW d \in Scalars
    PROVE  Mul(Add(a, b), Add(c, d)) =
                Add(Add(Mul(a, c), Mul(a, d)), Add(Mul(b, c), Mul(b, d)))
<1>1. Add(c, d) \in Scalars
    BY AddType
<1>2. Mul(Add(a, b), Add(c, d)) = Add(Mul(a, Add(c, d)), Mul(b, Add(c, d)))
    BY <1>1, Distribute
<1> QED BY <1>2, Distribute

\* What the polynomials of the circuit satisfy: the two halves X and W of the variables,
\* and the quotient Q.
AreSatisfied(alpha, beta, A, B, C, X, W, Q) ==
    /\ alpha \in Scalars /\ beta \in Scalars /\ A \in Scalars /\ B \in Scalars
    /\ C \in Scalars /\ X \in Scalars /\ W \in Scalars /\ Q \in Scalars
    /\ Add(X, W) = Add(Add(Mul(beta, A), Mul(alpha, B)), C)
    /\ Mul(A, B) = Add(C, Q)

\* What is left of the products without the blinding factors: the two halves of the
\* variables and the quotient.
LEMMA UnblindedEquation ==
    ASSUME NEW alpha, NEW beta, NEW A, NEW B, NEW C, NEW X, NEW W, NEW Q,
           AreSatisfied(alpha, beta, A, B, C, X, W, Q)
    PROVE  Mul(Add(alpha, A), Add(beta, B)) = Add(Add(Mul(alpha, beta), X), Add(W, Q))
<1> DEFINE ab == Mul(alpha, beta)
           aB == Mul(alpha, B)
           bA == Mul(beta, A)
<1>0. /\ Add(X, W) = Add(Add(Mul(beta, A), Mul(alpha, B)), C) /\ Mul(A, B) = Add(C, Q)
      /\ alpha \in Scalars /\ beta \in Scalars /\ A \in Scalars /\ B \in Scalars
      /\ C \in Scalars /\ X \in Scalars /\ W \in Scalars /\ Q \in Scalars
    BY DEF AreSatisfied
<1>1. ab \in Scalars /\ aB \in Scalars /\ bA \in Scalars /\ Add(bA, aB) \in Scalars
    BY <1>0, AddType
<1>2. Mul(Add(alpha, A), Add(beta, B)) = Add(Add(ab, aB), Add(bA, Add(C, Q)))
    <2>1. Mul(A, beta) = bA
        BY <1>0, MulLaws
    <2> QED BY <1>0, <2>1, SumTimes
<1> HIDE DEF ab, aB, bA
<1>3. Add(Add(ab, aB), Add(bA, Add(C, Q))) = Add(ab, Add(Add(bA, aB), Add(C, Q)))
    <2>1. Add(C, Q) \in Scalars /\ Add(bA, Add(C, Q)) \in Scalars
        BY <1>0, <1>1, AddType
    <2>2. Add(Add(ab, aB), Add(bA, Add(C, Q))) = Add(ab, Add(aB, Add(bA, Add(C, Q))))
        BY <1>0, <1>1, <2>1, AddLaws
    <2>3. Add(aB, Add(bA, Add(C, Q))) = Add(bA, Add(aB, Add(C, Q)))
        BY <1>0, <1>1, <2>1, AddExchange
    <2>4. Add(bA, Add(aB, Add(C, Q))) = Add(Add(bA, aB), Add(C, Q))
        BY <1>0, <1>1, <2>1, AddLaws
    <2> QED BY <2>2, <2>3, <2>4
<1>4. Add(Add(bA, aB), Add(C, Q)) = Add(Add(X, W), Q)
    <2>1. Add(Add(bA, aB), Add(C, Q)) = Add(Add(Add(bA, aB), C), Q)
        BY <1>0, <1>1, AddLaws
    <2> QED BY <1>0, <2>1 DEF aB, bA
<1>5. Add(Add(X, W), Q) = Add(X, Add(W, Q))
    BY <1>0, AddLaws
<1>6. Add(ab, Add(X, Add(W, Q))) = Add(Add(ab, X), Add(W, Q))
    <2>1. Add(W, Q) \in Scalars
        BY <1>0, AddType
    <2> QED BY <1>0, <1>1, <2>1, AddLaws
<1> QED BY <1>2, <1>3, <1>4, <1>5, <1>6 DEF ab

\* a and b, and what they make with the blinding factors.
AreBlinded(a, b, P, R, d, e, S, T, c) ==
    /\ P \in Scalars /\ R \in Scalars /\ d \in Scalars /\ e \in Scalars
    /\ S \in Scalars /\ T \in Scalars /\ c \in Scalars
    /\ a = Add(P, d) /\ b = Add(R, e)
    /\ Mul(P, R) = Add(S, T)
    /\ Add(c, Mul(d, e)) = Add(T, Add(Mul(a, e), Mul(d, b)))

\* The blinding factors: with d and e for r delta and s delta, they come and go.
LEMMA BlindedEquation ==
    ASSUME NEW a, NEW b, NEW P, NEW R, NEW d, NEW e, NEW S, NEW T, NEW c,
           AreBlinded(a, b, P, R, d, e, S, T, c)
    PROVE  Mul(a, b) = Add(S, c)
<1> DEFINE ae == Mul(a, e)
           db == Mul(d, b)
           de == Mul(d, e)
           PR == Mul(P, R)
           Pe == Mul(P, e)
<1>0. /\ a = Add(P, d) /\ b = Add(R, e) /\ PR = Add(S, T)
      /\ Add(c, de) = Add(T, Add(ae, db))
    BY DEF AreBlinded
<1>10. /\ P \in Scalars /\ R \in Scalars /\ d \in Scalars /\ e \in Scalars
      /\ S \in Scalars /\ T \in Scalars /\ c \in Scalars
    BY DEF AreBlinded
<1>1. /\ a \in Scalars /\ b \in Scalars /\ ae \in Scalars /\ db \in Scalars /\ de \in Scalars
      /\ PR \in Scalars /\ Pe \in Scalars /\ Mul(a, b) \in Scalars /\ Add(S, c) \in Scalars
    <2>1. a \in Scalars /\ b \in Scalars
        BY <1>10, <1>0, AddType
    <2> QED BY <1>10, <2>1, AddType
<1>2. Mul(a, b) = Add(Mul(P, b), db) /\ Mul(P, b) = Add(PR, Pe)
    <2>1. Mul(Add(P, d), b) = Add(Mul(P, b), Mul(d, b))
        BY <1>10, <1>1, Distribute
    <2>2. Mul(P, Add(R, e)) = Add(Mul(P, R), Mul(P, e))
        BY <1>10, <1>1, Distribute
    <2> QED BY <1>0, <2>1, <2>2
<1>3. ae = Add(Pe, de)
    BY <1>10, <1>0, Distribute
<1>4. Add(c, de) = Add(T, Add(ae, db))
    BY <1>0
<1>5. PR = Add(S, T)
    BY <1>0
<1> DEFINE ab == Mul(a, b)
<1>6. ab = Add(Add(PR, Pe), db) /\ ab \in Scalars
    BY <1>1, <1>2
<1> HIDE DEF ab, ae, db, de, PR, Pe
<1>7. Add(ab, de) = Add(PR, Add(ae, db))
    <2>1. Add(ab, de) = Add(Add(PR, Pe), Add(db, de))
        <3>1. Add(PR, Pe) \in Scalars
            BY <1>10, <1>1, AddType
        <3>2. Add(Add(Add(PR, Pe), db), de) = Add(Add(PR, Pe), Add(db, de))
            BY <1>10, <1>1, <3>1, AddLaws
        <3> QED BY <1>6, <3>2
    <2>2. Add(Add(PR, Pe), Add(db, de)) = Add(PR, Add(Pe, Add(db, de)))
        BY <1>10, <1>1, AddType, AddLaws
    <2>3. Add(Pe, Add(db, de)) = Add(db, Add(Pe, de))
        BY <1>10, <1>1, AddExchange
    <2>4. Add(db, ae) = Add(ae, db)
        BY <1>10, <1>1, AddLaws
    <2> QED BY <1>3, <2>1, <2>2, <2>3, <2>4
<1>8. Add(Add(S, c), de) = Add(PR, Add(ae, db))
    <2>1. Add(ae, db) \in Scalars
        BY <1>10, <1>1, AddType
    <2>2. Add(Add(S, c), de) = Add(S, Add(c, de))
        BY <1>10, <1>1, AddLaws
    <2>3. Add(S, Add(T, Add(ae, db))) = Add(Add(S, T), Add(ae, db))
        BY <1>10, <2>1, AddLaws
    <2> QED BY <1>4, <1>5, <2>2, <2>3
<1>9. ab = Add(S, c)
    <2>1. Add(de, ab) = Add(de, Add(S, c))
        BY <1>10, <1>1, <1>6, <1>7, <1>8, AddLaws
    <2> QED BY <1>10, <1>1, <1>6, <2>1, AddCancel
<1> QED BY <1>9 DEF ab

\* What Groth16 verifies of what it proves.
LEMMA ProofEquation ==
    ASSUME NEW alpha, NEW beta, NEW A, NEW B, NEW C, NEW X, NEW W, NEW Q,
           AreSatisfied(alpha, beta, A, B, C, X, W, Q),
           NEW delta \in Scalars, NEW r \in Scalars, NEW s \in Scalars,
           NEW l \in Scalars, Mul(l, delta) = W, NEW h \in Scalars, Mul(h, delta) = Q
    PROVE  LET a == Add(Add(alpha, A), Mul(r, delta))
               b == Add(Add(beta, B), Mul(s, delta))
               c == Sub(Add(Add(Add(l, h), Mul(s, a)), Mul(r, b)), Mul(Mul(r, s), delta))
           IN  Mul(a, b) = Add(Add(Mul(alpha, beta), X), Mul(c, delta))
<1> DEFINE P == Add(alpha, A)
           R == Add(beta, B)
           d == Mul(r, delta)
           e == Mul(s, delta)
           a == Add(P, d)
           b == Add(R, e)
           rsd == Mul(Mul(r, s), delta)
           sum == Add(Add(Add(l, h), Mul(s, a)), Mul(r, b))
           c == Sub(sum, rsd)
           S == Add(Mul(alpha, beta), X)
           T == Add(W, Q)
<1>0. /\ alpha \in Scalars /\ beta \in Scalars /\ A \in Scalars /\ B \in Scalars
      /\ C \in Scalars /\ X \in Scalars /\ W \in Scalars /\ Q \in Scalars
    BY DEF AreSatisfied
<1>1. /\ P \in Scalars /\ R \in Scalars /\ d \in Scalars /\ e \in Scalars /\ S \in Scalars
      /\ T \in Scalars /\ rsd \in Scalars
    BY <1>0, AddType
<1>2. Mul(P, R) = Add(S, T)
    <2>1. AreSatisfied(alpha, beta, A, B, C, X, W, Q)
        OBVIOUS
    <2>2. Mul(Add(alpha, A), Add(beta, B)) = Add(Add(Mul(alpha, beta), X), Add(W, Q))
        BY <2>1, UnblindedEquation
    <2> QED BY <2>2
<1> HIDE DEF P, R
<1>3. a \in Scalars /\ b \in Scalars
    BY <1>1, AddType
<1> HIDE DEF a, b
<1>4. Mul(s, a) \in Scalars /\ Mul(r, b) \in Scalars /\ Add(l, h) \in Scalars
    BY <1>3, AddType
<1>5. Add(Add(l, h), Mul(s, a)) \in Scalars /\ sum \in Scalars
    BY <1>4, AddType
<1> HIDE DEF sum, rsd
<1>6. c \in Scalars /\ Add(c, rsd) = sum
    <2>1. \A x, y \in Scalars : Sub(x, y) \in Scalars /\ Add(Sub(x, y), y) = x
        BY AdditionAssumption
    <2> QED BY <1>1, <1>5, <2>1
<1> HIDE DEF c
<1>7. Mul(sum, delta) = Add(Mul(c, delta), Mul(rsd, delta))
    BY <1>1, <1>6, Distribute
<1>8. Mul(rsd, delta) = Mul(d, e)
    <2>1. rsd = Mul(r, e)
        BY MulLaws DEF rsd
    <2>2. Mul(Mul(r, e), delta) = Mul(r, Mul(e, delta)) /\ Mul(e, delta) = Mul(delta, e)
          /\ Mul(r, Mul(delta, e)) = Mul(Mul(r, delta), e)
        BY <1>1, MulLaws
    <2> QED BY <2>1, <2>2
<1>9. Mul(sum, delta) = Add(T, Add(Mul(a, e), Mul(d, b)))
    <2>1. Mul(sum, delta) = Add(Mul(Add(Add(l, h), Mul(s, a)), delta), Mul(Mul(r, b), delta))
        BY <1>4, <1>5, Distribute DEF sum
    <2>2. Mul(Add(Add(l, h), Mul(s, a)), delta) = Add(Mul(Add(l, h), delta), Mul(Mul(s, a), delta))
        BY <1>4, Distribute
    <2>3. Mul(Add(l, h), delta) = T
        BY Distribute
    <2>4. Mul(Mul(s, a), delta) = Mul(a, e)
        <3>1. Mul(s, a) = Mul(a, s) /\ Mul(Mul(a, s), delta) = Mul(a, Mul(s, delta))
            BY <1>3, MulLaws
        <3> QED BY <3>1
    <2>5. Mul(Mul(r, b), delta) = Mul(d, b)
        <3>1. /\ Mul(Mul(r, b), delta) = Mul(r, Mul(b, delta)) /\ Mul(b, delta) = Mul(delta, b)
              /\ Mul(r, Mul(delta, b)) = Mul(Mul(r, delta), b)
            BY <1>3, MulLaws
        <3> QED BY <3>1
    <2>6. Mul(a, e) \in Scalars /\ Mul(d, b) \in Scalars
        BY <1>1, <1>3, AddType
    <2> HIDE DEF T, d, e
    <2>7. Add(Add(T, Mul(a, e)), Mul(d, b)) = Add(T, Add(Mul(a, e), Mul(d, b)))
        BY <1>1, <2>6, AddLaws
    <2> QED BY <2>1, <2>2, <2>3, <2>4, <2>5, <2>7
<1>10. Mul(c, delta) \in Scalars
    BY <1>6, AddType
<1> DEFINE q == Mul(c, delta)
<1>11. AreBlinded(a, b, P, R, d, e, S, T, q)
    BY <1>1, <1>2, <1>7, <1>8, <1>9, <1>10 DEF AreBlinded, a, b
<1> HIDE DEF S, T, d, e, q
<1>12. Mul(a, b) = Add(S, q)
    <2>1. q \in Scalars
        BY <1>10 DEF q
    <2> QED BY <1>1, <1>11, <2>1, BlindedEquation
<1> QED BY <1>12 DEF S, q, c, sum, rsd, a, b, P, R, d, e

----------------------------------------------------------------------------
(* A bridged key proves.                                                   *)

\* An assignment satisfies the circuit on the whole domain.
LEMMA SatisfiedOnDomain ==
    ASSUME NEW z \in Assignments
    PROVE  /\ IsAssignment(z)
           /\ \A l \in Places :
                ValuesOf("c", z)[l + 1] = Mul(ValuesOf("a", z)[l + 1], ValuesOf("b", z)[l + 1])
<1> DEFINE row(name, j) == SumOf([v \in DOMAIN z |-> Mul(Matrices[name][j][v], z[v])])
<1>1. /\ z \in [Names -> Scalars]
      /\ \A j \in Rows : Mul(row("a", j), row("b", j)) = row("c", j)
    BY AssignmentsAssumption DEF Names, Rows
<1>2. IsAssignment(z)
    BY <1>1 DEF IsAssignment
<1>3. \A name \in {"a", "b", "c"} : \A j \in Rows : row(name, j) = RowOf(name, z, j)
    BY <1>2 DEF SumOf, SumOver, FoldFunction, RowOf, IsAssignment
<1> HIDE DEF row
<1>4. ASSUME NEW l \in Places
      PROVE  Values("c", z)[l] = Mul(Values("a", z)[l], Values("b", z)[l])
    <2>1. CASE l \in Rows
        <3>1. \A name \in {"a", "b", "c"} : Values(name, z)[l] = row(name, l)
            BY <1>2, <1>3, <2>1, ValuesAre
        <3> QED BY <1>1, <2>1, <3>1
    <2>2. CASE l \notin Rows
        <3>1. Values("b", z)[l] = Zero /\ Values("c", z)[l] = Zero
            BY <1>2, <2>2, ValuesAre
        <3>2. Values("a", z)[l] \in Scalars
            BY <1>2, ValuesAre
        <3> QED BY <3>1, <3>2, MulLaws
    <2> QED BY <2>1, <2>2
<1>5. \A name \in {"a", "b", "c"} : \A l \in Places :
        ValuesOf(name, z)[l + 1] = Values(name, z)[l]
    BY <1>2, ValuesListed
<1> QED BY <1>2, <1>4, <1>5

\* The prover's quotient.
LEMMA QuotientIs ==
    ASSUME NEW z, IsAssignment(z)
    PROVE  /\ Quotient(z) = UpperHalf(Ifft(ValuesOf("a", z)), Ifft(ValuesOf("b", z)))
           /\ \A s \in Upper : Quotient(z)[s] \in Scalars
<1> DEFINE m == DomainSize
           a == Ifft(ValuesOf("a", z))
           b == Ifft(ValuesOf("b", z))
<1>1. m \in Nat /\ Places = 0..(m - 1)
    BY PlaceFacts DEF Places
<1>2. \A i \in Places : a[i] \in Scalars /\ b[i] \in Scalars
    BY ValuesListed, IfftIs
<1> DEFINE terms(s) == [j \in s..(m - 1) |-> Mul(a[j], b[m + s - 1 - j])]
<1>3. Quotient(z) = [s \in Upper |-> SumOf(terms(s))]
    BY DEF Quotient, Coefficients, ValuesOf, Upper
<1>4. UpperHalf(a, b) = [s \in Upper |-> SumOver(terms(s), s..(m - 1))]
    BY DEF UpperHalf, Upper
<1>5. ASSUME NEW s \in Upper
      PROVE  SumOf(terms(s)) = SumOver(terms(s), s..(m - 1)) /\ SumOf(terms(s)) \in Scalars
    <2>1. DOMAIN terms(s) = s..(m - 1) /\ s \in Nat /\ IsFiniteSet(s..(m - 1))
        BY <1>1, FS_Interval DEF Upper
    <2>2. ASSUME NEW j \in s..(m - 1) PROVE terms(s)[j] \in Scalars
        <3>1. j \in Places /\ m + s - 1 - j \in Places
            BY <1>1, <2>1 DEF Upper
        <3>2. terms(s)[j] = Mul(a[j], b[m + s - 1 - j])
            OBVIOUS
        <3> HIDE DEF terms, a, b, m
        <3> QED BY <1>2, <3>1, <3>2, AddType
    <2> HIDE DEF terms, m
    <2>3. SumOf(terms(s)) = SumOver(terms(s), s..(m - 1))
        BY <2>1 DEF SumOf, SumOver, FoldFunction
    <2>4. ScalarOn(terms(s), s..(m - 1))
        BY <2>1, <2>2 DEF ScalarOn
    <2> QED BY <2>3, <2>4, SumType
<1> HIDE DEF terms, a, b, m
<1>6. [s \in Upper |-> SumOf(terms(s))] = [s \in Upper |-> SumOver(terms(s), s..(m - 1))]
    BY <1>5
<1> QED BY <1>3, <1>4, <1>5, <1>6 DEF a, b

\* What the key of the bridge makes of an assignment.
LEMMA BridgedKeyIsSatisfied ==
    ASSUME NEW acc, Bridgeable(acc), NEW z \in Assignments,
           NEW public, \A i \in DOMAIN FromPhase1(acc).gamma_abc_g1 : public[i] = z[i - 1],
           NEW witness, \A i \in DOMAIN FromPhase1(acc).l_query : witness[i] = z[Instances + i - 1]
    PROVE  LET key == FromPhase1(acc)
           IN  /\ Weighted(key.b_g2_query, z) = Weighted(key.b_g1_query, z)
               /\ \E c : AreSatisfied(key.alpha_g1, key.beta_g1,
                        Weighted(key.a_query, z), Weighted(key.b_g1_query, z), c,
                        Weighted(key.gamma_abc_g1, public), Weighted(key.l_query, witness),
                        Weighted(key.h_query, Quotient(z)))
<1> DEFINE t == acc.tau_powers_g1
           alpha == acc.alpha_tau_powers_g1[1]
           beta == acc.beta_tau_powers_g1[1]
           key == FromPhase1(acc)
           At(name) == Evaluated(t, ValuesOf(name, z))
           H == HQueryOf(acc)
           g == [s \in Upper |-> Mul(Quotient(z)[s], H[s])]
<1>1. /\ IsAssignment(z)
      /\ \A l \in Places :
            ValuesOf("c", z)[l + 1] = Mul(ValuesOf("a", z)[l + 1], ValuesOf("b", z)[l + 1])
    BY SatisfiedOnDomain
<1>2. /\ ArePowers(t, t[2]) /\ Full(t) /\ alpha \in Scalars /\ beta \in Scalars
      /\ \A i \in 1..(2 * DomainSize - 1) : t[i] \in Scalars
    BY PowersRead
<1>3. key.alpha_g1 = alpha /\ key.beta_g1 = beta /\ key.h_query = H
    BY DEF FromPhase1
<1>4. /\ Weighted(key.a_query, z) = At("a") /\ Weighted(key.b_g1_query, z) = At("b")
      /\ Weighted(key.b_g2_query, z) = At("b")
    <2> HIDE DEF key
    <2> QED BY <1>1, BridgedQueriesAddUp DEF QueriesAddUp, key
<1>5. /\ Add(Weighted(key.gamma_abc_g1, public), Weighted(key.l_query, witness)) =
            Add(Add(Mul(beta, At("a")), Mul(alpha, At("b"))), At("c"))
      /\ Weighted(key.gamma_abc_g1, public) \in Scalars
      /\ Weighted(key.l_query, witness) \in Scalars
    BY <1>1, BridgedExtAddsUp
<1>6. DomainSize \in Nat /\ DomainSize >= 1 /\ Upper = 1..(DomainSize - 1) /\ IsFiniteSet(Upper)
    <2>1. DomainSize \in Nat /\ DomainSize >= 1
        BY DomainFacts
    <2>2. \A n \in Int : IsFiniteSet(1..n)
        BY FS_Interval
    <2>3. DomainSize - 1 \in Int
        BY <2>1
    <2> QED BY <2>1, <2>2, <2>3 DEF Upper
<1>7. DOMAIN H = Upper /\ IsVanishing(H, t) /\ \A s \in Upper : H[s] \in Scalars
    <2>1. ASSUME NEW i \in Upper
          PROVE  H[i] \in Scalars /\ Add(H[i], t[i]) = t[i + DomainSize]
        <3>1. H[i] = Sub(t[i + DomainSize], t[i])
            BY DEF HQueryOf, Upper
        <3>2. i \in 1..(2 * DomainSize - 1) /\ i + DomainSize \in 1..(2 * DomainSize - 1)
            BY <1>6
        <3>3. t[i] \in Scalars /\ t[i + DomainSize] \in Scalars
            BY <1>2, <3>2
        <3>4. \A x, y \in Scalars : Sub(x, y) \in Scalars /\ Add(Sub(x, y), y) = x
            BY AdditionAssumption
        <3> QED BY <3>1, <3>3, <3>4
    <2>2. DOMAIN H = Upper
        BY DEF HQueryOf, Upper
    <2> HIDE DEF H
    <2> QED BY <1>6, <2>1, <2>2 DEF IsVanishing
<1> HIDE DEF H
<1>8. /\ Quotient(z) = UpperHalf(Ifft(ValuesOf("a", z)), Ifft(ValuesOf("b", z)))
      /\ \A s \in Upper : Quotient(z)[s] \in Scalars
    BY <1>1, QuotientIs
<1>9. Weighted(H, Quotient(z)) = SumOver(g, Upper)
    BY <1>7 DEF Weighted, SumOf, SumOver, FoldFunction
<1>10. ScalarOn(g, Upper)
    BY <1>6, <1>7, <1>8, AddType DEF ScalarOn
<1>11. Mul(At("a"), At("b")) = Add(At("c"), SumOver(g, Upper))
    <2> DEFINE u == ValuesOf("a", z)
               v == ValuesOf("b", z)
               w == ValuesOf("c", z)
    <2>1. Full(u) /\ Full(v) /\ Full(w)
        BY <1>1, ValuesListed
    <2>2. \A s \in Upper : g[s] = Mul(UpperHalf(Ifft(u), Ifft(v))[s], H[s])
        BY <1>8
    <2>3. \A l \in Places : w[l + 1] = Mul(u[l + 1], v[l + 1])
        BY <1>1
    <2> HIDE DEF u, v, w, g, t
    <2>4. Mul(Evaluated(t, u), Evaluated(t, v)) = Add(Evaluated(t, w), SumOver(g, Upper))
        BY <1>2, <1>7, <2>1, <2>2, <2>3, ProductAnywhere
    <2> QED BY <2>4 DEF u, v, w
<1>12. At("a") \in Scalars /\ At("b") \in Scalars /\ At("c") \in Scalars
    <2>1. \A name \in {"a", "b", "c"} : Full(ValuesOf(name, z))
        BY <1>1, ValuesListed
    <2>2. ASSUME NEW name \in {"a", "b", "c"} PROVE At(name) \in Scalars
        <3> DEFINE f == [j \in Places |-> Mul(Ifft(t)[j], ValuesOf(name, z)[j + 1])]
        <3>1. At(name) = SumOver(f, Places)
            BY DEF Evaluated
        <3>2. ScalarOn(f, Places)
            BY <1>2, <2>1, IfftIs, PlaceFacts, AddType DEF ScalarOn, Full
        <3> HIDE DEF f
        <3> QED BY <3>1, <3>2, SumType
    <2> HIDE DEF At
    <2> QED BY <2>2
<1>13. SumOver(g, Upper) \in Scalars
    BY <1>10, SumType
<1> HIDE DEF g, At, alpha, beta, key
<1>14. AreSatisfied(key.alpha_g1, key.beta_g1,
            Weighted(key.a_query, z), Weighted(key.b_g1_query, z), At("c"),
            Weighted(key.gamma_abc_g1, public), Weighted(key.l_query, witness),
            Weighted(key.h_query, Quotient(z)))
    BY <1>2, <1>3, <1>4, <1>5, <1>9, <1>11, <1>12, <1>13 DEF AreSatisfied
<1> QED BY <1>4, <1>14 DEF key

\* A query is another one divided by delta.
DividedBy(query, delta, original) ==
    /\ DOMAIN query = DOMAIN original
    /\ \A i \in DOMAIN original : query[i] \in Scalars /\ Mul(query[i], delta) = original[i]

LEMMA WeightedDivided ==
    ASSUME NEW query, NEW original, NEW delta \in Scalars, DividedBy(query, delta, original),
           IsFiniteSet(DOMAIN original), NEW w, \A i \in DOMAIN original : w[i] \in Scalars
    PROVE  /\ Weighted(query, w) \in Scalars
           /\ Mul(Weighted(query, w), delta) = Weighted(original, w)
<1> DEFINE D == DOMAIN original
           f == [i \in D |-> Mul(w[i], query[i])]
           g == [i \in D |-> Mul(w[i], original[i])]
<1>1. DOMAIN query = D /\ \A i \in D : query[i] \in Scalars /\ Mul(query[i], delta) = original[i]
    BY DEF DividedBy
<1>2. Weighted(query, w) = SumOver(f, D) /\ Weighted(original, w) = SumOver(g, D)
    BY <1>1 DEF Weighted, SumOf, SumOver, FoldFunction
<1>3. ASSUME NEW i \in D PROVE f[i] \in Scalars /\ g[i] = Mul(delta, f[i])
    <2>1. f[i] = Mul(w[i], query[i]) /\ g[i] = Mul(w[i], Mul(query[i], delta))
        BY <1>1
    <2>2. w[i] \in Scalars /\ query[i] \in Scalars
        BY <1>1
    <2> HIDE DEF f, g, D
    <2>3. Mul(w[i], query[i]) \in Scalars
        BY <2>2, AddType
    <2>4. /\ Mul(w[i], Mul(query[i], delta)) = Mul(Mul(w[i], query[i]), delta)
          /\ Mul(Mul(w[i], query[i]), delta) = Mul(delta, Mul(w[i], query[i]))
        BY <2>2, <2>3, MulLaws
    <2> QED BY <2>1, <2>3, <2>4
<1>4. IsFiniteSet(D)
    OBVIOUS
<1> HIDE DEF f, g, D
<1>5. ScalarOn(f, D)
    BY <1>3, <1>4 DEF ScalarOn
<1>6. SumOver(g, D) = Mul(delta, SumOver(f, D)) /\ SumOver(f, D) \in Scalars
    BY <1>3, <1>5, SumOfProducts, SumType
<1> QED BY <1>2, <1>6, MulLaws

\* The parameters of phase 2 are those that the bridge makes of the last accumulator of
\* phase 1, with both queries divided by delta.
MadeOf(p, acc) ==
    /\ KeyFields(p)
    /\ p.fixed_vk = ParamsOf(FromPhase1(acc)).fixed_vk
    /\ p.fixed_pk = ParamsOf(FromPhase1(acc)).fixed_pk
    /\ p.delta_g1 \in Scalars /\ p.delta_g2 = [base |-> << >>, exp |-> p.delta_g1]
    /\ DividedBy(p.h_query, p.delta_g1, FromPhase1(acc).h_query)
    /\ DividedBy(p.l_query, p.delta_g1, FromPhase1(acc).l_query)

KeyInv == HasKey => Bridgeable(LastState) /\ MadeOf(params, LastState)

\* A query that is not divided yet, and one that is divided once more.
LEMMA DividedByOne ==
    ASSUME NEW query \in Seq(Scalars)
    PROVE  DividedBy(query, One, query)
<1>1. \A i \in DOMAIN query : query[i] \in Scalars
    BY LenProperties, ElementOfSeq
<1> QED BY <1>1, MulLaws DEF DividedBy

LEMMA DividedOnce ==
    ASSUME NEW query, NEW original, NEW d \in Scalars, DividedBy(query, d, original),
           NEW delta \in Scalars \ {Zero}
    PROVE  DividedBy(Hop!ScaledBy(query, Inv(delta)), Mul(d, delta), original)
<1> DEFINE next == Hop!ScaledBy(query, Inv(delta))
<1>1. DOMAIN query = DOMAIN original
      /\ \A i \in DOMAIN original : query[i] \in Scalars /\ Mul(query[i], d) = original[i]
    BY DEF DividedBy
<1>2. DOMAIN next = DOMAIN original /\ \A i \in DOMAIN original : next[i] = Mul(query[i], Inv(delta))
    BY <1>1 DEF Hop!ScaledBy
<1> HIDE DEF next
<1>3. /\ Inv(delta) \in Scalars
      /\ \A q \in Scalars : Mul(Mul(q, Inv(delta)), Mul(d, delta)) = Mul(q, d)
    BY InverseFacts
<1>4. ASSUME NEW i \in DOMAIN original
      PROVE  next[i] \in Scalars /\ Mul(next[i], Mul(d, delta)) = original[i]
    <2>1. query[i] \in Scalars /\ Mul(query[i], d) = original[i] /\ next[i] = Mul(query[i], Inv(delta))
        BY <1>1, <1>2
    <2> QED BY <1>3, <2>1, AddType
<1> QED BY <1>2, <1>4 DEF DividedBy, next

\* The bridge makes such parameters, and a contribution keeps them so.
LEMMA BridgeMakes ==
    ASSUME NEW acc, Bridgeable(acc)
    PROVE  MadeOf(ParamsOf(FromPhase1(acc)), acc)
<1> DEFINE key == FromPhase1(acc)
           p == ParamsOf(key)
<1>1. ReadableForKey(acc)
    <2>1. \A i \in 1..(2 * DomainSize - 1) : acc.tau_powers_g1[i] \in Scalars
        BY PowersRead
    <2>2. ASSUME NEW i \in 1..DomainSize
          PROVE  acc.alpha_tau_powers_g1[i] \in Scalars /\ acc.beta_tau_powers_g1[i] \in Scalars
        <3> DEFINE k == i - 1
        <3>1. k \in Places /\ k + 1 = i /\ i \in 1..(2 * DomainSize - 1)
            BY PlaceFacts DEF Places
        <3> HIDE DEF k
        <3>2. /\ acc.alpha_tau_powers_g1[k + 1] =
                    Mul(acc.alpha_tau_powers_g1[1], acc.tau_powers_g1[k + 1])
              /\ acc.beta_tau_powers_g1[k + 1] =
                    Mul(acc.beta_tau_powers_g1[1], acc.tau_powers_g1[k + 1])
              /\ acc.alpha_tau_powers_g1[1] \in Scalars /\ acc.beta_tau_powers_g1[1] \in Scalars
            BY <3>1, PowersRead
        <3> QED BY <2>1, <3>1, <3>2, AddType
    <2> QED BY <2>1, <2>2 DEF ReadableForKey
<1>2. key.h_query \in Seq(Scalars) /\ key.l_query \in Seq(Scalars)
    BY <1>1, BridgedQueries
<1>3. key.delta_g1 = One /\ key.delta_g2 = [base |-> << >>, exp |-> One]
    BY DEF FromPhase1, G1, G2
<1> HIDE DEF key
<1>4. /\ KeyFields(p) /\ p.delta_g1 = key.delta_g1 /\ p.delta_g2 = key.delta_g2
      /\ p.h_query = key.h_query /\ p.l_query = key.l_query
    BY DEF ParamsOf, KeyFields
<1> HIDE DEF p
<1>5. /\ DividedBy(p.h_query, p.delta_g1, key.h_query)
      /\ DividedBy(p.l_query, p.delta_g1, key.l_query)
    BY <1>2, <1>3, <1>4, DividedByOne
<1>6. One \in Scalars
    BY AddType
<1> QED BY <1>3, <1>4, <1>5, <1>6 DEF MadeOf, p, key

LEMMA ContributionKeeps ==
    ASSUME NEW acc, NEW p, MadeOf(p, acc), NEW delta \in Scalars \ {Zero}, NEW s
    PROVE  MadeOf(Hop!Contribute(p, delta, s), acc)
<1> DEFINE c == Hop!Contribute(p, delta, s)
<1>1. /\ KeyFields(c)
      /\ c.fixed_vk = p.fixed_vk /\ c.fixed_pk = p.fixed_pk
      /\ c.delta_g1 = Mul(p.delta_g1, delta) /\ c.delta_g2 = Hop!Times(p.delta_g2, delta)
      /\ c.h_query = Hop!ScaledBy(p.h_query, Inv(delta))
      /\ c.l_query = Hop!ScaledBy(p.l_query, Inv(delta))
    BY ContributeFields DEF MadeOf
<1> HIDE DEF c
<1>2. p.delta_g1 \in Scalars /\ p.delta_g2 = [base |-> << >>, exp |-> p.delta_g1]
    BY DEF MadeOf
<1>3. c.delta_g1 \in Scalars /\ c.delta_g2 = [base |-> << >>, exp |-> c.delta_g1]
    BY <1>1, <1>2, AddType DEF Hop!Times
<1>4. /\ DividedBy(c.h_query, c.delta_g1, FromPhase1(acc).h_query)
      /\ DividedBy(c.l_query, c.delta_g1, FromPhase1(acc).l_query)
    BY <1>1, <1>2, DividedOnce DEF MadeOf
<1> QED BY <1>1, <1>3, <1>4 DEF MadeOf, c

LEMMA KeyInit == Init => KeyInv
BY DEF Init, KeyInv, HasKey

LEMMA KeyStep == SetupInv /\ KeyInv /\ [Next]_vars => KeyInv'
<1> SUFFICES ASSUME SetupInv, KeyInv, [Next]_vars PROVE KeyInv'
    OBVIOUS
<1>1. ASSUME UNCHANGED params, params = NoParams PROVE KeyInv'
    BY <1>1 DEF KeyInv, HasKey
<1>2. ASSUME NEW c \in Contributors, MakeOffer(c) PROVE KeyInv'
    BY <1>1, <1>2 DEF MakeOffer
<1>3. ASSUME NEW c \in Contributors, Accept(c) PROVE KeyInv'
    BY <1>1, <1>3 DEF Accept
<1>4. ASSUME NEW c \in Contributors, ContributeDelta(c) PROVE KeyInv'
    <2>1. HasKey /\ params' = Contribution(c) /\ UNCHANGED states
        BY <1>4 DEF ContributeDelta
    <2>2. Secrets[c].delta \in Scalars \ {Zero}
        BY ContributorsAssumption
    <2>3. Bridgeable(LastState) /\ MadeOf(params, LastState) /\ LastState' = LastState
        BY <2>1 DEF KeyInv, LastState
    <2> DEFINE acc == LastState
               next == Contribution(c)
    <2>4. MadeOf(next, acc)
        BY <2>2, <2>3, ContributionKeeps DEF Contribution
    <2> HIDE DEF acc, next
    <2>5. Bridgeable(acc) /\ LastState' = acc /\ params' = next
        BY <2>1, <2>3 DEF acc, next
    <2>6. Bridgeable(LastState') /\ MadeOf(params', LastState')
        BY <2>4, <2>5
    <2> QED BY <2>6 DEF KeyInv
<1>5. CASE BridgePhases
    <2>1. CASE AccumulatorTooSmall(LastState)
        BY <1>5, <2>1 DEF BridgePhases, KeyInv, HasKey
    <2>2. CASE ~ AccumulatorTooSmall(LastState)
        <3> DEFINE acc == LastState
                   next == ParamsOf(FromPhase1(acc))
        <3>1. ~ SliceOutOfRange(acc) /\ UNCHANGED states /\ params' = next
            BY <1>5, <2>2 DEF BridgePhases
        <3>2. Len(states) \in DOMAIN states /\ DOMAIN states = 1..Len(states)
            BY LenProperties, EmptySeq DEF SetupInv, StatesOK
        <3>3. Bridgeable(acc)
            BY <2>2, <3>1, <3>2 DEF SetupInv, StatesOK, PowersOfOneTau, LastState, Bridgeable
        <3>4. LastState' = acc
            BY <3>1 DEF LastState
        <3>5. MadeOf(next, acc)
            <4> HIDE DEF acc
            <4> QED BY <3>3, BridgeMakes
        <3> HIDE DEF acc, next
        <3>6. Bridgeable(LastState') /\ MadeOf(params', LastState')
            BY <3>1, <3>3, <3>4, <3>5
        <3> QED BY <3>6 DEF KeyInv
    <2> QED BY <2>1, <2>2
<1>6. CASE UNCHANGED vars
    <2>1. params' = params /\ LastState' = LastState
        BY <1>6 DEF vars, LastState
    <2> QED BY <2>1 DEF KeyInv, HasKey
<1> QED BY <1>2, <1>3, <1>4, <1>5, <1>6 DEF Next

\* Such parameters prove.
LEMMA MadeParamsProve ==
    ASSUME NEW acc, Bridgeable(acc), NEW p, MadeOf(p, acc), NEW z \in Assignments,
           NEW r \in Scalars, NEW s \in Scalars
    PROVE  ProofVerifies(p, z, Prove(p, z, r, s))
<1> DEFINE key == FromPhase1(acc)
           delta == p.delta_g1
           public == [i \in DOMAIN p.fixed_vk.gamma_abc_g1 |-> z[i - 1]]
           witness == [i \in DOMAIN p.l_query |-> z[Instances + i - 1]]
           A == Weighted(key.a_query, z)
           B == Weighted(key.b_g1_query, z)
           X == Weighted(key.gamma_abc_g1, public)
           W == Weighted(key.l_query, witness)
           Q == Weighted(key.h_query, Quotient(z))
           l == Weighted(p.l_query, witness)
           h == Weighted(p.h_query, Quotient(z))
           a == Add(Add(key.alpha_g1, A), Mul(r, delta))
           b == Add(Add(key.beta_g1, B), Mul(s, delta))
           c == Sub(Add(Add(Add(l, h), Mul(s, a)), Mul(r, b)), Mul(Mul(r, s), delta))
<1>1. /\ p.fixed_vk = ParamsOf(key).fixed_vk /\ p.fixed_pk = ParamsOf(key).fixed_pk
      /\ delta \in Scalars /\ p.delta_g2.exp = delta
      /\ DividedBy(p.h_query, delta, key.h_query) /\ DividedBy(p.l_query, delta, key.l_query)
    BY DEF MadeOf
<1>2. key.beta_g2.exp = key.beta_g1 /\ key.gamma_g2.exp = One
    BY PowersRead DEF FromPhase1, G2
<1>3. /\ DOMAIN key.h_query = Upper /\ IsFiniteSet(Upper)
      /\ DOMAIN key.l_query = 1..(Variables - Instances)
      /\ IsFiniteSet(DOMAIN key.l_query)
      /\ \A i \in DOMAIN key.l_query : Instances + i - 1 \in Names
    <2>1. DomainSize \in Nat /\ Variables \in Nat /\ Instances \in Nat /\ Instances <= Variables
        BY DomainHasRoom, CircuitAssumption
    <2>2. IsFiniteSet(1..(DomainSize - 1)) /\ IsFiniteSet(1..(Variables - Instances))
        <3>1. \A n \in Int : IsFiniteSet(1..n)
            BY FS_Interval
        <3>2. DomainSize - 1 \in Int /\ Variables - Instances \in Int
            BY <2>1
        <3> QED BY <3>1, <3>2
    <2>3. DOMAIN key.h_query = Upper
        BY DEF FromPhase1, HQueryOf, Upper
    <2>4. DOMAIN key.l_query = 1..((Variables - 1) - Instances + 1)
        BY DEF FromPhase1, Listed
    <2>5. DOMAIN key.l_query = 1..(Variables - Instances)
        BY <2>1, <2>4
    <2> HIDE DEF key
    <2>6. \A i \in 1..(Variables - Instances) : Instances + i - 1 \in Names
        BY <2>1 DEF Names
    <2> QED BY <2>2, <2>3, <2>5, <2>6 DEF Upper
<1> HIDE DEF key
<1>4. /\ p.fixed_vk.alpha_g1 = key.alpha_g1 /\ p.fixed_vk.beta_g2 = key.beta_g2
      /\ p.fixed_vk.gamma_g2 = key.gamma_g2 /\ p.fixed_vk.gamma_abc_g1 = key.gamma_abc_g1
      /\ p.fixed_pk.beta_g1 = key.beta_g1 /\ p.fixed_pk.a_query = key.a_query
      /\ p.fixed_pk.b_g1_query = key.b_g1_query /\ p.fixed_pk.b_g2_query = key.b_g2_query
    BY <1>1 DEF ParamsOf
<1>5. DOMAIN p.l_query = DOMAIN key.l_query
    BY <1>1 DEF DividedBy
<1>6. /\ \A i \in DOMAIN key.gamma_abc_g1 : public[i] = z[i - 1]
      /\ \A i \in DOMAIN key.l_query : witness[i] = z[Instances + i - 1]
    BY <1>4, <1>5
<1>7. IsAssignment(z) /\ \A i \in Upper : Quotient(z)[i] \in Scalars
    BY SatisfiedOnDomain, QuotientIs
<1>8. \A i \in DOMAIN key.l_query : witness[i] \in Scalars
    BY <1>3, <1>6, <1>7 DEF IsAssignment
<1> HIDE DEF public, witness, delta
<1>9. /\ l \in Scalars /\ Mul(l, delta) = W
      /\ h \in Scalars /\ Mul(h, delta) = Q
    <2>1. l \in Scalars /\ Mul(l, delta) = W
        <3> DEFINE query == p.l_query
                   original == key.l_query
        <3>1. DividedBy(query, delta, original) /\ IsFiniteSet(DOMAIN original)
              /\ delta \in Scalars /\ \A i \in DOMAIN original : witness[i] \in Scalars
            BY <1>1, <1>3, <1>8
        <3> HIDE DEF query, original
        <3>2. /\ Weighted(query, witness) \in Scalars
              /\ Mul(Weighted(query, witness), delta) = Weighted(original, witness)
            BY <3>1, WeightedDivided
        <3> QED BY <3>2 DEF query, original
    <2>2. h \in Scalars /\ Mul(h, delta) = Q
        <3> DEFINE query == p.h_query
                   original == key.h_query
                   w == Quotient(z)
        <3>1. DividedBy(query, delta, original) /\ IsFiniteSet(DOMAIN original)
              /\ delta \in Scalars /\ \A i \in DOMAIN original : w[i] \in Scalars
            BY <1>1, <1>3, <1>7
        <3> HIDE DEF query, original, w
        <3>2. /\ Weighted(query, w) \in Scalars
              /\ Mul(Weighted(query, w), delta) = Weighted(original, w)
            BY <3>1, WeightedDivided
        <3> QED BY <3>2 DEF query, original, w
    <2> QED BY <2>1, <2>2
<1>10. /\ Weighted(key.b_g2_query, z) = B
       /\ \E C : AreSatisfied(key.alpha_g1, key.beta_g1, A, B, C, X, W, Q)
    BY <1>6, BridgedKeyIsSatisfied DEF key
<1> HIDE DEF A, B, X, W, Q, l, h
<1>11. PICK C : AreSatisfied(key.alpha_g1, key.beta_g1, A, B, C, X, W, Q)
    BY <1>10
<1>12. Mul(a, b) = Add(Add(Mul(key.alpha_g1, key.beta_g1), X), Mul(c, delta))
    BY <1>1, <1>9, <1>11, ProofEquation
<1>13. Mul(X, One) = X
    BY <1>11, MulLaws DEF AreSatisfied
<1> HIDE DEF a, b, c
<1>14. Prove(p, z, r, s) = [a |-> a, b |-> OverG2(b), c |-> c]
    BY <1>1, <1>2, <1>4, <1>10 DEF Prove, a, b, c, A, B, l, h, witness, delta
<1>15. OverG2(b).exp = b
    BY DEF OverG2, G2
<1>16. Weighted(p.fixed_vk.gamma_abc_g1, public) = X
    BY <1>4 DEF X
<1> QED BY <1>1, <1>2, <1>4, <1>12, <1>13, <1>14, <1>15, <1>16 DEF ProofVerifies, public, delta

LEMMA KeyInvSuffices == KeyInv => KeyProves
<1> SUFFICES ASSUME KeyInv, HasKey, NEW z \in Assignments, NEW blind \in Blinds
             PROVE  ProofVerifies(params, z, Prove(params, z, blind[1], blind[2]))
    BY DEF KeyProves
<1>1. blind[1] \in Scalars /\ blind[2] \in Scalars
    BY BlindsAssumption
<1> QED BY <1>1, MadeParamsProve DEF KeyInv

\* Whatever key phase 2 has, it proves every assignment that satisfies the circuit, for
\* every circuit, every field with a domain for it and any contributors.
THEOREM KeysProve == Spec => []KeyProves
<1> DEFINE Inv1 == SetupInv /\ KeyInv
<1>1. Init => Inv1
    BY InitEstablishes, KeyInit
<1>2. Inv1 /\ [Next]_vars => Inv1'
    BY StepPreserves, KeyStep
<1>3. Inv1 => KeyProves
    BY KeyInvSuffices
<1> QED BY <1>1, <1>2, <1>3, PTL DEF Spec

=============================================================================
