-------------------------------- MODULE Setup --------------------------------
(***************************************************************************)
(* A trusted setup from its first power of tau to a key that proves:       *)
(* contributors to phase 1 (ceremony/src/phase1.rs), the key made of what  *)
(* they leave (bridge.rs) and contributors to phase 2 on top of it         *)
(* (params.rs).                                                            *)
(*                                                                         *)
(* Phase 1 is a library: whoever calls it hands a contributor the last     *)
(* accumulator, appends what comes back when verify accepts it, and hands  *)
(* it to the next one.  Contributors may work at the same time, each on    *)
(* the accumulator that was the last when it took it, and what one sends   *)
(* back may arrive with an element or a part that is not the one it made.  *)
(***************************************************************************)
EXTENDS Bridge

\* The ceremony's own checks of phase 2, for a key that comes from the bridge.
Hop == INSTANCE Phase2 WITH Setups <- {}, HQuery <- << >>, LQuery <- << >>, ZeroHash <- {}

CONSTANTS
    Contributors,
    Secrets,        \* [Contributors -> [tau, alpha, beta, delta]]: what each one draws
    Points,         \* [Contributors -> [tau, alpha, beta, delta]]: and the points next to it
    Sizes,          \* sizes phase 1 may be started with
    Factor,         \* what an element that is not the right one is multiplied by
    MaxHops,        \* bound: contributions to phase 2
    NoOffer, NoParams, TooSmall

ASSUME ContributorsAssumption ==
    /\ Sizes \subseteq Nat \ {0, 1}
    /\ Factor \in Scalars
    /\ \A c \in Contributors : \A name \in {"tau", "alpha", "beta", "delta"} :
        /\ Secrets[c][name] \in Scalars \ {Zero}
        /\ Points[c][name] \in Scalars \ {Zero}

VARIABLES
    states,     \* the accumulators of phase 1
    pubkeys,    \* and the public keys between them
    chain,      \* history: whose contributions they are
    offers,     \* what each contributor has made
    params      \* the key of the bridge with its contributions of phase 2

vars == <<states, pubkeys, chain, offers, params>>

LastState == states[Len(states)]

----------------------------------------------------------------------------
(* What arrives.                                                           *)

G2Points == [base : {<< >>}, exp : Scalars]

Accumulators ==
    [tau_powers_g1 : Seq(Scalars), tau_powers_g2 : Seq(G2Points),
     alpha_tau_powers_g1 : Seq(Scalars), beta_tau_powers_g1 : Seq(Scalars),
     beta_g2 : G2Points]

VectorsG1 == {"tau_powers_g1", "alpha_tau_powers_g1", "beta_tau_powers_g1"}
Vectors == VectorsG1 \cup {"tau_powers_g2"}
Parts == Vectors \cup {"beta_g2"}

\* One of the elements, or all of them, are a multiple of what they should be.
Scaled(acc) ==
    {[acc EXCEPT ![v] = [i \in DOMAIN @ |-> IF i \in wrong THEN Mul(@[i], Factor) ELSE @[i]]] :
        v \in VectorsG1, wrong \in {{i} : i \in DOMAIN acc.tau_powers_g1} \cup {DOMAIN acc.tau_powers_g1}}
    \cup
    {[acc EXCEPT !.tau_powers_g2 =
            [i \in DOMAIN @ |-> IF i = wrong THEN Times(@[i], Factor) ELSE @[i]]] :
        wrong \in DOMAIN acc.tau_powers_g2}

\* A part is another accumulator's.
Mixed(acc, other) == {[acc EXCEPT ![part] = other[part]] : part \in Parts}

\* A vector has lost its last element.
Cut(acc) ==
    {[acc EXCEPT ![v] = SubSeq(@, 1, Len(@) - 1)] : v \in Vectors}

Arrivals(acc) ==
    {acc} \cup Scaled(acc) \cup Cut(acc) \cup Mixed(acc, LastState)
          \cup (UNION {Mixed(acc, offers[d].after) :
                         d \in {e \in Contributors : offers[e] # NoOffer}})

\* What verify can be called with: vectors of points, none shorter than it indexes.
Readable(acc) ==
    /\ acc \in Accumulators
    /\ \A v \in Vectors : Len(acc[v]) > 1

----------------------------------------------------------------------------
Init ==
    /\ \E size \in Sizes : states = <<NewAccumulator(size)>>
    /\ pubkeys = << >>
    /\ chain = << >>
    /\ offers = [c \in Contributors |-> NoOffer]
    /\ params = NoParams

Accepted(c) == \E i \in DOMAIN chain : chain[i] = c

\* c runs contribute on the last accumulator, again when another came first.
MakeOffer(c) ==
    /\ params = NoParams
    /\ ~ Accepted(c)
    /\ offers[c] # NoOffer => offers[c].on < Len(states)
    /\ CanContribute(LastState)
    /\ offers' = [offers EXCEPT ![c] =
            [on |-> Len(states),
             after |-> ContributePowers(LastState, Secrets[c]),
             pubkey |-> ProveSecrets(Secrets[c], LastState, Points[c])]]
    /\ UNCHANGED <<states, pubkeys, chain, params>>

\* verify accepts what arrives of c's offer, with the public key of some offer.
Accept(c) ==
    /\ params = NoParams
    /\ ~ Accepted(c)
    /\ offers[c] # NoOffer
    /\ \E d \in Contributors, after \in Arrivals(offers[c].after) :
        /\ offers[d] # NoOffer
        /\ Readable(after)
        /\ VerifyPowers(LastState, after, offers[d].pubkey)
        /\ states' = Append(states, after)
        /\ pubkeys' = Append(pubkeys, offers[d].pubkey)
    /\ chain' = Append(chain, c)
    /\ UNCHANGED <<offers, params>>

\* The parameters made of a key, which nobody has contributed to: cs_hash is its hash.
ParamsOf(key) ==
    [fixed_vk |-> [part \in {"alpha_g1", "beta_g2", "gamma_g2", "gamma_abc_g1"} |-> key[part]],
     fixed_pk |-> [part \in {"beta_g1", "a_query", "b_g1_query", "b_g2_query"} |-> key[part]],
     delta_g1 |-> key.delta_g1, delta_g2 |-> key.delta_g2,
     h_query |-> key.h_query, l_query |-> key.l_query,
     cs_hash |-> key, contributions |-> << >>]

\* from_phase1, which may refuse.
BridgePhases ==
    /\ params = NoParams
    /\ AccumulatorTooSmall(LastState) \/ ~ SliceOutOfRange(LastState)
    /\ params' = IF AccumulatorTooSmall(LastState) THEN TooSmall
                 ELSE ParamsOf(FromPhase1(LastState))
    /\ UNCHANGED <<states, pubkeys, chain, offers>>

HasKey == params \notin {NoParams, TooSmall}

Contribution(c) == Hop!Contribute(params, Secrets[c].delta, Points[c].delta)

\* c contributes to phase 2, and the hop verifies.
ContributeDelta(c) ==
    /\ HasKey
    /\ Len(params.contributions) < MaxHops
    /\ Hop!Verify(params, Contribution(c)) = "ok"
    /\ params' = Contribution(c)
    /\ UNCHANGED <<states, pubkeys, chain, offers>>

Next ==
    \/ \E c \in Contributors : MakeOffer(c) \/ Accept(c) \/ ContributeDelta(c)
    \/ BridgePhases

Spec == Init /\ [][Next]_vars

=============================================================================
