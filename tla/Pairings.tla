------------------------------ MODULE Pairings ------------------------------
(***************************************************************************)
(* Group elements and pairings of the trusted-setup ceremony               *)
(* (ceremony/src/helpers.rs), as both phases use them.                     *)
(*                                                                         *)
(* A point of G1 is its exponent over the generator.  A point of G2 is an  *)
(* exponent over a base: the generator, or the point a transcript hashes   *)
(* to, of which nobody knows an exponent.  A pairing multiplies exponents. *)
(* A hash is what it hashes.  A random linear combination of equations     *)
(* holds exactly when each of them does (merge_pairs, up to the negligible *)
(* chance of a cancellation).                                              *)
(***************************************************************************)
EXTENDS Naturals, Sequences

CONSTANTS
    Scalars,        \* exponents: the scalar field
    Zero, One,
    Mul(_, _),      \* its multiplication
    Inv(_)          \* the inverse of an exponent other than Zero

ASSUME FieldAssumption ==
    /\ Zero \in Scalars /\ One \in Scalars /\ Zero # One
    /\ \A a, b \in Scalars : Mul(a, b) \in Scalars /\ Mul(a, b) = Mul(b, a)
    /\ \A a, b, c \in Scalars : Mul(Mul(a, b), c) = Mul(a, Mul(b, c))
    /\ \A a \in Scalars : Mul(One, a) = a /\ Mul(Zero, a) = Zero
    /\ \A a \in Scalars \ {Zero} : Inv(a) \in Scalars /\ Mul(a, Inv(a)) = One

\* The generators of G1 and G2.
G1 == One
G2 == [base |-> << >>, exp |-> One]

\* hash_to_g2: a point of its own for every transcript, never the identity.
HashToG2(transcript) == [base |-> <<transcript>>, exp |-> One]

OverG2(x) == [G2 EXCEPT !.exp = x]
Times(point, x) == [point EXCEPT !.exp = Mul(@, x)]

Pairing(p, q) == [base |-> q.base, exp |-> Mul(p, q.exp)]

\* check_same_ratio: no point is the identity, and the two pairs have one ratio.
CheckSameRatio(p, q) ==
    /\ Zero \notin {p[1], p[2], q[1].exp, q[2].exp}
    /\ Pairing(p[1], q[2]) = Pairing(p[2], q[1])

\* check_same_ratio on what merge_pairs makes of two vectors of points.
CheckMergedRatio(v, w, q) ==
    /\ ~ \A i \in DOMAIN v : v[i] = Zero
    /\ ~ \A i \in DOMAIN w : w[i] = Zero
    /\ q[1].exp # Zero /\ q[2].exp # Zero
    /\ \A i \in DOMAIN v : Pairing(v[i], q[2]) = Pairing(w[i], q[1])

\* The same for vectors of points of G2.
CheckMergedRatioG2(p, v, w) ==
    /\ p[1] # Zero /\ p[2] # Zero
    /\ ~ \A i \in DOMAIN v : v[i].exp = Zero
    /\ ~ \A i \in DOMAIN w : w[i].exp = Zero
    /\ \A i \in DOMAIN v : Pairing(p[1], w[i]) = Pairing(p[2], v[i])

=============================================================================
