------------------------------- MODULE Bridge -------------------------------
(***************************************************************************)
(* ceremony/src/bridge.rs: a Groth16 proving key with delta = 1 for one    *)
(* circuit, from the powers of phase 1.  The circuit is given by its three *)
(* R1CS matrices.  Variables are numbered from 0, the constant 1, and      *)
(* instance variables come first; constraints and powers from 0 too.       *)
(***************************************************************************)
EXTENDS Phase1, Functions

CONSTANTS
    Add(_, _),          \* addition of the scalar field
    Sub(_, _),          \* its subtraction
    RootOfUnity(_),     \* a generator of the evaluation domain of a given size
    FromNat(_),         \* the scalar a natural number is
    Matrices,           \* [a, b, c |-> constraints -> variables -> coefficient]
    Constraints,        \* number of constraints
    Instances,          \* number of instance variables, with the constant 1
    Variables           \* number of variables

ASSUME CircuitAssumption ==
    /\ Constraints \in Nat /\ Variables \in Nat /\ Instances \in 1..Variables
    /\ \A name \in {"a", "b", "c"} :
        Matrices[name] \in [0..(Constraints - 1) -> [0..(Variables - 1) -> Scalars]]

ASSUME AdditionAssumption ==
    /\ \A a, b \in Scalars :
        /\ Add(a, b) \in Scalars /\ Add(a, b) = Add(b, a)
        /\ Sub(a, b) \in Scalars /\ Add(Sub(a, b), b) = a
    /\ \A a, b, c \in Scalars :
        /\ Add(Add(a, b), c) = Add(a, Add(b, c))
        /\ Mul(a, Add(b, c)) = Add(Mul(a, b), Mul(a, c))
    /\ \A a \in Scalars : Add(Zero, a) = a

\* The sum of f over its domain.
SumOf(f) == FoldFunction(Add, Zero, f)

\* required_domain_size: the least power of two that has room for everything.
DomainSize ==
    LET places == Constraints + Instances
        twoTo[k \in 0..places] == IF k = 0 THEN 1 ELSE 2 * twoTo[k - 1]
        roomy == {m \in {twoTo[k] : k \in 0..places} : m >= places}
    IN  CHOOSE m \in roomy : \A n \in roomy : m <= n

\* The field has an evaluation domain of that size.
ASSUME DomainAssumption ==
    LET m == DomainSize
        power == PowersOf(RootOfUnity(m), m)
    IN  /\ RootOfUnity(m) \in Scalars /\ power[m] = One
        /\ \A k \in 1..(m - 1) : power[k] # One
        /\ FromNat(m) = SumOf([i \in 0..(m - 1) |-> One]) /\ FromNat(m) # Zero

AccumulatorTooSmall(acc) ==
    \/ Len(acc.tau_powers_g2) < DomainSize
    \/ Len(acc.tau_powers_g1) < 2 * DomainSize - 1

\* Where from_phase1 panics: it slices the powers of alpha and beta, whose lengths it has
\* not looked at.
SliceOutOfRange(acc) ==
    \/ Len(acc.alpha_tau_powers_g1) < DomainSize
    \/ Len(acc.beta_tau_powers_g1) < DomainSize

\* domain.ifft of the first powers of a sequence (from 1) of exponents: from the powers
\* of tau it makes the Lagrange polynomials at tau.
Ifft(powers) ==
    LET m == DomainSize
        root == PowersOf(Inv(RootOfUnity(m)), m * m)
    IN  [j \in 0..(m - 1) |->
            Mul(Inv(FromNat(m)), SumOf([i \in 0..(m - 1) |-> Mul(powers[i + 1], root[i * j])]))]

\* accumulate_matrix
AccumulateMatrix(matrix, lagrange, out) ==
    [v \in DOMAIN out |->
        Add(out[v], SumOf([j \in DOMAIN matrix |-> Mul(lagrange[j], matrix[j][v])]))]

ZeroVector == [v \in 0..(Variables - 1) |-> Zero]

\* The block of instance variables, past the constraints.
InstanceBlock(lagrange) ==
    [v \in 0..(Variables - 1) |->
        IF v < Instances THEN lagrange[Constraints + v] ELSE Zero]

Exponents(points) == [i \in DOMAIN points |-> points[i].exp]

\* The sequence of f over from..to.
Listed(f, from, to) == [i \in 1..(to - from + 1) |-> f[from + i - 1]]

\* MUTANT: alpha_b_lagrange starts from the block of instance variables as well.
ExtPrefillingB(acc) ==
    LET alpha_lagrange == Ifft(acc.alpha_tau_powers_g1)
        beta_lagrange == Ifft(acc.beta_tau_powers_g1)
        beta_a == AccumulateMatrix(Matrices.a, beta_lagrange, InstanceBlock(beta_lagrange))
        alpha_b == AccumulateMatrix(Matrices.b, alpha_lagrange, InstanceBlock(alpha_lagrange))
        c == AccumulateMatrix(Matrices.c, Ifft(acc.tau_powers_g1), ZeroVector)
    IN  [v \in 0..(Variables - 1) |-> Add(Add(beta_a[v], alpha_b[v]), c[v])]

\* ext: beta * A + alpha * B + C of every variable.
Ext(acc) ==
    LET alpha_lagrange == Ifft(acc.alpha_tau_powers_g1)
        beta_lagrange == Ifft(acc.beta_tau_powers_g1)
        beta_a == AccumulateMatrix(Matrices.a, beta_lagrange, InstanceBlock(beta_lagrange))
        alpha_b == AccumulateMatrix(Matrices.b, alpha_lagrange, ZeroVector)
        c == AccumulateMatrix(Matrices.c, Ifft(acc.tau_powers_g1), ZeroVector)
    IN  [v \in 0..(Variables - 1) |-> Add(Add(beta_a[v], alpha_b[v]), c[v])]

\* h_query: tau^(i + m) - tau^i
HQueryOf(acc) ==
    [i \in 1..(DomainSize - 1) |->
        Sub(acc.tau_powers_g1[i + DomainSize], acc.tau_powers_g1[i])]

\* from_phase1, where the accumulator is not too small.
FromPhase1(acc) ==
    LET lagrange_g1 == Ifft(acc.tau_powers_g1)
        lagrange_g2 == Ifft(Exponents(acc.tau_powers_g2))
        last == Variables - 1
    IN  [alpha_g1 |-> acc.alpha_tau_powers_g1[1],
         beta_g1 |-> acc.beta_tau_powers_g1[1],
         beta_g2 |-> acc.beta_g2,
         gamma_g2 |-> G2,
         delta_g1 |-> G1,
         delta_g2 |-> G2,
         gamma_abc_g1 |-> Listed(Ext(acc), 0, Instances - 1),
         a_query |-> AccumulateMatrix(Matrices.a, lagrange_g1, InstanceBlock(lagrange_g1)),
         b_g1_query |-> AccumulateMatrix(Matrices.b, lagrange_g1, ZeroVector),
         b_g2_query |-> AccumulateMatrix(Matrices.b, lagrange_g2, ZeroVector),
         h_query |-> HQueryOf(acc),
         l_query |-> Listed(Ext(acc), Instances, last)]

=============================================================================
