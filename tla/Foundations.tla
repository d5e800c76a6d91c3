---------------------------- MODULE Foundations ----------------------------
(***************************************************************************)
(* Induction over the natural numbers, and over finite sets, for a set     *)
(* instead of a predicate: what the proofs about recursive functions rest  *)
(* on.  Then the sums of the community module Functions, of a function's   *)
(* values over a finite set in whatever order; and sums that wrap.         *)
(***************************************************************************)
EXTENDS Integers, Functions, WellFoundedInduction, FiniteSetTheorems, TLAPS

\* A set of natural numbers has a least element, since among the intervals up to each of
\* them, which are finite, one is minimal.
LEMMA LeastElement ==
    ASSUME NEW T, T \subseteq Nat, T # {}
    PROVE  \E x \in T : \A y \in T : x <= y
<1> DEFINE R == StrictSubsetOrdering(Nat)
           I == {1..n : n \in T}
<1>1. IsWellFoundedOn(R, FiniteSubsetsOf(Nat))
    BY FS_StrictSubsetOrderingWellFounded
<1>2. I \subseteq FiniteSubsetsOf(Nat)
    <2> SUFFICES ASSUME NEW n \in T PROVE 1..n \in FiniteSubsetsOf(Nat)
        OBVIOUS
    <2>1. n \in Int /\ 1 \in Int
        OBVIOUS
    <2>2. IsFiniteSet(1..n)
        BY <2>1, FS_Interval
    <2>3. 1..n \in SUBSET Nat
        BY <2>1
    <2> QED BY <2>2, <2>3 DEF FiniteSubsetsOf
<1>3. I # {}
    OBVIOUS
<1> HIDE DEF R, I
<1>4. PICK x \in I : \A y \in I : ~ (<<y, x>> \in R)
    BY <1>1, <1>2, <1>3, WFMin
<1> USE DEF I
<1>5. PICK n \in T : x = 1..n
    BY <1>4
<1>6. ASSUME NEW m \in T, m < n PROVE FALSE
    <2>1. 1..m \in I
        OBVIOUS
    <2>2. 1..m \subseteq 1..n /\ n \in 1..n /\ n \notin 1..m
        BY <1>6
    <2>3. <<1..m, x>> \in R
        BY <2>2, <1>5 DEF R, StrictSubsetOrdering
    <2> QED BY <2>1, <2>3, <1>4
<1> QED
    BY <1>6

\* A set that holds 0 and the next number of each of its own holds every natural number.
LEMMA InductionOnSet ==
    ASSUME NEW S, 0 \in S, \A n \in Nat : n \in S => n + 1 \in S
    PROVE  \A n \in Nat : n \in S
<1> SUFFICES ASSUME Nat \ S # {} PROVE FALSE
    OBVIOUS
<1>1. PICK x \in Nat \ S : \A y \in Nat \ S : x <= y
    BY LeastElement
<1>2. x # 0
    OBVIOUS
<1>3. x - 1 \in Nat /\ ~ (x <= x - 1)
    BY <1>2
<1>4. x - 1 \in S
    BY <1>1, <1>3
<1>5. x = (x - 1) + 1
    OBVIOUS
<1> QED BY <1>3, <1>4, <1>5

\* The greatest of some numbers up to n.
LEMMA GreatestElement ==
    ASSUME NEW n \in Nat, NEW T, T \subseteq 0..n, T # {}
    PROVE  \E x \in T : \A y \in T : y <= x
<1> DEFINE D == {n - x : x \in T}
<1>1. D \subseteq Nat
    <2> SUFFICES ASSUME NEW x \in T PROVE n - x \in Nat
        OBVIOUS
    <2> QED BY x \in 0..n
<1>2. D # {}
    OBVIOUS
<1> HIDE DEF D
<1>3. PICK d \in D : \A e \in D : d <= e
    BY <1>1, <1>2, LeastElement
<1>4. PICK x \in T : d = n - x
    BY <1>3 DEF D
<1>5. ASSUME NEW y \in T PROVE y <= x
    <2>1. x \in Nat /\ y \in Nat
        BY x \in 0..n, y \in 0..n
    <2>2. n - x <= n - y
        BY <1>3, <1>4 DEF D
    <2> QED BY <2>1, <2>2
<1> QED BY <1>5

----------------------------------------------------------------------------
(* Finite sets.                                                            *)

\* A finite set without one of its elements.
LEMMA OneLess ==
    ASSUME NEW s, IsFiniteSet(s), NEW x \in s
    PROVE  /\ IsFiniteSet(s \ {x}) /\ Cardinality(s) \in Nat \ {0}
           /\ Cardinality(s \ {x}) = Cardinality(s) - 1
<1>1. IsFiniteSet(s \ {x}) /\ Cardinality(s \ {x}) = Cardinality(s) - 1
  BY FS_RemoveElement
<1>2. Cardinality(s) \in Nat /\ Cardinality(s \ {x}) \in Nat
  BY <1>1, FS_CardinalityType
<1> QED
  BY <1>1, <1>2

\* A set of sets that holds {} and, with each of them, the set with one element of S
\* more, holds the finite set S.
LEMMA InductionOnFiniteSet ==
    ASSUME NEW S, IsFiniteSet(S), NEW P, {} \in P,
           \A t \in SUBSET S : \A x \in S \ t : t \in P => t \cup {x} \in P
    PROVE  S \in P
<1> DEFINE N == {m \in Nat : \A t \in SUBSET S : Cardinality(t) <= m => t \in P}
<1>1. \A t \in SUBSET S : IsFiniteSet(t) /\ Cardinality(t) \in Nat
  BY FS_Subset, FS_CardinalityType
<1>2. 0 \in N
  <2>1. \A t \in SUBSET S : Cardinality(t) <= 0 => t = {}
    BY <1>1, FS_EmptySet
  <2> QED
    BY <2>1
<1>3. ASSUME NEW m \in Nat, m \in N PROVE m + 1 \in N
  <2> SUFFICES ASSUME NEW t \in SUBSET S, Cardinality(t) <= m + 1 PROVE t \in P
    OBVIOUS
  <2>1. CASE t = {}
    BY <2>1
  <2>2. CASE t # {}
    <3>1. PICK x \in t : TRUE
      BY <2>2
    <3>2. Cardinality(t \ {x}) <= m
      BY <1>1, <3>1, OneLess
    <3>3. t \ {x} \in P
      BY <1>3, <3>2
    <3>4. (t \ {x}) \cup {x} = t /\ x \in S \ (t \ {x}) /\ t \ {x} \in SUBSET S
      BY <3>1
    <3>5. (t \ {x}) \cup {x} \in P
      BY <3>3, <3>4
    <3> QED
      BY <3>4, <3>5
  <2> QED
    BY <2>1, <2>2
<1>4. Cardinality(S) \in N
  <2> HIDE DEF N
  <2> QED
    BY <1>1, <1>2, <1>3, InductionOnSet
<1> QED
  BY <1>1, <1>4

----------------------------------------------------------------------------
(* Sums.                                                                   *)

\* g adds up the values of f over every subset of S as SumFunctionOnSet does: the value
\* of one element, and those of the others.
AnyOf(s) == CHOOSE x \in s : TRUE
AddsUp(g, f, S) ==
    \A s \in SUBSET S : g[s] = IF s = {} THEN 0 ELSE f[AnyOf(s)] + g[s \ {AnyOf(s)}]

LEMMA AnyIsIn == ASSUME NEW s, s # {} PROVE AnyOf(s) \in s
BY DEF AnyOf

\* Such a function exists, and gives the sum.
LEMMA SumExists ==
    ASSUME NEW f, NEW S, IsFiniteSet(S)
    PROVE  \E g : AddsUp(g, f, S) /\ SumFunctionOnSet(f, S) = g[S]
<1> DEFINE e(g, s) == IF s = {} THEN 0 ELSE f[AnyOf(s)] + g[s \ {AnyOf(s)}]
           Upto(g, m) == \A s \in SUBSET S : Cardinality(s) <= m => g[s] = e(g, s)
           N == {m \in Nat : \E g : Upto(g, m)}
<1>1. \A s \in SUBSET S : IsFiniteSet(s) /\ Cardinality(s) \in Nat
  BY FS_Subset, FS_CardinalityType
<1>2. 0 \in N
  <2> DEFINE g == [s \in SUBSET S |-> 0]
  <2>1. Upto(g, 0)
    BY <1>1, FS_EmptySet
  <2> QED
    BY <2>1
<1>3. ASSUME NEW m \in Nat, m \in N PROVE m + 1 \in N
  <2>1. PICK g : Upto(g, m)
    BY <1>3
  <2> DEFINE h == [s \in SUBSET S |-> e(g, s)]
  <2>2. ASSUME NEW s \in SUBSET S, Cardinality(s) <= m + 1 PROVE h[s] = e(h, s)
    <3>1. CASE s = {}
      BY <3>1
    <3>2. CASE s # {}
      <4> DEFINE t == s \ {AnyOf(s)}
      <4>1. t \in SUBSET S /\ Cardinality(t) <= m
        BY <1>1, <2>2, <3>2, AnyIsIn, OneLess
      <4>2. h[t] = g[t]
        BY <2>1, <4>1
      <4> QED
        BY <3>2, <4>2
    <3> QED
      BY <3>1, <3>2
  <2>3. Upto(h, m + 1)
    BY <2>2
  <2> HIDE DEF h, Upto
  <2> QED
    BY <2>3
<1>4. Cardinality(S) \in N
  <2> HIDE DEF N
  <2> QED
    BY <1>1, <1>2, <1>3, InductionOnSet
<1>5. PICK g : Upto(g, Cardinality(S))
  BY <1>4
<1>6. \A s \in SUBSET S : Cardinality(s) <= Cardinality(S)
  BY FS_Subset
<1> DEFINE whole == [s \in SUBSET S |-> g[s]]
<1>7. \A s \in SUBSET S : s \ {AnyOf(s)} \in SUBSET S
  OBVIOUS
<1>8. whole = [s \in SUBSET S |-> e(whole, s)]
  BY <1>5, <1>6, <1>7
<1> HIDE DEF whole
<1> DEFINE total == CHOOSE h : h = [s \in SUBSET S |-> e(h, s)]
<1>9. total = [s \in SUBSET S |-> e(total, s)]
  BY <1>8
<1>10. SumFunctionOnSet(f, S) = total[S]
  BY DEF SumFunctionOnSet, FoldFunctionOnSet, MapThenFoldSet, AnyOf
<1> HIDE DEF total
<1>11. AddsUp(total, f, S)
  BY <1>9 DEF AddsUp
<1> QED
  BY <1>10, <1>11

\* Two functions that agree on a set have one sum over it.
LEMMA SumsAgree ==
    ASSUME NEW S, NEW t \in SUBSET S, IsFiniteSet(S), NEW f, NEW h,
           \A x \in t : f[x] = h[x], NEW g, NEW k, AddsUp(g, f, S), AddsUp(k, h, t)
    PROVE  g[t] = k[t]
<1> DEFINE N == {m \in Nat : \A s \in SUBSET t : Cardinality(s) <= m => g[s] = k[s]}
<1>1. \A s \in SUBSET t : s \in SUBSET S /\ IsFiniteSet(s) /\ Cardinality(s) \in Nat
  BY FS_Subset, FS_CardinalityType
<1>2. 0 \in N
  <2>1. \A s \in SUBSET t : Cardinality(s) <= 0 => s = {}
    BY <1>1, FS_EmptySet
  <2>2. g[{}] = 0 /\ k[{}] = 0
    BY DEF AddsUp
  <2> QED
    BY <2>1, <2>2
<1>3. ASSUME NEW m \in Nat, m \in N PROVE m + 1 \in N
  <2> SUFFICES ASSUME NEW s \in SUBSET t, Cardinality(s) <= m + 1 PROVE g[s] = k[s]
    OBVIOUS
  <2>1. CASE s = {}
    BY <1>1, <2>1 DEF AddsUp
  <2>2. CASE s # {}
    <3> DEFINE r == s \ {AnyOf(s)}
    <3>1. r \in SUBSET t /\ Cardinality(r) <= m /\ AnyOf(s) \in t
      BY <1>1, <2>2, AnyIsIn, OneLess
    <3>2. g[r] = k[r]
      BY <1>3, <3>1
    <3>3. g[s] = f[AnyOf(s)] + g[r] /\ k[s] = h[AnyOf(s)] + k[r]
      BY <1>1, <2>2 DEF AddsUp
    <3> QED
      BY <3>1, <3>2, <3>3
  <2> QED
    BY <2>1, <2>2
<1>4. Cardinality(t) \in N
  <2> HIDE DEF N
  <2> QED
    BY <1>1, <1>2, <1>3, InductionOnSet
<1>5. t \in SUBSET t /\ Cardinality(t) <= Cardinality(t)
  BY <1>1
<1> QED
  BY <1>4, <1>5

LEMMA SumEqual ==
    ASSUME NEW S, IsFiniteSet(S), NEW f, NEW h, \A x \in S : f[x] = h[x]
    PROVE  SumFunctionOnSet(f, S) = SumFunctionOnSet(h, S)
<1>1. PICK g : AddsUp(g, f, S) /\ SumFunctionOnSet(f, S) = g[S]
  BY SumExists
<1>2. PICK k : AddsUp(k, h, S) /\ SumFunctionOnSet(h, S) = k[S]
  BY SumExists
<1> QED
  BY <1>1, <1>2, SumsAgree

LEMMA SumEmpty == ASSUME NEW f PROVE SumFunctionOnSet(f, {}) = 0
<1>1. PICK g : AddsUp(g, f, {}) /\ SumFunctionOnSet(f, {}) = g[{}]
  BY SumExists, FS_EmptySet
<1> QED
  BY <1>1 DEF AddsUp

\* A sum is what SumFunctionOnSet takes first, and the sum of the others.
LEMMA SumOfOneMore ==
    ASSUME NEW f, NEW S, IsFiniteSet(S), S # {}
    PROVE  SumFunctionOnSet(f, S) = f[AnyOf(S)] + SumFunctionOnSet(f, S \ {AnyOf(S)})
<1> DEFINE rest == S \ {AnyOf(S)}
<1>1. rest \in SUBSET S /\ IsFiniteSet(rest)
  BY FS_Subset
<1>2. PICK g : AddsUp(g, f, S) /\ SumFunctionOnSet(f, S) = g[S]
  BY SumExists
<1> HIDE DEF rest
<1>3. PICK k : AddsUp(k, f, rest) /\ SumFunctionOnSet(f, rest) = k[rest]
  BY <1>1, SumExists
<1>4. g[rest] = k[rest]
  BY <1>1, <1>2, <1>3, SumsAgree
<1>5. g[S] = f[AnyOf(S)] + g[rest]
  BY <1>2 DEF AddsUp, rest
<1> QED
  BY <1>2, <1>3, <1>4, <1>5 DEF rest

\* A sum of natural numbers is a natural number.
LEMMA SumNat ==
    ASSUME NEW f, NEW S, IsFiniteSet(S), \A x \in S : f[x] \in Nat
    PROVE  SumFunctionOnSet(f, S) \in Nat
<1> DEFINE N == {m \in Nat : \A s \in SUBSET S :
                    Cardinality(s) <= m => SumFunctionOnSet(f, s) \in Nat}
<1>1. \A s \in SUBSET S : IsFiniteSet(s) /\ Cardinality(s) \in Nat
  BY FS_Subset, FS_CardinalityType
<1>2. 0 \in N
  BY <1>1, FS_EmptySet, SumEmpty
<1>3. ASSUME NEW m \in Nat, m \in N PROVE m + 1 \in N
  <2> SUFFICES ASSUME NEW s \in SUBSET S, Cardinality(s) <= m + 1
               PROVE  SumFunctionOnSet(f, s) \in Nat
    OBVIOUS
  <2>1. CASE s = {}
    BY <2>1, SumEmpty
  <2>2. CASE s # {}
    <3>1. AnyOf(s) \in s /\ IsFiniteSet(s)
      BY <1>1, <2>2, AnyIsIn
    <3>2. s \ {AnyOf(s)} \in SUBSET S /\ Cardinality(s \ {AnyOf(s)}) <= m
      BY <1>1, <3>1, OneLess
    <3>3. SumFunctionOnSet(f, s \ {AnyOf(s)}) \in Nat
      BY <1>3, <3>2
    <3>4. f[AnyOf(s)] \in Nat
      BY <3>1
    <3> QED
      BY <2>2, <3>1, <3>3, <3>4, SumOfOneMore
  <2> QED
    BY <2>1, <2>2
<1>4. Cardinality(S) \in N
  <2> HIDE DEF N
  <2> QED
    BY <1>1, <1>2, <1>3, InductionOnSet
<1> QED
  BY <1>1, <1>4

\* A sum is the value of any element, and the sum of the others.
LEMMA SumTakeOut ==
    ASSUME NEW f, NEW S, IsFiniteSet(S), \A x \in S : f[x] \in Nat, NEW y \in S
    PROVE  SumFunctionOnSet(f, S) = f[y] + SumFunctionOnSet(f, S \ {y})
<1> DEFINE Sum(s) == SumFunctionOnSet(f, s)
           Holds(s, x) == Sum(s) = f[x] + Sum(s \ {x})
           N == {m \in Nat : \A s \in SUBSET S : \A x \in s : Cardinality(s) <= m => Holds(s, x)}
<1>1. \A s \in SUBSET S : IsFiniteSet(s) /\ Cardinality(s) \in Nat /\ Sum(s) \in Nat
  <2> SUFFICES ASSUME NEW s \in SUBSET S
               PROVE  IsFiniteSet(s) /\ Cardinality(s) \in Nat /\ Sum(s) \in Nat
    OBVIOUS
  <2>1. IsFiniteSet(s) /\ \A x \in s : f[x] \in Nat
    BY FS_Subset
  <2> QED
    BY <2>1, FS_CardinalityType, SumNat
<1>2. 0 \in N
  BY <1>1, FS_EmptySet
<1>3. ASSUME NEW m \in Nat, m \in N PROVE m + 1 \in N
  <2> SUFFICES ASSUME NEW s \in SUBSET S, NEW x \in s, Cardinality(s) <= m + 1
               PROVE  Holds(s, x)
    OBVIOUS
  <2> DEFINE z == AnyOf(s)
  <2>1. z \in s /\ IsFiniteSet(s)
    BY <1>1, AnyIsIn
  <2>2. Sum(s) = f[z] + Sum(s \ {z})
    BY <2>1, SumOfOneMore
  <2> HIDE DEF z
  <2>3. CASE x = z
    BY <2>2, <2>3
  <2>4. CASE x # z
    <3> DEFINE withoutZ == s \ {z}
               withoutX == s \ {x}
               without == withoutZ \ {x}
    <3>1. /\ withoutZ \in SUBSET S /\ Cardinality(withoutZ) <= m /\ x \in withoutZ
          /\ withoutX \in SUBSET S /\ Cardinality(withoutX) <= m /\ z \in withoutX
          /\ withoutX \ {z} = without /\ without \in SUBSET S
      BY <1>1, <2>1, <2>4, OneLess
    <3> HIDE DEF withoutZ, withoutX, Sum
    <3>2. Sum(withoutZ) = f[x] + Sum(withoutZ \ {x})
      BY <1>3, <3>1
    <3>3. Sum(withoutX) = f[z] + Sum(withoutX \ {z})
      BY <1>3, <3>1
    <3>4. /\ f[x] \in Nat /\ f[z] \in Nat /\ Sum(without) \in Nat
          /\ withoutX \ {z} = without /\ withoutZ \ {x} = without
      BY <1>1, <2>1, <3>1
    <3>5. Sum(s) = f[z] + Sum(withoutZ)
      BY <2>2 DEF withoutZ
    <3> DEFINE c == Sum(without)
    <3>6. Sum(withoutZ) = f[x] + c /\ Sum(withoutX) = f[z] + c /\ c \in Nat
      BY <3>2, <3>3, <3>4
    <3> HIDE DEF c, without
    <3>7. Sum(s) = f[x] + Sum(withoutX)
      BY <3>4, <3>5, <3>6
    <3> QED
      BY <3>7 DEF withoutX
  <2> QED
    BY <2>3, <2>4
<1>4. Cardinality(S) \in N
  <2> HIDE DEF N
  <2> QED
    BY <1>1, <1>2, <1>3, InductionOnSet
<1>5. S \in SUBSET S /\ Cardinality(S) <= Cardinality(S)
  BY <1>1
<1> QED
  BY <1>4, <1>5

LEMMA SumPutIn ==
    ASSUME NEW f, NEW S, IsFiniteSet(S), NEW y, y \notin S,
           \A x \in S \cup {y} : f[x] \in Nat
    PROVE  SumFunctionOnSet(f, S \cup {y}) = f[y] + SumFunctionOnSet(f, S)
<1>1. IsFiniteSet(S \cup {y}) /\ y \in S \cup {y} /\ (S \cup {y}) \ {y} = S
  BY FS_AddElement
<1> QED
  BY <1>1, SumTakeOut

\* A sum may run over other names of the same values.
LEMMA SumReindexed ==
    ASSUME NEW S, IsFiniteSet(S), NEW T, IsFiniteSet(T), NEW f, NEW g,
           NEW h \in [S -> T], \A x, y \in S : h[x] = h[y] => x = y,
           \A z \in T : \E x \in S : h[x] = z,
           \A x \in S : f[x] = g[h[x]] /\ f[x] \in Nat
    PROVE  SumFunctionOnSet(f, S) = SumFunctionOnSet(g, T)
<1> DEFINE Image(s) == {h[x] : x \in s}
           P == {s \in SUBSET S : SumFunctionOnSet(f, s) = SumFunctionOnSet(g, Image(s))}
<1>1. {} \in P
  <2>1. Image({}) = {}
    OBVIOUS
  <2> QED
    BY <2>1, SumEmpty
<1>2. ASSUME NEW s \in SUBSET S, NEW x \in S \ s, s \in P PROVE s \cup {x} \in P
  <2>1. Image(s \cup {x}) = Image(s) \cup {h[x]}
    OBVIOUS
  <2>2. h[x] \notin Image(s)
    OBVIOUS
  <2>3. Image(s) \in SUBSET T /\ IsFiniteSet(s)
    BY FS_Subset
  <2>4. IsFiniteSet(Image(s))
    BY <2>3, FS_Subset
  <2>5. \A z \in Image(s) \cup {h[x]} : g[z] \in Nat
    OBVIOUS
  <2>6. \A y \in s \cup {x} : f[y] \in Nat
    OBVIOUS
  <2>7. SumFunctionOnSet(f, s) = SumFunctionOnSet(g, Image(s))
    BY <1>2
  <2> HIDE DEF Image
  <2>8. SumFunctionOnSet(f, s \cup {x}) = f[x] + SumFunctionOnSet(f, s)
    BY <2>3, <2>6, SumPutIn
  <2>9. SumFunctionOnSet(g, Image(s) \cup {h[x]}) = g[h[x]] + SumFunctionOnSet(g, Image(s))
    BY <2>2, <2>4, <2>5, SumPutIn
  <2>10. SumFunctionOnSet(f, s \cup {x}) = SumFunctionOnSet(g, Image(s \cup {x}))
    BY <2>1, <2>7, <2>8, <2>9
  <2> QED
    BY <2>10
<1>3. S \in P
  <2> HIDE DEF P
  <2> QED
    BY <1>1, <1>2, InductionOnFiniteSet
<1>4. Image(S) = T
  OBVIOUS
<1> QED
  BY <1>3, <1>4

----------------------------------------------------------------------------
(* Additions that wrap.                                                    *)

\* Division with a remainder, and that the remainder is determined.
LEMMA DivMod ==
    ASSUME NEW x \in Nat, NEW m \in Nat, m > 0
    PROVE  \E q \in Nat : x = m * q + (x % m) /\ x % m \in 0..(m - 1)
<1>1. x \div m \in Nat /\ x = m * (x \div m) + (x % m) /\ x % m \in 0..(m - 1)
  OBVIOUS
<1> QED
  BY <1>1

LEMMA ModUnique ==
    ASSUME NEW m \in Nat, m > 0, NEW q \in Nat, NEW r \in 0..(m - 1)
    PROVE  (m * q + r) % m = r
OBVIOUS

LEMMA AddMod ==
    ASSUME NEW a \in Nat, NEW w \in Nat, NEW m \in Nat, m > 0
    PROVE  ((a % m) + w) % m = (a + w) % m
<1> DEFINE c == a % m
           r == (c + w) % m
<1>1. PICK b \in Nat : a = m * b + c /\ c \in 0..(m - 1)
  BY DivMod
<1>2. c + w \in Nat
  BY <1>1
<1>3. PICK d \in Nat : c + w = m * d + r /\ r \in 0..(m - 1)
  BY <1>2, DivMod
<1>4. a + w = m * (b + d) + r
  <2> HIDE DEF c, r
  <2>1. m * (b + d) = m * b + m * d /\ m * b \in Nat /\ m * d \in Nat
    OBVIOUS
  <2> QED
    BY <1>1, <1>3, <2>1
<1>5. (m * (b + d) + r) % m = r
  <2>1. PICK q \in Nat : q = b + d
    OBVIOUS
  <2>2. r \in 0..(m - 1)
    BY <1>3
  <2> HIDE DEF c, r
  <2>3. (m * q + r) % m = r
    BY <2>2, ModUnique
  <2> QED
    BY <2>1, <2>3
<1> QED
  BY <1>4, <1>5

=============================================================================
