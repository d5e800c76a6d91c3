---------------------------- MODULE BatchesProofs ----------------------------
(***************************************************************************)
(* Proofs about the accumulator's batches, for any observations, any cut   *)
(* into batches, any weights and any width of the counters.                *)
(*                                                                         *)
(* The argument: whatever the loop has after a round, added to what the    *)
(* caller already has, is what the observations up to there are worth      *)
(* (RoundMatches).  A round is one observation more (WorthStep, MatchStep),*)
(* and adding up the batch changes places with the batch's own additions   *)
(* (MergeAdds), so where a batch ends makes no difference.  BatchInv is    *)
(* the inductive invariant; where additions are checked it says that       *)
(* nothing has wrapped (RoundsExact), which bounds what a panic can lose.  *)
(*                                                                         *)
(* For the order: the first uses of a sequence and of a reordering of it   *)
(* correspond nullifier by nullifier, and a sum may be taken in any order  *)
(* (SumReindexed in Foundations).                                          *)
(***************************************************************************)
EXTENDS Batches, Foundations

----------------------------------------------------------------------------
(* The loop.                                                               *)

\* The recursive function of the rounds exists.
LEMMA RoundsAre ==
    ASSUME NEW burnt, NEW batch, Len(batch) \in Nat
    PROVE  /\ Rounds(burnt, batch)[0] = StartBatch(burnt)
           /\ \A n \in 1..Len(batch) :
                Rounds(burnt, batch)[n] = AccumulateOne(Rounds(burnt, batch)[n - 1], batch[n])
<1> DEFINE e(f, n) == IF n = 0 THEN StartBatch(burnt)
                      ELSE AccumulateOne(f[n - 1], batch[n])
           Upto(f, m) == \A n \in 0..m : f[n] = e(f, n)
           S == {m \in Nat : \E f : Upto(f, m)}
<1>1. 0 \in S
  <2> DEFINE g == [n \in {0} |-> StartBatch(burnt)]
  <2>1. Upto(g, 0)
    OBVIOUS
  <2> QED
    BY <2>1
<1>2. ASSUME NEW m \in Nat, m \in S PROVE m + 1 \in S
  <2>1. PICK f : Upto(f, m)
    BY <1>2
  <2> DEFINE g == [n \in 0..(m + 1) |-> e(f, n)]
  <2>2. ASSUME NEW n \in 0..(m + 1) PROVE g[n] = e(g, n)
    <3>1. CASE n = 0
      BY <3>1
    <3>2. CASE n # 0
      <4>1. n - 1 \in 0..m /\ n - 1 \in 0..(m + 1)
        BY <3>2
      <4>2. g[n - 1] = f[n - 1]
        BY <2>1, <4>1
      <4> QED
        BY <3>2, <4>2
    <3> QED
      BY <3>1, <3>2
  <2>3. Upto(g, m + 1)
    BY <2>2
  <2> HIDE DEF g, Upto
  <2> QED
    BY <2>3
<1>3. Len(batch) \in S
  <2> HIDE DEF S
  <2> QED
    BY <1>1, <1>2, InductionOnSet
<1>4. PICK f : Upto(f, Len(batch))
  BY <1>3
<1> DEFINE whole == [n \in 0..Len(batch) |-> f[n]]
<1>5. \A n \in 0..Len(batch) : n # 0 => n - 1 \in 0..Len(batch)
  OBVIOUS
<1>6. whole = [n \in 0..Len(batch) |-> e(whole, n)]
  BY <1>4, <1>5
<1> HIDE DEF whole
<1> DEFINE after == CHOOSE g : g = [n \in 0..Len(batch) |-> e(g, n)]
<1>7. after = [n \in 0..Len(batch) |-> e(after, n)]
  BY <1>6
<1>8. Rounds(burnt, batch) = after
  BY DEF Rounds
<1> HIDE DEF after
<1>9. 0 \in 0..Len(batch) /\ \A n \in 1..Len(batch) : n \in 0..Len(batch) /\ n # 0
  OBVIOUS
<1>10. after[0] = StartBatch(burnt)
  BY <1>7, <1>9
<1>11. \A n \in 1..Len(batch) : after[n] = AccumulateOne(after[n - 1], batch[n])
  BY <1>7, <1>9
<1> QED
  BY <1>8, <1>10, <1>11

\* A table of u32 values.
Table(t) == \A k \in DOMAIN t : t[k] \in U32

\* What a round makes of an accumulator, field by field.
LEMMA RoundFields ==
    ASSUME NEW acc, NEW o,
           acc = [seen |-> acc.seen, scores |-> acc.scores,
                  rejected_replays |-> acc.rejected_replays],
           Table(acc.scores), acc.rejected_replays \in Seq(Observations), o \in Observations
    PROVE  LET next == AccumulateOne(acc, o)
           IN  /\ next = [seen |-> next.seen, scores |-> next.scores,
                          rejected_replays |-> next.rejected_replays]
               /\ Table(next.scores) /\ next.rejected_replays \in Seq(Observations)
               /\ IF o.nullifier \in acc.seen
                  THEN /\ next.seen = acc.seen /\ next.scores = acc.scores
                       /\ next.rejected_replays = Append(acc.rejected_replays, o)
                  ELSE /\ next.seen = acc.seen \cup {o.nullifier}
                       /\ next.scores = AddAt(acc.scores, ScoreKey(o), WeightFor(o.tier))
                       /\ next.rejected_replays = acc.rejected_replays
<1> DEFINE t == acc.scores
           r == acc.rejected_replays
           w == WeightFor(o.tier)
<1>1. CASE o.nullifier \in acc.seen
  <2>1. AccumulateOne(acc, o) = [acc EXCEPT !.rejected_replays = Append(@, o)]
    BY <1>1 DEF AccumulateOne
  <2>2. AccumulateOne(acc, o) = [seen |-> acc.seen, scores |-> t,
                                 rejected_replays |-> Append(r, o)]
    BY <2>1
  <2> QED
    BY <1>1, <2>2
<1>2. CASE o.nullifier \notin acc.seen
  <2>1. AccumulateOne(acc, o) =
          [acc EXCEPT !.seen = @ \cup {o.nullifier}, !.scores = AddAt(@, ScoreKey(o), w)]
    BY <1>2 DEF AccumulateOne
  <2>2. AccumulateOne(acc, o) = [seen |-> acc.seen \cup {o.nullifier},
                                 scores |-> AddAt(t, ScoreKey(o), w),
                                 rejected_replays |-> r]
    BY <2>1
  <2>3. Table(AddAt(t, ScoreKey(o), w))
    <3>1. w \in Nat /\ \A k : Lookup(t, k) \in Nat
      BY WeightsAssumption, MaxU32Assumption DEF WeightFor, Lookup, Table, U32
    <3>2. \A a, b \in Nat : AddU32(a, b) \in U32
      BY MaxU32Assumption DEF AddU32, U32
    <3> HIDE DEF w
    <3> QED
      BY <3>1, <3>2 DEF AddAt, Table
  <2> QED
    BY <1>2, <2>2, <2>3
<1> QED
  BY <1>1, <1>2

----------------------------------------------------------------------------
(* What one observation more is worth.                                     *)

\* The weights of a sequence's places, as a function.
Weighed(s) == [i \in DOMAIN s |-> WeightFor(s[i].tier)]

LEMMA WorthIs ==
    ASSUME NEW s \in Seq(Observations), NEW key
    PROVE  /\ IsFiniteSet(DOMAIN s) /\ IsFiniteSet(FirstUses(s)) /\ IsFiniteSet(Replays(s))
           /\ IsFiniteSet(Places(s, key)) /\ Places(s, key) \subseteq DOMAIN s
           /\ Worth(s, key) = SumFunctionOnSet(Weighed(s), Places(s, key))
           /\ \A i \in DOMAIN s : Weighed(s)[i] = WeightFor(s[i].tier) /\ Weighed(s)[i] \in Nat
           /\ Worth(s, key) \in Nat
<1>1. DOMAIN s = 1..Len(s) /\ Len(s) \in Nat
  OBVIOUS
<1>2. IsFiniteSet(DOMAIN s)
  BY <1>1, FS_Interval
<1>3. /\ FirstUses(s) \subseteq DOMAIN s /\ Places(s, key) \subseteq DOMAIN s
      /\ Replays(s) \subseteq DOMAIN s
  BY DEF FirstUses, Places, Replays
<1>4. IsFiniteSet(FirstUses(s)) /\ IsFiniteSet(Places(s, key)) /\ IsFiniteSet(Replays(s))
  BY <1>2, <1>3, FS_Subset
<1>5. \A i \in DOMAIN s : Weighed(s)[i] = WeightFor(s[i].tier) /\ Weighed(s)[i] \in Nat
  BY WeightsAssumption, MaxU32Assumption DEF Weighed, WeightFor
<1> DEFINE f == [i \in Places(s, key) |-> WeightFor(s[i].tier)]
<1>6. Worth(s, key) = SumFunctionOnSet(f, Places(s, key))
  <2>1. DOMAIN f = Places(s, key)
    OBVIOUS
  <2> QED
    BY <2>1 DEF Worth, SumFunction
<1>7. \A i \in Places(s, key) : f[i] = Weighed(s)[i]
  BY <1>3, <1>5
<1> HIDE DEF f
<1>8. Worth(s, key) = SumFunctionOnSet(Weighed(s), Places(s, key))
  BY <1>4, <1>6, <1>7, SumEqual
<1>9. SumFunctionOnSet(Weighed(s), Places(s, key)) \in Nat
  BY <1>3, <1>4, <1>5, SumNat
<1> QED
  BY <1>2, <1>3, <1>4, <1>5, <1>8, <1>9

\* The places of a sequence with one observation more.
LEMMA UsesStep ==
    ASSUME NEW s \in Seq(Observations), NEW o \in Observations
    PROVE  LET next == Append(s, o)
               n == Len(s) + 1
           IN  /\ next \in Seq(Observations) /\ DOMAIN next = DOMAIN s \cup {n}
               /\ n \notin DOMAIN s /\ next[n] = o
               /\ \A i \in DOMAIN s : next[i] = s[i] /\ i < n
               /\ NullifiersIn(next) = NullifiersIn(s) \cup {o.nullifier}
               /\ IF o.nullifier \in NullifiersIn(s)
                  THEN FirstUses(next) = FirstUses(s) /\ Replays(next) = Replays(s) \cup {n}
                  ELSE FirstUses(next) = FirstUses(s) \cup {n} /\ Replays(next) = Replays(s)
<1> DEFINE next == Append(s, o)
           n == Len(s) + 1
<1>1. /\ next \in Seq(Observations) /\ DOMAIN next = 1..n /\ DOMAIN s = 1..Len(s)
      /\ Len(s) \in Nat /\ next[n] = o
      /\ \A i \in 1..Len(s) : next[i] = s[i] /\ i < n
  OBVIOUS
<1>2. DOMAIN next = DOMAIN s \cup {n} /\ n \notin DOMAIN s
  BY <1>1
<1>3. NullifiersIn(next) = NullifiersIn(s) \cup {o.nullifier}
  BY <1>1, <1>2 DEF NullifiersIn
<1>4. \A i \in 1..Len(s) : \A j \in 1..(i - 1) : j \in 1..Len(s) /\ next[j] = s[j]
  BY <1>1
<1>5. \A i \in 1..Len(s) : i \in FirstUses(next) <=> i \in FirstUses(s)
  BY <1>1, <1>2, <1>4 DEF FirstUses
<1>6. n \in FirstUses(next) <=> o.nullifier \notin NullifiersIn(s)
  <2>1. 1..(n - 1) = 1..Len(s) /\ n \in 1..n
    BY <1>1
  <2> HIDE DEF next
  <2>2. n \in FirstUses(next) <=> \A j \in 1..Len(s) : next[j].nullifier # o.nullifier
    BY <1>1, <2>1 DEF FirstUses
  <2> QED
    BY <1>1, <2>2 DEF NullifiersIn
<1>7. FirstUses(next) \subseteq DOMAIN next /\ FirstUses(s) \subseteq DOMAIN s
  BY DEF FirstUses
<1>8. IF o.nullifier \in NullifiersIn(s)
      THEN FirstUses(next) = FirstUses(s)
      ELSE FirstUses(next) = FirstUses(s) \cup {n}
  <2> DEFINE old == FirstUses(s)
             new == FirstUses(next)
             dom == DOMAIN s
  <2>1. /\ \A i \in dom : i \in new <=> i \in old
        /\ n \in new <=> o.nullifier \notin NullifiersIn(s)
        /\ old \subseteq dom /\ new \subseteq dom \cup {n} /\ n \notin dom
    BY <1>1, <1>2, <1>5, <1>6, <1>7
  <2> HIDE DEF old, new, dom, n
  <2>2. CASE o.nullifier \in NullifiersIn(s)
    <3>1. new = old
      BY <2>1, <2>2
    <3> QED
      BY <2>2, <3>1 DEF old, new
  <2>3. CASE o.nullifier \notin NullifiersIn(s)
    <3>1. new = old \cup {n}
      BY <2>1, <2>3
    <3> QED
      BY <2>3, <3>1 DEF old, new
  <2> QED
    BY <2>2, <2>3
<1>9. IF o.nullifier \in NullifiersIn(s)
      THEN Replays(next) = Replays(s) \cup {n}
      ELSE Replays(next) = Replays(s)
  <2> HIDE DEF next, n
  <2> QED
    BY <1>2, <1>7, <1>8 DEF Replays
<1> HIDE DEF n
<1> QED
  BY <1>1, <1>2, <1>3, <1>8, <1>9 DEF n

\* A first use adds its weight to its key, and a key that is new; a replay adds nothing.
LEMMA WorthStep ==
    ASSUME NEW s \in Seq(Observations), NEW o \in Observations
    PROVE  LET next == Append(s, o)
               fresh == o.nullifier \notin NullifiersIn(s)
           IN  /\ KeysIn(next) = IF fresh THEN KeysIn(s) \cup {ScoreKey(o)} ELSE KeysIn(s)
               /\ \A key : Worth(next, key) =
                    Worth(s, key) + (IF fresh /\ key = ScoreKey(o) THEN WeightFor(o.tier) ELSE 0)
<1> DEFINE next == Append(s, o)
           n == Len(s) + 1
           fresh == o.nullifier \notin NullifiersIn(s)
<1>1. /\ next \in Seq(Observations) /\ DOMAIN next = DOMAIN s \cup {n}
      /\ n \notin DOMAIN s /\ next[n] = o
      /\ \A i \in DOMAIN s : next[i] = s[i]
      /\ IF fresh THEN FirstUses(next) = FirstUses(s) \cup {n} ELSE FirstUses(next) = FirstUses(s)
  BY UsesStep
<1>2. FirstUses(s) \subseteq DOMAIN s
  BY DEF FirstUses
<1> HIDE DEF next, n, fresh
<1>3. KeysIn(next) = IF fresh THEN KeysIn(s) \cup {ScoreKey(o)} ELSE KeysIn(s)
  <2>1. CASE fresh
    <3>1. FirstUses(next) = FirstUses(s) \cup {n}
      BY <1>1, <2>1
    <3> QED
      BY <1>1, <1>2, <2>1, <3>1 DEF KeysIn
  <2>2. CASE ~ fresh
    <3>1. FirstUses(next) = FirstUses(s)
      BY <1>1, <2>2
    <3> QED
      BY <1>1, <1>2, <2>2, <3>1 DEF KeysIn
  <2> QED
    BY <2>1, <2>2
<1>4. ASSUME NEW key
      PROVE  Worth(next, key) =
                Worth(s, key) + (IF fresh /\ key = ScoreKey(o) THEN WeightFor(o.tier) ELSE 0)
  <2>1. Places(next, key) = IF fresh /\ key = ScoreKey(o) THEN Places(s, key) \cup {n}
                            ELSE Places(s, key)
    <3>1. CASE fresh
      <4>1. FirstUses(next) = FirstUses(s) \cup {n}
        BY <1>1, <3>1
      <4> QED
        BY <1>1, <1>2, <3>1, <4>1 DEF Places
    <3>2. CASE ~ fresh
      <4>1. FirstUses(next) = FirstUses(s)
        BY <1>1, <3>2
      <4> QED
        BY <1>1, <1>2, <3>2, <4>1 DEF Places
    <3> QED
      BY <3>1, <3>2
  <2> DEFINE P == Places(s, key)
             f == Weighed(next)
  <2>2. /\ IsFiniteSet(P) /\ P \subseteq DOMAIN s
        /\ Worth(s, key) = SumFunctionOnSet(Weighed(s), P)
        /\ \A i \in DOMAIN s : Weighed(s)[i] = WeightFor(s[i].tier)
        /\ Worth(s, key) \in Nat
    BY WorthIs
  <2>3. /\ Worth(next, key) = SumFunctionOnSet(f, Places(next, key))
        /\ \A i \in DOMAIN next : f[i] = WeightFor(next[i].tier) /\ f[i] \in Nat
    BY <1>1, WorthIs
  <2> HIDE DEF P, f
  <2>4. \A i \in P : Weighed(s)[i] = f[i]
    BY <1>1, <2>2, <2>3
  <2>5. Worth(s, key) = SumFunctionOnSet(f, P)
    BY <2>2, <2>4, SumEqual
  <2>6. CASE fresh /\ key = ScoreKey(o)
    <3>1. n \notin P /\ \A i \in P \cup {n} : f[i] \in Nat
      BY <1>1, <2>2, <2>3
    <3>2. SumFunctionOnSet(f, P \cup {n}) = f[n] + SumFunctionOnSet(f, P)
      BY <2>2, <3>1, SumPutIn
    <3>3. f[n] = WeightFor(o.tier) /\ f[n] \in Nat
      BY <1>1, <2>3
    <3>4. Places(next, key) = P \cup {n}
      BY <2>1, <2>6 DEF P
    <3> QED
      BY <2>2, <2>3, <2>5, <2>6, <3>2, <3>3, <3>4
  <2>7. CASE ~ (fresh /\ key = ScoreKey(o))
    <3>1. Places(next, key) = P
      BY <2>1, <2>7 DEF P
    <3> QED
      BY <2>2, <2>3, <2>5, <2>7, <3>1
  <2> QED
    BY <2>6, <2>7
<1> QED
  BY <1>3, <1>4 DEF next, fresh

\* The replays reported of a sequence with one observation more.
LEMMA ReportStep ==
    ASSUME NEW s \in Seq(Observations), NEW o \in Observations,
           NEW reported \in Seq(Observations), ReplaysReported(reported, s)
    PROVE  IF o.nullifier \in NullifiersIn(s)
           THEN ReplaysReported(Append(reported, o), Append(s, o))
           ELSE ReplaysReported(reported, Append(s, o))
<1> DEFINE next == Append(s, o)
           n == Len(s) + 1
           R == Replays(s)
           Upto(i) == {j \in R : j <= i}
<1>1. /\ next \in Seq(Observations) /\ n \notin DOMAIN s /\ next[n] = o
      /\ \A i \in DOMAIN s : next[i] = s[i] /\ i < n
      /\ IF o.nullifier \in NullifiersIn(s)
         THEN Replays(next) = R \cup {n} ELSE Replays(next) = R
  BY UsesStep
<1>2. R \subseteq DOMAIN s /\ IsFiniteSet(R) /\ n \in Nat /\ DOMAIN s \subseteq Nat
  <2>1. DOMAIN s = 1..Len(s) /\ Len(s) \in Nat
    OBVIOUS
  <2>2. IsFiniteSet(Replays(s))
    BY WorthIs
  <2>3. Replays(s) \subseteq DOMAIN s
    BY DEF Replays
  <2> QED
    BY <2>1, <2>2, <2>3 DEF R, n
<1>3. /\ Len(reported) = Cardinality(R)
      /\ \A i \in R : reported[Cardinality(Upto(i))] = s[i]
  BY DEF ReplaysReported
<1> HIDE DEF next, n, R
<1>4. CASE o.nullifier \notin NullifiersIn(s)
  <2>1. Replays(next) = R
    BY <1>1, <1>4
  <2>2. \A i \in R : next[i] = s[i]
    BY <1>1, <1>2
  <2>3. ReplaysReported(reported, next)
    BY <1>3, <2>1, <2>2 DEF ReplaysReported
  <2> QED
    BY <1>4, <2>3 DEF next
<1>5. CASE o.nullifier \in NullifiersIn(s)
  <2> DEFINE more == R \cup {n}
             longer == Append(reported, o)
  <2>1. Replays(next) = more
    BY <1>1, <1>5
  <2>2. n \notin R /\ \A i \in R : i < n /\ i \in Nat /\ next[i] = s[i]
    BY <1>1, <1>2
  <2>3. IsFiniteSet(more) /\ Cardinality(more) = Cardinality(R) + 1 /\ Cardinality(R) \in Nat
    BY <1>2, <2>2, FS_AddElement, FS_CardinalityType
  <2>4. /\ Len(longer) = Len(reported) + 1
        /\ longer[Len(reported) + 1] = o
        /\ \A k \in 1..Len(reported) : longer[k] = reported[k]
    OBVIOUS
  <2>5. ASSUME NEW i \in R
        PROVE  longer[Cardinality({j \in more : j <= i})] = next[i]
    <3>1. {j \in more : j <= i} = Upto(i)
      BY <1>2, <2>2
    <3>2. Upto(i) \in SUBSET R /\ i \in Upto(i)
      BY <2>2
    <3>3. Cardinality(Upto(i)) \in 1..Cardinality(R)
      <4>1. /\ IsFiniteSet(Upto(i)) /\ Cardinality(Upto(i)) <= Cardinality(R)
        BY <1>2, <3>2, FS_Subset
      <4>2. Cardinality(Upto(i)) \in Nat /\ Cardinality(Upto(i)) # 0
        BY <3>2, <4>1, FS_CardinalityType, FS_EmptySet
      <4> HIDE DEF Upto
      <4> QED
        BY <2>3, <4>1, <4>2
    <3>4. longer[Cardinality(Upto(i))] = s[i]
      BY <1>3, <2>4, <3>3
    <3> QED
      BY <2>2, <3>1, <3>4
  <2>6. longer[Cardinality({j \in more : j <= n})] = next[n]
    <3>1. {j \in more : j <= n} = more
      BY <1>2, <2>2
    <3> HIDE DEF more, longer
    <3> QED
      BY <1>1, <1>3, <2>3, <2>4, <3>1
  <2>7. Len(longer) = Cardinality(more)
    BY <1>3, <2>3, <2>4
  <2>8. ReplaysReported(longer, next)
    <3> HIDE DEF longer
    <3>1. \A i \in more : longer[Cardinality({j \in more : j <= i})] = next[i]
      BY <2>5, <2>6
    <3> HIDE DEF more
    <3> QED
      BY <2>1, <2>7, <3>1 DEF ReplaysReported
  <2> QED
    BY <1>5, <2>8 DEF next
<1> QED
  BY <1>4, <1>5

----------------------------------------------------------------------------
(* Tables.                                                                 *)

\* What the code keeps of a sequence: burnt nullifiers, scores that wrap, replays.
Matches(burnt, table, reported, s) ==
    /\ burnt = NullifiersIn(s)
    /\ table = [key \in KeysIn(s) |-> Worth(s, key) % (MaxU32 + 1)]
    /\ ReplaysReported(reported, s)

\* A key without a first use is worth nothing.
LEMMA WorthOfNone ==
    ASSUME NEW s \in Seq(Observations), NEW key, key \notin KeysIn(s)
    PROVE  Worth(s, key) = 0
<1>1. Places(s, key) = {}
  BY DEF Places, KeysIn
<1> QED
  BY <1>1, WorthIs, SumEmpty

\* So the table tells what every key is worth.
LEMMA MatchesReads ==
    ASSUME NEW burnt, NEW table, NEW reported, NEW s \in Seq(Observations),
           Matches(burnt, table, reported, s), NEW key
    PROVE  Lookup(table, key) = Worth(s, key) % (MaxU32 + 1)
<1>1. CASE key \in KeysIn(s)
  BY <1>1 DEF Matches, Lookup
<1>2. CASE key \notin KeysIn(s)
  <2>1. key \notin DOMAIN table /\ Worth(s, key) = 0
    BY <1>2, WorthOfNone DEF Matches
  <2>2. 0 % (MaxU32 + 1) = 0
    BY MaxU32Assumption
  <2> QED
    BY <2>1, <2>2 DEF Lookup
<1> QED
  BY <1>1, <1>2

LEMMA AddWraps ==
    ASSUME NEW a \in Nat, NEW w \in Nat
    PROVE  /\ AddU32(a % (MaxU32 + 1), w) = (a + w) % (MaxU32 + 1)
           /\ AddU32(w, a % (MaxU32 + 1)) = (a + w) % (MaxU32 + 1)
           /\ a <= MaxU32 => a % (MaxU32 + 1) = a
<1>1. MaxU32 + 1 \in Nat /\ MaxU32 + 1 > 0
  BY MaxU32Assumption
<1>2. AddU32(a % (MaxU32 + 1), w) = (a + w) % (MaxU32 + 1)
  BY <1>1, AddMod DEF AddU32
<1>3. AddU32(w, a % (MaxU32 + 1)) = AddU32(a % (MaxU32 + 1), w)
  <2>1. PICK c \in Nat : c = a % (MaxU32 + 1)
    BY <1>1
  <2>2. c + w = w + c
    OBVIOUS
  <2> QED
    BY <2>1, <2>2 DEF AddU32
<1> QED
  BY <1>2, <1>3, MaxU32Assumption

\* One observation more.
LEMMA MatchStep ==
    ASSUME NEW burnt, NEW table, NEW reported \in Seq(Observations),
           NEW s \in Seq(Observations), NEW o \in Observations,
           Matches(burnt, table, reported, s)
    PROVE  IF o.nullifier \in burnt
           THEN Matches(burnt, table, Append(reported, o), Append(s, o))
           ELSE Matches(burnt \cup {o.nullifier},
                        AddAt(table, ScoreKey(o), WeightFor(o.tier)), reported, Append(s, o))
<1> DEFINE next == Append(s, o)
           M == MaxU32 + 1
           fresh == o.nullifier \notin NullifiersIn(s)
           w == WeightFor(o.tier)
           k == ScoreKey(o)
<1>1. /\ burnt = NullifiersIn(s)
      /\ table = [key \in KeysIn(s) |-> Worth(s, key) % M]
      /\ ReplaysReported(reported, s)
  BY DEF Matches
<1>2. NullifiersIn(next) = NullifiersIn(s) \cup {o.nullifier}
  BY UsesStep
<1>3. /\ KeysIn(next) = IF fresh THEN KeysIn(s) \cup {k} ELSE KeysIn(s)
      /\ \A key : Worth(next, key) = Worth(s, key) + (IF fresh /\ key = k THEN w ELSE 0)
      /\ \A key : Worth(s, key) \in Nat
  BY WorthStep, WorthIs
<1>4. w \in Nat
  BY WeightsAssumption, MaxU32Assumption DEF WeightFor
<1>5. \A key : Lookup(table, key) = Worth(s, key) % M
  BY MatchesReads
<1>6. CASE ~ fresh
  <2>1. KeysIn(next) = KeysIn(s) /\ NullifiersIn(next) = NullifiersIn(s)
    BY <1>2, <1>3, <1>6
  <2>2. \A key : Worth(next, key) = Worth(s, key)
    BY <1>3, <1>6
  <2>3. ReplaysReported(Append(reported, o), next)
    BY <1>1, <1>6, ReportStep
  <2> HIDE DEF next
  <2>4. Matches(burnt, table, Append(reported, o), next)
    BY <1>1, <2>1, <2>2, <2>3 DEF Matches
  <2> QED
    BY <1>1, <1>6, <2>4 DEF next
<1>7. CASE fresh
  <2>1. KeysIn(next) = KeysIn(s) \cup {k}
    BY <1>3, <1>7
  <2>2. Worth(next, k) = Worth(s, k) + w /\ \A key : key # k => Worth(next, key) = Worth(s, key)
    BY <1>3, <1>7
  <2>3. ReplaysReported(reported, next)
    BY <1>1, <1>7, ReportStep
  <2>4. AddU32(Lookup(table, k), w) = Worth(next, k) % M
    <3>1. Worth(s, k) \in Nat
      BY <1>3
    <3> HIDE DEF next, w, k
    <3> QED
      BY <1>4, <1>5, <2>2, <3>1, AddWraps
  <2>5. AddAt(table, k, w) = [key \in KeysIn(next) |-> Worth(next, key) % M]
    <3> HIDE DEF next, w, k, M
    <3>1. \A key \in KeysIn(s) \ {k} : table[key] = Worth(next, key) % M
      BY <1>1, <2>2
    <3>2. DOMAIN table = KeysIn(s)
      BY <1>1
    <3> QED
      BY <2>1, <2>4, <3>1, <3>2 DEF AddAt
  <2> HIDE DEF next, w, k
  <2>6. Matches(burnt \cup {o.nullifier}, AddAt(table, k, w), reported, next)
    BY <1>1, <1>2, <2>3, <2>5 DEF Matches
  <2> QED
    BY <1>1, <1>7, <2>6 DEF next, w, k
<1> QED
  BY <1>6, <1>7

\* Adding up the scores of a batch, and the additions of the batch itself, change places.
LEMMA MergeAdds ==
    ASSUME NEW t, NEW d, Table(t), Table(d), NEW k, NEW w \in Nat
    PROVE  Merge(t, AddAt(d, k, w)) = AddAt(Merge(t, d), k, w)
<1>1. /\ \A j : Lookup(t, j) \in Nat /\ Lookup(d, j) \in Nat
      /\ \A j \in DOMAIN d : Lookup(d, j) = d[j]
      /\ \A j : j \notin DOMAIN d => Lookup(d, j) = 0
  BY MaxU32Assumption DEF Table, U32, Lookup
<1> DEFINE both == AddAt(d, k, w)
           sum == Merge(t, d)
<1>2. /\ DOMAIN both = DOMAIN d \cup {k} /\ both[k] = AddU32(Lookup(d, k), w)
      /\ \A j \in DOMAIN d : j # k => both[j] = d[j]
  BY DEF AddAt
<1>3. /\ DOMAIN sum = DOMAIN t \cup DOMAIN d
      /\ \A j \in DOMAIN d : sum[j] = AddU32(Lookup(t, j), d[j])
      /\ \A j \in DOMAIN t \ DOMAIN d : sum[j] = t[j]
  BY DEF Merge
<1>4. AddU32(Lookup(t, k), both[k]) = AddU32(Lookup(sum, k), w)
  <2> DEFINE a == Lookup(t, k)
             b == Lookup(d, k)
             M == MaxU32 + 1
  <2>0. \A x, y \in Nat : /\ AddU32(x, y % M) = (y + x) % M
                          /\ AddU32(x % M, y) = (x + y) % M
                          /\ x <= MaxU32 => x % M = x
    BY AddWraps
  <2>1. a \in Nat /\ b \in Nat /\ M \in Nat
    BY <1>1, MaxU32Assumption
  <2>2. Lookup(sum, k) = (a + b) % M
    <3>1. CASE k \in DOMAIN d
      BY <1>1, <1>3, <3>1 DEF Lookup, AddU32
    <3>2. CASE k \notin DOMAIN d
      <4>1. b = 0 /\ Lookup(sum, k) = a
        BY <1>1, <1>3, <3>2 DEF Lookup
      <4>2. a \in U32
        BY MaxU32Assumption DEF Table, U32, Lookup
      <4>3. a \in Nat /\ a <= MaxU32
        BY <4>2, MaxU32Assumption DEF U32
      <4>4. a % M = a /\ a + 0 = a
        BY <2>0, <4>3
      <4> QED
        BY <4>1, <4>4
    <3> QED
      BY <3>1, <3>2
  <2>3. both[k] = (b + w) % M
    BY <1>2 DEF AddU32
  <2> HIDE DEF a, b, both, sum, M
  <2>4. AddU32(a, (b + w) % M) = ((b + w) + a) % M
    <3>1. PICK c \in Nat : c = b + w
      BY <2>1
    <3>2. AddU32(a, c % M) = (c + a) % M
      BY <2>0, <2>1
    <3> QED
      BY <3>1, <3>2
  <2>5. AddU32((a + b) % M, w) = ((a + b) + w) % M
    <3>1. PICK c \in Nat : c = a + b
      BY <2>1
    <3>2. AddU32(c % M, w) = (c + w) % M
      BY <2>0
    <3> QED
      BY <3>1, <3>2
  <2>6. (b + w) + a = (a + b) + w
    BY <2>1
  <2>7. AddU32(a, both[k]) = AddU32(Lookup(sum, k), w)
    BY <2>2, <2>3, <2>4, <2>5, <2>6
  <2> QED
    BY <2>7 DEF a
<1> HIDE DEF both, sum
<1>5. Merge(t, both) = [j \in DOMAIN t \cup DOMAIN both |->
                            IF j \in DOMAIN both THEN AddU32(Lookup(t, j), both[j]) ELSE t[j]]
  BY DEF Merge
<1>6. AddAt(sum, k, w) = [j \in DOMAIN sum \cup {k} |->
                            IF j = k THEN AddU32(Lookup(sum, k), w) ELSE sum[j]]
  BY DEF AddAt
<1>7. DOMAIN t \cup DOMAIN both = DOMAIN sum \cup {k}
  BY <1>2, <1>3
<1>8. \A j \in DOMAIN sum \cup {k} :
        (IF j \in DOMAIN both THEN AddU32(Lookup(t, j), both[j]) ELSE t[j]) =
        (IF j = k THEN AddU32(Lookup(sum, k), w) ELSE sum[j])
  BY <1>2, <1>3, <1>4
<1>9. Merge(t, both) = AddAt(sum, k, w)
  BY <1>5, <1>6, <1>7, <1>8
<1> QED
  BY <1>9 DEF both, sum

LEMMA MergeEmpty ==
    ASSUME NEW t, Table(t), NEW d, Table(d)
    PROVE  /\ t = [k \in DOMAIN t |-> t[k]] => Merge(t, EmptyTable) = t
           /\ d = [k \in DOMAIN d |-> d[k]] => Merge(EmptyTable, d) = d
<1>1. DOMAIN EmptyTable = {}
  BY DEF EmptyTable
<1>2. \A k : Lookup(EmptyTable, k) = 0
  BY <1>1 DEF Lookup
<1>3. \A k \in DOMAIN d : AddU32(0, d[k]) = d[k]
  BY MaxU32Assumption DEF AddU32, Table, U32
<1>4. Merge(t, EmptyTable) = [k \in DOMAIN t |-> t[k]]
  BY <1>1 DEF Merge
<1>5. Merge(EmptyTable, d) = [k \in DOMAIN d |-> d[k]]
  BY <1>1, <1>2, <1>3 DEF Merge
<1> QED
  BY <1>4, <1>5

\* A prefix with the next observation.
LEMMA PrefixStep ==
    ASSUME NEW pre \in Seq(Observations), NEW batch \in Seq(Observations),
           NEW n \in 1..Len(batch)
    PROVE  /\ SubSeq(pre \o batch, 1, Len(pre) + (n - 1)) \in Seq(Observations)
           /\ SubSeq(pre \o batch, 1, Len(pre) + n) =
                Append(SubSeq(pre \o batch, 1, Len(pre) + (n - 1)), batch[n])
           /\ batch[n] \in Observations
<1> DEFINE whole == pre \o batch
           m == Len(pre) + n
<1>1. /\ whole \in Seq(Observations) /\ Len(whole) = Len(pre) + Len(batch)
      /\ Len(pre) \in Nat /\ Len(batch) \in Nat
      /\ \A i \in 1..Len(batch) : whole[Len(pre) + i] = batch[i]
  OBVIOUS
<1>2. m \in 1..Len(whole) /\ whole[m] = batch[n] /\ Len(pre) + (n - 1) = m - 1
  BY <1>1
<1> HIDE DEF whole, m
<1>3. SubSeq(whole, 1, m) = Append(SubSeq(whole, 1, m - 1), whole[m])
  BY <1>1, <1>2
<1>4. SubSeq(whole, 1, m - 1) \in Seq(Observations) /\ whole[m] \in Observations
  BY <1>1, <1>2
<1> QED
  BY <1>2, <1>3, <1>4 DEF whole, m

LEMMA AppendLast ==
    ASSUME NEW r \in Seq(Observations), NEW q \in Seq(Observations), NEW o \in Observations
    PROVE  r \o Append(q, o) = Append(r \o q, o)
OBVIOUS

\* However far the loop has come: added to what the caller had, it has what the
\* observations up to there are worth.
RoundMatches(a, table, reported, s) ==
    /\ a = [seen |-> a.seen, scores |-> a.scores, rejected_replays |-> a.rejected_replays]
    /\ Table(a.scores) /\ a.scores = [k \in DOMAIN a.scores |-> a.scores[k]]
    /\ a.rejected_replays \in Seq(Observations)
    /\ Matches(a.seen, Merge(table, a.scores), reported \o a.rejected_replays, s)

LEMMA RoundsMatch ==
    ASSUME NEW burnt, NEW table, Table(table), NEW reported \in Seq(Observations),
           NEW pre \in Seq(Observations), NEW batch \in Seq(Observations),
           Matches(burnt, table, reported, pre), NEW n \in 0..Len(batch)
    PROVE  RoundMatches(Rounds(burnt, batch)[n], table, reported,
                        SubSeq(pre \o batch, 1, Len(pre) + n))
<1> DEFINE R == Rounds(burnt, batch)
           P(m) == SubSeq(pre \o batch, 1, Len(pre) + m)
           Good(m) == RoundMatches(R[m], table, reported, P(m))
           S == {m \in Nat : m <= Len(batch) => Good(m)}
<1>0. Len(batch) \in Nat /\ Len(pre) \in Nat
  OBVIOUS
<1>1. R[0] = StartBatch(burnt) /\
      \A m \in 1..Len(batch) : R[m] = AccumulateOne(R[m - 1], batch[m])
  BY <1>0, RoundsAre
<1> HIDE DEF R
<1>2. 0 \in S
  <2>1. P(0) = pre
    BY <1>0
  <2>2. R[0] = [seen |-> burnt, scores |-> EmptyTable, rejected_replays |-> << >>]
    BY <1>1 DEF StartBatch
  <2>3. Table(EmptyTable) /\ EmptyTable = [k \in DOMAIN EmptyTable |-> EmptyTable[k]]
    BY DEF EmptyTable, Table
  <2>4. Merge(table, EmptyTable) = table
    <3>1. table = [k \in DOMAIN table |-> table[k]]
      BY DEF Matches
    <3> QED
      BY <2>3, <3>1, MergeEmpty
  <2>5. reported \o << >> = reported /\ << >> \in Seq(Observations)
    OBVIOUS
  <2> HIDE DEF P
  <2>6. RoundMatches(R[0], table, reported, P(0))
    BY <2>1, <2>2, <2>3, <2>4, <2>5 DEF RoundMatches
  <2> QED
    BY <2>6
<1>3. ASSUME NEW m \in Nat, m \in S PROVE m + 1 \in S
  <2> SUFFICES ASSUME m + 1 <= Len(batch) PROVE Good(m + 1)
    OBVIOUS
  <2> DEFINE o == batch[m + 1]
             a == R[m]
             next == R[m + 1]
             s == P(m)
  <2>1. Good(m)
    BY <1>0, <1>3
  <2>2. m + 1 \in 1..Len(batch) /\ (m + 1) - 1 = m
    BY <1>0
  <2>3. next = AccumulateOne(a, o)
    BY <1>1, <2>2
  <2>4. s \in Seq(Observations) /\ P(m + 1) = Append(s, o) /\ o \in Observations
    BY <2>2, PrefixStep
  <2>5. /\ a = [seen |-> a.seen, scores |-> a.scores, rejected_replays |-> a.rejected_replays]
        /\ Table(a.scores) /\ a.scores = [k \in DOMAIN a.scores |-> a.scores[k]]
        /\ a.rejected_replays \in Seq(Observations)
        /\ Matches(a.seen, Merge(table, a.scores), reported \o a.rejected_replays, s)
    BY <2>1 DEF RoundMatches
  <2> DEFINE t == Merge(table, a.scores)
             r == reported \o a.rejected_replays
             w == WeightFor(o.tier)
             k == ScoreKey(o)
  <2> HIDE DEF o, a, next, s, P
  <2>6. /\ next = [seen |-> next.seen, scores |-> next.scores,
                   rejected_replays |-> next.rejected_replays]
        /\ Table(next.scores) /\ next.rejected_replays \in Seq(Observations)
        /\ IF o.nullifier \in a.seen
           THEN /\ next.seen = a.seen /\ next.scores = a.scores
                /\ next.rejected_replays = Append(a.rejected_replays, o)
           ELSE /\ next.seen = a.seen \cup {o.nullifier}
                /\ next.scores = AddAt(a.scores, k, w)
                /\ next.rejected_replays = a.rejected_replays
    BY <2>3, <2>4, <2>5, RoundFields
  <2>7. r \in Seq(Observations)
    BY <2>5
  <2>8. Matches(a.seen, t, r, s)
    BY <2>5
  <2>9. w \in Nat
    BY WeightsAssumption, MaxU32Assumption DEF WeightFor
  <2>10. CASE o.nullifier \in a.seen
    <3>1. reported \o next.rejected_replays = Append(r, o)
      <4>1. next.rejected_replays = Append(a.rejected_replays, o)
        BY <2>6, <2>10
      <4>2. reported \o Append(a.rejected_replays, o) = Append(r, o)
        BY <2>4, <2>5, AppendLast
      <4> QED
        BY <4>1, <4>2
    <3>2. next.seen = a.seen /\ Merge(table, next.scores) = t
      BY <2>6, <2>10
    <3>3. Matches(a.seen, t, Append(r, o), Append(s, o))
      BY <2>4, <2>7, <2>8, <2>10, MatchStep
    <3>4. next.scores = [j \in DOMAIN next.scores |-> next.scores[j]]
      BY <2>5, <2>6, <2>10
    <3> HIDE DEF t, r
    <3> QED
      BY <2>4, <2>6, <3>1, <3>2, <3>3, <3>4 DEF RoundMatches, next
  <2>11. CASE o.nullifier \notin a.seen
    <3>1. reported \o next.rejected_replays = r /\ next.seen = a.seen \cup {o.nullifier}
      BY <2>6, <2>11
    <3>2. Merge(table, next.scores) = AddAt(t, k, w)
      BY <2>5, <2>6, <2>9, <2>11, MergeAdds
    <3>3. Matches(a.seen \cup {o.nullifier}, AddAt(t, k, w), r, Append(s, o))
      BY <2>4, <2>7, <2>8, <2>11, MatchStep
    <3>4. next.scores = [j \in DOMAIN next.scores |-> next.scores[j]]
      BY <2>6, <2>11 DEF AddAt
    <3> HIDE DEF t, r
    <3> QED
      BY <2>4, <2>6, <3>1, <3>2, <3>3, <3>4 DEF RoundMatches, next
  <2> QED
    BY <2>10, <2>11
<1>4. \A m \in Nat : m \in S
  <2> HIDE DEF S
  <2> QED
    BY <1>2, <1>3, InductionOnSet
<1>5. Good(n)
  BY <1>0, <1>4
<1> QED
  BY <1>5 DEF R

----------------------------------------------------------------------------
(* Where additions are checked.                                            *)

LEMMA MatchesTable ==
    ASSUME NEW burnt, NEW table, NEW reported, NEW s \in Seq(Observations),
           Matches(burnt, table, reported, s)
    PROVE  Table(table)
<1>1. \A k \in DOMAIN table : table[k] = Worth(s, k) % (MaxU32 + 1) /\ Worth(s, k) \in Nat
  BY WorthIs DEF Matches
<1>2. \A n \in Nat : n % (MaxU32 + 1) \in U32
  BY MaxU32Assumption DEF U32
<1> QED
  BY <1>1, <1>2 DEF Table

\* More observations are worth no less.
LEMMA WorthGrows ==
    ASSUME NEW pre \in Seq(Observations), NEW batch \in Seq(Observations), NEW key
    PROVE  Worth(pre, key) <= Worth(pre \o batch, key)
<1> DEFINE P(m) == SubSeq(pre \o batch, 1, Len(pre) + m)
           S == {m \in Nat : m <= Len(batch) => Worth(pre, key) <= Worth(P(m), key)}
<1>0. Len(batch) \in Nat /\ Len(pre) \in Nat /\ Worth(pre, key) \in Nat
  BY WorthIs
<1>1. 0 \in S
  <2>1. P(0) = pre
    BY <1>0
  <2> HIDE DEF P
  <2> QED
    BY <1>0, <2>1
<1>2. ASSUME NEW m \in Nat, m \in S PROVE m + 1 \in S
  <2> SUFFICES ASSUME m + 1 <= Len(batch) PROVE Worth(pre, key) <= Worth(P(m + 1), key)
    OBVIOUS
  <2> DEFINE o == batch[m + 1]
             s == P(m)
             more == Append(s, o)
  <2>1. m + 1 \in 1..Len(batch) /\ (m + 1) - 1 = m /\ Worth(pre, key) <= Worth(s, key)
    BY <1>0, <1>2
  <2>2. s \in Seq(Observations) /\ P(m + 1) = more /\ o \in Observations
    <3>1. PICK n \in 1..Len(batch) : n = m + 1 /\ n - 1 = m
      BY <2>1
    <3>2. /\ P(n - 1) \in Seq(Observations) /\ P(n) = Append(P(n - 1), batch[n])
          /\ batch[n] \in Observations
      BY PrefixStep
    <3> HIDE DEF P
    <3> QED
      BY <3>1, <3>2
  <2>3. WeightFor(o.tier) \in Nat
    BY WeightsAssumption, MaxU32Assumption DEF WeightFor
  <2> HIDE DEF o, s, P
  <2>4. Worth(s, key) \in Nat
    BY <2>2, WorthIs
  <2>5. \/ Worth(more, key) = Worth(s, key) + WeightFor(o.tier)
        \/ Worth(more, key) = Worth(s, key) + 0
    BY <2>2, WorthStep
  <2> HIDE DEF more
  <2> QED
    BY <1>0, <2>1, <2>2, <2>3, <2>4, <2>5
<1>3. Len(batch) \in S
  <2> HIDE DEF S
  <2> QED
    BY <1>0, <1>1, <1>2, InductionOnSet
<1> DEFINE whole == pre \o batch
<1>4. P(Len(batch)) = whole
  <2>1. Len(whole) = Len(pre) + Len(batch) /\ whole \in Seq(Observations)
    OBVIOUS
  <2> QED
    BY <2>1
<1>5. Worth(pre, key) <= Worth(P(Len(batch)), key)
  BY <1>0, <1>3
<1> HIDE DEF P, whole
<1>6. Worth(pre, key) <= Worth(whole, key)
  BY <1>4, <1>5
<1> QED
  BY <1>6 DEF whole

\* While no addition has overflowed, what the caller has and what the batch has so far
\* are the worth of the observations up to there, exactly.
LEMMA RoundsExact ==
    ASSUME log \in Seq(Observations), rejected \in Seq(Observations),
           Matches(seen, totals, rejected, log), \A key : Lookup(totals, key) = Worth(log, key),
           NEW batch \in Seq(Observations), NEW n \in 0..Len(batch),
           \A i \in 1..n : ~ AddOverflows(batch, i)
    PROVE  \A key : Lookup(totals, key) + Lookup(Rounds(seen, batch)[n].scores, key) =
                        Worth(SubSeq(log \o batch, 1, Len(log) + n), key)
<1> DEFINE R == Rounds(seen, batch)
           P(m) == SubSeq(log \o batch, 1, Len(log) + m)
           Exact(m) == \A key : Lookup(totals, key) + Lookup(R[m].scores, key) = Worth(P(m), key)
           S == {m \in Nat : m <= n => Exact(m)}
<1>0. Len(batch) \in Nat /\ Len(log) \in Nat /\ n \in Nat /\ n <= Len(batch)
  OBVIOUS
<1>1. /\ R[0] = StartBatch(seen)
      /\ \A m \in 1..Len(batch) : R[m] = AccumulateOne(R[m - 1], batch[m])
  BY <1>0, RoundsAre
<1>2. \A m \in 0..Len(batch) : RoundMatches(R[m], totals, rejected, P(m))
  BY MatchesTable, RoundsMatch
<1>3. \A i \in 1..n : batch[i].nullifier \notin R[i - 1].seen =>
            ~ (Lookup(R[i - 1].scores, ScoreKey(batch[i])) + WeightFor(batch[i].tier) > MaxU32)
  BY DEF AddOverflows, Before
<1> HIDE DEF R
<1>4. 0 \in S
  <2>1. P(0) = log
    BY <1>0
  <2>2. R[0].scores = EmptyTable
    BY <1>1 DEF StartBatch
  <2>3. \A key : Lookup(R[0].scores, key) = 0
    BY <2>2 DEF EmptyTable, Lookup
  <2>4. \A key : Worth(log, key) \in Nat
    BY WorthIs
  <2> HIDE DEF P
  <2> QED
    BY <2>1, <2>3, <2>4
<1>5. ASSUME NEW m \in Nat, m \in S PROVE m + 1 \in S
  <2> SUFFICES ASSUME m + 1 <= n PROVE Exact(m + 1)
    OBVIOUS
  <2> DEFINE o == batch[m + 1]
             a == R[m]
             next == R[m + 1]
             s == P(m)
             more == Append(s, o)
             w == WeightFor(o.tier)
             k == ScoreKey(o)
  <2>1. /\ m + 1 \in 1..Len(batch) /\ (m + 1) - 1 = m /\ m \in 0..Len(batch)
        /\ m + 1 \in 1..n /\ m <= n
    BY <1>0
  <2>2. \A key : Lookup(totals, key) + Lookup(a.scores, key) = Worth(s, key)
    BY <1>5, <2>1
  <2>3. next = AccumulateOne(a, o)
    BY <1>1, <2>1
  <2>4. s \in Seq(Observations) /\ P(m + 1) = more /\ o \in Observations
    BY <2>1, PrefixStep
  <2>5. RoundMatches(a, totals, rejected, s)
    BY <1>2, <2>1
  <2>6. o.nullifier \notin a.seen => ~ (Lookup(a.scores, k) + w > MaxU32)
    BY <1>3, <2>1
  <2>7. w \in Nat
    BY WeightsAssumption, MaxU32Assumption DEF WeightFor
  <2> HIDE DEF o, a, next, s, P, w, k
  <2>8. /\ IF o.nullifier \in a.seen THEN next.scores = a.scores
           ELSE next.scores = AddAt(a.scores, k, w)
        /\ a.seen = NullifiersIn(s) /\ Table(a.scores)
    BY <2>3, <2>4, <2>5, RoundFields DEF RoundMatches, Matches, k, w
  <2> SUFFICES ASSUME NEW key
               PROVE  Lookup(totals, key) + Lookup(next.scores, key) = Worth(P(m + 1), key)
    BY DEF next
  <2>9. /\ Lookup(a.scores, key) \in Nat /\ Lookup(a.scores, k) \in Nat
        /\ Lookup(totals, key) \in Nat /\ Worth(s, key) \in Nat
    <3>1. Worth(log, key) \in Nat /\ Worth(s, key) \in Nat
      BY <2>4, WorthIs
    <3>2. Lookup(a.scores, key) \in Nat /\ Lookup(a.scores, k) \in Nat
      BY <2>8, MaxU32Assumption DEF Table, U32, Lookup
    <3> QED
      BY <3>1, <3>2
  <2>10. Worth(more, key) =
            Worth(s, key) + (IF o.nullifier \notin NullifiersIn(s) /\ key = k THEN w ELSE 0)
    BY <2>4, WorthStep DEF k, w
  <2> HIDE DEF more
  <2>11. CASE o.nullifier \in a.seen
    <3>1. next.scores = a.scores
      BY <2>8, <2>11
    <3>2. Worth(more, key) = Worth(s, key) + 0
      BY <2>8, <2>10, <2>11
    <3> QED
      BY <2>2, <2>4, <2>9, <3>1, <3>2
  <2>12. CASE o.nullifier \notin a.seen
    <3>1. next.scores = AddAt(a.scores, k, w)
      BY <2>8, <2>12
    <3>2. AddU32(Lookup(a.scores, k), w) = Lookup(a.scores, k) + w
      <4>1. PICK c \in Nat : c = Lookup(a.scores, k) + w
        BY <2>7, <2>9
      <4>2. c <= MaxU32
        BY <2>6, <2>12, <4>1, MaxU32Assumption
      <4>3. c % (MaxU32 + 1) = c
        BY <4>2, AddWraps
      <4> QED
        BY <4>1, <4>3 DEF AddU32
    <3>3. CASE key = k
      <4>1. Lookup(next.scores, key) = Lookup(a.scores, key) + w
        BY <3>1, <3>2, <3>3 DEF AddAt, Lookup
      <4>2. Worth(more, key) = Worth(s, key) + w
        BY <2>8, <2>10, <2>12, <3>3
      <4> QED
        BY <2>2, <2>4, <2>7, <2>9, <4>1, <4>2
    <3>4. CASE key # k
      <4>1. Lookup(next.scores, key) = Lookup(a.scores, key)
        BY <3>1, <3>4 DEF AddAt, Lookup
      <4>2. Worth(more, key) = Worth(s, key) + 0
        BY <2>8, <2>10, <3>4
      <4> QED
        BY <2>2, <2>4, <2>9, <4>1, <4>2
    <3> QED
      BY <3>3, <3>4
  <2> QED
    BY <2>11, <2>12
<1>6. \A m \in Nat : m \in S
  <2> HIDE DEF S
  <2> QED
    BY <1>4, <1>5, InductionOnSet
<1>7. Exact(n)
  BY <1>0, <1>6
<1> QED
  BY <1>7 DEF R

----------------------------------------------------------------------------
(* The invariant.                                                          *)

\* The inductive invariant: until a panic, what the code keeps is what the log is worth,
\* and fits where additions are checked; after it, no more than that was lost.
BatchInv ==
    /\ log \in Seq(Observations) /\ rejected \in Seq(Observations)
    /\ ~ panicked =>
        /\ Matches(seen, totals, rejected, log)
        /\ committed = Len(log)
        /\ checked => \A key \in KeysIn(log) : Worth(log, key) <= MaxU32
    /\ PanicOnlyLoses

LEMMA BatchInit == Init => BatchInv
<1> SUFFICES ASSUME Init PROVE BatchInv
  OBVIOUS
<1>1. log = << >> /\ rejected = << >> /\ committed = 0 /\ ~ panicked /\ seen = {}
      /\ totals = EmptyTable
  BY DEF Init
<1>2. NullifiersIn(<< >>) = {} /\ KeysIn(<< >>) = {} /\ Replays(<< >>) = {}
  BY DEF NullifiersIn, KeysIn, Replays, FirstUses
<1>3. EmptyTable = [key \in {} |-> Worth(<< >>, key) % (MaxU32 + 1)]
  BY DEF EmptyTable
<1>4. ReplaysReported(<< >>, << >>)
  BY <1>2, FS_EmptySet DEF ReplaysReported
<1>5. Matches({}, EmptyTable, << >>, << >>)
  BY <1>2, <1>3, <1>4 DEF Matches
<1>6. << >> \in Seq(Observations) /\ Len(<< >>) = 0
  OBVIOUS
<1> QED
  BY <1>1, <1>2, <1>5, <1>6 DEF BatchInv, PanicOnlyLoses

\* Where additions are checked, the caller's totals are the worth of the log.
LEMMA TotalsExact ==
    ASSUME BatchInv, ~ panicked, checked
    PROVE  \A key : Lookup(totals, key) = Worth(log, key)
<1> SUFFICES ASSUME NEW key PROVE Lookup(totals, key) = Worth(log, key)
  OBVIOUS
<1>1. /\ log \in Seq(Observations) /\ Matches(seen, totals, rejected, log)
      /\ \A j \in KeysIn(log) : Worth(log, j) <= MaxU32
  BY DEF BatchInv
<1>2. Lookup(totals, key) = Worth(log, key) % (MaxU32 + 1) /\ Worth(log, key) \in Nat
  BY <1>1, MatchesReads, WorthIs
<1>3. Worth(log, key) <= MaxU32
  BY <1>1, WorthOfNone, MaxU32Assumption
<1> QED
  BY <1>2, <1>3, AddWraps

\* A batch that is submitted.
LEMMA SubmitTypes ==
    ASSUME BatchInv, NEW batch \in Batch, Submit(batch)
    PROVE  /\ ~ panicked /\ batch \in Seq(Observations) /\ Len(batch) \in Nat
           /\ log \in Seq(Observations) /\ Len(log) \in Nat
           /\ log' = log \o batch /\ log' \in Seq(Observations)
           /\ Len(log') = Len(log) + Len(batch)
           /\ SubSeq(log', 1, Len(log)) = log
           /\ SubSeq(log', 1, Len(log) + Len(batch)) = log'
           /\ \A n \in 0..Len(batch) :
                RoundMatches(Rounds(seen, batch)[n], totals, rejected,
                             SubSeq(log', 1, Len(log) + n))
<1>1. PICK n \in 1..MaxBatch : batch \in [1..n -> Observations]
  BY DEF Batch
<1>2. batch \in Seq(Observations) /\ Len(batch) \in Nat
  BY <1>1
<1>3. /\ log \in Seq(Observations) /\ rejected \in Seq(Observations) /\ ~ panicked
      /\ Matches(seen, totals, rejected, log) /\ log' = log \o batch
  BY DEF Submit, BatchInv
<1>4. Table(totals)
  BY <1>3, MatchesTable
<1>5. \A m \in 0..Len(batch) :
        RoundMatches(Rounds(seen, batch)[m], totals, rejected,
                     SubSeq(log \o batch, 1, Len(log) + m))
  BY <1>2, <1>3, <1>4, RoundsMatch
<1>6. /\ log \o batch \in Seq(Observations) /\ Len(log \o batch) = Len(log) + Len(batch)
      /\ Len(log) \in Nat
  BY <1>2, <1>3
<1>7. SubSeq(log \o batch, 1, Len(log)) = log
  BY <1>2, <1>3
<1>8. SubSeq(log \o batch, 1, Len(log) + Len(batch)) = log \o batch
  <2> DEFINE whole == log \o batch
  <2>1. whole \in Seq(Observations) /\ Len(whole) = Len(log) + Len(batch)
    BY <1>6
  <2> HIDE DEF whole
  <2>2. SubSeq(whole, 1, Len(whole)) = whole
    BY <2>1
  <2> QED
    BY <2>1, <2>2 DEF whole
<1> QED
  BY <1>2, <1>3, <1>5, <1>6, <1>7, <1>8

LEMMA ReturnStep ==
    ASSUME BatchInv, NEW batch \in Batch, Return(batch)
    PROVE  BatchInv'
<1>1. Submit(batch)
  BY DEF Return
<1>2. /\ ~ panicked /\ batch \in Seq(Observations) /\ Len(batch) \in Nat
      /\ log' \in Seq(Observations) /\ log' = log \o batch /\ log \in Seq(Observations)
      /\ SubSeq(log', 1, Len(log) + Len(batch)) = log'
  BY <1>1, SubmitTypes
<1>3. PICK a : a = Accumulate(batch)
  OBVIOUS
<1>4. a = Rounds(seen, batch)[Len(batch)]
  BY <1>3 DEF Accumulate
<1>5. RoundMatches(a, totals, rejected, log')
  <2>1. RoundMatches(Rounds(seen, batch)[Len(batch)], totals, rejected,
                     SubSeq(log', 1, Len(log) + Len(batch)))
    BY <1>1, <1>2, SubmitTypes
  <2> QED
    BY <1>2, <1>4, <2>1
<1>6. /\ seen' = a.seen /\ totals' = Merge(totals, a.scores)
      /\ rejected' = rejected \o a.rejected_replays /\ committed' = Len(log')
      /\ panicked' = panicked /\ checked' = checked /\ (checked => ~ Panics(batch))
  BY <1>3 DEF Return, Submit
<1>7. Matches(seen', totals', rejected', log')
  BY <1>5, <1>6 DEF RoundMatches
<1>8. rejected' \in Seq(Observations)
  BY <1>5, <1>6 DEF RoundMatches, BatchInv
<1>9. ASSUME checked, NEW key \in KeysIn(log') PROVE Worth(log', key) <= MaxU32
  <2>1. \A j : Lookup(totals, j) = Worth(log, j)
    BY <1>2, <1>9, TotalsExact
  <2>2. ~ Panics(batch)
    BY <1>6, <1>9
  <2>3. \A i \in 1..Len(batch) : ~ AddOverflows(batch, i)
    BY <1>2, <2>2 DEF Panics
  <2>4. \A j : Lookup(totals, j) + Lookup(a.scores, j) = Worth(log', j)
    <3>1. Matches(seen, totals, rejected, log) /\ rejected \in Seq(Observations)
      BY <1>2 DEF BatchInv
    <3>2. \A j : Lookup(totals, j) + Lookup(Rounds(seen, batch)[Len(batch)].scores, j) =
                    Worth(SubSeq(log \o batch, 1, Len(log) + Len(batch)), j)
      BY <1>2, <2>1, <2>3, <3>1, RoundsExact
    <3>3. SubSeq(log \o batch, 1, Len(log) + Len(batch)) = log'
      BY <1>2
    <3> QED
      BY <1>4, <3>2, <3>3
  <2>5. CASE key \in DOMAIN a.scores
    <3>1. ~ (Lookup(totals, key) + Lookup(a.scores, key) > MaxU32)
      BY <1>3, <2>2, <2>5 DEF Panics, MergeOverflows
    <3>2. Worth(log', key) \in Nat
      BY <1>2, WorthIs
    <3> QED
      BY <2>4, <3>1, <3>2, MaxU32Assumption
  <2>6. CASE key \notin DOMAIN a.scores
    <3>1. Lookup(a.scores, key) = 0
      BY <2>6 DEF Lookup
    <3>2. Worth(log, key) \in Nat /\ Worth(log', key) \in Nat
      BY <1>2, WorthIs
    <3>3. Worth(log', key) = Worth(log, key)
      BY <2>1, <2>4, <3>1, <3>2
    <3>4. Worth(log, key) <= MaxU32
      BY <1>2, <1>9, WorthOfNone, MaxU32Assumption DEF BatchInv
    <3> QED
      BY <3>3, <3>4
  <2> QED
    BY <2>5, <2>6
<1>10. PanicOnlyLoses'
  BY <1>2, <1>6 DEF PanicOnlyLoses
<1> QED
  BY <1>2, <1>6, <1>7, <1>8, <1>9, <1>10 DEF BatchInv

\* What a panic leaves: totals between the worth of what returned and of what came in.
LEMMA PanicStep ==
    ASSUME BatchInv, NEW batch \in Batch, Submit(batch), panicked',
           rejected' = rejected, committed' = committed, seen' \subseteq NullifiersIn(log'),
           \A key : \/ Lookup(totals', key) = Worth(log, key)
                    \/ Lookup(totals', key) = Worth(log', key)
    PROVE  BatchInv'
<1>1. /\ ~ panicked /\ batch \in Seq(Observations)
      /\ log' \in Seq(Observations) /\ log' = log \o batch /\ log \in Seq(Observations)
      /\ SubSeq(log', 1, Len(log)) = log
  BY SubmitTypes
<1>2. committed' = Len(log) /\ rejected' \in Seq(Observations)
  BY <1>1 DEF BatchInv
<1>3. \A key : /\ Worth(log, key) <= Worth(log', key)
               /\ Worth(log, key) \in Nat /\ Worth(log', key) \in Nat
  BY <1>1, WorthGrows, WorthIs
<1>4. \A key : /\ Worth(log, key) <= Lookup(totals', key)
               /\ Lookup(totals', key) <= Worth(log', key)
  BY <1>3
<1>5. \A key : Worth(SubSeq(log', 1, committed'), key) = Worth(log, key)
  BY <1>1, <1>2
<1>6. PanicOnlyLoses'
  BY <1>4, <1>5 DEF PanicOnlyLoses
<1> QED
  BY <1>1, <1>2, <1>6 DEF BatchInv

LEMMA PanicInBatchStep ==
    ASSUME BatchInv, NEW batch \in Batch, PanicInBatch(batch)
    PROVE  BatchInv'
<1>1. /\ Submit(batch) /\ checked /\ panicked' /\ totals' = totals /\ rejected' = rejected
      /\ committed' = committed
  BY DEF PanicInBatch
<1>2. /\ ~ panicked /\ batch \in Seq(Observations) /\ Len(batch) \in Nat /\ Len(log) \in Nat
      /\ log' = log \o batch /\ log \in Seq(Observations) /\ log' \in Seq(Observations)
  BY <1>1, SubmitTypes
<1>3. PICK i \in DOMAIN batch : seen' = Before(batch, i).seen \cup {batch[i].nullifier}
  BY DEF PanicInBatch
<1> DEFINE s == SubSeq(log', 1, Len(log) + (i - 1))
<1>4. i \in 1..Len(batch) /\ i - 1 \in 0..Len(batch)
  BY <1>2
<1>5. Before(batch, i).seen = NullifiersIn(s)
  BY <1>1, <1>4, SubmitTypes DEF Before, RoundMatches, Matches
<1>6. NullifiersIn(s) \subseteq NullifiersIn(log')
  <2>1. \A j \in DOMAIN s : j \in DOMAIN log' /\ s[j] = log'[j]
    BY <1>2, <1>4
  <2> HIDE DEF s
  <2> QED
    BY <2>1 DEF NullifiersIn
<1>7. batch[i].nullifier \in NullifiersIn(log')
  <2>1. Len(log) + i \in DOMAIN log' /\ log'[Len(log) + i] = batch[i]
    BY <1>2, <1>4
  <2> QED
    BY <2>1 DEF NullifiersIn
<1>8. seen' \subseteq NullifiersIn(log')
  <2> HIDE DEF s
  <2> QED
    BY <1>3, <1>5, <1>6, <1>7
<1>9. \A key : Lookup(totals', key) = Worth(log, key)
  BY <1>1, <1>2, TotalsExact
<1> QED
  BY <1>1, <1>8, <1>9, PanicStep

LEMMA PanicAddingUpStep ==
    ASSUME BatchInv, NEW batch \in Batch, PanicAddingUp(batch)
    PROVE  BatchInv'
<1>1. /\ Submit(batch) /\ checked /\ panicked' /\ rejected' = rejected
      /\ committed' = committed /\ seen' = Accumulate(batch).seen
      /\ \A i \in DOMAIN batch : ~ AddOverflows(batch, i)
  BY DEF PanicAddingUp
<1>2. /\ ~ panicked /\ batch \in Seq(Observations) /\ Len(batch) \in Nat /\ Len(log) \in Nat
      /\ log' = log \o batch /\ log \in Seq(Observations) /\ log' \in Seq(Observations)
      /\ SubSeq(log', 1, Len(log) + Len(batch)) = log'
  BY <1>1, SubmitTypes
<1>3. PICK a : a = Accumulate(batch)
  OBVIOUS
<1>4. a = Rounds(seen, batch)[Len(batch)]
  BY <1>3 DEF Accumulate
<1>5. RoundMatches(a, totals, rejected, log')
  <2>1. RoundMatches(Rounds(seen, batch)[Len(batch)], totals, rejected,
                     SubSeq(log', 1, Len(log) + Len(batch)))
    BY <1>1, <1>2, SubmitTypes
  <2> QED
    BY <1>2, <1>4, <2>1
<1>6. seen' = NullifiersIn(log')
  BY <1>1, <1>3, <1>5 DEF RoundMatches, Matches
<1>7. \A j : Lookup(totals, j) = Worth(log, j)
  BY <1>1, <1>2, TotalsExact
<1>8. \A j : Lookup(totals, j) + Lookup(a.scores, j) = Worth(log', j)
  <2>1. Matches(seen, totals, rejected, log) /\ rejected \in Seq(Observations)
    BY <1>2 DEF BatchInv
  <2>2. \A i \in 1..Len(batch) : ~ AddOverflows(batch, i)
    BY <1>1, <1>2
  <2>3. \A j : Lookup(totals, j) + Lookup(Rounds(seen, batch)[Len(batch)].scores, j) =
                  Worth(SubSeq(log \o batch, 1, Len(log) + Len(batch)), j)
    BY <1>2, <1>7, <2>1, <2>2, RoundsExact
  <2>4. SubSeq(log \o batch, 1, Len(log) + Len(batch)) = log'
    BY <1>2
  <2> QED
    BY <1>4, <2>3, <2>4
<1> DEFINE scores == a.scores
           over == {key \in DOMAIN scores : MergeOverflows(batch, key)}
<1>9. PICK done \in SUBSET (DOMAIN scores \ over) :
        totals' = Merge(totals, [key \in done |-> scores[key]])
  BY <1>3 DEF PanicAddingUp
<1>10. \A key \in done : ~ (Lookup(totals, key) + Lookup(scores, key) > MaxU32)
  BY <1>3, <1>9 DEF MergeOverflows
<1>11. ASSUME NEW key
       PROVE  \/ Lookup(totals', key) = Worth(log, key)
              \/ Lookup(totals', key) = Worth(log', key)
  <2> DEFINE part == [k \in done |-> scores[k]]
  <2>1. CASE key \in done
    <3>1. key \in DOMAIN part /\ part[key] = Lookup(scores, key)
      BY <1>9, <2>1 DEF Lookup
    <3>2. Lookup(Merge(totals, part), key) = AddU32(Lookup(totals, key), part[key])
      <4> HIDE DEF part
      <4> QED
        BY <3>1 DEF Merge, Lookup
    <3>3. Lookup(totals, key) + Lookup(scores, key) = Worth(log', key) /\ Worth(log', key) \in Nat
      BY <1>2, <1>8, WorthIs
    <3>4. Worth(log', key) <= MaxU32
      BY <1>10, <2>1, <3>3, MaxU32Assumption
    <3>5. AddU32(Lookup(totals, key), Lookup(scores, key)) = Worth(log', key) % (MaxU32 + 1)
      BY <3>3 DEF AddU32
    <3>6. Worth(log', key) % (MaxU32 + 1) = Worth(log', key)
      BY <3>3, <3>4, AddWraps
    <3> QED
      BY <1>9, <3>1, <3>2, <3>5, <3>6
  <2>2. CASE key \notin done
    <3>1. Lookup(Merge(totals, part), key) = Lookup(totals, key)
      BY <2>2 DEF Merge, Lookup
    <3> QED
      BY <1>7, <1>9, <3>1
  <2> QED
    BY <2>1, <2>2
<1> QED
  BY <1>1, <1>6, <1>11, PanicStep

LEMMA BatchInvariant == Spec => []BatchInv
<1>1. ASSUME BatchInv, UNCHANGED vars PROVE BatchInv'
  BY <1>1 DEF BatchInv, PanicOnlyLoses, vars
<1>2. BatchInv /\ [Next]_vars => BatchInv'
  BY <1>1, ReturnStep, PanicInBatchStep, PanicAddingUpStep DEF Next
<1> QED
  BY <1>2, BatchInit, PTL DEF Spec

\* For all sequences, batches and widths of the counters: what batch after batch leaves
\* is what the sequence of their observations is worth.
THEOREM BatchesAreWorth == Spec => []BatchesMatchReference
<1>1. BatchInv => BatchesMatchReference
  BY DEF BatchInv, Matches, BatchesMatchReference
<1> QED
  BY <1>1, BatchInvariant, PTL

\* After a panic nothing is there that was not observed, and what returned is all there.
THEOREM PanicLoses == Spec => []PanicOnlyLoses
<1>1. BatchInv => PanicOnlyLoses
  BY DEF BatchInv
<1> QED
  BY <1>1, BatchInvariant, PTL

----------------------------------------------------------------------------
(* The order.                                                              *)

\* Every nullifier of a sequence has one first use.
LEMMA FirstUseOf ==
    ASSUME NEW s \in Seq(Observations), NEW i \in DOMAIN s
    PROVE  \E j \in FirstUses(s) : s[j].nullifier = s[i].nullifier
<1> DEFINE T == {j \in DOMAIN s : s[j].nullifier = s[i].nullifier}
<1>1. DOMAIN s = 1..Len(s) /\ Len(s) \in Nat
  OBVIOUS
<1>2. T \subseteq Nat /\ T # {}
  BY <1>1
<1>3. PICK j \in T : \A k \in T : j <= k
  <2> HIDE DEF T
  <2> QED
    BY <1>2, LeastElement
<1>4. \A k \in 1..(j - 1) : k \in DOMAIN s /\ ~ (j <= k)
  BY <1>1
<1>5. j \in FirstUses(s)
  BY <1>3, <1>4 DEF FirstUses
<1> QED
  BY <1>5

LEMMA FirstUseOnce ==
    ASSUME NEW s \in Seq(Observations), NEW i \in FirstUses(s), NEW j \in FirstUses(s),
           s[i].nullifier = s[j].nullifier
    PROVE  i = j
<1>1. DOMAIN s = 1..Len(s) /\ Len(s) \in Nat /\ i \in DOMAIN s /\ j \in DOMAIN s
  BY DEF FirstUses
<1>2. i \in Nat /\ j \in Nat /\ i >= 1 /\ j >= 1
  BY <1>1
<1>3. CASE i < j
  <2>1. i \in 1..(j - 1)
    BY <1>2, <1>3
  <2> QED
    BY <2>1 DEF FirstUses
<1>4. CASE j < i
  <2>1. j \in 1..(i - 1)
    BY <1>2, <1>4
  <2> QED
    BY <2>1 DEF FirstUses
<1> QED
  BY <1>2, <1>3, <1>4

\* The same observations in another order.
Reordered(s, p) == [i \in DOMAIN s |-> s[p[i]]]

LEMMA ReorderedHas ==
    ASSUME NEW s \in Seq(Observations), NEW p \in [DOMAIN s -> DOMAIN s],
           \A i, j \in DOMAIN s : p[i] = p[j] => i = j
    PROVE  LET t == Reordered(s, p)
           IN  /\ t \in Seq(Observations) /\ DOMAIN t = DOMAIN s /\ Len(t) = Len(s)
               /\ \A i \in DOMAIN s : t[i] = s[p[i]]
               /\ \A i \in DOMAIN s : \E j \in DOMAIN s : p[j] = i
               /\ NullifiersIn(t) = NullifiersIn(s)
<1> DEFINE t == Reordered(s, p)
<1>1. DOMAIN s = 1..Len(s) /\ Len(s) \in Nat
  OBVIOUS
<1>2. t \in Seq(Observations) /\ DOMAIN t = DOMAIN s /\ Len(t) = Len(s)
  BY <1>1 DEF Reordered
<1>3. \A i \in DOMAIN s : t[i] = s[p[i]] /\ p[i] \in DOMAIN s
  BY DEF Reordered
<1>4. \A i \in DOMAIN s : \E j \in DOMAIN s : p[j] = i
  <2>1. IsFiniteSet(DOMAIN s)
    BY <1>1, FS_Interval
  <2>2. p \in Injection(DOMAIN s, DOMAIN s)
    BY DEF Injection, IsInjective
  <2>3. p \in Surjection(DOMAIN s, DOMAIN s)
    BY <2>1, <2>2, FS_Injection
  <2> QED
    BY <2>3 DEF Surjection
<1> HIDE DEF t
<1>5. NullifiersIn(t) = NullifiersIn(s)
  <2>1. NullifiersIn(t) \subseteq NullifiersIn(s)
    BY <1>2, <1>3 DEF NullifiersIn
  <2>2. ASSUME NEW i \in DOMAIN s PROVE s[i].nullifier \in NullifiersIn(t)
    <3>1. PICK j \in DOMAIN s : p[j] = i
      BY <1>4
    <3>2. j \in DOMAIN t /\ t[j] = s[i]
      BY <1>2, <1>3, <3>1
    <3> QED
      BY <3>2 DEF NullifiersIn
  <2>3. NullifiersIn(s) = {s[i].nullifier : i \in DOMAIN s}
    BY DEF NullifiersIn
  <2>4. PICK N : N = NullifiersIn(t)
    OBVIOUS
  <2>5. NullifiersIn(s) \subseteq N
    BY <2>2, <2>3, <2>4
  <2> QED
    BY <2>1, <2>4, <2>5
<1> QED
  BY <1>2, <1>3, <1>4, <1>5 DEF t

\* If every nullifier stands for one observation, every order is worth the same.
LEMMA WorthReordered ==
    ASSUME NEW s \in Seq(Observations), NEW p \in [DOMAIN s -> DOMAIN s],
           \A i, j \in DOMAIN s : p[i] = p[j] => i = j, Consistent(s), NEW key
    PROVE  /\ Worth(Reordered(s, p), key) = Worth(s, key)
           /\ key \in KeysIn(Reordered(s, p)) <=> key \in KeysIn(s)
<1> DEFINE t == Reordered(s, p)
<1>1. /\ t \in Seq(Observations) /\ DOMAIN t = DOMAIN s
      /\ \A i \in DOMAIN s : t[i] = s[p[i]] /\ p[i] \in DOMAIN s
      /\ \A i \in DOMAIN s : \E j \in DOMAIN s : p[j] = i
  BY ReorderedHas
<1> HIDE DEF t
<1>2. /\ Places(s, key) \subseteq FirstUses(s) /\ FirstUses(s) \subseteq DOMAIN s
      /\ Places(t, key) \subseteq FirstUses(t) /\ FirstUses(t) \subseteq DOMAIN t
  BY DEF Places, FirstUses
<1>3. \A i, j \in DOMAIN s : s[i].nullifier = s[j].nullifier =>
            ScoreKey(s[i]) = ScoreKey(s[j]) /\ s[i].tier = s[j].tier
  BY DEF Consistent
<1> DEFINE Same(i, j) == t[j].nullifier = s[i].nullifier
           h == [i \in Places(s, key) |-> CHOOSE j \in FirstUses(t) : Same(i, j)]
<1>4. \A i \in DOMAIN s, j \in DOMAIN t :
        Same(i, j) => ScoreKey(t[j]) = ScoreKey(s[i]) /\ t[j].tier = s[i].tier
  BY <1>1, <1>3
<1>5. \A i \in DOMAIN s : \E j \in FirstUses(t) : Same(i, j)
  <2> SUFFICES ASSUME NEW i \in DOMAIN s PROVE \E j \in FirstUses(t) : Same(i, j)
    OBVIOUS
  <2>1. PICK k \in DOMAIN s : p[k] = i
    BY <1>1
  <2>2. k \in DOMAIN t /\ t[k] = s[i]
    BY <1>1, <2>1
  <2>3. PICK j \in FirstUses(t) : t[j].nullifier = t[k].nullifier
    BY <1>1, <2>2, FirstUseOf
  <2> QED
    BY <2>2, <2>3
<1>6. \A i \in Places(s, key) : h[i] \in FirstUses(t) /\ Same(i, h[i])
  <2> SUFFICES ASSUME NEW i \in Places(s, key) PROVE h[i] \in FirstUses(t) /\ Same(i, h[i])
    OBVIOUS
  <2>1. \E j \in FirstUses(t) : Same(i, j)
    BY <1>2, <1>5
  <2>2. h[i] = CHOOSE j \in FirstUses(t) : Same(i, j)
    OBVIOUS
  <2> HIDE DEF h
  <2> QED
    BY <2>1, <2>2
<1> HIDE DEF h
<1>7. \A i \in Places(s, key) : /\ h[i] \in Places(t, key)
                                /\ t[h[i]].tier = s[i].tier /\ Same(i, h[i])
  BY <1>2, <1>4, <1>6 DEF Places
<1>8. h \in [Places(s, key) -> Places(t, key)]
  BY <1>7 DEF h
<1>9. \A i, j \in Places(s, key) : h[i] = h[j] => i = j
  <2> SUFFICES ASSUME NEW i \in Places(s, key), NEW j \in Places(s, key), h[i] = h[j]
               PROVE  i = j
    OBVIOUS
  <2>1. s[i].nullifier = s[j].nullifier
    BY <1>7
  <2> QED
    BY <1>2, <2>1, FirstUseOnce
<1>10. \A j \in Places(t, key) : \E i \in Places(s, key) : h[i] = j
  <2> SUFFICES ASSUME NEW j \in Places(t, key) PROVE \E i \in Places(s, key) : h[i] = j
    OBVIOUS
  <2>1. j \in DOMAIN s /\ p[j] \in DOMAIN s /\ t[j] = s[p[j]]
    BY <1>1, <1>2
  <2>2. PICK i \in FirstUses(s) : s[i].nullifier = s[p[j]].nullifier
    BY <2>1, FirstUseOf
  <2>3. i \in Places(s, key)
    BY <1>2, <1>3, <2>1, <2>2 DEF Places
  <2>4. t[h[i]].nullifier = t[j].nullifier /\ h[i] \in FirstUses(t) /\ j \in FirstUses(t)
    BY <1>2, <1>7, <2>1, <2>2, <2>3
  <2>5. h[i] = j
    BY <1>1, <2>4, FirstUseOnce
  <2> QED
    BY <2>3, <2>5
<1>11. /\ IsFiniteSet(Places(s, key)) /\ IsFiniteSet(Places(t, key))
       /\ Worth(s, key) = SumFunctionOnSet(Weighed(s), Places(s, key))
       /\ Worth(t, key) = SumFunctionOnSet(Weighed(t), Places(t, key))
       /\ \A i \in DOMAIN s : Weighed(s)[i] = WeightFor(s[i].tier) /\ Weighed(s)[i] \in Nat
       /\ \A i \in DOMAIN t : Weighed(t)[i] = WeightFor(t[i].tier)
  BY <1>1, WorthIs
<1>12. \A i \in Places(s, key) :
          Weighed(s)[i] = Weighed(t)[h[i]] /\ Weighed(s)[i] \in Nat
  BY <1>2, <1>7, <1>11
<1>13. Worth(t, key) = Worth(s, key)
  BY <1>8, <1>9, <1>10, <1>11, <1>12, SumReindexed
<1>14. key \in KeysIn(t) <=> key \in KeysIn(s)
  <2>1. key \in KeysIn(t) <=> Places(t, key) # {}
    BY DEF KeysIn, Places
  <2>2. key \in KeysIn(s) <=> Places(s, key) # {}
    BY DEF KeysIn, Places
  <2> QED
    BY <1>7, <1>10, <2>1, <2>2
<1> QED
  BY <1>13, <1>14 DEF t

\* A sequence in one batch, from nothing.
LEMMA OneBatch ==
    ASSUME NEW s \in Seq(Observations)
    PROVE  /\ InOneBatch(s).seen = NullifiersIn(s)
           /\ InOneBatch(s).scores = [key \in KeysIn(s) |-> Worth(s, key) % (MaxU32 + 1)]
<1>1. << >> \in Seq(Observations) /\ Len(s) \in 0..Len(s) /\ Len(s) \in Nat
  OBVIOUS
<1>2. Table(EmptyTable)
  BY DEF Table, EmptyTable
<1>3. Matches({}, EmptyTable, << >>, << >>)
  <2>1. NullifiersIn(<< >>) = {} /\ KeysIn(<< >>) = {} /\ Replays(<< >>) = {}
    BY DEF NullifiersIn, KeysIn, Replays, FirstUses
  <2>2. EmptyTable = [key \in {} |-> Worth(<< >>, key) % (MaxU32 + 1)]
    BY DEF EmptyTable
  <2>3. ReplaysReported(<< >>, << >>)
    BY <2>1, FS_EmptySet DEF ReplaysReported
  <2> QED
    BY <2>1, <2>2, <2>3 DEF Matches
<1>4. RoundMatches(Rounds({}, s)[Len(s)], EmptyTable, << >>,
                   SubSeq(<< >> \o s, 1, Len(<< >>) + Len(s)))
  BY <1>1, <1>2, <1>3, RoundsMatch
<1>5. SubSeq(<< >> \o s, 1, Len(<< >>) + Len(s)) = s
  <2>1. << >> \o s = s /\ Len(<< >>) + Len(s) = Len(s)
    OBVIOUS
  <2>2. SubSeq(s, 1, Len(s)) = s
    OBVIOUS
  <2> QED
    BY <2>1, <2>2
<1>6. PICK a : a = InOneBatch(s)
  OBVIOUS
<1>7. RoundMatches(a, EmptyTable, << >>, s)
  BY <1>4, <1>5, <1>6 DEF InOneBatch
<1>8. /\ a.seen = NullifiersIn(s)
      /\ Merge(EmptyTable, a.scores) = [key \in KeysIn(s) |-> Worth(s, key) % (MaxU32 + 1)]
      /\ Table(a.scores) /\ a.scores = [k \in DOMAIN a.scores |-> a.scores[k]]
  BY <1>7 DEF RoundMatches, Matches
<1>9. Merge(EmptyTable, a.scores) = a.scores
  BY <1>2, <1>8, MergeEmpty
<1> QED
  BY <1>6, <1>8, <1>9

\* Cut differently and ordered differently, the same observations burn the same
\* nullifiers and, unless one comes with two tiers, give the same scores.
THEOREM OrderDoesNotMatter == Spec => []OrderIrrelevant
<1>1. ASSUME BatchInv PROVE OrderIrrelevant
  <2> SUFFICES ASSUME ~ panicked, NEW p \in [DOMAIN log -> DOMAIN log],
                      \A i, j \in DOMAIN log : p[i] = p[j] => i = j
               PROVE  LET other == InOneBatch([i \in DOMAIN log |-> log[p[i]]])
                      IN  /\ other.seen = seen
                          /\ Consistent(log) => other.scores = totals
    BY DEF OrderIrrelevant
  <2>1. log \in Seq(Observations) /\ Matches(seen, totals, rejected, log)
    BY <1>1 DEF BatchInv
  <2>2. PICK t : t = Reordered(log, p)
    OBVIOUS
  <2>3. t \in Seq(Observations) /\ NullifiersIn(t) = NullifiersIn(log)
    BY <2>1, <2>2, ReorderedHas
  <2>4. /\ InOneBatch(t).seen = NullifiersIn(t)
        /\ InOneBatch(t).scores = [key \in KeysIn(t) |-> Worth(t, key) % (MaxU32 + 1)]
    BY <2>3, OneBatch
  <2>5. InOneBatch(t).seen = seen
    BY <2>1, <2>3, <2>4 DEF Matches
  <2>6. ASSUME Consistent(log) PROVE InOneBatch(t).scores = totals
    <3>1. \A key : /\ Worth(t, key) = Worth(log, key)
                   /\ key \in KeysIn(t) <=> key \in KeysIn(log)
      BY <2>1, <2>2, <2>6, WorthReordered
    <3>2. KeysIn(t) = KeysIn(log)
      BY <3>1
    <3>3. totals = [key \in KeysIn(log) |-> Worth(log, key) % (MaxU32 + 1)]
      BY <2>1 DEF Matches
    <3> QED
      BY <2>4, <3>1, <3>2, <3>3
  <2>7. t = [i \in DOMAIN log |-> log[p[i]]]
    BY <2>2 DEF Reordered
  <2> QED
    BY <2>5, <2>6, <2>7
<1> QED
  BY <1>1, BatchInvariant, PTL

=============================================================================
