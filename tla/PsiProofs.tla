----------------------------- MODULE PsiProofs -----------------------------
(***************************************************************************)
(* Theorems about Psi, for any number of queriers, keys and sets and every *)
(* list: no item is ever found that is not in the list the set was made    *)
(* from, none is missed when set, query and reply belong together, the     *)
(* messages tell nothing by being equal, and a set tells of the order of   *)
(* its list no more than reducing random words modulo a place lets it.     *)
(*                                                                         *)
(* The first and the third rest on which keys the points on the wire carry *)
(* (OnTheWire): a query carries the key of its querier and no key of the   *)
(* holder, a reply one of each, a point of a set only the holder's.        *)
(* Neither says what a found item is; for that, a reply that carries the   *)
(* key of a query that is waited for is about the item of that query       *)
(* (Consistent).  The second and the last rest on the shuffle, which only  *)
(* ever swaps, and by each of its draws into another order.                *)
(***************************************************************************)
EXTENDS Psi, Foundations

Drawn == drawn \cap QuerierKeys

QueryOK(x) ==
    /\ x \in Points
    /\ \A k \in HolderKeys : x.power[k] = 0
    /\ \A a \in QuerierKeys : x.power[a] \in {0, 1}
    /\ \E a \in QuerierKeys : x.power[a] = 1

ReplyOK(x) ==
    /\ x \in Points
    /\ \E k \in HolderKeys : x.power[k] = 1
    /\ \A a \in QuerierKeys : x.power[a] \in {0, 1}
    /\ \E a \in QuerierKeys : x.power[a] = 1

SetOK(set) ==
    /\ set.list \in Seq(Texts)
    /\ set.key \in HolderKeys
    /\ \A i \in DOMAIN set.points : \E j \in DOMAIN set.list :
        set.points[i] = Times(HashIndicator(set.list[j]), set.key)

OnTheWire ==
    /\ \A x \in queries : QueryOK(x)
    /\ \A x \in replies : ReplyOK(x)
    /\ \A set \in sets : SetOK(set)

\* A key that was not drawn is in no message.
Fresh ==
    \A a \in QuerierKeys \ drawn : \A x \in queries \cup replies : x.power[a] = 0

Parties ==
    /\ list \in Lists
    /\ key \in HolderKeys
    /\ drawn \subseteq Keys
    /\ held \in [Queriers -> sets \cup {NoSet}]
    /\ asked \in [Queriers -> [text : Texts, key : Drawn] \cup {NoQuery}]

Consistent ==
    \A q \in Queriers : asked[q] # NoQuery =>
        \A x \in queries \cup replies :
            x.power[asked[q].key] = 1 => x.item = Normal[asked[q].text]

\* One query for each key.
OnePerKey == IsFiniteSet(queries) /\ IsFiniteSet(Drawn) /\ Cardinality(queries) = Cardinality(Drawn)

PsiInv == OnTheWire /\ Fresh /\ Parties /\ Consistent /\ FoundIsTrue /\ OnePerKey

----------------------------------------------------------------------------

\* The hash of an indicator carries no key.
LEMMA HashIsPoint ==
    ASSUME NEW text \in Texts
    PROVE  /\ HashIndicator(text) \in Points
           /\ HashIndicator(text).item = Normal[text]
           /\ \A k \in Keys : HashIndicator(text).power[k] = 0
BY NormalAssumption DEF HashIndicator, Points

\* Blinding adds one key to a point and leaves its indicator.
LEMMA TimesIsPoint ==
    ASSUME NEW x \in Points, NEW k \in Keys
    PROVE  /\ Times(x, k) \in Points
           /\ Times(x, k).item = x.item
           /\ Times(x, k).power[k] = x.power[k] + 1
           /\ \A l \in Keys \ {k} : Times(x, k).power[l] = x.power[l]
BY DEF Times, Points

\* finish_query takes one key away.
LEMMA UnblindedIsPoint ==
    ASSUME NEW x \in Points, NEW k \in Keys
    PROVE  Unblinded(x, k).item = x.item /\ Unblinded(x, k).power[k] = x.power[k] - 1
BY DEF Unblinded, Points

\* A point of a set carries the holder's key and no other.
LEMMA SetPoint ==
    ASSUME NEW set, SetOK(set), NEW x \in Range(set.points)
    PROVE  /\ \E j \in DOMAIN set.list : x.item = Normal[set.list[j]]
           /\ x.power[set.key] = 1
           /\ \A a \in QuerierKeys : x.power[a] = 0
<1>1. PICK j \in DOMAIN set.list : x = Times(HashIndicator(set.list[j]), set.key)
    BY DEF SetOK, Range
<1>2. set.list[j] \in Texts /\ set.key \in Keys
    BY <1>1 DEF SetOK, Keys
<1> QED
    BY <1>1, <1>2, HashIsPoint, TimesIsPoint, KeysAssumption DEF SetOK, Keys

\* blind_set returns blinded items.
LEMMA BlindSetIsOK ==
    ASSUME NEW items \in Lists, NEW k \in HolderKeys, NEW points \in BlindSet(k, items)
    PROVE  SetOK([points |-> points, list |-> items, key |-> k])
<1>1. points \in [DOMAIN items -> Range(Blinded(k, items))]
    BY DEF BlindSet
<1>2. \A i \in DOMAIN points : \E j \in DOMAIN items :
        points[i] = Times(HashIndicator(items[j]), k)
    BY <1>1 DEF Range, Blinded
<1> QED
    BY <1>2, ListsAssumption DEF SetOK

\* What finish_query finds is in the set's list.
LEMMA FoundIsListed ==
    ASSUME PsiInv, NEW q \in Queriers, NEW reply \in replies, CanFinish(q), Found(q, reply)
    PROVE  \E j \in DOMAIN held[q].list : Normal[held[q].list[j]] = Normal[asked[q].text]
<1>1. held[q] \in sets /\ SetOK(held[q])
    BY DEF PsiInv, Parties, OnTheWire, CanFinish
<1>2. asked[q].key \in QuerierKeys /\ asked[q].key \in Keys /\ asked[q] # NoQuery
    BY DEF PsiInv, Parties, CanFinish, Drawn, Keys
<1>3. reply \in Points /\ ReplyOK(reply)
    BY DEF PsiInv, OnTheWire, ReplyOK
<1> DEFINE x == Unblinded(reply, asked[q].key)
<1>4. x.item = reply.item /\ x.power[asked[q].key] = reply.power[asked[q].key] - 1
    BY <1>2, <1>3, UnblindedIsPoint
<1>5. x \in Range(held[q].points)
    BY DEF Found
<1> HIDE DEF x
<1>6. /\ x.power[asked[q].key] = 0
      /\ \E j \in DOMAIN held[q].list : x.item = Normal[held[q].list[j]]
    BY <1>1, <1>2, <1>5, SetPoint
<1>7. reply.power[asked[q].key] = 1
    BY <1>2, <1>3, <1>4, <1>6 DEF ReplyOK
<1>8. reply.item = Normal[asked[q].text]
    BY <1>2, <1>7 DEF PsiInv, Consistent
<1> QED
    BY <1>4, <1>6, <1>8

----------------------------------------------------------------------------

\* Nothing was sent yet.
LEMMA PsiInit == Init => PsiInv
<1> SUFFICES ASSUME Init PROVE PsiInv
    OBVIOUS
<1>1. Drawn = {} /\ queries = {}
    BY KeysAssumption DEF Init, Drawn
<1>2. OnePerKey
    BY <1>1, FS_EmptySet DEF OnePerKey
<1> QED
    BY <1>1, <1>2 DEF Init, PsiInv, OnTheWire, Fresh, Parties, Consistent, FoundIsTrue, Keys

\* A step that draws no query key and sends nothing.
LEMMA Quiet ==
    ASSUME PsiInv, Drawn' = Drawn, UNCHANGED <<queries, replies>>,
           drawn \subseteq drawn',
           \A set \in sets' : SetOK(set), FoundIsTrue', Parties',
           \A q \in Queriers : asked'[q] \in {asked[q], NoQuery}
    PROVE  PsiInv'
<1>1. OnTheWire' /\ Fresh' /\ OnePerKey'
    BY DEF PsiInv, OnTheWire, Fresh, OnePerKey, QueryOK, ReplyOK, SetOK, Drawn
<1>2. Consistent'
    BY DEF PsiInv, Consistent
<1> QED
    BY <1>1, <1>2 DEF PsiInv


\* A query with a key of its own.
LEMMA AskIsOK ==
    ASSUME PsiInv, NEW q \in Queriers, Ask(q)
    PROVE  PsiInv'
<1>1. PICK text \in Texts, a \in QuerierKeys \ drawn :
        /\ drawn' = drawn \cup {a}
        /\ asked' = [asked EXCEPT ![q] = [text |-> text, key |-> a]]
        /\ queries' = queries \cup {Times(HashIndicator(text), a)}
        /\ UNCHANGED <<list, key, sets, held, replies, answers>>
    BY DEF Ask
<1> DEFINE x == Times(HashIndicator(text), a)
<1>2. /\ x \in Points
      /\ x.item = Normal[text]
      /\ x.power[a] = 1
      /\ \A k \in Keys \ {a} : x.power[k] = 0
    BY HashIsPoint, TimesIsPoint DEF Keys
<1>3. queries' = queries \cup {x}
    BY <1>1
<1> HIDE DEF x
<1>4. QueryOK(x)
    BY <1>2, KeysAssumption DEF QueryOK, Keys
<1>5. OnTheWire'
    BY <1>1, <1>3, <1>4 DEF PsiInv, OnTheWire, QueryOK, ReplyOK, SetOK
<1>6. Fresh'
    BY <1>1, <1>2, <1>3 DEF PsiInv, Fresh, Keys
<1>7. Drawn' = Drawn \cup {a} /\ a \notin Drawn
    BY <1>1 DEF Drawn
<1>8. Parties'
    BY <1>1, <1>7 DEF PsiInv, Parties, Keys
<1>9. Consistent'
  <2> SUFFICES ASSUME NEW r \in Queriers, asked'[r] # NoQuery,
                      NEW y \in queries' \cup replies', y.power[asked'[r].key] = 1
               PROVE  y.item = Normal[asked'[r].text]
      BY DEF Consistent
  <2>1. CASE r = q
    <3>1. asked'[r] = [text |-> text, key |-> a]
        BY <1>1, <2>1 DEF PsiInv, Parties
    <3>2. y = x
        BY <1>1, <1>3, <3>1 DEF PsiInv, Fresh
    <3> QED
        BY <1>2, <3>1, <3>2
  <2>2. CASE r # q
    <3>1. asked'[r] = asked[r] /\ asked[r].key \in Drawn /\ asked[r].key # a
        BY <1>1, <1>7, <2>2 DEF PsiInv, Parties
    <3>2. y # x
        BY <1>2, <3>1 DEF Drawn, Keys
    <3> QED
        BY <1>1, <1>3, <3>1, <3>2 DEF PsiInv, Consistent
  <2> QED
      BY <2>1, <2>2
<1>10. OnePerKey'
  <2>1. x \notin queries
      BY <1>2 DEF PsiInv, Fresh
  <2>2. /\ IsFiniteSet(queries \cup {x})
        /\ Cardinality(queries \cup {x}) = Cardinality(queries) + 1
      BY <2>1, FS_AddElement DEF PsiInv, OnePerKey
  <2>3. /\ IsFiniteSet(Drawn \cup {a})
        /\ Cardinality(Drawn \cup {a}) = Cardinality(Drawn) + 1
      BY <1>7, FS_AddElement DEF PsiInv, OnePerKey
  <2> QED
      BY <1>3, <1>7, <2>2, <2>3 DEF PsiInv, OnePerKey
<1> QED
    BY <1>1, <1>5, <1>6, <1>8, <1>9, <1>10 DEF PsiInv, FoundIsTrue

\* The holder answers a query with its key of now.
LEMMA RespondIsOK ==
    ASSUME PsiInv, Respond
    PROVE  PsiInv'
<1>1. PICK query \in queries : replies' = replies \cup {Times(query, key)}
    BY DEF Respond
<1>2. UNCHANGED <<list, key, drawn, sets, held, asked, queries, answers>>
    BY DEF Respond
<1> DEFINE x == Times(query, key)
<1>3. query \in Points /\ key \in HolderKeys /\ QueryOK(query)
    BY DEF PsiInv, OnTheWire, QueryOK, Parties
<1>4. /\ x \in Points
      /\ x.item = query.item
      /\ x.power[key] = query.power[key] + 1
      /\ \A a \in QuerierKeys : x.power[a] = query.power[a]
    BY <1>3, TimesIsPoint, KeysAssumption DEF Keys
<1>5. replies' = replies \cup {x}
    BY <1>1
<1> HIDE DEF x
<1>6. ReplyOK(x)
    BY <1>3, <1>4 DEF QueryOK, ReplyOK
<1>7. OnTheWire' /\ Fresh'
    BY <1>2, <1>4, <1>5, <1>6 DEF PsiInv, OnTheWire, Fresh, QueryOK, ReplyOK, SetOK
<1>8. Parties' /\ OnePerKey'
    BY <1>2 DEF PsiInv, Parties, OnePerKey, Drawn
<1>9. Consistent'
  <2>1. \A q \in Queriers : asked[q] # NoQuery => asked[q].key \in QuerierKeys
      BY DEF PsiInv, Parties, Drawn
  <2> QED
      BY <1>2, <1>4, <1>5, <2>1 DEF PsiInv, Consistent
<1> QED
    BY <1>2, <1>7, <1>8, <1>9 DEF PsiInv, FoundIsTrue

\* finish_query adds a true answer.
LEMMA FinishIsOK ==
    ASSUME PsiInv, NEW q \in Queriers, Finish(q)
    PROVE  PsiInv'
<1>1. PICK reply \in replies : answers' = answers \cup
        {[text |-> asked[q].text, key |-> asked[q].key, set |-> held[q],
          reply |-> reply, found |-> Found(q, reply)]}
    BY DEF Finish
<1>2. FoundIsTrue'
  <2>1. Found(q, reply) =>
            \E j \in DOMAIN held[q].list : Normal[held[q].list[j]] = Normal[asked[q].text]
      BY FoundIsListed DEF Finish
  <2> QED
      BY <1>1, <2>1 DEF PsiInv, FoundIsTrue, Listed
<1>3. Parties'
    BY DEF Finish, PsiInv, Parties, Drawn
<1> QED
    BY <1>2, <1>3, Quiet DEF Finish, PsiInv, Parties, OnTheWire, Drawn

\* Every step of the two parties and of what carries their messages.
LEMMA PsiStep == PsiInv /\ [Next]_vars => PsiInv'
<1> SUFFICES ASSUME PsiInv, [Next]_vars PROVE PsiInv'
    OBVIOUS
<1> USE DEF Parties, Drawn
<1>1. CASE UNCHANGED vars
    BY <1>1, Quiet DEF vars, PsiInv, OnTheWire, FoundIsTrue
<1>2. CASE EditList
    BY <1>2, Quiet DEF EditList, PsiInv, OnTheWire, FoundIsTrue
<1>3. CASE RotateKey
  <2>1. Drawn' = Drawn
      BY <1>3, KeysAssumption DEF RotateKey
  <2> QED
      BY <1>3, <2>1, Quiet DEF RotateKey, PsiInv, OnTheWire, FoundIsTrue, Keys
<1>4. CASE SendSet
  <2>1. PICK points \in BlindSet(key, list) :
            sets' = sets \cup {[points |-> points, list |-> list, key |-> key]}
      BY <1>4 DEF SendSet
  <2>2. \A set \in sets' : SetOK(set)
      BY <2>1, BlindSetIsOK DEF PsiInv, OnTheWire
  <2>3. Parties' /\ FoundIsTrue'
      BY <1>4, <2>1 DEF SendSet, PsiInv, FoundIsTrue
  <2> QED
      BY <1>4, <2>2, <2>3, Quiet DEF SendSet, PsiInv
<1>5. ASSUME NEW q \in Queriers, TakeSet(q) PROVE PsiInv'
  <2>1. Parties' /\ FoundIsTrue' /\ \A set \in sets' : SetOK(set)
      BY <1>5 DEF TakeSet, PsiInv, FoundIsTrue, OnTheWire
  <2> QED
      BY <1>5, <2>1, Quiet DEF TakeSet, PsiInv
<1>6. ASSUME NEW q \in Queriers, FinishDamaged(q) PROVE PsiInv'
  <2>1. Parties' /\ FoundIsTrue' /\ \A set \in sets' : SetOK(set)
      BY <1>6 DEF FinishDamaged, PsiInv, FoundIsTrue, OnTheWire
  <2> QED
      BY <1>6, <2>1, Quiet DEF FinishDamaged, PsiInv
<1> QED
    BY <1>1, <1>2, <1>3, <1>4, <1>5, <1>6, AskIsOK, RespondIsOK, FinishIsOK DEF Next

----------------------------------------------------------------------------

\* The invariant of the protocol.
THEOREM PsiSafe == Spec => []PsiInv
<1> QED
    BY PsiInit, PsiStep, PTL DEF Spec

\* finish_query returns true of no item that is not in the holder's list the set was
\* made from, whatever messages are lost, repeated, reordered or misdelivered, and
\* however often the holder changes its key and its list.
THEOREM NoFalsePositive == Spec => []FoundIsTrue
<1>1. PsiInv => FoundIsTrue
    BY DEF PsiInv
<1> QED
    BY <1>1, PsiSafe, PTL

\* No two queries, no query and reply, and no query or reply and point of a blinded set
\* are equal on the wire.
THEOREM NothingToCompare == Spec => []WireTellsNothing
<1>1. PsiInv => WireTellsNothing
  <2> SUFFICES ASSUME PsiInv PROVE WireTellsNothing
      OBVIOUS
  <2>1. ASSUME NEW set \in sets, NEW x \in Range(set.points)
        PROVE  x \notin queries \cup replies
    <3>1. \A a \in QuerierKeys : x.power[a] = 0
        BY <2>1, SetPoint DEF PsiInv, OnTheWire
    <3> QED
        BY <3>1 DEF PsiInv, OnTheWire, QueryOK, ReplyOK
  <2>2. queries \cap replies = {}
      BY DEF PsiInv, OnTheWire, QueryOK, ReplyOK
  <2> QED
      BY <2>1, <2>2 DEF WireTellsNothing, PsiInv, OnePerKey, Drawn
<1> QED
    BY <1>1, PsiSafe, PTL

----------------------------------------------------------------------------
(* The shuffle.                                                            *)

\* The place that is swapped last of those in t.
First(t) == CHOOSE x \in t : \A y \in t : x <= y
\* f[t] is s after the swaps of the places in t, the last first.
Swaps(f, s, d) ==
    \A t \in SUBSET DOMAIN s :
        f[t] = IF t = {} THEN s ELSE Swap(f[t \ {First(t)}], First(t), d[First(t)])

LEMMA FirstIsIn ==
    ASSUME NEW n \in Nat, NEW t \in SUBSET (1..n), t # {}
    PROVE  First(t) \in t
<1>1. t \subseteq Nat
    OBVIOUS
<1>2. \E x \in t : \A y \in t : x <= y
    BY <1>1, LeastElement
<1> QED
    BY <1>2 DEF First

\* FoldRight swaps like this.
LEMMA SwapsExist ==
    ASSUME NEW n \in Nat, NEW s, DOMAIN s = 1..n, NEW d
    PROVE  \E f : Swaps(f, s, d) /\ Shuffled(s, d) = f[1..n]
<1> DEFINE idx == [i \in DOMAIN s |-> i]
           e(f, t) == IF t = {} THEN s
                      ELSE Swap(f[t \ {First(t)}], idx[First(t)], d[idx[First(t)]])
           Upto(f, m) == \A t \in SUBSET (1..n) : Cardinality(t) <= m => f[t] = e(f, t)
           S == {m \in Nat : \E f : Upto(f, m)}
<1>1. /\ IsFiniteSet(1..n) /\ DOMAIN idx = 1..n
      /\ \A t \in SUBSET (1..n) : IsFiniteSet(t) /\ Cardinality(t) \in Nat
      /\ \A t \in SUBSET (1..n) : t # {} => First(t) \in t
    <2>1. IsFiniteSet(1..n)
        BY FS_Interval
    <2>2. \A t \in SUBSET (1..n) : IsFiniteSet(t) /\ Cardinality(t) \in Nat
        BY <2>1, FS_Subset, FS_CardinalityType
    <2> QED
        BY <2>1, <2>2, FirstIsIn
<1> HIDE DEF idx
<1>2. 0 \in S
    <2> DEFINE g == [t \in SUBSET (1..n) |-> s]
    <2>1. Upto(g, 0)
        BY <1>1, FS_EmptySet
    <2> QED
        BY <2>1
<1>3. ASSUME NEW m \in Nat, m \in S PROVE m + 1 \in S
    <2>1. PICK f : Upto(f, m)
        BY <1>3
    <2> DEFINE g == [t \in SUBSET (1..n) |-> e(f, t)]
    <2>2. ASSUME NEW t \in SUBSET (1..n), Cardinality(t) <= m + 1 PROVE g[t] = e(g, t)
        <3>1. CASE t = {}
            BY <3>1
        <3>2. CASE t # {}
            <4> DEFINE u == t \ {First(t)}
            <4>1. u \in SUBSET (1..n) /\ Cardinality(u) <= m
                <5>1. First(t) \in t /\ IsFiniteSet(t) /\ Cardinality(t) \in Nat
                    BY <1>1, <3>2
                <5>2. Cardinality(u) = Cardinality(t) - 1
                    BY <5>1, FS_RemoveElement
                <5>3. u \in SUBSET (1..n)
                    OBVIOUS
                <5> HIDE DEF u
                <5> QED
                    BY <2>2, <5>1, <5>2, <5>3
            <4>2. g[u] = f[u]
                BY <2>1, <4>1
            <4> QED
                BY <3>2, <4>2
        <3> QED
            BY <3>1, <3>2
    <2>3. Upto(g, m + 1)
        BY <2>2
    <2> HIDE DEF g, Upto
    <2> QED
        BY <2>3
<1>4. Cardinality(1..n) \in S
    <2> HIDE DEF S
    <2> QED
        BY <1>1, <1>2, <1>3, InductionOnSet
<1>5. PICK f : Upto(f, Cardinality(1..n))
    BY <1>4
<1>6. \A t \in SUBSET (1..n) : Cardinality(t) <= Cardinality(1..n)
    BY <1>1, FS_Subset
<1> DEFINE whole == [t \in SUBSET (1..n) |-> f[t]]
<1>7. \A t \in SUBSET (1..n) : t \ {First(t)} \in SUBSET (1..n)
    OBVIOUS
<1>8. whole = [t \in SUBSET (1..n) |-> e(whole, t)]
    BY <1>5, <1>6, <1>7
<1> HIDE DEF whole
<1> DEFINE all == CHOOSE g : g = [t \in SUBSET (1..n) |-> e(g, t)]
<1>9. all = [t \in SUBSET (1..n) |-> e(all, t)]
    BY <1>8
<1>10. Shuffled(s, d) = all[1..n]
    <2>1. Shuffled(s, d) = (CHOOSE g : g = [t \in SUBSET DOMAIN idx |-> e(g, t)])[DOMAIN idx]
        BY DEF Shuffled, Seqs!FoldRight, Seqs!MapThenFoldSet, Seqs!Min, First, idx
    <2> QED
        BY <1>1, <2>1
<1> HIDE DEF all
<1>11. Swaps(all, s, d)
    <2>1. \A t \in SUBSET (1..n) : t # {} => idx[First(t)] = First(t)
        BY <1>1 DEF idx
    <2> QED
        BY <1>9, <2>1 DEF Swaps
<1> QED
    BY <1>10, <1>11

\* A place for each place, that is not above it.
Choices(n) == {d \in [1..n -> 1..n] : \A i \in 1..n : d[i] <= i}

\* That is what the remainders of the words are.
LEMMA DrawsAreChoices ==
    ASSUME NEW n \in Nat, NEW words \in Words(n)
    PROVE  PlacesDrawn(n, words) \in Choices(n)
<1> DEFINE d == PlacesDrawn(n, words)
<1>1. ASSUME NEW i \in 1..n PROVE d[i] \in 1..i
    <2>1. CASE i = 1
        BY <2>1 DEF PlacesDrawn
    <2>2. CASE i # 1
        <3>1. words[i] \in Int /\ i \in Nat \ {0}
            BY <2>2, WordValuesAssumption DEF Words
        <3>2. d[i] = (words[i] % i) + 1
            BY <2>2 DEF PlacesDrawn
        <3> DEFINE w == words[i]
        <3> HIDE DEF w, d
        <3>3. w % i \in 0..(i - 1)
            BY <3>1 DEF w
        <3> QED
            BY <3>1, <3>2, <3>3 DEF w
    <2> QED
        BY <2>1, <2>2
<1>2. d = [i \in 1..n |-> d[i]]
    BY DEF PlacesDrawn
<1> HIDE DEF d
<1>3. d \in Choices(n)
    BY <1>1, <1>2 DEF Choices
<1> QED
    BY <1>3 DEF d

\* A swap within a sequence leaves what is in it.
LEMMA SwapKeeps ==
    ASSUME NEW s, NEW i \in DOMAIN s, NEW j \in DOMAIN s
    PROVE  DOMAIN Swap(s, i, j) = DOMAIN s /\ Range(Swap(s, i, j)) = Range(s)
<1> DEFINE new == Swap(s, i, j)
<1>1. DOMAIN new = DOMAIN s
    BY DEF Swap
<1>2. \A l \in DOMAIN s : new[l] = IF l = j THEN s[i] ELSE IF l = i THEN s[j] ELSE s[l]
    BY DEF Swap
<1> HIDE DEF new
<1>3. \A l \in DOMAIN s : \E m \in DOMAIN s : new[l] = s[m]
    BY <1>2
<1>4. \A l \in DOMAIN s : \E m \in DOMAIN s : new[m] = s[l]
    BY <1>2
<1>5. Range(new) = Range(s)
    BY <1>1, <1>3, <1>4 DEF Range
<1> QED
    BY <1>1, <1>5 DEF new

\* The shuffle loses nothing and adds nothing.
LEMMA ShuffleKeeps ==
    ASSUME NEW n \in Nat, NEW s, DOMAIN s = 1..n, NEW d \in Choices(n)
    PROVE  Range(Shuffled(s, d)) = Range(s)
<1>1. PICK f : Swaps(f, s, d) /\ Shuffled(s, d) = f[1..n]
    BY SwapsExist
<1> DEFINE Same(g) == DOMAIN g = DOMAIN s /\ Range(g) = Range(s)
           S == {m \in Nat : \A t \in SUBSET (1..n) : Cardinality(t) <= m => Same(f[t])}
<1>2. \A t \in SUBSET (1..n) : IsFiniteSet(t) /\ Cardinality(t) \in Nat
    <2>1. IsFiniteSet(1..n)
        BY FS_Interval
    <2> QED
        BY <2>1, FS_Subset, FS_CardinalityType
<1>3. 0 \in S
    <2>1. \A t \in SUBSET (1..n) : Cardinality(t) <= 0 => t = {}
        BY <1>2, FS_EmptySet
    <2>2. f[{}] = s
        BY <1>1 DEF Swaps
    <2> QED
        BY <2>1, <2>2
<1>4. ASSUME NEW m \in Nat, m \in S PROVE m + 1 \in S
    <2> SUFFICES ASSUME NEW t \in SUBSET (1..n), Cardinality(t) <= m + 1 PROVE Same(f[t])
        OBVIOUS
    <2>1. CASE t = {}
        BY <1>1, <2>1 DEF Swaps
    <2>2. CASE t # {}
        <3> DEFINE i == First(t)
                   u == t \ {i}
        <3>1. i \in t /\ i \in DOMAIN s /\ d[i] \in DOMAIN s
            BY <2>2, FirstIsIn DEF Choices
        <3>2. u \in SUBSET (1..n) /\ Cardinality(u) = Cardinality(t) - 1
            BY <1>2, <3>1, FS_RemoveElement
        <3>3. f[t] = Swap(f[u], i, d[i])
            BY <1>1, <2>2 DEF Swaps
        <3> HIDE DEF u, i
        <3>4. Same(f[u])
            BY <1>2, <1>4, <3>2
        <3>5. i \in DOMAIN f[u] /\ d[i] \in DOMAIN f[u]
            BY <3>1, <3>4
        <3>6. Same(Swap(f[u], i, d[i]))
            BY <3>4, <3>5, SwapKeeps
        <3> QED
            BY <3>3, <3>6
    <2> QED
        BY <2>1, <2>2
<1>5. Cardinality(1..n) \in S
    <2> HIDE DEF S
    <2> QED
        BY <1>2, <1>3, <1>4, InductionOnSet
<1>6. (1..n) \in SUBSET (1..n) /\ Cardinality(1..n) <= Cardinality(1..n)
    BY <1>2
<1>7. Same(f[1..n])
    BY <1>5, <1>6
<1> QED
    BY <1>1, <1>7

----------------------------------------------------------------------------
(* Nothing is missed.                                                      *)

\* Every item of the list a set was made from is in it.
Whole(set) ==
    \A j \in DOMAIN set.list : Times(HashIndicator(set.list[j]), set.key) \in Range(set.points)

Complete == (\A set \in sets : Whole(set)) /\ NothingMissed

LEMMA BlindSetIsWhole ==
    ASSUME NEW items \in Lists, NEW k \in HolderKeys, NEW points \in BlindSet(k, items)
    PROVE  Whole([points |-> points, list |-> items, key |-> k])
<1> DEFINE b == Blinded(k, items)
<1>1. PICK d \in Choices(Len(items)) : points = Shuffled(b, d)
    BY ListsAssumption, DrawsAreChoices DEF BlindSet, Draws
<1>2. DOMAIN b = 1..Len(items) /\ Len(items) \in Nat
    BY ListsAssumption DEF Blinded
<1>3. \A j \in DOMAIN items : Times(HashIndicator(items[j]), k) \in Range(b)
    BY DEF Blinded, Range
<1> HIDE DEF b
<1>4. Range(points) = Range(b)
    BY <1>1, <1>2, ShuffleKeeps
<1> QED
    BY <1>3, <1>4 DEF Whole

\* finish_query takes away what blind_query put in, whatever was put in after it.
LEMMA UnblindedBack ==
    ASSUME NEW x \in Points, NEW a \in Keys, NEW k \in Keys
    PROVE  Unblinded(Times(Times(x, a), k), a) = Times(x, k)
<1> DEFINE y == Times(x, a)
           z == Times(y, k)
           u == Unblinded(z, a)
           v == Times(x, k)
<1>1. y \in Points /\ y.item = x.item /\ y.power[a] = x.power[a] + 1
      /\ \A l \in Keys \ {a} : y.power[l] = x.power[l]
    BY TimesIsPoint
<1> HIDE DEF y
<1>2. z \in Points /\ z.item = y.item /\ z.power[k] = y.power[k] + 1
      /\ \A l \in Keys \ {k} : z.power[l] = y.power[l]
    BY <1>1, TimesIsPoint
<1>3. v \in Points /\ v.item = x.item /\ v.power[k] = x.power[k] + 1
      /\ \A l \in Keys \ {k} : v.power[l] = x.power[l]
    BY TimesIsPoint
<1> HIDE DEF z, v
<1>4. u \in Points /\ u.item = z.item /\ u.power[a] = z.power[a] - 1
      /\ \A l \in Keys \ {a} : u.power[l] = z.power[l]
    BY <1>2 DEF Unblinded, Points
<1> HIDE DEF u
<1>5. \A l \in Keys : x.power[l] \in Int
    BY DEF Points
<1>6. \A l \in Keys : u.power[l] = v.power[l]
    BY <1>1, <1>2, <1>3, <1>4, <1>5
<1>7. u.power = v.power /\ u.item = v.item
    <2>1. u.power \in [Keys -> Int] /\ v.power \in [Keys -> Int]
        BY <1>3, <1>4 DEF Points
    <2> QED
        BY <1>1, <1>2, <1>3, <1>4, <1>6, <2>1
<1>8. u = v
    <2>1. u = [item |-> u.item, power |-> u.power] /\ v = [item |-> v.item, power |-> v.power]
        BY <1>3, <1>4 DEF Points
    <2> QED
        BY <1>7, <2>1
<1> QED
    BY <1>8 DEF u, v, z, y

\* A listed item is found by a reply that goes with its query and its set.
LEMMA ListedIsFound ==
    ASSUME PsiInv, Complete, NEW q \in Queriers, NEW reply \in replies, CanFinish(q),
           reply = Times(Times(HashIndicator(asked[q].text), asked[q].key), held[q].key),
           NEW j \in DOMAIN held[q].list,
           Normal[held[q].list[j]] = Normal[asked[q].text]
    PROVE  Found(q, reply)
<1> DEFINE x == HashIndicator(asked[q].text)
           a == asked[q].key
           k == held[q].key
<1>1. held[q] \in sets /\ k \in Keys /\ a \in Keys /\ asked[q].text \in Texts
    BY DEF PsiInv, Parties, OnTheWire, SetOK, CanFinish, Drawn, Keys
<1>2. x \in Points
    BY <1>1, HashIsPoint
<1>3. HashIndicator(held[q].list[j]) = x
    BY DEF HashIndicator
<1>4. Times(x, k) \in Range(held[q].points)
    BY <1>1, <1>3 DEF Complete, Whole
<1> HIDE DEF x, a, k
<1>5. Unblinded(Times(Times(x, a), k), a) = Times(x, k)
    BY <1>1, <1>2, UnblindedBack
<1> QED
    BY <1>4, <1>5 DEF Found, x, a, k

LEMMA CompleteStep == PsiInv /\ Complete /\ [Next]_vars => Complete'
<1> SUFFICES ASSUME PsiInv, Complete, [Next]_vars PROVE Complete'
    OBVIOUS
<1>1. ASSUME UNCHANGED <<sets, answers>> PROVE Complete'
    BY <1>1 DEF Complete, NothingMissed
<1>2. CASE SendSet
    <2>1. PICK points \in BlindSet(key, list) :
            sets' = sets \cup {[points |-> points, list |-> list, key |-> key]}
        BY <1>2 DEF SendSet
    <2>2. Whole([points |-> points, list |-> list, key |-> key])
        BY BlindSetIsWhole DEF PsiInv, Parties
    <2>3. UNCHANGED answers
        BY <1>2 DEF SendSet
    <2> QED
        BY <2>1, <2>2, <2>3 DEF Complete, NothingMissed
<1>3. ASSUME NEW q \in Queriers, Finish(q) PROVE Complete'
    <2>1. PICK reply \in replies : answers' = answers \cup
            {[text |-> asked[q].text, key |-> asked[q].key, set |-> held[q],
              reply |-> reply, found |-> Found(q, reply)]}
        BY <1>3 DEF Finish
    <2> DEFINE new == [text |-> asked[q].text, key |-> asked[q].key, set |-> held[q],
                       reply |-> reply, found |-> Found(q, reply)]
    <2>2. /\ new.text = asked[q].text /\ new.key = asked[q].key /\ new.set = held[q]
          /\ new.reply = reply /\ new.found = Found(q, reply)
        OBVIOUS
    <2>3. answers' = answers \cup {new} /\ sets' = sets
        BY <1>3, <2>1 DEF Finish
    <2> HIDE DEF new
    <2>4. Matching(new) /\ Listed(new) => new.found
        BY <1>3, <2>2, ListedIsFound DEF Matching, Listed, Finish
    <2> QED
        BY <2>3, <2>4 DEF Complete, NothingMissed
<1>4. CASE UNCHANGED vars
    BY <1>1, <1>4 DEF vars
<1>5. CASE EditList \/ RotateKey \/ Respond
    BY <1>1, <1>5 DEF EditList, RotateKey, Respond
<1>6. ASSUME NEW q \in Queriers, TakeSet(q) \/ Ask(q) \/ FinishDamaged(q) PROVE Complete'
    BY <1>1, <1>6 DEF TakeSet, Ask, FinishDamaged
<1> QED
    BY <1>2, <1>3, <1>4, <1>5, <1>6 DEF Next

\* When set, query and reply belong together, finish_query finds every item that is in
\* the list the set was made from, whatever the shuffle drew: NothingMissed.
THEOREM NoFalseNegative == Spec => []NothingMissed
<1>1. Init => Complete
    BY DEF Init, Complete, NothingMissed
<1>2. Complete => NothingMissed
    BY DEF Complete
<1> QED
    BY PsiSafe, CompleteStep, <1>1, <1>2, PTL DEF Spec

----------------------------------------------------------------------------
(* The protocol implements the trusted oracle.                             *)

\* A querier waits for an indicator, and a list is a set of them.
LEMMA OracleSees ==
    ASSUME PsiInv
    PROVE  /\ \A q \in Queriers : asked[q] # NoQuery =>
                Normal[asked[q].text] \in Indicators /\ Normal[asked[q].text] # NoQuery
           /\ ItemsOf(list) \in SUBSET Indicators
<1>1. \A text \in Texts : Normal[text] \in Indicators /\ Normal[text] # NoQuery
    BY NormalAssumption, NoQueryAssumption
<1>2. \A q \in Queriers : asked[q] # NoQuery => asked[q].text \in Texts
    BY DEF PsiInv, Parties
<1>3. list \in Seq(Texts)
    BY ListsAssumption DEF PsiInv, Parties
<1> QED
    BY <1>1, <1>2, <1>3 DEF ItemsOf

\* One querier's query changes.
LEMMA AskedChanges ==
    ASSUME PsiInv, NEW q \in Queriers, NEW x, asked' = [asked EXCEPT ![q] = x]
    PROVE  ItemsAsked' = [ItemsAsked EXCEPT ![q] = ItemAsked(x)]
<1>1. asked'[q] = x /\ \A r \in Queriers \ {q} : asked'[r] = asked[r]
    BY DEF PsiInv, Parties
<1> DEFINE f == ItemsAsked'
           g == [ItemsAsked EXCEPT ![q] = ItemAsked(x)]
<1>2. f = [r \in Queriers |-> ItemAsked(asked'[r])]
    BY DEF ItemsAsked, ItemAsked
<1>3. /\ g = [r \in Queriers |-> g[r]]
      /\ g[q] = ItemAsked(x)
      /\ \A r \in Queriers \ {q} : g[r] = ItemAsked(asked[r])
    BY DEF ItemsAsked
<1> HIDE DEF f, g
<1>4. \A r \in Queriers : f[r] = g[r]
    BY <1>1, <1>2, <1>3
<1>5. f = g
    BY <1>2, <1>3, <1>4
<1> QED
    BY <1>5 DEF f, g

\* A published set is a list handed over.
LEMMA SendSetPublishes ==
    ASSUME PsiInv, SendSet
    PROVE  Oracle!Publish(ItemsOf(list))
<1>1. PICK points \in BlindSet(key, list) :
        sets' = sets \cup {[points |-> points, list |-> list, key |-> key]}
    BY DEF SendSet
<1> DEFINE new == [points |-> points, list |-> list, key |-> key]
<1>2. sets' = sets \cup {new} /\ new.list = list
    BY <1>1
<1> HIDE DEF new
<1>3. ListsSent' = ListsSent \cup {ItemsOf(list)}
    BY <1>2 DEF ListsSent, ItemsOf
<1>4. ItemsAsked' = ItemsAsked /\ AnswersGiven' = AnswersGiven
    BY DEF SendSet, ItemsAsked, AnswersGiven
<1> QED
    BY <1>3, <1>4 DEF Oracle!Publish

\* finish_query answers the waiting querier about a published list.
LEMMA FinishAnswers ==
    ASSUME PsiInv, NEW q \in Queriers, Finish(q)
    PROVE  /\ ItemsOf(held[q].list) \in ListsSent
           /\ \E found \in BOOLEAN : Oracle!Answer(q, ItemsOf(held[q].list), found)
<1>1. PICK reply \in replies : answers' = answers \cup
        {[text |-> asked[q].text, key |-> asked[q].key, set |-> held[q],
          reply |-> reply, found |-> Found(q, reply)]}
    BY DEF Finish
<1> DEFINE new == [text |-> asked[q].text, key |-> asked[q].key, set |-> held[q],
                   reply |-> reply, found |-> Found(q, reply)]
           given == [item |-> Normal[asked[q].text], list |-> ItemsOf(held[q].list),
                     found |-> Found(q, reply)]
<1>2. answers' = answers \cup {new} /\ AnswerOf(new) = given
    BY <1>1 DEF AnswerOf
<1> HIDE DEF new
<1>3. AnswersGiven' = AnswersGiven \cup {given}
    BY <1>2 DEF AnswersGiven, AnswerOf
<1>4. /\ ItemsAsked' = [ItemsAsked EXCEPT ![q] = NoQuery]
      /\ ListsSent' = ListsSent
    BY AskedChanges DEF Finish, ItemAsked, ListsSent
<1>5. asked[q] # NoQuery /\ held[q] \in sets
    BY DEF Finish, CanFinish, PsiInv, Parties
<1>6. ItemsAsked[q] = Normal[asked[q].text] /\ ItemsAsked[q] # NoQuery
    BY <1>5, OracleSees DEF ItemsAsked, ItemAsked
<1>7. Found(q, reply) => ItemsAsked[q] \in ItemsOf(held[q].list)
    BY <1>6, FoundIsListed DEF Finish, ItemsOf
<1>8. ItemsOf(held[q].list) \in ListsSent
    BY <1>5 DEF ListsSent
<1>9. Found(q, reply) \in BOOLEAN
    BY DEF Found
<1>10. Oracle!Answer(q, ItemsOf(held[q].list), Found(q, reply))
    BY <1>3, <1>4, <1>6, <1>7, <1>8 DEF Oracle!Answer
<1> QED
    BY <1>8, <1>9, <1>10

\* Every step is a step of the oracle, or one that it does not see.
LEMMA OracleStep ==
    ASSUME PsiInv, [Next]_vars
    PROVE  [Oracle!OracleNext]_(Oracle!oracleVars)
<1>1. CASE UNCHANGED vars \/ EditList \/ RotateKey \/ Respond \/ \E q \in Queriers : TakeSet(q)
  <2>1. UNCHANGED <<sets, asked, answers>>
      BY <1>1 DEF vars, EditList, RotateKey, Respond, TakeSet
  <2> QED
      BY <2>1 DEF Oracle!oracleVars, ListsSent, ItemsAsked, AnswersGiven
<1>2. CASE SendSet
    BY <1>2, SendSetPublishes, OracleSees DEF Oracle!OracleNext
<1>3. ASSUME NEW q \in Queriers, Ask(q) PROVE Oracle!OracleNext
  <2>1. PICK text \in Texts, a \in QuerierKeys \ drawn :
            /\ asked' = [asked EXCEPT ![q] = [text |-> text, key |-> a]]
            /\ UNCHANGED <<sets, answers>>
      BY <1>3 DEF Ask
  <2>2. ItemsAsked' = [ItemsAsked EXCEPT ![q] = ItemAsked([text |-> text, key |-> a])]
      BY <2>1, AskedChanges
  <2>3. UNCHANGED <<ListsSent, AnswersGiven>>
      BY <2>1 DEF ListsSent, AnswersGiven
  <2>4. ItemAsked([text |-> text, key |-> a]) \in Indicators \cup {NoQuery}
      BY NormalAssumption DEF ItemAsked
  <2> QED
      BY <2>2, <2>3, <2>4 DEF Oracle!OracleNext, Oracle!Query, Oracle!GiveUp
<1>4. ASSUME NEW q \in Queriers, Finish(q) PROVE Oracle!OracleNext
    BY <1>4, FinishAnswers DEF Oracle!OracleNext
<1>5. ASSUME NEW q \in Queriers, FinishDamaged(q) PROVE Oracle!OracleNext
  <2>1. /\ ItemsAsked' = [ItemsAsked EXCEPT ![q] = NoQuery]
        /\ UNCHANGED <<ListsSent, AnswersGiven>>
      BY <1>5, AskedChanges DEF FinishDamaged, ItemAsked, ListsSent, AnswersGiven
  <2> QED
      BY <2>1 DEF Oracle!OracleNext, Oracle!GiveUp
<1> QED
    BY <1>1, <1>2, <1>3, <1>4, <1>5 DEF Next

\* The protocol gives every querier what the trusted oracle would, or less: one answer
\* for each query, about the indicator it asked for and a list that was published, and
\* yes only of what is in it.
THEOREM OracleRefinement == Spec => ImplementsOracle
<1>1. Init => Oracle!OracleInit
    BY DEF Init, Oracle!OracleInit, ListsSent, ItemsAsked, ItemAsked, AnswersGiven
<1>2. PsiInv /\ [Next]_vars => [Oracle!OracleNext]_(Oracle!oracleVars)
    BY OracleStep
<1> QED
    BY <1>1, <1>2, PsiSafe, PTL DEF Spec, ImplementsOracle, Oracle!OracleSpec

----------------------------------------------------------------------------
(* The order is hidden.  What the shuffle does to a list is to put it in   *)
(* an order that depends on the draws alone (ShuffleReorders), and every   *)
(* order comes of exactly one draw (DrawsAreTold, OrderIsDrawn): for each  *)
(* draw that makes a set of one list there is one that makes it of another *)
(* order of that list.  The two need not be of equally many words; but a   *)
(* word for a place is a remainder and a quotient, and every quotient      *)
(* below the last one goes with all the remainders (Sampled).              *)

Places(n) == [i \in 1..n |-> i]
Orders(n) == {p \in [1..n -> 1..n] : \A i, j \in 1..n : p[i] = p[j] => i = j}
Order(n, d) == Shuffled(Places(n), d)

\* g[k] is s after k swaps: of the last k places.
Stages(g, n, s, d) ==
    /\ g[0] = s
    /\ \A k \in 0..(n - 1) : g[k + 1] = Swap(g[k], n - k, d[n - k])

LEMMA StagesExist ==
    ASSUME NEW n \in Nat, NEW s, DOMAIN s = 1..n, NEW d
    PROVE  \E g : Stages(g, n, s, d) /\ Shuffled(s, d) = g[n]
<1>1. PICK f : Swaps(f, s, d) /\ Shuffled(s, d) = f[1..n]
    BY SwapsExist
<1> DEFINE g == [k \in 0..n |-> f[(n - k + 1)..n]]
<1>2. g[0] = s
    <2>1. (n - 0 + 1)..n = {}
        OBVIOUS
    <2>2. f[{}] = s
        BY <1>1 DEF Swaps
    <2> QED
        BY <2>1, <2>2
<1>3. ASSUME NEW k \in 0..(n - 1)
      PROVE  g[k + 1] = Swap(g[k], n - k, d[n - k])
    <2> DEFINE t == (n - k)..n
               u == (n - k + 1)..n
    <2>1. t \in SUBSET (1..n) /\ t # {} /\ n - k \in t /\ \A y \in t : n - k <= y
        OBVIOUS
    <2>2. \A x \in t : (\A y \in t : x <= y) => x = n - k
        OBVIOUS
    <2>3. t \ {n - k} = u
        OBVIOUS
    <2> HIDE DEF t, u
    <2>4. First(t) = n - k
        BY <2>1, <2>2 DEF First
    <2>5. f[t] = Swap(f[t \ {First(t)}], First(t), d[First(t)])
        BY <1>1, <2>1 DEF Swaps
    <2>6. f[t] = Swap(f[u], n - k, d[n - k])
        BY <2>3, <2>4, <2>5
    <2>7. g[k + 1] = f[t] /\ g[k] = f[u]
        <3>1. n - (k + 1) + 1 = n - k /\ k + 1 \in 0..n /\ k \in 0..n
            OBVIOUS
        <3> QED
            BY <3>1 DEF t, u
    <2> QED
        BY <2>6, <2>7
<1>4. g[n] = f[1..n]
    <2>1. n - n + 1 = 1 /\ n \in 0..n
        OBVIOUS
    <2> QED
        BY <2>1
<1> HIDE DEF g
<1>5. Stages(g, n, s, d)
    BY <1>2, <1>3 DEF Stages
<1> QED
    BY <1>1, <1>4, <1>5

LEMMA SwapOrder ==
    ASSUME NEW n \in Nat, NEW p \in Orders(n), NEW i \in 1..n, NEW j \in 1..n
    PROVE  /\ Swap(p, i, j) \in Orders(n)
           /\ \A l \in 1..n : Swap(p, i, j)[l] = IF l = j THEN p[i] ELSE IF l = i THEN p[j] ELSE p[l]
<1> DEFINE new == Swap(p, i, j)
<1>1. new \in [1..n -> 1..n]
    BY DEF Swap, Orders
<1>2. \A l \in 1..n : new[l] = IF l = j THEN p[i] ELSE IF l = i THEN p[j] ELSE p[l]
    BY DEF Swap, Orders
<1> HIDE DEF new
<1>3. \A l, m \in 1..n : new[l] = new[m] => l = m
    BY <1>2 DEF Orders
<1>4. new \in Orders(n)
    BY <1>1, <1>3 DEF Orders
<1> QED
    BY <1>2, <1>4 DEF new

LEMMA PlacesInOrder == ASSUME NEW n \in Nat PROVE Places(n) \in Orders(n) /\ DOMAIN Places(n) = 1..n
BY DEF Places, Orders

\* s is a list of n.
Listing(s, n) == s = [l \in 1..n |-> s[l]]

LEMMA ListingDomain == ASSUME NEW s, NEW n, Listing(s, n) PROVE DOMAIN s = 1..n
<1> DEFINE f == [l \in 1..n |-> s[l]]
<1>1. s = f /\ DOMAIN f = 1..n
    BY DEF Listing
<1> HIDE DEF f
<1> QED
    BY <1>1

\* One swap of a list is that swap of its order.
LEMMA SwapReorders ==
    ASSUME NEW n \in Nat, NEW s, DOMAIN s = 1..n, NEW p \in Orders(n),
           NEW i \in 1..n, NEW j \in 1..n
    PROVE  Swap([l \in 1..n |-> s[p[l]]], i, j) = [l \in 1..n |-> s[Swap(p, i, j)[l]]]
<1> DEFINE a == [l \in 1..n |-> s[p[l]]]
           q == Swap(p, i, j)
           b == [l \in 1..n |-> s[q[l]]]
           c == Swap(a, i, j)
<1>1. \A l \in 1..n : q[l] = IF l = j THEN p[i] ELSE IF l = i THEN p[j] ELSE p[l]
    BY SwapOrder
<1>2. c = [l \in 1..n |-> IF l = j THEN a[i] ELSE IF l = i THEN a[j] ELSE a[l]]
    BY DEF Swap
<1>3. \A l \in 1..n : a[l] = s[p[l]]
    OBVIOUS
<1> HIDE DEF a, q, c
<1>4. \A l \in 1..n : (IF l = j THEN a[i] ELSE IF l = i THEN a[j] ELSE a[l]) = s[q[l]]
    BY <1>1, <1>3
<1>5. c = b
    BY <1>2, <1>4
<1> QED
    BY <1>5 DEF a, c, q

\* The stages of a list are the list in the orders of the stages of its places.
LEMMA StagesReorder ==
    ASSUME NEW n \in Nat, NEW s, Listing(s, n), NEW d \in Choices(n),
           NEW g, Stages(g, n, s, d), NEW h, Stages(h, n, Places(n), d)
    PROVE  \A k \in 0..n : h[k] \in Orders(n) /\ g[k] = [l \in 1..n |-> s[h[k][l]]]
<1> DEFINE Good(k) == h[k] \in Orders(n) /\ g[k] = [l \in 1..n |-> s[h[k][l]]]
           S == {k \in Nat : k <= n => Good(k)}
<1>1. 0 \in S
    <2>1. h[0] = Places(n) /\ g[0] = s
        BY DEF Stages
    <2>2. s = [l \in 1..n |-> s[Places(n)[l]]]
        <3>1. \A l \in 1..n : Places(n)[l] = l
            BY DEF Places
        <3>2. [l \in 1..n |-> s[Places(n)[l]]] = [l \in 1..n |-> s[l]]
            BY <3>1
        <3> QED
            BY <3>2 DEF Listing
    <2> QED
        BY <2>1, <2>2, PlacesInOrder
<1>2. ASSUME NEW k \in Nat, k \in S PROVE k + 1 \in S
    <2> SUFFICES ASSUME k + 1 <= n PROVE Good(k + 1)
        OBVIOUS
    <2> DEFINE i == n - k
               j == d[i]
    <2>1. k \in 0..(n - 1) /\ k <= n /\ i \in 1..n
        OBVIOUS
    <2>2. j \in 1..n
        BY <2>1 DEF Choices
    <2>3. Good(k)
        BY <1>2, <2>1
    <2>4. g[k + 1] = Swap(g[k], i, j) /\ h[k + 1] = Swap(h[k], i, j)
        BY <2>1 DEF Stages
    <2> HIDE DEF i, j
    <2>5. h[k + 1] \in Orders(n)
        BY <2>1, <2>2, <2>3, <2>4, SwapOrder
    <2>6. Swap([l \in 1..n |-> s[h[k][l]]], i, j)
            = [l \in 1..n |-> s[Swap(h[k], i, j)[l]]]
        BY <2>1, <2>2, <2>3, ListingDomain, SwapReorders
    <2> QED
        BY <2>3, <2>4, <2>5, <2>6
<1> HIDE DEF S
<1>3. \A k \in Nat : k \in S
    BY <1>1, <1>2, InductionOnSet
<1> QED
    BY <1>3 DEF S

LEMMA OrderStages ==
    ASSUME NEW n \in Nat, NEW d \in Choices(n), NEW h, Stages(h, n, Places(n), d)
    PROVE  \A k \in 0..n : h[k] \in Orders(n)
<1>1. Listing(Places(n), n)
    BY DEF Listing, Places
<1> QED
    BY <1>1, StagesReorder

LEMMA ShuffleReorders ==
    ASSUME NEW n \in Nat, NEW s, Listing(s, n), NEW d \in Choices(n)
    PROVE  /\ Order(n, d) \in Orders(n)
           /\ Shuffled(s, d) = [l \in 1..n |-> s[Order(n, d)[l]]]
<1>1. PICK g : Stages(g, n, s, d) /\ Shuffled(s, d) = g[n]
    BY ListingDomain, StagesExist
<1>2. PICK h : Stages(h, n, Places(n), d) /\ Order(n, d) = h[n]
    BY StagesExist, PlacesInOrder DEF Order
<1>3. n \in 0..n
    OBVIOUS
<1> QED
    BY <1>1, <1>2, <1>3, StagesReorder

\* A place that had its swap is not swapped again.
LEMMA PlaceStays ==
    ASSUME NEW n \in Nat, NEW d \in Choices(n), NEW h, Stages(h, n, Places(n), d)
    PROVE  \A m \in 0..n : \A k \in 0..m : \A i \in (n - k + 1)..n : h[m][i] = h[k][i]
<1> DEFINE S == {m \in Nat : m <= n => \A k \in 0..m : \A i \in (n - k + 1)..n : h[m][i] = h[k][i]}
<1>1. 0 \in S
    OBVIOUS
<1>2. ASSUME NEW m \in Nat, m \in S PROVE m + 1 \in S
    <2> SUFFICES ASSUME m + 1 <= n, NEW k \in 0..(m + 1), NEW i \in (n - k + 1)..n
                 PROVE  h[m + 1][i] = h[k][i]
        OBVIOUS
    <2>1. CASE k = m + 1
        BY <2>1
    <2>2. CASE k # m + 1
        <3> DEFINE last == n - m
                   other == d[last]
        <3>1. /\ k \in 0..m /\ m \in 0..(n - 1) /\ m \in 0..n
              /\ last \in 1..n /\ i \in 1..n /\ last < i
            BY <2>2
        <3>2. other \in 1..n /\ other <= last
            BY <3>1 DEF Choices
        <3>3. h[m + 1] = Swap(h[m], last, other)
            BY <3>1 DEF Stages
        <3> HIDE DEF last, other
        <3>4. i # other /\ i # last
            BY <3>1, <3>2
        <3>5. h[m] \in Orders(n)
            BY <3>1, OrderStages
        <3>6. h[m + 1][i] = h[m][i]
            <4> DEFINE a == h[m]
            <4>1. a \in Orders(n) /\ h[m + 1] = Swap(a, last, other)
                BY <3>3, <3>5
            <4> HIDE DEF a
            <4>2. Swap(a, last, other)[i]
                    = IF i = other THEN a[last] ELSE IF i = last THEN a[other] ELSE a[i]
                BY <3>1, <3>2, <4>1, SwapOrder
            <4>3. h[m + 1][i] = a[i]
                BY <3>4, <4>1, <4>2
            <4> QED
                BY <4>3 DEF a
        <3>7. h[m][i] = h[k][i]
            BY <1>2, <3>1
        <3> QED
            BY <3>6, <3>7
    <2> QED
        BY <2>1, <2>2
<1> HIDE DEF S
<1>3. \A m \in Nat : m \in S
    BY <1>1, <1>2, InductionOnSet
<1> QED
    BY <1>3 DEF S

\* What was drawn can be told from the order.
LEMMA DrawsAreTold ==
    ASSUME NEW n \in Nat, NEW d \in Choices(n), NEW e \in Choices(n), Order(n, d) = Order(n, e)
    PROVE  d = e
<1>1. PICK g : Stages(g, n, Places(n), d) /\ Order(n, d) = g[n]
    BY StagesExist, PlacesInOrder DEF Order
<1>2. PICK h : Stages(h, n, Places(n), e) /\ Order(n, e) = h[n]
    BY StagesExist, PlacesInOrder DEF Order
<1> DEFINE Good(k) == g[k] = h[k] /\ \A i \in (n - k + 1)..n : d[i] = e[i]
           S == {k \in Nat : k <= n => Good(k)}
<1>3. 0 \in S
    BY <1>1, <1>2 DEF Stages
<1>4. ASSUME NEW k \in Nat, k \in S PROVE k + 1 \in S
    <2> SUFFICES ASSUME k + 1 <= n PROVE Good(k + 1)
        OBVIOUS
    <2> DEFINE i == n - k
    <2>1. /\ k \in 0..(n - 1) /\ k \in 0..n /\ k + 1 \in 0..n /\ i \in 1..n /\ n \in 0..n
          /\ i \in (n - (k + 1) + 1)..n /\ k + 1 \in 0..n /\ k <= n
        OBVIOUS
    <2>2. Good(k)
        BY <1>4, <2>1
    <2>3. g[n][i] = g[k + 1][i] /\ h[n][i] = h[k + 1][i]
        BY <1>1, <1>2, <2>1, PlaceStays
    <2>4. g[k + 1] = Swap(g[k], i, d[i]) /\ h[k + 1] = Swap(h[k], i, e[i])
        BY <1>1, <1>2, <2>1 DEF Stages
    <2> HIDE DEF i
    <2>5. d[i] \in 1..n /\ e[i] \in 1..n
        BY <2>1 DEF Choices
    <2>6. g[k] \in Orders(n) /\ h[k] \in Orders(n)
        BY <1>1, <1>2, <2>1, OrderStages
    <2>7. ASSUME NEW p \in Orders(n), NEW j \in 1..n PROVE Swap(p, i, j)[i] = p[j]
        <3>1. Swap(p, i, j)[i] = IF i = j THEN p[i] ELSE IF i = i THEN p[j] ELSE p[i]
            BY <2>1, SwapOrder
        <3> QED
            BY <3>1
    <2>8. g[k + 1][i] = g[k][d[i]] /\ h[k + 1][i] = h[k][e[i]]
        BY <2>4, <2>5, <2>6, <2>7
    <2>9. d[i] = e[i]
        <3>1. g[k][d[i]] = h[k][e[i]]
            BY <1>1, <1>2, <2>3, <2>8
        <3>2. g[k][d[i]] = g[k][e[i]]
            BY <2>2, <3>1
        <3> QED
            BY <2>5, <2>6, <3>2 DEF Orders
    <2>10. g[k + 1] = h[k + 1]
        BY <2>2, <2>4, <2>9
    <2>11. \A j \in (n - (k + 1) + 1)..n : j = i \/ j \in (n - k + 1)..n
        BY DEF i
    <2> QED
        BY <2>2, <2>9, <2>10, <2>11
<1> HIDE DEF S
<1>5. \A k \in Nat : k \in S
    BY <1>3, <1>4, InductionOnSet
<1>6. Good(n)
    BY <1>5 DEF S
<1>7. \A i \in 1..n : d[i] = e[i]
    <2>1. n - n + 1 = 1
        OBVIOUS
    <2> QED
        BY <1>6, <2>1
<1> QED
    BY <1>7 DEF Choices

\* An order is of all the places.
LEMMA OrdersReachAll ==
    ASSUME NEW n \in Nat, NEW p \in [1..n -> 1..n]
    PROVE  p \in Orders(n) <=> \A j \in 1..n : \E i \in 1..n : p[i] = j
<1>1. IsFiniteSet(1..n)
    BY FS_Interval
<1>2. Cardinality(1..n) = Cardinality(1..n)
    OBVIOUS
<1>3. ASSUME p \in Orders(n) PROVE \A j \in 1..n : \E i \in 1..n : p[i] = j
    <2>1. p \in Injection(1..n, 1..n)
        BY <1>3 DEF Orders, Injection, IsInjective
    <2>2. p \in Surjection(1..n, 1..n)
        BY <1>1, <2>1, FS_Injection
    <2> QED
        BY <2>2 DEF Surjection
<1>4. ASSUME \A j \in 1..n : \E i \in 1..n : p[i] = j PROVE p \in Orders(n)
    <2>1. p \in Surjection(1..n, 1..n)
        BY <1>4 DEF Surjection
    <2>2. p \in Injection(1..n, 1..n)
        BY <1>1, <2>1, FS_Surjection
    <2> QED
        BY <2>2 DEF Orders, Injection, IsInjective
<1> QED
    BY <1>3, <1>4

\* Draws that differ in the places to come have had the same stages.
LEMMA SameSoFar ==
    ASSUME NEW n \in Nat, NEW k \in 0..n, NEW d, NEW e, \A i \in (n - k + 1)..n : d[i] = e[i],
           NEW g, Stages(g, n, Places(n), d), NEW h, Stages(h, n, Places(n), e)
    PROVE  g[k] = h[k]
<1> DEFINE S == {m \in Nat : m <= k => g[m] = h[m]}
<1>1. 0 \in S
    BY DEF Stages
<1>2. ASSUME NEW m \in Nat, m \in S PROVE m + 1 \in S
    <2> SUFFICES ASSUME m + 1 <= k PROVE g[m + 1] = h[m + 1]
        OBVIOUS
    <2>1. m \in 0..(n - 1) /\ m <= k /\ n - m \in (n - k + 1)..n
        OBVIOUS
    <2>2. g[m] = h[m] /\ d[n - m] = e[n - m]
        BY <1>2, <2>1
    <2>3. g[m + 1] = Swap(g[m], n - m, d[n - m]) /\ h[m + 1] = Swap(h[m], n - m, e[n - m])
        BY <2>1 DEF Stages
    <2> QED
        BY <2>2, <2>3
<1> HIDE DEF S
<1>3. \A m \in Nat : m \in S
    BY <1>1, <1>2, InductionOnSet
<1> QED
    BY <1>3 DEF S

\* Every order is drawn.
LEMMA OrderIsDrawn ==
    ASSUME NEW n \in Nat, NEW p \in Orders(n)
    PROVE  \E d \in Choices(n) : Order(n, d) = p
<1> DEFINE Good(k) == \E d \in Choices(n) : \E h :
                        /\ Stages(h, n, Places(n), d)
                        /\ Order(n, d) = h[n]
                        /\ \A i \in (n - k + 1)..n : h[k][i] = p[i]
           S == {k \in Nat : k <= n => Good(k)}
<1>1. \A d : \E h : Stages(h, n, Places(n), d) /\ Order(n, d) = h[n]
    BY StagesExist, PlacesInOrder DEF Order
<1>2. 0 \in S
    <2>1. Places(n) \in Choices(n)
        BY DEF Places, Choices
    <2>2. (n - 0 + 1)..n = {}
        OBVIOUS
    <2> QED
        BY <1>1, <2>1, <2>2
<1>3. ASSUME NEW k \in Nat, k \in S PROVE k + 1 \in S
    <2> SUFFICES ASSUME k + 1 <= n PROVE Good(k + 1)
        OBVIOUS
    <2> DEFINE i == n - k
    <2>1. k \in 0..(n - 1) /\ k \in 0..n /\ i \in 1..n /\ k <= n /\ i \in Int
        OBVIOUS
    <2> DEFINE Done(h, d) == Stages(h, n, Places(n), d) /\ \A l \in (n - k + 1)..n : h[k][l] = p[l]
    <2>drawn. PICK d \in Choices(n) : \E h : Done(h, d)
        BY <1>3, <2>1
    <2>2. PICK h : Done(h, d)
        BY <2>drawn
    <2>3. \A l \in 1..n : l = i \/ l < i \/ l \in (n - k + 1)..n
        OBVIOUS
    <2>4. \A l \in (n - k + 1)..n : l \in 1..n /\ l # i /\ ~ (l <= i)
        OBVIOUS
    <2>5. \A l \in (n - (k + 1) + 1)..n : l = i \/ l \in (n - k + 1)..n
        OBVIOUS
    <2>6. h[k] \in Orders(n)
        BY <2>1, <2>2, OrderStages
    <2> HIDE DEF i
    <2>7. p[i] \in 1..n
        BY <2>1 DEF Orders
    <2>8. PICK j \in 1..n : h[k][j] = p[i]
        BY <2>6, <2>7, OrdersReachAll DEF Orders
    <2>9. j <= i
        <3>1. j \notin (n - k + 1)..n
            BY <2>1, <2>2, <2>4, <2>8 DEF Orders
        <3> QED
            BY <2>1, <2>3, <3>1
    <2> DEFINE e == [d EXCEPT ![i] = j]
    <2>10. e \in Choices(n) /\ e[i] = j /\ \A l \in (n - k + 1)..n : d[l] = e[l]
        BY <2>1, <2>4, <2>9 DEF Choices
    <2> HIDE DEF e
    <2>11. PICK g : Stages(g, n, Places(n), e) /\ Order(n, e) = g[n]
        BY <1>1
    <2>12. h[k] = g[k]
        BY <2>1, <2>2, <2>10, <2>11, SameSoFar
    <2>13. g[k + 1] = Swap(h[k], i, j)
        BY <2>1, <2>10, <2>11, <2>12 DEF Stages, i
    <2>14. \A l \in 1..n : g[k + 1][l] = IF l = j THEN h[k][i] ELSE IF l = i THEN h[k][j] ELSE h[k][l]
        BY <2>1, <2>6, <2>13, SwapOrder
    <2>15. g[k + 1][i] = p[i]
        BY <2>1, <2>8, <2>14
    <2>16. \A l \in (n - k + 1)..n : g[k + 1][l] = p[l]
        <3>1. \A l \in (n - k + 1)..n : l \in 1..n /\ l # i /\ l # j
            BY <2>4, <2>9
        <3> QED
            BY <2>2, <2>14, <3>1
    <2>17. \A l \in (n - (k + 1) + 1)..n : g[k + 1][l] = p[l]
        BY <2>5, <2>15, <2>16
    <2> QED
        BY <2>10, <2>11, <2>17
<1> HIDE DEF S
<1>4. \A k \in Nat : k \in S
    BY <1>2, <1>3, InductionOnSet
<1>5. Good(n)
    BY <1>4 DEF S
<1> DEFINE All(h, d) == /\ Stages(h, n, Places(n), d)
                        /\ Order(n, d) = h[n]
                        /\ \A i \in 1..n : h[n][i] = p[i]
<1>drawn. PICK d \in Choices(n) : \E h : All(h, d)
    <2>1. n - n + 1 = 1
        OBVIOUS
    <2> QED
        BY <1>5, <2>1
<1>6. PICK h : All(h, d)
    BY <1>drawn
<1>7. h[n] \in Orders(n)
    <2>1. n \in 0..n
        OBVIOUS
    <2> QED
        BY <1>6, <2>1, OrderStages
<1>8. h[n] = p
    BY <1>6, <1>7 DEF Orders
<1> QED
    BY <1>6, <1>8

\* Functions between finite sets are finitely many.
LEMMA FunctionsAreFinite ==
    ASSUME NEW S, IsFiniteSet(S), NEW T, IsFiniteSet(T)
    PROVE  IsFiniteSet([S -> T])
<1> DEFINE All == SUBSET (S \X T)
           Pairs(d) == {<<i, d[i]>> : i \in S}
           f == [d \in [S -> T] |-> Pairs(d)]
<1>1. IsFiniteSet(All)
    BY FS_Product, FS_SUBSET
<1>2. ASSUME NEW d \in [S -> T] PROVE Pairs(d) \in All
    OBVIOUS
<1>3. ASSUME NEW d \in [S -> T], NEW e \in [S -> T], Pairs(d) = Pairs(e) PROVE d = e
    <2>1. ASSUME NEW i \in S PROVE d[i] = e[i]
        <3>1. <<i, d[i]>> \in Pairs(e)
            BY <1>3
        <3> QED
            BY <3>1
    <2> QED
        BY <2>1
<1> HIDE DEF All, Pairs
<1>4. f \in Injection([S -> T], All)
    BY <1>2, <1>3 DEF Injection, IsInjective
<1> QED
    BY <1>1, <1>4, FS_Injection

\* So there are finitely many sequences of words.
LEMMA WordsAreFinite ==
    ASSUME NEW n \in Nat
    PROVE  IsFiniteSet(Words(n)) /\ IsFiniteSet(FewestWords(n)) /\ IsFiniteSet(MostWords(n))
<1>1. \A a, b \in Int : IsFiniteSet(a..b)
    BY FS_Interval
<1>2. IsFiniteSet(2..n) /\ IsFiniteSet(0..(WordValues - 1)) /\ IsFiniteSet(0..WordValues)
    BY <1>1, WordValuesAssumption
<1>3. IsFiniteSet([2..n -> 0..(WordValues - 1)]) /\ IsFiniteSet([2..n -> 0..WordValues])
    BY <1>2, FunctionsAreFinite
<1>4. FewestWords(n) \subseteq [2..n -> 0..WordValues] /\ MostWords(n) \subseteq [2..n -> 0..WordValues]
    BY DEF FewestWords, MostWords
<1> QED
    BY <1>3, <1>4, FS_Subset DEF Words

\* A number is its quotient and its remainder.
LEMMA Division ==
    ASSUME NEW a \in Nat, NEW i \in Nat \ {0}
    PROVE  /\ a % i \in 0..(i - 1) /\ a \div i \in Nat
           /\ a = i * (a \div i) + (a % i)
OBVIOUS

\* The multiples of a number are at least as far apart as it is large.
LEMMA Multiple ==
    ASSUME NEW i \in Nat \ {0}, NEW m \in Int, NEW k \in Int, m < k
    PROVE  i * m + i <= i * k
OBVIOUS

\* Quotient and remainder tell the number they are of.
LEMMA DivModUnique ==
    ASSUME NEW i \in Nat \ {0}, NEW a \in 0..(i - 1), NEW f \in Nat
    PROVE  (a + i * f) % i = a /\ (a + i * f) \div i = f
OBVIOUS

\* A remainder and a quotient below the last one make a word.
LEMMA OneWord ==
    ASSUME NEW i \in Nat \ {0}, NEW a \in 0..(i - 1), NEW f \in Nat, f < WordValues \div i
    PROVE  a + i * f \in 0..(WordValues - 1)
<1> DEFINE q == WordValues \div i
           r == WordValues % i
<1>1. r \in 0..(i - 1) /\ q \in Nat /\ WordValues = i * q + r
    BY Division, WordValuesAssumption
<1>2. f < q
    OBVIOUS
<1> HIDE DEF q, r
<1>3. i * f + i <= i * q
    BY <1>1, <1>2, Multiple
<1>4. i * f \in Nat /\ i * q \in Nat
    BY <1>1
<1> QED
    BY <1>1, <1>3, <1>4

\* A quotient is of a word at most what that of the last one is.
LEMMA QuotientOfWord ==
    ASSUME NEW i \in Nat \ {0}, NEW w \in 0..(WordValues - 1)
    PROVE  w \div i \in 0..WordValues /\ w \div i <= (WordValues - 1) \div i
<1> DEFINE v == WordValues - 1
           q == w \div i
           r == w % i
           p == v \div i
           s == v % i
<1>1. v \in Nat /\ w \in Nat /\ w <= v
    BY WordValuesAssumption
<1>2. r \in 0..(i - 1) /\ q \in Nat /\ w = i * q + r
    BY <1>1, Division
<1>3. s \in 0..(i - 1) /\ p \in Nat /\ v = i * p + s
    BY <1>1, Division
<1> HIDE DEF q, r, p, s
<1>4. i * q \in Nat /\ i * p \in Nat
    BY <1>2, <1>3
<1>5. ~ (p < q)
    BY <1>1, <1>2, <1>3, <1>4, Multiple
<1>6. q <= i * q
    BY <1>2
<1>7. q <= p /\ q <= v
    BY <1>1, <1>2, <1>3, <1>4, <1>5, <1>6
<1> QED
    BY <1>1, <1>2, <1>7, WordValuesAssumption DEF q, p

\* The words that make x of s.
Ways(n, s, x) == {words \in Words(n) : Shuffled(s, PlacesDrawn(n, words)) = x}

\* The words with remainders that draw d, and quotients f.
Sampled(n, d, f) == [i \in 2..n |-> d[i] - 1 + i * f[i]]
Quotients(n, words) == [i \in 2..n |-> words[i] \div i]

\* Words are the remainders that what they draw asks for, with quotients up to the last.
LEMMA WordsAreSampled ==
    ASSUME NEW n \in Nat, NEW words \in Words(n)
    PROVE  /\ Quotients(n, words) \in MostWords(n)
           /\ words = Sampled(n, PlacesDrawn(n, words), Quotients(n, words))
<1> DEFINE d == PlacesDrawn(n, words)
           f == Quotients(n, words)
           w == Sampled(n, d, f)
<1>1. ASSUME NEW i \in 2..n
      PROVE  f[i] \in 0..WordValues /\ f[i] <= (WordValues - 1) \div i /\ w[i] = words[i]
    <2> DEFINE v == words[i]
    <2>1. /\ i \in Nat \ {0} /\ i \in 1..n /\ i # 1
          /\ v \in 0..(WordValues - 1) /\ v \in Nat
        BY WordValuesAssumption DEF Words
    <2>2. f[i] = v \div i
        BY DEF Quotients
    <2>3. d[i] = (v % i) + 1
        BY <2>1 DEF PlacesDrawn
    <2>4. w[i] = d[i] - 1 + i * f[i]
        BY DEF Sampled
    <2> HIDE DEF v, d, f, w
    <2>5. v % i \in 0..(i - 1) /\ v \div i \in Nat /\ v = i * (v \div i) + (v % i)
        BY <2>1, Division
    <2>6. f[i] \in 0..WordValues /\ f[i] <= (WordValues - 1) \div i
        BY <2>1, <2>2, QuotientOfWord
    <2>7. w[i] = v
        BY <2>2, <2>3, <2>4, <2>5
    <2> QED
        BY <2>6, <2>7 DEF v
<1>2. f = [i \in 2..n |-> f[i]] /\ w = [i \in 2..n |-> w[i]] /\ words = [i \in 2..n |-> words[i]]
    BY DEF Quotients, Sampled, Words
<1> HIDE DEF d, f, w
<1>3. f \in MostWords(n)
    BY <1>1, <1>2 DEF MostWords
<1>4. w = words
    BY <1>1, <1>2
<1> QED
    BY <1>3, <1>4 DEF d, f, w

\* Quotients below the last, with the remainders a draw asks for, are words that make it.
LEMMA SampledWords ==
    ASSUME NEW n \in Nat, NEW d \in Choices(n), NEW f \in FewestWords(n)
    PROVE  /\ Sampled(n, d, f) \in Words(n)
           /\ PlacesDrawn(n, Sampled(n, d, f)) = d
           /\ Quotients(n, Sampled(n, d, f)) = f
<1> DEFINE w == Sampled(n, d, f)
           e == PlacesDrawn(n, w)
           g == Quotients(n, w)
<1>1. ASSUME NEW i \in 2..n
      PROVE  w[i] \in 0..(WordValues - 1) /\ e[i] = d[i] /\ g[i] = f[i]
    <2> DEFINE a == d[i] - 1
               q == f[i]
    <2>1. /\ i \in Nat \ {0} /\ i \in 1..n /\ i # 1
          /\ a \in 0..(i - 1) /\ d[i] = a + 1
        BY DEF Choices
    <2>2. q \in Nat /\ q < WordValues \div i
        BY WordValuesAssumption DEF FewestWords
    <2>3. w[i] = a + i * q
        BY DEF Sampled
    <2>4. e[i] = (w[i] % i) + 1
        BY <2>1 DEF PlacesDrawn
    <2>5. g[i] = w[i] \div i
        BY DEF Quotients
    <2> HIDE DEF a, q, w, e, g
    <2>6. a + i * q \in 0..(WordValues - 1)
        BY <2>1, <2>2, OneWord
    <2>7. (a + i * q) % i = a /\ (a + i * q) \div i = q
        BY <2>1, <2>2, DivModUnique
    <2>8. e[i] = d[i] /\ g[i] = q
        BY <2>1, <2>3, <2>4, <2>5, <2>7
    <2> QED
        BY <2>3, <2>6, <2>8 DEF q
<1>2. w = [i \in 2..n |-> w[i]] /\ e = [i \in 1..n |-> e[i]] /\ g = [i \in 2..n |-> g[i]]
    BY DEF Sampled, PlacesDrawn, Quotients
<1>3. d = [i \in 1..n |-> d[i]] /\ f = [i \in 2..n |-> f[i]]
    BY DEF Choices, FewestWords
<1>4. 1 \in 1..n => e[1] = d[1]
    BY DEF PlacesDrawn, Choices
<1> HIDE DEF w, e, g
<1>5. w \in Words(n)
    BY <1>1, <1>2 DEF Words
<1>6. \A i \in 1..n : i = 1 \/ i \in 2..n
    OBVIOUS
<1>7. e = d
    BY <1>1, <1>2, <1>3, <1>4, <1>6
<1>8. g = f
    BY <1>1, <1>2, <1>3
<1> QED
    BY <1>5, <1>7, <1>8 DEF w, e, g

\* With a quotient that leaves every remainder in the words, each word that makes x of one
\* order of a list has a word of its own that makes x of the other.
LEMMA NotManyMoreWays ==
    ASSUME NEW n \in Nat, NEW s, Listing(s, n), NEW r, Listing(r, n),
           NEW p \in Orders(n), \A i \in 1..n : r[i] = s[p[i]], NEW x
    PROVE  Cardinality(Ways(n, r, x)) * Cardinality(FewestWords(n))
             <= Cardinality(Ways(n, s, x)) * Cardinality(MostWords(n))
<1> DEFINE both(d) == [i \in 1..n |-> p[Order(n, d)[i]]]
           like(d) == CHOOSE e \in Choices(n) : Order(n, e) = both(d)
           A == Ways(n, r, x) \X FewestWords(n)
           B == Ways(n, s, x) \X MostWords(n)
           draw(w) == PlacesDrawn(n, w)
           other(w, f) == Sampled(n, like(draw(w)), f)
           F == [z \in A |-> <<other(z[1], z[2]), Quotients(n, z[1])>>]
<1>1. ASSUME NEW d \in Choices(n)
      PROVE  /\ both(d) \in Orders(n)
             /\ Shuffled(r, d) = [i \in 1..n |-> s[both(d)[i]]]
    <2>1. /\ Order(n, d) \in Orders(n)
          /\ Shuffled(r, d) = [i \in 1..n |-> r[Order(n, d)[i]]]
        BY ShuffleReorders
    <2> DEFINE o == Order(n, d)
    <2> HIDE DEF o
    <2>2. o \in Orders(n) /\ Shuffled(r, d) = [i \in 1..n |-> r[o[i]]]
        BY <2>1 DEF o
    <2> DEFINE b == [i \in 1..n |-> p[o[i]]]
    <2>3. b \in Orders(n)
        <3>1. b \in [1..n -> 1..n] /\ \A i \in 1..n : b[i] = p[o[i]] /\ o[i] \in 1..n
            BY <2>2 DEF Orders
        <3> HIDE DEF b
        <3>2. ASSUME NEW i \in 1..n, NEW j \in 1..n, b[i] = b[j] PROVE i = j
            <4>1. p[o[i]] = p[o[j]] /\ o[i] \in 1..n /\ o[j] \in 1..n
                BY <3>1, <3>2
            <4>2. o[i] = o[j]
                BY <4>1 DEF Orders
            <4> QED
                BY <2>2, <4>2 DEF Orders
        <3> QED
            BY <3>1, <3>2 DEF Orders
    <2>4. \A i \in 1..n : r[o[i]] = s[b[i]]
        BY <2>2 DEF Orders
    <2>5. b = both(d)
        BY DEF o
    <2> HIDE DEF b, both
    <2> QED
        BY <2>2, <2>3, <2>4, <2>5
<1>2. ASSUME NEW d \in Choices(n)
      PROVE  like(d) \in Choices(n) /\ Order(n, like(d)) = both(d)
    <2>1. both(d) \in Orders(n)
        BY <1>1
    <2> HIDE DEF both
    <2>2. \E e \in Choices(n) : Order(n, e) = both(d)
        BY <2>1, OrderIsDrawn
    <2> QED
        BY <2>2
<1>3. ASSUME NEW d \in Choices(n), NEW e \in Choices(n), both(d) = both(e) PROVE d = e
    <2>1. Order(n, d) \in Orders(n) /\ Order(n, e) \in Orders(n)
        BY ShuffleReorders
    <2>2. \A i \in 1..n : p[Order(n, d)[i]] = p[Order(n, e)[i]]
        <3>1. \A i \in 1..n : both(d)[i] = p[Order(n, d)[i]] /\ both(e)[i] = p[Order(n, e)[i]]
            OBVIOUS
        <3> HIDE DEF both
        <3> QED
            BY <1>3, <3>1
    <2>3. Order(n, d) = Order(n, e)
        BY <2>1, <2>2 DEF Orders
    <2> QED
        BY <2>3, DrawsAreTold
<1> HIDE DEF both, like
<1>4. ASSUME NEW w \in Ways(n, r, x), NEW f \in FewestWords(n)
      PROVE  /\ other(w, f) \in Ways(n, s, x)
             /\ draw(other(w, f)) = like(draw(w))
             /\ Quotients(n, other(w, f)) = f
             /\ Quotients(n, w) \in MostWords(n)
             /\ w = Sampled(n, draw(w), Quotients(n, w))
             /\ draw(w) \in Choices(n)
    <2>1. w \in Words(n) /\ draw(w) \in Choices(n) /\ Shuffled(r, draw(w)) = x
        BY DrawsAreChoices DEF Ways
    <2> DEFINE d == draw(w)
               e == like(d)
    <2>2. d \in Choices(n) /\ Shuffled(r, d) = x
        BY <2>1
    <2> HIDE DEF d
    <2>3. e \in Choices(n) /\ Order(n, e) = both(d)
        BY <1>2, <2>2
    <2> HIDE DEF e
    <2>4. Shuffled(s, e) = [i \in 1..n |-> s[Order(n, e)[i]]]
        BY <2>3, ShuffleReorders
    <2>5. Shuffled(s, e) = x
        BY <1>1, <2>2, <2>3, <2>4
    <2>6. /\ Sampled(n, e, f) \in Words(n)
          /\ PlacesDrawn(n, Sampled(n, e, f)) = e
          /\ Quotients(n, Sampled(n, e, f)) = f
        BY <2>3, SampledWords
    <2>7. Sampled(n, e, f) \in Ways(n, s, x)
        BY <2>5, <2>6 DEF Ways
    <2>8. Quotients(n, w) \in MostWords(n) /\ w = Sampled(n, draw(w), Quotients(n, w))
        BY <2>1, WordsAreSampled
    <2> QED
        BY <2>1, <2>6, <2>7, <2>8 DEF d, e
<1> HIDE DEF other, draw
<1>5. ASSUME NEW w \in Ways(n, r, x), NEW f \in FewestWords(n),
             NEW v \in Ways(n, r, x), NEW g \in FewestWords(n),
             other(w, f) = other(v, g), Quotients(n, w) = Quotients(n, v)
      PROVE  w = v /\ f = g
    <2>1. f = g
        BY <1>4, <1>5
    <2>2. like(draw(w)) = like(draw(v)) /\ draw(w) \in Choices(n) /\ draw(v) \in Choices(n)
        BY <1>4, <1>5
    <2>3. both(draw(w)) = both(draw(v))
        BY <1>2, <2>2
    <2>4. draw(w) = draw(v)
        BY <1>3, <2>2, <2>3
    <2> QED
        BY <1>4, <1>5, <2>1, <2>4
<1>6. F \in [A -> B]
    BY <1>4
<1>7. ASSUME NEW y \in A, NEW z \in A, F[y] = F[z] PROVE y = z
    <2>1. /\ y[1] \in Ways(n, r, x) /\ y[2] \in FewestWords(n) /\ y = <<y[1], y[2]>>
          /\ z[1] \in Ways(n, r, x) /\ z[2] \in FewestWords(n) /\ z = <<z[1], z[2]>>
        OBVIOUS
    <2>2. other(y[1], y[2]) = other(z[1], z[2]) /\ Quotients(n, y[1]) = Quotients(n, z[1])
        BY <1>7
    <2>3. y[1] = z[1] /\ y[2] = z[2]
        BY <1>5, <2>1, <2>2
    <2> QED
        BY <2>1, <2>3
<1> HIDE DEF A, B, F
<1>8. F \in Injection(A, B)
    BY <1>6, <1>7 DEF Injection, IsInjective
<1>9. /\ IsFiniteSet(Ways(n, r, x)) /\ IsFiniteSet(Ways(n, s, x))
      /\ IsFiniteSet(FewestWords(n)) /\ IsFiniteSet(MostWords(n))
    <2>1. Ways(n, r, x) \subseteq Words(n) /\ Ways(n, s, x) \subseteq Words(n)
        BY DEF Ways
    <2> QED
        BY <2>1, WordsAreFinite, FS_Subset
<1>10. IsFiniteSet(A) /\ Cardinality(A) = Cardinality(Ways(n, r, x)) * Cardinality(FewestWords(n))
    BY <1>9, FS_Product DEF A
<1>11. IsFiniteSet(B) /\ Cardinality(B) = Cardinality(Ways(n, s, x)) * Cardinality(MostWords(n))
    BY <1>9, FS_Product DEF B
<1>12. Cardinality(A) <= Cardinality(B)
    BY <1>8, <1>11, FS_Injection
<1> QED
    BY <1>10, <1>11, <1>12

\* The order back.
LEMMA OrderBack ==
    ASSUME NEW n \in Nat, NEW p \in Orders(n)
    PROVE  \E q \in Orders(n) : \A i \in 1..n : p[q[i]] = i
<1>1. \A j \in 1..n : \E i \in 1..n : p[i] = j
    BY OrdersReachAll DEF Orders
<1> DEFINE q == [j \in 1..n |-> CHOOSE i \in 1..n : p[i] = j]
<1>2. q \in [1..n -> 1..n] /\ \A j \in 1..n : p[q[j]] = j
    BY <1>1
<1> HIDE DEF q
<1>3. \A i, j \in 1..n : q[i] = q[j] => i = j
    BY <1>2
<1>4. q \in Orders(n)
    BY <1>2, <1>3 DEF Orders
<1> QED
    BY <1>2, <1>4

\* Two reorderings of a list are reorderings of each other.
LEMMA ReorderedOfAnother ==
    ASSUME NEW n \in Nat, NEW texts, Listing(texts, n),
           NEW one \in Reordered(texts), NEW other \in Reordered(texts)
    PROVE  /\ DOMAIN one = 1..n /\ DOMAIN other = 1..n
           /\ \E p \in Orders(n) : \A i \in 1..n : one[i] = other[p[i]]
<1>1. DOMAIN texts = 1..n
    BY ListingDomain
<1>2. PICK a \in [1..n -> 1..n] : Range(a) = 1..n /\ one = [i \in 1..n |-> texts[a[i]]]
    BY <1>1 DEF Reordered
<1>3. PICK b \in [1..n -> 1..n] : Range(b) = 1..n /\ other = [i \in 1..n |-> texts[b[i]]]
    BY <1>1 DEF Reordered
<1>4. a \in Orders(n)
    <2>1. \A j \in 1..n : \E i \in 1..n : a[i] = j
        BY <1>2 DEF Range
    <2> QED
        BY <2>1, OrdersReachAll
<1>5. b \in Orders(n)
    <2>1. \A j \in 1..n : \E i \in 1..n : b[i] = j
        BY <1>3 DEF Range
    <2> QED
        BY <2>1, OrdersReachAll
<1>6. PICK c \in Orders(n) : \A i \in 1..n : b[c[i]] = i
    BY <1>5, OrderBack
<1> DEFINE p == [i \in 1..n |-> c[a[i]]]
<1>7. p \in [1..n -> 1..n] /\ \A i \in 1..n : p[i] = c[a[i]]
    BY <1>6 DEF Orders
<1> HIDE DEF p
<1>8. ASSUME NEW i \in 1..n, NEW j \in 1..n, p[i] = p[j] PROVE i = j
    <2>1. c[a[i]] = c[a[j]] /\ a[i] \in 1..n /\ a[j] \in 1..n
        BY <1>7, <1>8
    <2>2. a[i] = a[j]
        BY <1>6, <2>1
    <2> QED
        BY <1>4, <2>2 DEF Orders
<1>9. p \in Orders(n)
    BY <1>7, <1>8 DEF Orders
<1>10. ASSUME NEW i \in 1..n PROVE one[i] = other[p[i]]
    <2>1. b[p[i]] = a[i] /\ p[i] \in 1..n
        <3>1. a[i] \in 1..n /\ p[i] = c[a[i]] /\ p[i] \in 1..n
            BY <1>7
        <3> DEFINE j == a[i]
        <3>2. b[c[j]] = j
            BY <1>6, <3>1
        <3> QED
            BY <3>1, <3>2
    <2>2. other[p[i]] = texts[b[p[i]]] /\ one[i] = texts[a[i]]
        BY <1>2, <1>3, <2>1
    <2> QED
        BY <2>1, <2>2
<1> QED
    BY <1>2, <1>3, <1>9, <1>10

\* A set tells next to nothing of the order its list was in.
LEMMA ReorderedAlike ==
    ASSUME NEW texts \in Seq(Texts),
           NEW one \in Reordered(texts), NEW other \in Reordered(texts), NEW k, NEW x
    PROVE  Cardinality(Ways(Len(texts), Blinded(k, one), x)) * Cardinality(FewestWords(Len(texts)))
             <= Cardinality(Ways(Len(texts), Blinded(k, other), x)) * Cardinality(MostWords(Len(texts)))
<1> DEFINE n == Len(texts)
<1>1. n \in Nat /\ Listing(texts, n)
    BY DEF Listing
<1> HIDE DEF n
<1>2. PICK p \in Orders(n) : \A i \in 1..n : one[i] = other[p[i]]
    BY <1>1, ReorderedOfAnother
<1>3. DOMAIN one = 1..n /\ DOMAIN other = 1..n
    BY <1>1, ReorderedOfAnother
<1> DEFINE s == Blinded(k, other)
           r == Blinded(k, one)
<1>4. /\ \A i \in 1..n : s[i] = Times(HashIndicator(other[i]), k)
      /\ \A i \in 1..n : r[i] = Times(HashIndicator(one[i]), k)
    BY <1>3 DEF Blinded
<1>5. Listing(s, n) /\ Listing(r, n)
    BY <1>3 DEF Blinded, Listing
<1> HIDE DEF s, r
<1>6. \A i \in 1..n : r[i] = s[p[i]]
    <2>1. \A i \in 1..n : p[i] \in 1..n
        BY DEF Orders
    <2> QED
        BY <1>2, <1>4, <2>1
<1>7. Cardinality(Ways(n, r, x)) * Cardinality(FewestWords(n))
        <= Cardinality(Ways(n, s, x)) * Cardinality(MostWords(n))
    BY <1>1, <1>5, <1>6, NotManyMoreWays
<1> QED
    BY <1>7 DEF s, r, n

\* A set that was sent may have come of every reordering of its list that its length lets
\* the words choose from, and of none by many more words than of another one: the order the
\* holder keeps its list in is hidden up to what reducing a word to a place gives away.
THEOREM OrderStaysHidden == Spec => OrderIsHidden
<1> DEFINE Hides(set) ==
        LET n == Len(set.list)
            ways == [items \in Reordered(set.list) |->
                        LET draws == {d \in Draws(n) :
                                        Shuffled(Blinded(set.key, items), d) = set.points}
                        IN  Cardinality({words \in Words(n) : PlacesDrawn(n, words) \in draws})]
            fewest == Cardinality(FewestWords(n))
            most == Cardinality(MostWords(n))
        IN  \A one, other \in Reordered(set.list) :
                ways[one] * fewest <= ways[other] * most
<1>1. ASSUME NEW set, set.list \in Seq(Texts) PROVE Hides(set)
    <2> DEFINE l == set.list
               k == set.key
               x == set.points
               n == Len(l)
               draws(items) == {d \in Draws(n) : Shuffled(Blinded(k, items), d) = x}
               words(items) == {w \in Words(n) : PlacesDrawn(n, w) \in draws(items)}
               ways == [items \in Reordered(l) |-> Cardinality(words(items))]
    <2>1. ASSUME NEW items PROVE words(items) = Ways(n, Blinded(k, items), x)
        BY DEF Draws, Ways
    <2>2. ASSUME NEW one \in Reordered(l), NEW other \in Reordered(l)
          PROVE  ways[one] * Cardinality(FewestWords(n)) <= ways[other] * Cardinality(MostWords(n))
        <3>1. ways[one] = Cardinality(words(one)) /\ ways[other] = Cardinality(words(other))
            OBVIOUS
        <3> HIDE DEF words, ways
        <3>2. /\ ways[one] = Cardinality(Ways(n, Blinded(k, one), x))
              /\ ways[other] = Cardinality(Ways(n, Blinded(k, other), x))
            BY <2>1, <3>1
        <3> HIDE DEF l, k, x
        <3>3. l \in Seq(Texts)
            BY <1>1 DEF l
        <3>4. Cardinality(Ways(Len(l), Blinded(k, one), x)) * Cardinality(FewestWords(Len(l)))
                <= Cardinality(Ways(Len(l), Blinded(k, other), x)) * Cardinality(MostWords(Len(l)))
            BY <3>3, ReorderedAlike
        <3> QED
            BY <3>2, <3>4
    <2> QED
        BY <2>2
<1> HIDE DEF Hides
<1>2. PsiInv' => \A set \in sets' \ sets : Hides(set)
    BY <1>1 DEF PsiInv, OnTheWire, SetOK
<1>3. PsiInv' => [\A set \in sets' \ sets : Hides(set)]_sets
    BY <1>2
<1> QED
    BY <1>3, PsiSafe, PTL DEF OrderIsHidden, Hides

=============================================================================
