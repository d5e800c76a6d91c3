-------------------------------- MODULE Psi --------------------------------
(***************************************************************************)
(* Two-party private set intersection (psi/src/lib.rs): a holder publishes *)
(* its blinded list, queriers ask about one indicator at a time.           *)
(*                                                                         *)
(* The library keeps no state and sends nothing: the parties hold its keys *)
(* and sets between the calls, and whatever carries their messages may     *)
(* lose, repeat, reorder, misdeliver or damage them.  Nothing in a message *)
(* says which query, key or set it belongs to.                             *)
(*                                                                         *)
(* A point is the hash of an indicator times a product of keys.  Keys are  *)
(* fresh random scalars, so two such points are equal exactly when they    *)
(* are of one indicator and their products have the same factors; a point  *)
(* keeps, for every key, how often it was multiplied by it.                *)
(***************************************************************************)
EXTENDS Integers, Sequences, FiniteSets, Functions

Seqs == INSTANCE SequencesExt

CONSTANTS
    Queriers,
    Texts,          \* raw indicators
    Indicators,     \* normalized indicators
    Normal,         \* [Texts -> Indicators]: normalize_indicator
    HolderKeys, QuerierKeys,    \* the scalars there are to draw
    Lists,          \* raw_items: the lists the holder may have
    WordValues,     \* how many values next_u32 has: 2^32
    MaxSets,        \* bound: blinded sets published
    NoSet, NoQuery

Keys == HolderKeys \cup QuerierKeys

ASSUME KeysAssumption == HolderKeys \cap QuerierKeys = {}
ASSUME NormalAssumption == Normal \in [Texts -> Indicators]
ASSUME ListsAssumption == Lists \subseteq Seq(Texts)
ASSUME WordValuesAssumption == WordValues \in Nat \ {0}
ASSUME NoQueryAssumption == NoQuery \notin Indicators

VARIABLES
    list,       \* the holder's list
    key,        \* the holder's key
    drawn,      \* the scalars drawn so far
    sets,       \* blinded sets sent, each with the list and the key it is of (history)
    held,       \* the set each querier uses
    asked,      \* the query each querier waits for the answer to
    queries,    \* blinded queries sent
    replies,    \* double-blinded replies sent
    answers     \* history: what finish_query has returned

vars == <<list, key, drawn, sets, held, asked, queries, replies, answers>>

----------------------------------------------------------------------------
(* Points.                                                                 *)

Points == [item : Indicators, power : [Keys -> Int]]

\* MUTANT: hashes the text as it is spelled.
HashSpelling(text) == [item |-> text, power |-> [k \in Keys |-> 0]]

\* MUTANT: hashes a buffer the text never gets into.
HashNothing(text) == [item |-> CHOOSE i \in Indicators : TRUE, power |-> [k \in Keys |-> 0]]

\* hash_indicator
HashIndicator(text) == [item |-> Normal[text], power |-> [k \in Keys |-> 0]]

Times(point, k) == [point EXCEPT !.power[k] = @ + 1]
Unblinded(point, k) == [point EXCEPT !.power[k] = @ - 1]

----------------------------------------------------------------------------
(* blind_set                                                               *)

Swap(s, i, j) == [s EXCEPT ![i] = s[j], ![j] = s[i]]

\* What next_u32 returns for each place, from the last to the second.
Words(n) == [2..n -> 0..(WordValues - 1)]

\* MUTANT: never draws the place itself.
PlacesElsewhere(n, words) == [i \in 1..n |-> IF i = 1 THEN 1 ELSE (words[i] % (i - 1)) + 1]

\* The place that each is swapped with: the remainder of its word, which is any place up to
\* it, but not of equally many words each.  (The first stays.)
PlacesDrawn(n, words) == [i \in 1..n |-> IF i = 1 THEN 1 ELSE (words[i] % i) + 1]

Draws(n) == {PlacesDrawn(n, words) : words \in Words(n)}

Shuffled(s, d) ==
    Seqs!FoldRight(LAMBDA i, t : Swap(t, i, d[i]), [i \in DOMAIN s |-> i], s)

Blinded(k, items) == [i \in DOMAIN items |-> Times(HashIndicator(items[i]), k)]

\* The orders in which the blinded items may come out.
BlindSet(k, items) ==
    {points \in [DOMAIN items -> Range(Blinded(k, items))] :
        \E d \in Draws(Len(items)) : points = Shuffled(Blinded(k, items), d)}

----------------------------------------------------------------------------

Init ==
    /\ list \in Lists
    /\ key \in HolderKeys
    /\ drawn = {key}
    /\ sets = {}
    /\ held = [q \in Queriers |-> NoSet]
    /\ asked = [q \in Queriers |-> NoQuery]
    /\ queries = {}
    /\ replies = {}
    /\ answers = {}

\* The holder's list changes.
EditList ==
    /\ list' \in Lists \ {list}
    /\ UNCHANGED <<key, drawn, sets, held, asked, queries, replies, answers>>

\* HolderKey::generate, "per relationship/epoch".
RotateKey ==
    /\ key' \in HolderKeys \ drawn
    /\ drawn' = drawn \cup {key'}
    /\ UNCHANGED <<list, sets, held, asked, queries, replies, answers>>

\* The holder calls blind_set and sends the result.
SendSet ==
    /\ Cardinality(sets) < MaxSets
    /\ \E points \in BlindSet(key, list) :
        sets' = sets \cup {[points |-> points, list |-> list, key |-> key]}
    /\ UNCHANGED <<list, key, drawn, held, asked, queries, replies, answers>>

\* A querier gets a blinded set, perhaps an old one: BlindedSet::new.
TakeSet(q) ==
    /\ \E set \in sets : held' = [held EXCEPT ![q] = set]
    /\ UNCHANGED <<list, key, drawn, sets, asked, queries, replies, answers>>

\* MUTANT: draws one key for all queries.
AskAgain(q) ==
    \E text \in Texts, k \in QuerierKeys :
        /\ drawn \cap QuerierKeys \subseteq {k}
        /\ drawn' = drawn \cup {k}
        /\ asked' = [asked EXCEPT ![q] = [text |-> text, key |-> k]]
        /\ queries' = queries \cup {Times(HashIndicator(text), k)}
        /\ UNCHANGED <<list, key, sets, held, replies, answers>>

\* A querier calls blind_query and sends the result; it gives up the query it may
\* have been waiting for.
Ask(q) ==
    \E text \in Texts, k \in QuerierKeys \ drawn :
        /\ drawn' = drawn \cup {k}
        /\ asked' = [asked EXCEPT ![q] = [text |-> text, key |-> k]]
        /\ queries' = queries \cup {Times(HashIndicator(text), k)}
        /\ UNCHANGED <<list, key, sets, held, replies, answers>>

\* The holder calls respond_to_query on a query that reaches it, perhaps again.  (Bytes
\* that are no point are an error and change nothing.)
Respond ==
    /\ \E query \in queries : replies' = replies \cup {Times(query, key)}
    /\ UNCHANGED <<list, key, drawn, sets, held, asked, queries, answers>>

CanFinish(q) == asked[q] # NoQuery /\ held[q] # NoSet

\* MUTANT: looks for the reply as it comes.
FoundBlinded(q, reply) == reply \in Range(held[q].points)

\* finish_query on a reply.
Found(q, reply) == Unblinded(reply, asked[q].key) \in Range(held[q].points)

\* MUTANT: the call leaves the key to be used again.
FinishAndKeep(q) ==
    /\ CanFinish(q)
    /\ \E reply \in replies :
        answers' = answers \cup
            {[text |-> asked[q].text, key |-> asked[q].key, set |-> held[q],
              reply |-> reply, found |-> Found(q, reply)]}
    /\ UNCHANGED <<list, key, drawn, sets, held, asked, queries, replies>>

\* A querier calls finish_query on a reply that reaches it, to this query or to another
\* one; the call consumes the key.
Finish(q) ==
    /\ CanFinish(q)
    /\ \E reply \in replies :
        answers' = answers \cup
            {[text |-> asked[q].text, key |-> asked[q].key, set |-> held[q],
              reply |-> reply, found |-> Found(q, reply)]}
    /\ asked' = [asked EXCEPT ![q] = NoQuery]
    /\ UNCHANGED <<list, key, drawn, sets, held, queries, replies>>

\* finish_query on bytes that are no point: an error, and the key is consumed as well.
FinishDamaged(q) ==
    /\ CanFinish(q)
    /\ asked' = [asked EXCEPT ![q] = NoQuery]
    /\ UNCHANGED <<list, key, drawn, sets, held, queries, replies, answers>>

Next ==
    \/ EditList \/ RotateKey \/ SendSet \/ Respond
    \/ \E q \in Queriers : TakeSet(q) \/ Ask(q) \/ Finish(q) \/ FinishDamaged(q)

Spec == Init /\ [][Next]_vars

----------------------------------------------------------------------------
(* Properties.                                                             *)

Listed(a) == \E i \in DOMAIN a.set.list : Normal[a.set.list[i]] = Normal[a.text]

\* The reply is the holder's to this query, with the key of the set it is looked up in.
Matching(a) == a.reply = Times(Times(HashIndicator(a.text), a.key), a.set.key)

\* finish_query: "Returns `Ok(true)` iff the originally-queried item is in the Holder's
\* set".  One half: it is never said of an item that is not in the list the set was
\* made from, whatever was mixed up on the way.
FoundIsTrue == \A a \in answers : a.found => Listed(a)

\* The other half needs that nothing was mixed up: the reply is to this query and the
\* holder has not changed its key between the set and the reply.
NothingMissed == \A a \in answers : Matching(a) /\ Listed(a) => a.found

\* What the parties get out of the protocol, keys and messages aside.
ItemsOf(items) == {Normal[items[i]] : i \in DOMAIN items}
ItemAsked(query) == IF query = NoQuery THEN NoQuery ELSE Normal[query.text]
AnswerOf(a) == [item |-> Normal[a.text], list |-> ItemsOf(a.set.list), found |-> a.found]

ListsSent == {ItemsOf(set.list) : set \in sets}
ItemsAsked == [q \in Queriers |-> ItemAsked(asked[q])]
AnswersGiven == {AnswerOf(a) : a \in answers}

Oracle == INSTANCE MembershipOracle WITH
    Items <- Indicators, NoItem <- NoQuery,
    published <- ListsSent, pending <- ItemsAsked, answered <- AnswersGiven

\* Whatever happens to the messages, the protocol is no worse than somebody trusted who
\* answers from the lists: to each querier once per query, about what it asked and not
\* what another one did, from one list that was published, and never yes wrongly.
ImplementsOracle == Oracle!OracleSpec

\* Who sees the messages cannot tell from equal points what was asked or found: no two
\* queries are the same, and neither a query nor a reply is a point of a blinded set
\* (the docs of blind_query: "unlinkable from each other by anyone who only sees the
\* wire traffic").
WireTellsNothing ==
    /\ Cardinality(queries) = Cardinality(drawn \cap QuerierKeys)
    /\ \A set \in sets : Range(set.points) \cap (queries \cup replies) = {}
    /\ queries \cap replies = {}

\* The orders in which a list could have been put in.
Reordered(s) ==
    {[i \in DOMAIN s |-> s[p[i]]] : p \in {f \in [DOMAIN s -> DOMAIN s] : Range(f) = DOMAIN s}}

\* Of WordValues words, at least WordValues \div i have a given remainder modulo i, and at
\* most (WordValues - 1) \div i + 1.  One number below that for each place:
FewestWords(n) == {f \in [2..n -> 0..WordValues] : \A i \in 2..n : f[i] < WordValues \div i}
MostWords(n) == {f \in [2..n -> 0..WordValues] : \A i \in 2..n : f[i] <= (WordValues - 1) \div i}

\* "an unshuffled blinded set would leak the original set's ordering": a set that was
\* sent may have come of every reordering of its list, and of none by more of the random
\* words than of another one, but for what reducing a word modulo the place makes.
OrderIsHidden ==
    [][\A set \in sets' \ sets :
        LET n == Len(set.list)
            ways == [items \in Reordered(set.list) |->
                        LET draws == {d \in Draws(n) :
                                        Shuffled(Blinded(set.key, items), d) = set.points}
                        IN  Cardinality({words \in Words(n) : PlacesDrawn(n, words) \in draws})]
            fewest == Cardinality(FewestWords(n))
            most == Cardinality(MostWords(n))
        IN  \A one, other \in Reordered(set.list) :
                ways[one] * fewest <= ways[other] * most]_sets

=============================================================================
