--------------------------- MODULE CeremonyProofs ---------------------------
(***************************************************************************)
(* Theorems about Ceremony, for every field, every circuit and any number  *)
(* of tools working on the file at once: what the coordinator takes over   *)
(* can prove, and no contribution it has taken over is withdrawn; and when *)
(* the tools take turns, nothing of what they did is lost.                 *)
(*                                                                         *)
(* The first rests on one hop: Verify(before, after) carries Usable from   *)
(* before to after.  All it asks of after is that its points are points,   *)
(* which holds of everything read from the file (WellFormed).              *)
(*                                                                         *)
(* The last rests on InTurn(p): at any time the file is the beginning of   *)
(* what some parameters p of an honest ceremony are written as.            *)
(***************************************************************************)
EXTENDS Ceremony, SequenceTheorems, TLAPS

----------------------------------------------------------------------------
(* Well-formed values.                                                     *)

IsSeq(s) == s \in Seq({s[i] : i \in DOMAIN s})
PointOK(q) == q = [base |-> q.base, exp |-> q.exp] /\ q.exp \in Scalars

ParamsOK(p) ==
    /\ p.delta_g1 \in Scalars
    /\ PointOK(p.delta_g2)
    /\ p.h_query \in Seq(Scalars)
    /\ p.l_query \in Seq(Scalars)
    /\ IsSeq(p.contributions)

ChunkOK(chunk, i) ==
    chunk # Hole =>
        /\ i = 1 => PointOK(chunk.delta)
        /\ i = 2 => chunk.delta \in Scalars
        /\ i \in 3..4 => chunk \in Seq(Scalars)

ChunksOK(chunks) == IsSeq(chunks) /\ \A i \in 1..Len(chunks) : ChunkOK(chunks[i], i)

HasParams == {"creating", "writing", "ended"}

WellFormed ==
    /\ pc = [a \in Actors |-> pc[a]]
    /\ got = [a \in Actors |-> got[a]]
    /\ mem = [a \in Actors |-> mem[a]]
    /\ at \in [Actors -> Nat]
    /\ ChunksOK(file)
    /\ \A a \in Actors :
        /\ ChunksOK(got[a])
        /\ \A i \in 1..Len(got[a]) : ~ Undecodable(got[a][i], i)
        /\ pc[a] \in HasParams => ParamsOK(mem[a])
    /\ ParamsOK(accepted)

\* Every sequence over some set is a sequence over its own elements.
LEMMA SeqIsSeq ==
    ASSUME NEW S, NEW s \in Seq(S)
    PROVE  IsSeq(s)
BY DEF IsSeq

\* A sequence over any set has a length, and its domain runs up to it.
LEMMA SeqHasLength ==
    ASSUME NEW s, IsSeq(s)
    PROVE  Len(s) \in Nat /\ DOMAIN s = 1..Len(s)
<1> DEFINE S == {s[i] : i \in DOMAIN s}
<1>1. s \in Seq(S)
    BY DEF IsSeq
<1> HIDE DEF S
<1> QED
    BY <1>1

\* The file after File::create, and what a tool has read before it starts.
LEMMA EmptyIsOK == IsSeq(<< >>) /\ ChunksOK(<< >>)
BY DEF IsSeq, ChunksOK

----------------------------------------------------------------------------
(* One hop.                                                                *)

\* A query that was in step with the old delta and has been rescaled by the ratio of
\* the deltas is in step with the new one.
LEMMA RescaledKeepsStep ==
    ASSUME NEW before, NEW after, NEW q \in Seq(Scalars), NEW r \in Seq(Scalars),
           NEW target,
           ParamsOK(before), ParamsOK(after),
           before.delta_g2 = OverG2(before.delta_g1),
           after.delta_g2 = OverG2(after.delta_g1),
           ScaledBy(q, before.delta_g1) = target,
           QueryRescaled(before, after, q, r)
    PROVE  ScaledBy(r, after.delta_g1) = target
<1>1. DOMAIN q = DOMAIN r
    BY DEF QueryRescaled
<1>2. CASE q = << >>
    BY <1>1, <1>2 DEF ScaledBy
<1>3. CASE q # << >>
    <2>1. before.delta_g2.exp = before.delta_g1 /\ after.delta_g2.exp = after.delta_g1
        BY DEF OverG2, G2
    <2>2. \A i \in DOMAIN q : Pairing(q[i], before.delta_g2) = Pairing(r[i], after.delta_g2)
        BY <1>3 DEF QueryRescaled, CheckMergedRatio
    <2>3. \A i \in DOMAIN q : Mul(q[i], before.delta_g1) = Mul(r[i], after.delta_g1)
        BY <2>1, <2>2 DEF Pairing
    <2> QED
        BY <1>1, <2>3 DEF ScaledBy
<1> QED
    BY <1>2, <1>3

\* The delta of after is one number in both groups.
LEMMA LastDeltaInBothGroups ==
    ASSUME NEW after, ParamsOK(after), DeltaIsLast(after)
    PROVE  after.delta_g2 = OverG2(after.delta_g1)
<1>1. Pairing(One, after.delta_g2) = Pairing(after.delta_g1, G2)
    BY DEF DeltaIsLast, CheckSameRatio, G1
<1>2. after.delta_g2.base = << >> /\ Mul(One, after.delta_g2.exp) = Mul(after.delta_g1, One)
    BY <1>1 DEF Pairing, G2
<1>3. after.delta_g2.exp = after.delta_g1
    BY <1>2, FieldAssumption DEF ParamsOK, PointOK
<1>4. after.delta_g2 = [base |-> << >>, exp |-> after.delta_g1]
    BY <1>2, <1>3 DEF ParamsOK, PointOK
<1> QED
    BY <1>4 DEF OverG2, G2

\* One hop carries everything the coordinator relies on.
LEMMA HopKeepsUsable ==
    ASSUME NEW before, NEW after, ParamsOK(before), ParamsOK(after),
           Usable(before), Verify(before, after) = "ok"
    PROVE  /\ Usable(after)
           /\ after.cs_hash = before.cs_hash
           /\ TranscriptVerifies(before.cs_hash, after.contributions)
           /\ DeltaIsLast(after)
<1>1. /\ after.contributions # << >> /\ DeltaIsLast(after)
      /\ KeepsFixedParts(before, after)
      /\ QueriesRescaled(before, after)
      /\ TranscriptVerifies(before.cs_hash, after.contributions)
    BY DEF Verify
<1>2. after.delta_g2 = OverG2(after.delta_g1)
    BY <1>1, LastDeltaInBothGroups
<1>3. ScaledBy(after.h_query, after.delta_g1) = HQuery
    BY <1>1, <1>2, RescaledKeepsStep DEF QueriesRescaled, Usable, ParamsOK
<1>4. ScaledBy(after.l_query, after.delta_g1) = LQuery
    BY <1>1, <1>2, RescaledKeepsStep DEF QueriesRescaled, Usable, ParamsOK
<1> QED
    BY <1>1, <1>2, <1>3, <1>4 DEF Usable, KeepsFixedParts

----------------------------------------------------------------------------
(* What is read is well-formed.                                            *)

\* The contributions that read returns are the end of what it has read.
LEMMA SubSeqIsSeq ==
    ASSUME NEW s, IsSeq(s), NEW m \in 1..(Len(s) + 1), NEW n \in 0..Len(s)
    PROVE  IsSeq(SubSeq(s, m, n))
<1> DEFINE S == {s[i] : i \in DOMAIN s}
<1>1. s \in Seq(S)
    BY DEF IsSeq
<1>2. SubSeq(s, m, n) \in Seq(S)
    BY <1>1
<1> HIDE DEF S
<1> QED
    BY <1>2, SeqIsSeq

\* contribute pushes a public key; a reader gets one more chunk.
LEMMA AppendIsSeq ==
    ASSUME NEW s, IsSeq(s), NEW e
    PROVE  /\ IsSeq(Append(s, e))
           /\ Len(Append(s, e)) = Len(s) + 1
           /\ \A i \in 1..Len(s) : Append(s, e)[i] = s[i]
           /\ Append(s, e)[Len(s) + 1] = e
<1> DEFINE S == {s[i] : i \in DOMAIN s} \cup {e}
<1>1. s \in Seq({s[i] : i \in DOMAIN s})
    BY DEF IsSeq
<1>2. s \in Seq(S)
    BY <1>1
<1>3. e \in S
    OBVIOUS
<1> HIDE DEF S
<1>4. Append(s, e) \in Seq(S)
    BY <1>2, <1>3
<1>5. IsSeq(Append(s, e))
    BY <1>4, SeqIsSeq
<1>6. /\ Len(Append(s, e)) = Len(s) + 1
      /\ \A i \in 1..Len(s) : Append(s, e)[i] = s[i]
      /\ Append(s, e)[Len(s) + 1] = e
    BY <1>2, <1>3
<1> QED
    BY <1>5, <1>6

\* A reader that has all the chunks it asks for has those that Decode looks at.
LEMMA DecodeIsOK ==
    ASSUME NEW chunks, ChunksOK(chunks), Len(chunks) >= ChunksNeeded(chunks),
           \A i \in 1..Len(chunks) : ~ Undecodable(chunks[i], i)
    PROVE  ParamsOK(Decode(chunks))
<1> DEFINE blank == BlankFrom(chunks)
<1>1. Len(chunks) \in Nat
    BY DEF ChunksOK, IsSeq
<1>2. blank = {} => Len(chunks) >= 5
    BY <1>1 DEF ChunksNeeded, HeaderChunks
<1>3. \A i \in blank : i \in 3..5 /\ i <= Len(chunks)
    BY DEF BlankFrom, HeaderChunks
<1>4. Len(chunks) >= 3
    BY <1>1, <1>2, <1>3
<1>5. chunks[1] # Hole /\ chunks[2] # Hole
    BY <1>1, <1>4 DEF Undecodable, HeaderChunks
<1>6. PointOK(chunks[1].delta) /\ chunks[2].delta \in Scalars
    BY <1>1, <1>4, <1>5 DEF ChunksOK, ChunkOK
<1>7. ASSUME NEW i \in 3..4, \A j \in blank : i < j
      PROVE  chunks[i] \in Seq(Scalars)
    <2>1. i <= Len(chunks)
        BY <1>1, <1>2, <1>3, <1>7
    <2>2. i \notin blank
        BY <1>7
    <2>3. chunks[i] # Hole
        BY <2>1, <2>2 DEF BlankFrom, HeaderChunks
    <2> QED
        BY <1>1, <2>1, <2>3 DEF ChunksOK, ChunkOK
<1>8. IsSeq(SubSeq(chunks, HeaderChunks + 1, Len(chunks)))
    <2>1. CASE Len(chunks) >= 5
        BY <1>1, <2>1, SubSeqIsSeq DEF ChunksOK, HeaderChunks
    <2>2. CASE Len(chunks) < 5
        <3>1. SubSeq(chunks, HeaderChunks + 1, Len(chunks)) = << >>
            BY <1>1, <2>2 DEF HeaderChunks, ChunksOK, IsSeq
        <3> QED
            BY <3>1, EmptyIsOK
    <2> QED
        BY <1>1, <2>1, <2>2
<1>9. << >> \in Seq(Scalars)
    OBVIOUS
<1> QED
    BY <1>6, <1>7, <1>8, <1>9 DEF Decode, ParamsOK

\* new_placeholder returns points.
LEMMA PlaceholderIsOK ==
    ASSUME NEW setup
    PROVE  ParamsOK(NewPlaceholder(setup))
BY FieldAssumption, QueriesAssumption, EmptyIsOK
   DEF ParamsOK, NewPlaceholder, PointOK, OverG2, G2

\* contribute scales a query point by point.
LEMMA ScaledByIsOK ==
    ASSUME NEW query \in Seq(Scalars), NEW x \in Scalars
    PROVE  ScaledBy(query, x) \in Seq(Scalars)
<1>1. \A i \in 1..Len(query) : Mul(query[i], x) \in Scalars
    <2>1. \A a \in Scalars : Mul(a, x) \in Scalars
        BY FieldAssumption
    <2> QED
        BY <2>1
<1>2. ScaledBy(query, x) \in [1..Len(query) -> Scalars]
    BY <1>1 DEF ScaledBy
<1> QED
    BY <1>2

\* contribute turns well-formed parameters into well-formed ones.
LEMMA ContributeIsOK ==
    ASSUME NEW p, ParamsOK(p), NEW delta \in Scalars \ {Zero}, NEW s,
           p = [fixed_vk |-> p.fixed_vk, fixed_pk |-> p.fixed_pk,
                delta_g1 |-> p.delta_g1, delta_g2 |-> p.delta_g2,
                h_query |-> p.h_query, l_query |-> p.l_query,
                cs_hash |-> p.cs_hash, contributions |-> p.contributions]
    PROVE  ParamsOK(Contribute(p, delta, s))
<1> DEFINE c == Contribute(p, delta, s)
<1>1. /\ c.delta_g1 = Mul(p.delta_g1, delta)
      /\ c.delta_g2 = Times(p.delta_g2, delta)
      /\ c.h_query = ScaledBy(p.h_query, Inv(delta))
      /\ c.l_query = ScaledBy(p.l_query, Inv(delta))
      /\ c.contributions = Append(p.contributions,
            PublicKey(p.delta_g1, p.cs_hash, p.contributions, delta, s))
    BY DEF Contribute
<1> HIDE DEF c
<1>6. \A x \in Scalars : Mul(x, delta) \in Scalars
    BY FieldAssumption
<1>7. Inv(delta) \in Scalars
    BY FieldAssumption
<1>2. c.delta_g1 \in Scalars
    BY <1>1, <1>6 DEF ParamsOK
<1>3. PointOK(c.delta_g2)
    BY <1>1, <1>6 DEF ParamsOK, PointOK, Times
<1>4. c.h_query \in Seq(Scalars) /\ c.l_query \in Seq(Scalars)
    BY <1>1, <1>7, ScaledByIsOK DEF ParamsOK
<1>5. IsSeq(c.contributions)
    BY <1>1, AppendIsSeq DEF ParamsOK
<1> QED
    BY <1>2, <1>3, <1>4, <1>5 DEF ParamsOK, c

\* The chunks of a file that holds parameters.
LEMMA ChunksOf ==
    ASSUME NEW p, ParamsOK(p)
    PROVE  /\ IsSeq(Serialized(p))
           /\ Len(Serialized(p)) = 5 + Len(p.contributions)
           /\ Serialized(p)[1] = [fixed |-> p.fixed_vk, delta |-> p.delta_g2]
           /\ Serialized(p)[2] = [fixed |-> p.fixed_pk, delta |-> p.delta_g1]
           /\ Serialized(p)[3] = p.h_query
           /\ Serialized(p)[4] = p.l_query
           /\ Serialized(p)[5] = [cs_hash |-> p.cs_hash, count |-> Len(p.contributions)]
           /\ \A j \in 1..Len(p.contributions) : Serialized(p)[5 + j] = p.contributions[j]
<1> DEFINE header == << [fixed |-> p.fixed_vk, delta |-> p.delta_g2],
                        [fixed |-> p.fixed_pk, delta |-> p.delta_g1],
                        p.h_query, p.l_query,
                        [cs_hash |-> p.cs_hash, count |-> Len(p.contributions)] >>
           S == {header[j] : j \in 1..5} \cup {p.contributions[j] : j \in DOMAIN p.contributions}
<1>1. header \in Seq(S) /\ Len(header) = 5
    OBVIOUS
<1>2. p.contributions \in Seq(S) /\ Len(p.contributions) \in Nat
    BY DEF ParamsOK, IsSeq
<1>3. Serialized(p) = header \o p.contributions
    BY DEF Serialized
<1>4. /\ header[1] = [fixed |-> p.fixed_vk, delta |-> p.delta_g2]
      /\ header[2] = [fixed |-> p.fixed_pk, delta |-> p.delta_g1]
      /\ header[3] = p.h_query
      /\ header[4] = p.l_query
      /\ header[5] = [cs_hash |-> p.cs_hash, count |-> Len(p.contributions)]
    OBVIOUS
<1> HIDE DEF header, S
<1>5. /\ Serialized(p) \in Seq(S)
      /\ Len(Serialized(p)) = Len(header) + Len(p.contributions)
      /\ \A j \in 1..(Len(header) + Len(p.contributions)) :
            Serialized(p)[j] =
                IF j <= Len(header) THEN header[j] ELSE p.contributions[j - Len(header)]
    <2> SUFFICES
          /\ header \o p.contributions \in Seq(S)
          /\ Len(header \o p.contributions) = Len(header) + Len(p.contributions)
          /\ \A j \in 1..(Len(header) + Len(p.contributions)) :
                (header \o p.contributions)[j] =
                    IF j <= Len(header) THEN header[j] ELSE p.contributions[j - Len(header)]
        BY <1>3, Zenon
    <2> QED
        BY <1>1, <1>2, ConcatProperties
<1>6. IsSeq(Serialized(p))
    BY <1>5, SeqIsSeq
<1>7. \A j \in 1..5 : Serialized(p)[j] = header[j]
    BY <1>1, <1>2, <1>5
<1>8. ASSUME NEW j \in 1..Len(p.contributions)
      PROVE  Serialized(p)[5 + j] = p.contributions[j]
    <2>1. 5 + j \in 1..(Len(header) + Len(p.contributions)) /\ ~ (5 + j <= Len(header))
          /\ (5 + j) - Len(header) = j
        BY <1>1, <1>2
    <2> QED
        BY <1>5, <2>1
<1>9. Len(Serialized(p)) = 5 + Len(p.contributions)
    BY <1>1, <1>5
<1> QED
    BY <1>4, <1>6, <1>7, <1>8, <1>9

\* What write produces is well-formed.
LEMMA SerializedIsOK ==
    ASSUME NEW p, ParamsOK(p)
    PROVE  ChunksOK(Serialized(p))
<1> DEFINE f == Serialized(p)
<1>1. /\ IsSeq(f)
      /\ f[1] = [fixed |-> p.fixed_vk, delta |-> p.delta_g2]
      /\ f[2] = [fixed |-> p.fixed_pk, delta |-> p.delta_g1]
      /\ f[3] = p.h_query
      /\ f[4] = p.l_query
    BY ChunksOf
<1> HIDE DEF f
<1>2. \A i \in 1..Len(f) : ChunkOK(f[i], i)
    <2> SUFFICES ASSUME NEW i \in 1..Len(f)
                 PROVE  ChunkOK(f[i], i)
        OBVIOUS
    <2>1. i \in 3..4 => i = 3 \/ i = 4
        OBVIOUS
    <2> QED
        BY <1>1, <2>1 DEF ChunkOK, ParamsOK
<1> QED
    BY <1>1, <1>2 DEF ChunksOK, f

\* A chunk written at its place, whatever another tool has left before or after it,
\* leaves every place of the file with a chunk of its kind or a hole.
LEMMA OverwrittenIsOK ==
    ASSUME ChunksOK(file), NEW i \in Nat \ {0}, NEW chunk, ChunkOK(chunk, i)
    PROVE  ChunksOK(Overwritten(chunk, i))
<1> DEFINE new == Overwritten(chunk, i)
           n == IF i > Len(file) THEN i ELSE Len(file)
           S == {file[j] : j \in DOMAIN file} \cup {chunk, Hole}
<1>1. Len(file) \in Nat /\ DOMAIN file = 1..Len(file)
    BY DEF ChunksOK, IsSeq
<1>2. n \in Nat /\ DOMAIN file \cup 1..i = 1..n
    BY <1>1
<1>3. new = [j \in 1..n |->
                IF j = i THEN chunk ELSE IF j \in DOMAIN file THEN file[j] ELSE Hole]
    BY <1>2 DEF Overwritten
<1> HIDE DEF n, new
<1>4. \A j \in 1..n : new[j] \in S
    BY <1>3
<1>5. new \in [1..n -> S]
    BY <1>3, <1>4
<1> HIDE DEF S
<1>6. new \in Seq(S) /\ Len(new) = n
    BY <1>2, <1>5
<1>7. IsSeq(new)
    BY <1>6, SeqIsSeq
<1>8. ASSUME NEW j \in 1..n
      PROVE  ChunkOK(new[j], j)
    <2>1. CASE j = i
        BY <1>3, <2>1
    <2>2. CASE j # i /\ j \in DOMAIN file
        BY <1>1, <1>3, <2>2 DEF ChunksOK
    <2>3. CASE j # i /\ j \notin DOMAIN file
        BY <1>3, <2>3 DEF ChunkOK
    <2> QED
        BY <2>1, <2>2, <2>3
<1> QED
    BY <1>6, <1>7, <1>8 DEF ChunksOK, new

----------------------------------------------------------------------------
(* Every tool keeps values well-formed.                                    *)

\* The ceremony starts from a file that new_placeholder wrote.
LEMMA WellFormedInit == Init => WellFormed
<1> SUFFICES ASSUME Init PROVE WellFormed
    OBVIOUS
<1> DEFINE p == NewPlaceholder(FirstSetup)
<1>1. ParamsOK(p)
    BY PlaceholderIsOK
<1>4. ChunksOK(file)
    BY <1>1, SerializedIsOK DEF Init
<1>5. \A a \in Actors : pc[a] \notin HasParams
    BY DEF Init, HasParams
<1> QED
    BY <1>1, <1>4, <1>5, EmptyIsOK DEF Init, WellFormed

\* The step of one tool that changes nothing but its own place.
LEMMA MovesOn ==
    ASSUME WellFormed, NEW a \in Actors, NEW where, GoTo(a, where),
           where \in HasParams => pc[a] \in HasParams,
           UNCHANGED <<file, got, mem, at, accepted>>
    PROVE  WellFormed'
BY DEF WellFormed, GoTo

\* A tool has new parameters in memory.
LEMMA TakesUp ==
    ASSUME WellFormed, NEW a \in Actors, NEW where, GoTo(a, where),
           NEW p, ParamsOK(p), mem' = [mem EXCEPT ![a] = p],
           got' = got \/ got' = [got EXCEPT ![a] = << >>],
           UNCHANGED <<file, at, accepted>>
    PROVE  WellFormed'
<1>1. \A b \in Actors : ChunksOK(got'[b]) /\ \A i \in 1..Len(got'[b]) : ~ Undecodable(got'[b][i], i)
    BY EmptyIsOK DEF WellFormed
<1>2. got' = [b \in Actors |-> got'[b]]
    BY DEF WellFormed
<1> QED
    BY <1>1, <1>2 DEF WellFormed, GoTo

\* A reader takes a chunk that decodes from the place it is for.
LEMMA ReadChunkIsOK ==
    ASSUME WellFormed, NEW a \in Actors, ReadChunk(a)
    PROVE  WellFormed'
<1> DEFINE i == Len(got[a]) + 1
<1>1. /\ i <= Len(file) /\ ~ Undecodable(file[i], i)
      /\ got' = [got EXCEPT ![a] = Append(@, file[i])]
      /\ UNCHANGED <<file, pc, mem, at, accepted>>
    BY DEF ReadChunk
<1>2. IsSeq(got[a]) /\ Len(got[a]) \in Nat /\ Len(file) \in Nat
    BY SeqHasLength DEF WellFormed, ChunksOK
<1>3. ChunkOK(file[i], i)
    BY <1>1, <1>2 DEF WellFormed, ChunksOK
<1> DEFINE new == Append(got[a], file[i])
<1>4. /\ IsSeq(new)
      /\ Len(new) = i
      /\ \A j \in 1..Len(got[a]) : new[j] = got[a][j]
      /\ new[i] = file[i]
    BY <1>2, AppendIsSeq
<1> HIDE DEF new
<1>5. \A j \in 1..Len(new) : ChunkOK(new[j], j) /\ ~ Undecodable(new[j], j)
    BY <1>1, <1>2, <1>3, <1>4 DEF WellFormed, ChunksOK
<1>6. ChunksOK(new)
    BY <1>4, <1>5 DEF ChunksOK
<1>7. got' = [got EXCEPT ![a] = new]
    BY <1>1 DEF new
<1> QED
    BY <1>1, <1>5, <1>6, <1>7 DEF WellFormed

\* A writer puts a chunk of its parameters at its place.
LEMMA WriteChunkIsOK ==
    ASSUME WellFormed, NEW w \in Actors, WriteChunk(w)
    PROVE  WellFormed'
<1> DEFINE i == at[w] + 1
           chunk == Serialized(mem[w])[i]
<1>1. /\ pc[w] = "writing"
      /\ at[w] < Len(Serialized(mem[w]))
      /\ file' = Overwritten(chunk, i)
      /\ at' = [at EXCEPT ![w] = i]
      /\ UNCHANGED <<pc, got, mem, accepted>>
    BY DEF WriteChunk
<1>2. i \in Nat \ {0} /\ at[w] \in Nat
    BY DEF WellFormed
<1>3. ParamsOK(mem[w])
    BY <1>1 DEF WellFormed, HasParams
<1>4. ChunksOK(Serialized(mem[w])) /\ Len(Serialized(mem[w])) \in Nat
    BY <1>3, SerializedIsOK, SeqHasLength DEF ChunksOK
<1>5. ChunkOK(chunk, i)
    BY <1>1, <1>2, <1>4 DEF ChunksOK
<1> HIDE DEF chunk, i
<1>6. ChunksOK(file')
    BY <1>1, <1>2, <1>5, OverwrittenIsOK DEF WellFormed
<1>7. at' \in [Actors -> Nat]
    BY <1>1, <1>2 DEF WellFormed
<1> QED
    BY <1>1, <1>6, <1>7 DEF WellFormed

\* A contributor turns what it has read into parameters.
LEMMA ApplySecretIsOK ==
    ASSUME WellFormed, NEW c \in Contributors, ApplySecret(c)
    PROVE  WellFormed'
<1> DEFINE p == Decode(got[c])
<1>1. c \in Actors
    BY DEF Actors, Writers
<1>2. ChunksOK(got[c]) /\ \A i \in 1..Len(got[c]) : ~ Undecodable(got[c][i], i)
    BY <1>1 DEF WellFormed
<1>3. ParamsOK(p)
    BY <1>2, DecodeIsOK DEF ApplySecret, HasRead
<1>4. p = [fixed_vk |-> p.fixed_vk, fixed_pk |-> p.fixed_pk,
           delta_g1 |-> p.delta_g1, delta_g2 |-> p.delta_g2,
           h_query |-> p.h_query, l_query |-> p.l_query,
           cs_hash |-> p.cs_hash, contributions |-> p.contributions]
    BY DEF Decode
<1> HIDE DEF p
<1>5. ParamsOK(Contribute(p, Secret[c], Nonce[c]))
    BY <1>3, <1>4, ContributeIsOK, SecretAssumption
<1> QED
    BY <1>1, <1>5, TakesUp DEF ApplySecret, p

\* The coordinator changes its parameters only for what verify accepts after them.
LEMMA CheckHopIsOK ==
    ASSUME WellFormed, NEW a \in Actors, CheckHop(a)
    PROVE  WellFormed' /\ (accepted' # accepted =>
                ParamsOK(accepted') /\ Verify(accepted, accepted') = "ok")
<1>1. ParamsOK(Decode(got[a]))
    BY DecodeIsOK DEF CheckHop, HasRead, WellFormed
<1>2. ParamsOK(accepted') /\ (accepted' # accepted => Verify(accepted, accepted') = "ok")
    BY <1>1 DEF CheckHop, WellFormed
<1>3. \A b \in Actors : ChunksOK(got'[b]) /\ \A i \in 1..Len(got'[b]) : ~ Undecodable(got'[b][i], i)
    BY EmptyIsOK DEF CheckHop, WellFormed
<1> QED
    BY <1>2, <1>3 DEF CheckHop, WellFormed, GoTo, HasParams

\* A step either leaves the coordinator's parameters alone or is a verified hop.
LEMMA Step ==
    ASSUME WellFormed, [Next]_vars
    PROVE  /\ WellFormed'
           /\ accepted' # accepted =>
                ParamsOK(accepted') /\ Verify(accepted, accepted') = "ok"
<1> USE DEF Actors, Writers, Readers
<1>1. CASE UNCHANGED vars
    BY <1>1 DEF vars, WellFormed, ChunksOK, Undecodable
<1>2. ASSUME NEW c \in Contributors, Open(c)
      PROVE  WellFormed' /\ accepted' = accepted
    BY <1>2, MovesOn DEF Open, HasParams
<1>3. ASSUME NEW c \in Contributors, ApplySecret(c)
      PROVE  WellFormed' /\ accepted' = accepted
    BY <1>3, ApplySecretIsOK DEF ApplySecret
<1>4. ASSUME NEW i \in Initialisers, Initialise(i)
      PROVE  WellFormed' /\ accepted' = accepted
    BY <1>4, PlaceholderIsOK, TakesUp DEF Initialise
<1>5. CASE Inspect(Coordinator)
    BY <1>5, MovesOn DEF Inspect, HasParams
<1>6. CASE CheckHop(Coordinator)
    BY <1>6, CheckHopIsOK
<1>7. ASSUME NEW a \in Readers, ReadChunk(a)
      PROVE  WellFormed' /\ accepted' = accepted
    BY <1>7, ReadChunkIsOK DEF ReadChunk
<1>8. ASSUME NEW a \in Readers, FailReading(a)
      PROVE  WellFormed' /\ accepted' = accepted
    <2>1. PICK where \in {"idle", "failed"} : GoTo(a, where)
        BY <1>8 DEF FailReading
    <2>2. got' = [got EXCEPT ![a] = << >>] /\ UNCHANGED <<file, mem, at, accepted>>
        BY <1>8 DEF FailReading
    <2>3. \A b \in Actors :
            ChunksOK(got'[b]) /\ \A i \in 1..Len(got'[b]) : ~ Undecodable(got'[b][i], i)
      <3> SUFFICES ASSUME NEW b \in Actors
                   PROVE  ChunksOK(got'[b])
                          /\ \A i \in 1..Len(got'[b]) : ~ Undecodable(got'[b][i], i)
          OBVIOUS
      <3>1. CASE b = a
          <4>1. got'[b] = << >>
              BY <2>2, <3>1 DEF WellFormed
          <4> QED
              BY <4>1, EmptyIsOK
      <3>2. CASE b # a
          <4>1. got'[b] = got[b]
              BY <2>2, <3>2 DEF WellFormed
          <4> QED
              BY <4>1 DEF WellFormed
      <3> QED
          BY <3>1, <3>2
    <2>4. \A b \in Actors : pc'[b] \in HasParams => pc[b] \in HasParams
        BY <2>1 DEF WellFormed, GoTo, HasParams
    <2> QED
        BY <2>1, <2>2, <2>3, <2>4 DEF WellFormed, GoTo
<1>9. ASSUME NEW w \in Writers, Create(w)
      PROVE  WellFormed' /\ accepted' = accepted
    BY <1>9, EmptyIsOK DEF Create, WellFormed, GoTo, HasParams
<1>10. ASSUME NEW w \in Writers, WriteChunk(w)
       PROVE  WellFormed' /\ accepted' = accepted
    BY <1>10, WriteChunkIsOK DEF WriteChunk
<1>11. ASSUME NEW w \in Writers, Attest(w)
       PROVE  WellFormed' /\ accepted' = accepted
    BY <1>11, MovesOn DEF Attest, HasParams
<1>12. ASSUME NEW w \in Writers, Kill(w)
       PROVE  WellFormed' /\ accepted' = accepted
    BY <1>12 DEF Kill, WellFormed, GoTo, HasParams
<1> QED
    BY <1>1, <1>2, <1>3, <1>4, <1>5, <1>6, <1>7, <1>8, <1>9, <1>10, <1>11, <1>12 DEF Next

----------------------------------------------------------------------------
(* The theorems.                                                           *)

\* Whatever the tools do to the file at once, what a tool holds in memory, what it can
\* read and what the coordinator has are points and sequences of points: the part of
\* MPCParameters::read that decodes.
THEOREM Safe == Spec => []WellFormed
<1>1. Init => WellFormed
    BY WellFormedInit
<1>2. WellFormed /\ [Next]_vars => WellFormed'
    BY Step
<1> QED
    BY <1>1, <1>2, PTL DEF Spec

\* new_placeholder returns a proving key of its circuit, with delta 1 in both groups.
LEMMA StartIsUsable ==
    ASSUME Init
    PROVE  AcceptedIsUsable
<1>1. \A q \in Seq(Scalars) : ScaledBy(q, One) = q
    <2>1. \A x \in Scalars : Mul(x, One) = x
        BY FieldAssumption
    <2> QED
        BY <2>1 DEF ScaledBy
<1>2. Usable(NewPlaceholder(FirstSetup))
    BY <1>1, QueriesAssumption DEF Usable, NewPlaceholder
<1> QED
    BY <1>2 DEF Init, AcceptedIsUsable, NewPlaceholder, TranscriptVerifies

\* Whatever the tools do to the file, and whatever the coordinator's reading of it is
\* torn from, all it takes over is a working proving key of its own ceremony with a
\* history that explains it.
THEOREM AcceptedKeyWorks == Spec => []AcceptedIsUsable
<1>1. Init => AcceptedIsUsable
    BY StartIsUsable
<1>2. ASSUME WellFormed, AcceptedIsUsable, [Next]_vars
      PROVE  AcceptedIsUsable'
    <2>1. CASE accepted' = accepted
        BY <1>2, <2>1 DEF AcceptedIsUsable
    <2>2. CASE accepted' # accepted
        <3>1. ParamsOK(accepted) /\ ParamsOK(accepted') /\ Verify(accepted, accepted') = "ok"
            BY <1>2, <2>2, Step DEF WellFormed
        <3>2. Usable(accepted)
            BY <1>2 DEF AcceptedIsUsable
        <3> QED
            BY <1>2, <3>1, <3>2, HopKeepsUsable DEF AcceptedIsUsable
    <2> QED
        BY <2>1, <2>2
<1> QED
    BY <1>1, <1>2, Safe, PTL DEF Spec

\* No contribution that was taken over is withdrawn or moved.
THEOREM HistoryGrows == Spec => NothingWithdrawn
<1>1. ASSUME WellFormed, [Next]_vars
      PROVE  [Seqs!IsPrefix(accepted.contributions, accepted'.contributions)]_accepted
    <2> SUFFICES ASSUME accepted' # accepted
                 PROVE  Seqs!IsPrefix(accepted.contributions, accepted'.contributions)
        OBVIOUS
    <2> DEFINE old == accepted.contributions
               new == accepted'.contributions
    <2>1. Verify(accepted, accepted') = "ok" /\ ParamsOK(accepted) /\ ParamsOK(accepted')
        BY <1>1, Step DEF WellFormed
    <2>2. IsSeq(old) /\ IsSeq(new) /\ Len(old) \in Nat /\ Len(new) \in Nat
        BY <2>1, SeqHasLength DEF ParamsOK
    <2>3. Len(old) <= Len(new) /\ SubSeq(new, 1, Len(old)) = old
        BY <2>1, <2>2 DEF Verify, KeepsContributions
    <2>4. SubSeq(old, 1, Len(old)) = old
        BY <2>2 DEF IsSeq
    <2> QED
        BY <2>3, <2>4 DEF Seqs!IsPrefix
<1> QED
    BY <1>1, Safe, PTL DEF Spec, NothingWithdrawn

----------------------------------------------------------------------------
(* Tools that take turns.                                                  *)

\* What this part assumes besides: zero bytes are neither a query nor a record, and no
\* query of the circuit is all zeros (the checks refuse those whatever the contributors
\* do).
HoleIsNoChunk ==
    /\ Hole \notin Seq(Scalars)
    /\ \A hash, n : [cs_hash |-> hash, count |-> n] # Hole
    /\ \A setup, delta : [fixed |-> setup, delta |-> delta] # Hole
    /\ \A delta_g1, hash, contributions, delta, s :
            PublicKey(delta_g1, hash, contributions, delta, s) # Hole

Live(query) == query = << >> \/ \E i \in DOMAIN query : query[i] # Zero
QueriesLive == Live(HQuery) /\ Live(LQuery)

\* s is a sequence, and the beginning of t.
Begins(s, t) == IsSeq(s) /\ Len(s) <= Len(t) /\ \A i \in 1..Len(s) : s[i] = t[i]

LEMMA BeginsAll ==
    ASSUME NEW s, NEW t, IsSeq(t), Begins(s, t), Len(s) = Len(t)
    PROVE  s = t
<1> DEFINE S == {s[i] : i \in DOMAIN s}
           T == {t[i] : i \in DOMAIN t}
<1>1. s \in Seq(S) /\ t \in Seq(T) /\ Len(t) \in Nat
    BY DEF IsSeq, Begins
<1> HIDE DEF S, T
<1>2. s = [i \in 1..Len(s) |-> s[i]] /\ t = [i \in 1..Len(t) |-> t[i]]
    BY <1>1
<1> QED
    BY <1>2 DEF Begins

LEMMA BeginsIsPrefix ==
    ASSUME NEW s, NEW t, IsSeq(t), Begins(s, t)
    PROVE  SubSeq(t, 1, Len(s)) = s /\ Seqs!IsPrefix(s, t)
<1> DEFINE n == Len(s)
           S == {s[i] : i \in DOMAIN s}
           T == {t[i] : i \in DOMAIN t}
<1>1. s \in Seq(S) /\ t \in Seq(T) /\ n \in Nat /\ Len(t) \in Nat /\ n <= Len(t)
    BY DEF IsSeq, Begins
<1>2. s = [i \in 1..n |-> s[i]]
    BY <1>1
<1> HIDE DEF S, T
<1>3. SubSeq(t, 1, n) = [i \in 1..n |-> t[i]] /\ SubSeq(s, 1, n) = [i \in 1..n |-> s[i]]
    BY <1>1
<1>4. \A i \in 1..n : s[i] = t[i]
    BY DEF Begins
<1>5. SubSeq(t, 1, n) = s /\ SubSeq(s, 1, n) = s
    BY <1>2, <1>3, <1>4
<1> QED
    BY <1>1, <1>5 DEF Seqs!IsPrefix

\* Parameters that an honest ceremony gets to.
LastDelta(p) ==
    IF p.contributions = << >> THEN One ELSE p.contributions[Len(p.contributions)].delta_after

Fields(p) ==
    p = [fixed_vk |-> p.fixed_vk, fixed_pk |-> p.fixed_pk,
         delta_g1 |-> p.delta_g1, delta_g2 |-> p.delta_g2,
         h_query |-> p.h_query, l_query |-> p.l_query,
         cs_hash |-> p.cs_hash, contributions |-> p.contributions]

Good(p) ==
    /\ ParamsOK(p) /\ Fields(p) /\ Usable(p)
    /\ p.cs_hash = FirstSetup
    /\ p.delta_g1 # Zero /\ LastDelta(p) = p.delta_g1
    /\ TranscriptVerifies(FirstSetup, p.contributions)
    /\ \A i \in 1..Len(p.contributions) : p.contributions[i] # Hole

\* A starting point is good.
LEMMA PlaceholderIsGood == Good(NewPlaceholder(FirstSetup))
<1> DEFINE p == NewPlaceholder(FirstSetup)
<1>1. ParamsOK(p)
    BY PlaceholderIsOK
<1>2. \A q \in Seq(Scalars) : ScaledBy(q, One) = q
    <2>1. \A x \in Scalars : Mul(x, One) = x
        BY FieldAssumption
    <2> QED
        BY <2>1 DEF ScaledBy
<1>3. Usable(p)
    BY <1>2, QueriesAssumption DEF Usable, NewPlaceholder
<1> QED
    BY <1>1, <1>3, FieldAssumption DEF Good, Fields, LastDelta, NewPlaceholder, TranscriptVerifies

\* A field has no divisors of zero, and a factor cancels its inverse.
LEMMA FieldFacts ==
    ASSUME NEW a \in Scalars \ {Zero}, NEW b \in Scalars
    PROVE  /\ b # Zero => Mul(b, a) # Zero
           /\ Mul(Mul(b, Inv(a)), a) = b
<1>1. a \in Scalars /\ Inv(a) \in Scalars /\ Mul(a, Inv(a)) = One /\ Mul(Inv(a), a) = One
    BY FieldAssumption
<1>2. Mul(Mul(b, Inv(a)), a) = Mul(b, Mul(Inv(a), a)) /\ Mul(b, One) = b
    BY <1>1, FieldAssumption
<1>3. Mul(Mul(b, a), Inv(a)) = b
    <2>1. Mul(Mul(b, a), Inv(a)) = Mul(b, Mul(a, Inv(a)))
        BY <1>1, FieldAssumption
    <2> QED
        BY <1>1, <1>2, <2>1
<1>4. Mul(Zero, Inv(a)) = Zero
    BY <1>1, FieldAssumption
<1> QED
    BY <1>1, <1>2, <1>3, <1>4

\* A secret shows itself: in a pair of points, and in the point its transcript hashes to.
LEMMA SecretShown ==
    ASSUME NEW a \in Scalars \ {Zero}, NEW delta \in Scalars \ {Zero}, NEW transcript
    PROVE  CheckSameRatio(<<a, Mul(a, delta)>>,
                          <<HashToG2(transcript), Times(HashToG2(transcript), delta)>>)
<1> DEFINE r == HashToG2(transcript)
           d == Times(HashToG2(transcript), delta)
<1>1. Mul(a, delta) # Zero
    BY FieldFacts
<1>2. Mul(One, delta) = delta /\ Mul(Mul(a, delta), One) = Mul(a, delta)
    BY FieldAssumption
<1>3. r = [base |-> <<transcript>>, exp |-> One] /\ d = [base |-> <<transcript>>, exp |-> delta]
    BY <1>2 DEF HashToG2, Times
<1>4. One # Zero
    BY FieldAssumption
<1>5. Pairing(a, d) = Pairing(Mul(a, delta), r)
    BY <1>2, <1>3 DEF Pairing
<1> HIDE DEF r, d
<1>6. CheckSameRatio(<<a, Mul(a, delta)>>, <<r, d>>)
    BY <1>1, <1>3, <1>4, <1>5 DEF CheckSameRatio
<1> QED
    BY <1>6 DEF r, d

\* Dividing a query by a secret that the delta is multiplied with keeps the two in step.
LEMMA DividedKeepsStep ==
    ASSUME NEW q \in Seq(Scalars), NEW d \in Scalars, NEW delta \in Scalars \ {Zero}
    PROVE  ScaledBy(ScaledBy(q, Inv(delta)), Mul(d, delta)) = ScaledBy(q, d)
<1>1. Inv(delta) \in Scalars
    BY FieldAssumption
<1>2. ASSUME NEW i \in DOMAIN q
      PROVE  Mul(Mul(q[i], Inv(delta)), Mul(d, delta)) = Mul(q[i], d)
    <2> DEFINE x == Mul(q[i], Inv(delta))
    <2>1. q[i] \in Scalars
        OBVIOUS
    <2>2. x \in Scalars
        BY <1>1, <2>1, FieldAssumption
    <2>3. Mul(x, delta) = q[i]
        BY <2>1, FieldFacts
    <2> HIDE DEF x
    <2>4. /\ Mul(x, Mul(d, delta)) = Mul(x, Mul(delta, d))
          /\ Mul(x, Mul(delta, d)) = Mul(Mul(x, delta), d)
        BY <2>2, FieldAssumption
    <2>5. Mul(x, Mul(d, delta)) = Mul(q[i], d)
        BY <2>3, <2>4
    <2> QED
        BY <2>5 DEF x
<1> QED
    BY <1>2 DEF ScaledBy

\* A contribution to good parameters makes good parameters, and goes after the others.
LEMMA ContributeFields ==
    ASSUME NEW p, Fields(p), NEW delta, NEW s
    PROVE  LET c == Contribute(p, delta, s)
           IN  /\ Fields(c)
               /\ c.fixed_vk = p.fixed_vk /\ c.fixed_pk = p.fixed_pk /\ c.cs_hash = p.cs_hash
               /\ c.delta_g1 = Mul(p.delta_g1, delta)
               /\ c.delta_g2 = Times(p.delta_g2, delta)
               /\ c.h_query = ScaledBy(p.h_query, Inv(delta))
               /\ c.l_query = ScaledBy(p.l_query, Inv(delta))
               /\ c.contributions = Append(p.contributions,
                    PublicKey(p.delta_g1, p.cs_hash, p.contributions, delta, s))
<1> DEFINE c == Contribute(p, delta, s)
           key == PublicKey(p.delta_g1, p.cs_hash, p.contributions, delta, s)
<1>1. c = [p EXCEPT !.h_query = ScaledBy(p.h_query, Inv(delta)),
                    !.l_query = ScaledBy(p.l_query, Inv(delta)),
                    !.delta_g2 = Times(p.delta_g2, delta),
                    !.delta_g1 = Mul(p.delta_g1, delta),
                    !.contributions = Append(p.contributions, key)]
    BY DEF Contribute, Fields
<1> HIDE DEF c, key
<1>2. c = [fixed_vk |-> p.fixed_vk, fixed_pk |-> p.fixed_pk,
           delta_g1 |-> Mul(p.delta_g1, delta), delta_g2 |-> Times(p.delta_g2, delta),
           h_query |-> ScaledBy(p.h_query, Inv(delta)),
           l_query |-> ScaledBy(p.l_query, Inv(delta)),
           cs_hash |-> p.cs_hash, contributions |-> Append(p.contributions, key)]
    BY <1>1 DEF Fields
<1>3. Fields(c)
    BY <1>2 DEF Fields
<1> QED
    BY <1>2, <1>3 DEF c, key

\* The contributions before a place are those of the longer history.
LEMMA AppendKeepsBefore ==
    ASSUME NEW s, IsSeq(s), NEW e, NEW n \in 0..Len(s)
    PROVE  SubSeq(Append(s, e), 1, n) = SubSeq(s, 1, n)
<1> DEFINE t == Append(s, e)
           S == {s[i] : i \in DOMAIN s} \cup {e}
<1>1. Len(s) \in Nat /\ IsSeq(t) /\ Len(t) = Len(s) + 1 /\ \A i \in 1..Len(s) : t[i] = s[i]
    BY SeqHasLength, AppendIsSeq
<1> HIDE DEF t
<1>2. s \in Seq({s[i] : i \in DOMAIN s}) /\ t \in Seq({t[i] : i \in DOMAIN t})
    BY <1>1 DEF IsSeq
<1>3. SubSeq(t, 1, n) = [i \in 1..n |-> t[i]] /\ SubSeq(s, 1, n) = [i \in 1..n |-> s[i]]
    <2> DEFINE A == {s[i] : i \in DOMAIN s}
               B == {t[i] : i \in DOMAIN t}
    <2>1. s \in Seq(A) /\ t \in Seq(B) /\ n \in Nat /\ n <= Len(s) /\ n <= Len(t)
        BY <1>1, <1>2
    <2> HIDE DEF A, B
    <2> QED
        BY <2>1
<1> QED
    BY <1>1, <1>3 DEF t

\* A history that verifies still does with one more contribution to the delta it leads to.
LEMMA TranscriptGrows ==
    ASSUME NEW hash, NEW h, IsSeq(h), TranscriptVerifies(hash, h),
           NEW d \in Scalars \ {Zero},
           d = IF h = << >> THEN One ELSE h[Len(h)].delta_after,
           NEW delta \in Scalars \ {Zero}, NEW s \in Scalars \ {Zero}
    PROVE  TranscriptVerifies(hash, Append(h, PublicKey(d, hash, h, delta, s)))
<1> DEFINE key == PublicKey(d, hash, h, delta, s)
           t == Append(h, key)
           transcript == Transcript(hash, h, s, Mul(s, delta))
           Sound(hist, i) ==
                LET pubkey == hist[i]
                    told == Transcript(hash, SubSeq(hist, 1, i - 1), pubkey.s, pubkey.s_delta)
                    r == HashToG2(told)
                    old_delta == IF i = 1 THEN G1 ELSE hist[i - 1].delta_after
                IN  /\ pubkey.transcript = told
                    /\ CheckSameRatio(<<pubkey.s, pubkey.s_delta>>, <<r, pubkey.r_delta>>)
                    /\ CheckSameRatio(<<old_delta, pubkey.delta_after>>, <<r, pubkey.r_delta>>)
<1>1. Len(h) \in Nat /\ DOMAIN h = 1..Len(h)
    BY SeqHasLength
<1>2. /\ IsSeq(t) /\ Len(t) = Len(h) + 1
      /\ \A i \in 1..Len(h) : t[i] = h[i]
      /\ t[Len(h) + 1] = key
    BY AppendIsSeq
<1>3. DOMAIN t = 1..(Len(h) + 1)
    BY <1>2, SeqHasLength
<1>4. key = [delta_after |-> Mul(d, delta), s |-> s, s_delta |-> Mul(s, delta),
             r_delta |-> Times(HashToG2(transcript), delta), transcript |-> transcript]
    BY DEF PublicKey
<1>5. \A n \in 0..Len(h) : SubSeq(t, 1, n) = SubSeq(h, 1, n)
    BY AppendKeepsBefore
<1>6. SubSeq(h, 1, Len(h)) = h
    BY DEF IsSeq
<1>7. \A i \in DOMAIN h : Sound(h, i)
    BY DEF TranscriptVerifies
<1>8. ASSUME NEW i \in 1..Len(h)
      PROVE  Sound(t, i)
    <2>1. Sound(h, i)
        BY <1>1, <1>7
    <2>2. t[i] = h[i] /\ (i # 1 => t[i - 1] = h[i - 1])
        BY <1>1, <1>2
    <2>3. SubSeq(t, 1, i - 1) = SubSeq(h, 1, i - 1)
        BY <1>1, <1>5
    <2> HIDE DEF t, key, transcript
    <2> QED
        BY <2>1, <2>2, <2>3
<1>9. Sound(t, Len(h) + 1)
    <2> DEFINE n == Len(h) + 1
               old == IF n = 1 THEN G1 ELSE t[n - 1].delta_after
    <2>1. SubSeq(t, 1, n - 1) = h
        BY <1>1, <1>5, <1>6
    <2>2. old = d
        <3>1. CASE h = << >>
            BY <3>1 DEF G1
        <3>2. CASE h # << >>
            <4>1. Len(h) # 0
                BY <1>1, <3>2, SeqHasLength DEF IsSeq
            <4>2. n # 1 /\ n - 1 = Len(h) /\ Len(h) \in 1..Len(h)
                BY <1>1, <4>1
            <4>3. t[n - 1] = h[Len(h)]
                BY <1>2, <4>2
            <4> QED
                BY <3>2, <4>2, <4>3
        <3> QED
            BY <3>1, <3>2
    <2>3. CheckSameRatio(<<s, Mul(s, delta)>>,
                         <<HashToG2(transcript), Times(HashToG2(transcript), delta)>>)
        BY SecretShown
    <2>4. CheckSameRatio(<<d, Mul(d, delta)>>,
                         <<HashToG2(transcript), Times(HashToG2(transcript), delta)>>)
        BY SecretShown
    <2>5. t[n] = key
        BY <1>2
    <2>6. /\ key.delta_after = Mul(d, delta) /\ key.s = s /\ key.s_delta = Mul(s, delta)
          /\ key.r_delta = Times(HashToG2(transcript), delta) /\ key.transcript = transcript
        BY <1>4
    <2>7. transcript = Transcript(hash, SubSeq(t, 1, n - 1), key.s, key.s_delta)
        BY <2>1, <2>6
    <2> HIDE DEF t, key, transcript, old
    <2>8. /\ t[n].transcript = transcript
          /\ CheckSameRatio(<<t[n].s, t[n].s_delta>>, <<HashToG2(transcript), t[n].r_delta>>)
          /\ CheckSameRatio(<<old, t[n].delta_after>>, <<HashToG2(transcript), t[n].r_delta>>)
        BY <2>2, <2>3, <2>4, <2>5, <2>6
    <2> QED
        BY <2>5, <2>7, <2>8 DEF old
<1>10. \A i \in DOMAIN t : Sound(t, i)
    <2>1. \A i \in DOMAIN t : i \in 1..Len(h) \/ i = Len(h) + 1
        BY <1>1, <1>3
    <2> HIDE DEF t, Sound
    <2> QED
        BY <2>1, <1>8, <1>9
<1> HIDE DEF key, t
<1>11. TranscriptVerifies(hash, t)
    BY <1>10 DEF TranscriptVerifies
<1> QED
    BY <1>11 DEF key, t

LEMMA ContributionIsGood ==
    ASSUME HoleIsNoChunk, NEW p, Good(p),
           NEW delta \in Scalars \ {Zero}, NEW s \in Scalars \ {Zero}
    PROVE  LET c == Contribute(p, delta, s)
           IN  /\ Good(c)
               /\ c.contributions # << >>
               /\ Begins(p.contributions, c.contributions)
<1> DEFINE c == Contribute(p, delta, s)
           h == p.contributions
           key == PublicKey(p.delta_g1, p.cs_hash, h, delta, s)
<1>1. ParamsOK(p) /\ Fields(p) /\ Usable(p) /\ p.delta_g1 \in Scalars \ {Zero} /\ IsSeq(h)
    BY DEF Good, ParamsOK
<1>2. ParamsOK(c)
    BY <1>1, ContributeIsOK DEF Fields
<1>3. /\ Fields(c)
      /\ c.fixed_vk = p.fixed_vk /\ c.fixed_pk = p.fixed_pk /\ c.cs_hash = p.cs_hash
      /\ c.delta_g1 = Mul(p.delta_g1, delta)
      /\ c.delta_g2 = Times(p.delta_g2, delta)
      /\ c.h_query = ScaledBy(p.h_query, Inv(delta))
      /\ c.l_query = ScaledBy(p.l_query, Inv(delta))
      /\ c.contributions = Append(h, key)
    BY <1>1, ContributeFields
<1>4. Len(h) \in Nat /\ Len(Append(h, key)) = Len(h) + 1
      /\ (\A i \in 1..Len(h) : Append(h, key)[i] = h[i]) /\ Append(h, key)[Len(h) + 1] = key
    BY <1>1, AppendIsSeq, SeqHasLength
<1>5. p.delta_g1 = IF h = << >> THEN One ELSE h[Len(h)].delta_after
    BY DEF Good, LastDelta
<1>6. TranscriptVerifies(FirstSetup, Append(h, key))
    <2>1. p.cs_hash = FirstSetup /\ TranscriptVerifies(FirstSetup, h)
        BY DEF Good
    <2> QED
        BY <1>1, <1>5, <2>1, TranscriptGrows
<1>7. key.delta_after = Mul(p.delta_g1, delta) /\ key # Hole
    <2>1. key.delta_after = Mul(p.delta_g1, delta)
        BY DEF PublicKey
    <2>2. key # Hole
        BY DEF HoleIsNoChunk
    <2> QED
        BY <2>1, <2>2
<1>8. Mul(p.delta_g1, delta) # Zero
    BY <1>1, FieldFacts
<1>9. Usable(c)
    <2>1. p.delta_g2 = OverG2(p.delta_g1)
        BY <1>1 DEF Usable
    <2>2. c.delta_g2 = OverG2(c.delta_g1)
        BY <1>3, <2>1 DEF OverG2, Times, G2
    <2>3. p.h_query \in Seq(Scalars) /\ p.l_query \in Seq(Scalars)
        BY <1>1 DEF ParamsOK
    <2>4. /\ ScaledBy(ScaledBy(p.h_query, Inv(delta)), Mul(p.delta_g1, delta))
                = ScaledBy(p.h_query, p.delta_g1)
          /\ ScaledBy(ScaledBy(p.l_query, Inv(delta)), Mul(p.delta_g1, delta))
                = ScaledBy(p.l_query, p.delta_g1)
        BY <1>1, <2>3, DividedKeepsStep
    <2> HIDE DEF c
    <2> QED
        BY <1>1, <1>3, <2>2, <2>4 DEF Usable
<1> HIDE DEF c, key
<1>10. c.contributions # << >>
    <2>1. Len(Append(h, key)) # 0 /\ Len(<< >>) = 0
        BY <1>4
    <2>2. Append(h, key) # << >>
        BY <2>1
    <2> QED
        BY <1>3, <2>2
<1>11. Begins(h, c.contributions)
    BY <1>1, <1>3, <1>4 DEF Begins
<1>12. LastDelta(c) = c.delta_g1
    BY <1>3, <1>4, <1>7, <1>10 DEF LastDelta
<1>13. \A i \in 1..Len(c.contributions) : c.contributions[i] # Hole
    <2>1. \A i \in 1..Len(h) : h[i] # Hole
        BY DEF Good
    <2> QED
        BY <1>3, <1>4, <1>7, <2>1
<1>14. Good(c)
    <2>1. c.cs_hash = FirstSetup /\ c.delta_g1 # Zero
        BY <1>3, <1>8 DEF Good
    <2>2. TranscriptVerifies(FirstSetup, c.contributions)
        BY <1>3, <1>6
    <2> QED
        BY <1>2, <1>3, <1>9, <1>12, <1>13, <2>1, <2>2 DEF Good
<1> QED
    BY <1>10, <1>11, <1>14 DEF c

\* Two queries in step with their deltas have changed by the ratio of these.
LEMMA InStepIsRescaled ==
    ASSUME NEW before, NEW after, NEW q \in Seq(Scalars), NEW r \in Seq(Scalars),
           NEW target, Live(target),
           before.delta_g1 \in Scalars \ {Zero}, before.delta_g2 = OverG2(before.delta_g1),
           after.delta_g1 \in Scalars \ {Zero}, after.delta_g2 = OverG2(after.delta_g1),
           ScaledBy(q, before.delta_g1) = target, ScaledBy(r, after.delta_g1) = target
    PROVE  QueryRescaled(before, after, q, r)
<1> DEFINE x == before.delta_g1
           y == after.delta_g1
<1>1. /\ before.delta_g2 = [base |-> << >>, exp |-> x]
      /\ after.delta_g2 = [base |-> << >>, exp |-> y]
    BY DEF OverG2, G2
<1>2. DOMAIN q = DOMAIN target /\ DOMAIN r = DOMAIN target
    BY DEF ScaledBy
<1>3. \A i \in DOMAIN q : Mul(q[i], x) = target[i] /\ Mul(r[i], y) = target[i]
    BY <1>2 DEF ScaledBy
<1>4. Len(q) = Len(r)
    <2>1. DOMAIN q = 1..Len(q) /\ DOMAIN r = 1..Len(r) /\ Len(q) \in Nat /\ Len(r) \in Nat
        OBVIOUS
    <2> QED
        BY <1>2, <2>1
<1>5. ASSUME q # << >>
      PROVE  CheckMergedRatio(q, r, <<after.delta_g2, before.delta_g2>>)
    <2>1. target # << >>
        BY <1>2, <1>5
    <2>2. PICK i \in DOMAIN target : target[i] # Zero
        BY <2>1 DEF Live
    <2>3. \A z \in Scalars : Mul(Zero, z) = Zero
        BY FieldAssumption
    <2>4. q[i] # Zero /\ r[i] # Zero
        BY <1>2, <1>3, <2>2, <2>3
    <2>5. \A j \in DOMAIN q : Pairing(q[j], before.delta_g2) = Pairing(r[j], after.delta_g2)
        BY <1>1, <1>3 DEF Pairing
    <2> HIDE DEF x, y
    <2>6. after.delta_g2.exp # Zero /\ before.delta_g2.exp # Zero
        BY <1>1 DEF x, y
    <2> QED
        BY <1>2, <2>2, <2>4, <2>5, <2>6 DEF CheckMergedRatio
<1> QED
    BY <1>4, <1>5 DEF QueryRescaled

\* The hop from usable parameters to good ones with a longer history is accepted.
LEMMA GoodHopIsAccepted ==
    ASSUME QueriesLive, NEW a, ParamsOK(a), Usable(a), a.cs_hash = FirstSetup,
           a.delta_g1 # Zero,
           NEW p, Good(p), Begins(a.contributions, p.contributions),
           p.contributions # << >>
    PROVE  Verify(a, p) = "ok"
<1>1. ParamsOK(p) /\ Usable(p) /\ p.cs_hash = FirstSetup /\ p.delta_g1 # Zero
    BY DEF Good
<1>2. DeltaIsLast(p)
    <2>1. p.contributions[Len(p.contributions)].delta_after = p.delta_g1
        BY DEF Good, LastDelta
    <2>2. p.delta_g2 = [base |-> << >>, exp |-> p.delta_g1] /\ p.delta_g1 \in Scalars
        BY <1>1 DEF Usable, OverG2, G2, ParamsOK
    <2>3. One # Zero /\ Mul(One, p.delta_g1) = p.delta_g1 /\ Mul(p.delta_g1, One) = p.delta_g1
        BY <2>2, FieldAssumption
    <2>4. CheckSameRatio(<<G1, p.delta_g1>>, <<G2, p.delta_g2>>)
        BY <1>1, <2>2, <2>3 DEF CheckSameRatio, Pairing, G1, G2
    <2> QED
        BY <2>1, <2>4 DEF DeltaIsLast
<1>3. KeepsContributions(a, p) /\ ~ Len(p.contributions) < Len(a.contributions)
    <2>1. IsSeq(p.contributions) /\ IsSeq(a.contributions)
        BY <1>1 DEF ParamsOK
    <2>2. SubSeq(p.contributions, 1, Len(a.contributions)) = a.contributions
        BY <2>1, BeginsIsPrefix
    <2>3. Len(a.contributions) <= Len(p.contributions)
        BY DEF Begins
    <2>4. Len(a.contributions) \in Nat /\ Len(p.contributions) \in Nat
        BY <2>1, SeqHasLength
    <2> QED
        BY <2>2, <2>3, <2>4 DEF KeepsContributions
<1>4. KeepsFixedParts(a, p)
    BY <1>1 DEF KeepsFixedParts, Usable
<1>5. QueriesRescaled(a, p)
    <2>1. /\ a.delta_g1 \in Scalars \ {Zero} /\ a.delta_g2 = OverG2(a.delta_g1)
          /\ p.delta_g1 \in Scalars \ {Zero} /\ p.delta_g2 = OverG2(p.delta_g1)
        BY <1>1 DEF Usable, ParamsOK
    <2>2. /\ a.h_query \in Seq(Scalars) /\ p.h_query \in Seq(Scalars)
          /\ a.l_query \in Seq(Scalars) /\ p.l_query \in Seq(Scalars)
        BY <1>1 DEF ParamsOK
    <2>3. QueryRescaled(a, p, a.h_query, p.h_query)
        BY <1>1, <2>1, <2>2, InStepIsRescaled DEF Usable, QueriesLive
    <2>4. QueryRescaled(a, p, a.l_query, p.l_query)
        BY <1>1, <2>1, <2>2, InStepIsRescaled DEF Usable, QueriesLive
    <2> QED
        BY <2>3, <2>4 DEF QueriesRescaled
<1>6. TranscriptVerifies(a.cs_hash, p.contributions)
    BY DEF Good
<1> QED
    BY <1>2, <1>3, <1>4, <1>5, <1>6 DEF Verify

\* The beginning of a file that holds parameters decodes as far as it goes; it reads when
\* it is all there, and then as what was written.
LEMMA BeginningReads ==
    ASSUME HoleIsNoChunk, NEW p, Good(p), NEW s, Begins(s, Serialized(p))
    PROVE  /\ \A i \in 1..Len(s) : ~ Undecodable(s[i], i)
           /\ Len(s) >= ChunksNeeded(s) => s = Serialized(p)
           /\ s = Serialized(p) => CanRead(s) /\ Decode(s) = p /\ Read(s) = p
<1> DEFINE f == Serialized(p)
           n == Len(p.contributions)
<1>1. ParamsOK(p) /\ IsSeq(p.contributions) /\ n \in Nat
    BY SeqHasLength DEF Good, ParamsOK
<1>2. /\ IsSeq(f)
      /\ Len(f) = 5 + n
      /\ f[1] = [fixed |-> p.fixed_vk, delta |-> p.delta_g2]
      /\ f[2] = [fixed |-> p.fixed_pk, delta |-> p.delta_g1]
      /\ f[3] = p.h_query
      /\ f[4] = p.l_query
      /\ f[5] = [cs_hash |-> p.cs_hash, count |-> n]
      /\ \A j \in 1..n : f[5 + j] = p.contributions[j]
    BY <1>1, ChunksOf
<1>3. f[1] # Hole /\ f[2] # Hole /\ f[5] # Hole
    BY <1>2 DEF HoleIsNoChunk
<1>4. f[3] # Hole /\ f[4] # Hole
    BY <1>1, <1>2 DEF HoleIsNoChunk, ParamsOK
<1> HIDE DEF f
<1>5. \A i \in 1..Len(f) : f[i] # Hole
    <2> SUFFICES ASSUME NEW i \in 1..Len(f)
                 PROVE  f[i] # Hole
        OBVIOUS
    <2>1. CASE i \in 1..5
        <3>1. i = 1 \/ i = 2 \/ i = 3 \/ i = 4 \/ i = 5
            BY <2>1
        <3> QED
            BY <3>1, <1>3, <1>4
    <2>2. CASE i \notin 1..5
        <3>1. (i - 5) \in 1..n /\ 5 + (i - 5) = i
            BY <1>1, <1>2, <2>2
        <3>2. f[i] = p.contributions[i - 5]
            BY <1>2, <3>1
        <3>3. \A j \in 1..n : p.contributions[j] # Hole
            BY DEF Good
        <3> QED
            BY <3>1, <3>2, <3>3
    <2> QED
        BY <2>1, <2>2
<1>6. Begins(s, f)
    BY DEF f
<1>7. /\ IsSeq(s) /\ Len(s) \in Nat /\ Len(s) <= 5 + n
      /\ \A i \in 1..Len(s) : s[i] = f[i] /\ s[i] # Hole
    <2>1. IsSeq(s) /\ Len(s) \in Nat /\ Len(s) <= Len(f)
        BY <1>6, SeqHasLength DEF Begins
    <2>2. \A i \in 1..Len(s) : i \in 1..Len(f) /\ s[i] = f[i]
        BY <1>1, <1>2, <1>6, <2>1 DEF Begins
    <2> QED
        BY <1>2, <1>5, <2>1, <2>2
<1>8. \A i \in 1..Len(s) : ~ Undecodable(s[i], i)
    BY <1>7 DEF Undecodable
<1>9. BlankFrom(s) = {}
    BY <1>7 DEF BlankFrom, HeaderChunks
<1>10. Len(s) >= 5 => ChunksNeeded(s) = 5 + n
    <2> SUFFICES ASSUME Len(s) >= 5
                 PROVE  ChunksNeeded(s) = 5 + n
        OBVIOUS
    <2>1. 5 \in 1..Len(s)
        BY <1>7
    <2>2. s[5].count = n
        BY <1>2, <1>7, <2>1
    <2>3. ~ Len(s) < 5
        BY <1>7
    <2> QED
        BY <1>9, <2>2, <2>3 DEF ChunksNeeded, HeaderChunks
<1>11. Len(s) < 5 => ChunksNeeded(s) = 5
    BY <1>9 DEF ChunksNeeded, HeaderChunks
<1>12. ASSUME Len(s) >= ChunksNeeded(s)
       PROVE  s = f
    <2>1. Len(s) = Len(f)
        BY <1>1, <1>2, <1>7, <1>10, <1>11, <1>12
    <2> QED
        BY <1>2, <1>6, <2>1, BeginsAll
<1>13. ASSUME s = f
       PROVE  CanRead(s) /\ Decode(s) = p /\ Read(s) = p
    <2>1. Len(s) = 5 + n /\ ChunksNeeded(s) = Len(s)
        BY <1>1, <1>2, <1>10, <1>13
    <2>2. CanRead(s)
        BY <1>7, <1>8, <2>1 DEF CanRead
    <2>3. SubSeq(s, 6, Len(s)) = p.contributions
        <3> DEFINE S == {s[i] : i \in DOMAIN s}
                   T == {p.contributions[i] : i \in DOMAIN p.contributions}
        <3>1. s \in Seq(S) /\ p.contributions \in Seq(T)
            BY <1>1, <1>7 DEF IsSeq
        <3> HIDE DEF S, T
        <3>2. SubSeq(s, 6, Len(s)) = [i \in 1..n |-> s[i + 5]]
            BY <1>1, <2>1, <3>1
        <3>3. p.contributions = [i \in 1..n |-> p.contributions[i]]
            BY <3>1
        <3>4. \A i \in 1..n : s[i + 5] = p.contributions[i]
            <4>1. \A i \in 1..n : i + 5 = 5 + i
                BY <1>1
            <4> QED
                BY <4>1, <1>2, <1>13
        <3> QED
            BY <3>2, <3>3, <3>4
    <2>4. Decode(s) = [fixed_vk |-> p.fixed_vk, delta_g2 |-> p.delta_g2,
                       fixed_pk |-> p.fixed_pk, delta_g1 |-> p.delta_g1,
                       h_query |-> p.h_query, l_query |-> p.l_query,
                       cs_hash |-> p.cs_hash, contributions |-> p.contributions]
        <3>1. SubSeq(s, HeaderChunks + 1, Len(s)) = p.contributions
            BY <2>3 DEF HeaderChunks
        <3>2. /\ s[1].fixed = p.fixed_vk /\ s[1].delta = p.delta_g2
              /\ s[2].fixed = p.fixed_pk /\ s[2].delta = p.delta_g1
              /\ s[3] = p.h_query /\ s[4] = p.l_query /\ s[5].cs_hash = p.cs_hash
            BY <1>2, <1>13
        <3>3. \A i : \A j \in BlankFrom(s) : i < j
            BY <1>9
        <3> QED
            BY <3>1, <3>2, <3>3, Zenon DEF Decode
    <2>5. Decode(s) = p
        <3>1. Fields(p)
            BY DEF Good
        <3> QED
            BY <2>4, <3>1 DEF Fields
    <2>6. SubSeq(s, 1, ChunksNeeded(s)) = s
        BY <1>7, <2>1 DEF IsSeq
    <2> QED
        BY <2>2, <2>5, <2>6 DEF Read
<1> QED
    BY <1>8, <1>12, <1>13 DEF f

\* At most one tool is at work on the file, and none that would start over.
OneAtATime ==
    /\ \A i \in Initialisers : ~ Running(i)
    /\ \A a, b \in Writers : Running(a) /\ Running(b) => a = b

\* A contributor, where p is what the file holds or is being given.
WaitsItsTurn(c, p) ==
    /\ pc[c] \notin {"writing", "ended"} => at[c] = 0
    /\ pc[c] # "reading" => got[c] = << >>
    /\ pc[c] = "reading" => Begins(got[c], file)
    /\ pc[c] = "creating" =>
        file = Serialized(p) /\ mem[c] = Contribute(p, Secret[c], Nonce[c])
    /\ pc[c] = "writing" => mem[c] = p /\ at[c] = Len(file) /\ p.contributions # << >>
    /\ pc[c] = "ended" => \E j \in 1..Len(p.contributions) : AttestationOf(c) = p.contributions[j]

\* The coordinator, who may have read a part of what the file held before.
HasReadOf(p) ==
    /\ pc[Coordinator] # "reading" => got[Coordinator] = << >>
    /\ Len(got[Coordinator]) <= Len(Serialized(p))
    /\ \A j \in 6..Len(got[Coordinator]) : got[Coordinator][j] = Serialized(p)[j]

InTurn(p) ==
    /\ Good(p)
    /\ Begins(accepted.contributions, p.contributions)
    /\ Begins(file, Serialized(p))
    /\ file # Serialized(p) => \E c \in Contributors : pc[c] \in {"writing", "killed"}
    /\ \A c \in Contributors : WaitsItsTurn(c, p)
    /\ HasReadOf(p)

TurnsInv ==
    /\ accepted.delta_g1 # Zero
    /\ orderly => OneAtATime /\ \E p : InTurn(p)

\* Only one tool has moved.
OnlyMoves(a) ==
    \A b \in Actors \ {a} :
        pc'[b] = pc[b] /\ got'[b] = got[b] /\ mem'[b] = mem[b] /\ at'[b] = at[b]

LEMMA BeginsIsTransitive ==
    ASSUME NEW r, NEW s, NEW t, Begins(r, s), Begins(s, t), IsSeq(t)
    PROVE  Begins(r, t)
<1>1. IsSeq(r) /\ Len(r) \in Nat /\ Len(s) \in Nat /\ Len(t) \in Nat
    BY SeqHasLength DEF Begins
<1>2. Len(r) <= Len(s) /\ Len(s) <= Len(t)
    BY DEF Begins
<1>3. Len(r) <= Len(t)
    BY <1>1, <1>2
<1>4. \A i \in 1..Len(r) : i \in 1..Len(s)
    BY <1>1, <1>2
<1>5. \A i \in 1..Len(r) : r[i] = t[i]
    BY <1>4 DEF Begins
<1> QED
    BY <1>1, <1>3, <1>5 DEF Begins

LEMMA NothingBegins ==
    ASSUME NEW t, IsSeq(t)
    PROVE  Begins(<< >>, t)
BY SeqHasLength, EmptyIsOK DEF Begins

\* A contributor that does not move still waits.
LEMMA OthersWait ==
    ASSUME NEW c \in Contributors, NEW p, WaitsItsTurn(c, p), NEW q,
           IsSeq(p.contributions), IsSeq(q.contributions),
           Begins(p.contributions, q.contributions),
           pc'[c] = pc[c], got'[c] = got[c], mem'[c] = mem[c], at'[c] = at[c],
           \/ file' = file /\ q = p
           \/ ~ Running(c)
    PROVE  WaitsItsTurn(c, q)'
<1>1. ASSUME pc[c] = "ended"
      PROVE  \E j \in 1..Len(q.contributions) : AttestationOf(c)' = q.contributions[j]
    <2>1. PICK j \in 1..Len(p.contributions) : AttestationOf(c) = p.contributions[j]
        BY <1>1 DEF WaitsItsTurn
    <2>2. AttestationOf(c)' = AttestationOf(c)
        BY DEF AttestationOf
    <2>3. Len(p.contributions) \in Nat /\ Len(q.contributions) \in Nat
          /\ Len(p.contributions) <= Len(q.contributions)
        BY SeqHasLength DEF Begins
    <2>4. j \in 1..Len(q.contributions)
        BY <2>1, <2>3
    <2>5. q.contributions[j] = p.contributions[j]
        BY <2>1 DEF Begins
    <2> QED
        BY <2>1, <2>2, <2>4, <2>5
<1>2. CASE file' = file /\ q = p
    BY <1>1, <1>2 DEF WaitsItsTurn
<1>3. CASE ~ Running(c)
    <2>1. pc[c] \notin {"reading", "creating", "writing"}
        BY <1>3 DEF Running, Over
    <2> QED
        BY <1>1, <2>1 DEF WaitsItsTurn
<1> QED
    BY <1>2, <1>3

\* What the coordinator has read of the contributions stays where it is.
LEMMA ReadStays ==
    ASSUME NEW p, ParamsOK(p), NEW q, ParamsOK(q), HasReadOf(p),
           IsSeq(got[Coordinator]),
           Begins(p.contributions, q.contributions),
           pc'[Coordinator] = pc[Coordinator], got'[Coordinator] = got[Coordinator]
    PROVE  HasReadOf(q)'
<1> DEFINE g == got[Coordinator]
           m == Len(p.contributions)
           n == Len(q.contributions)
<1>1. m \in Nat /\ n \in Nat /\ m <= n /\ Len(g) \in Nat
    BY SeqHasLength DEF ParamsOK, Begins
<1>2. Len(Serialized(p)) = 5 + m /\ \A j \in 1..m : Serialized(p)[5 + j] = p.contributions[j]
    BY ChunksOf
<1>3. Len(Serialized(q)) = 5 + n /\ \A j \in 1..n : Serialized(q)[5 + j] = q.contributions[j]
    BY ChunksOf
<1>4. \A j \in 1..m : j \in 1..n /\ p.contributions[j] = q.contributions[j]
    BY <1>1 DEF Begins
<1>5. Len(g) <= 5 + m /\ \A j \in 6..Len(g) : g[j] = Serialized(p)[j]
    BY <1>2 DEF HasReadOf
<1>6. ASSUME NEW j \in 6..Len(g)
      PROVE  g[j] = Serialized(q)[j]
    <2>1. (j - 5) \in 1..m /\ 5 + (j - 5) = j
        BY <1>1, <1>5
    <2>2. Serialized(p)[j] = p.contributions[j - 5]
        BY <1>2, <2>1
    <2>3. Serialized(q)[j] = q.contributions[j - 5]
        BY <1>3, <1>4, <2>1
    <2>4. p.contributions[j - 5] = q.contributions[j - 5]
        BY <1>4, <2>1
    <2>5. g[j] = Serialized(p)[j]
        BY <1>5
    <2> QED
        BY <2>2, <2>3, <2>4, <2>5
<1>7. Len(g) <= Len(Serialized(q))
    BY <1>1, <1>3, <1>5
<1> QED
    BY <1>6, <1>7 DEF HasReadOf

\* One contributor's step, after which the file holds, or is being given, q.
LEMMA TurnPasses ==
    ASSUME WellFormed, OneAtATime, NEW p, InTurn(p),
           NEW q, Good(q), Begins(p.contributions, q.contributions),
           NEW c \in Contributors, OnlyMoves(c), accepted' = accepted,
           (file' = file /\ q = p) \/ Running(c),
           Begins(file', Serialized(q)),
           file' # Serialized(q) => \E d \in Contributors : pc'[d] \in {"writing", "killed"},
           WaitsItsTurn(c, q)'
    PROVE  InTurn(q)'
<1>1. ParamsOK(p) /\ ParamsOK(q) /\ IsSeq(p.contributions) /\ IsSeq(q.contributions)
    BY DEF InTurn, Good, ParamsOK
<1>2. Begins(accepted'.contributions, q.contributions)
    BY <1>1, BeginsIsTransitive DEF InTurn
<1>3. ASSUME NEW d \in Contributors
      PROVE  WaitsItsTurn(d, q)'
    <2>1. CASE d = c
        BY <2>1
    <2>2. CASE d # c
        <3>1. d \in Actors /\ c \in Writers /\ d \in Writers
            BY DEF Actors, Writers
        <3>2. pc'[d] = pc[d] /\ got'[d] = got[d] /\ mem'[d] = mem[d] /\ at'[d] = at[d]
            BY <2>2, <3>1 DEF OnlyMoves
        <3>3. Running(c) => ~ Running(d)
            BY <2>2, <3>1 DEF OneAtATime
        <3>4. (file' = file /\ q = p) \/ ~ Running(d)
            BY <3>3
        <3>5. WaitsItsTurn(d, p)
            BY DEF InTurn
        <3> QED
            BY <1>1, <3>2, <3>4, <3>5, OthersWait
    <2> QED
        BY <2>1, <2>2
<1>4. HasReadOf(q)'
    <2>1. Coordinator \in Actors \ {c}
        BY ActorsAssumption DEF Actors, Writers, Readers
    <2>2. pc'[Coordinator] = pc[Coordinator] /\ got'[Coordinator] = got[Coordinator]
        BY <2>1 DEF OnlyMoves
    <2>3. IsSeq(got[Coordinator]) /\ HasReadOf(p)
        BY <2>1 DEF WellFormed, ChunksOK, InTurn
    <2> QED
        BY <1>1, <2>2, <2>3, ReadStays
<1> QED
    BY <1>2, <1>3, <1>4 DEF InTurn

\* A tool that is at work stays the only one.
LEMMA StillOneAtATime ==
    ASSUME OneAtATime, NEW a \in Writers, Running(a), OnlyMoves(a)
    PROVE  OneAtATime'
<1>1. \A b \in Writers \ {a} : pc'[b] = pc[b]
    BY DEF OnlyMoves, Actors
<1>2. \A b \in Writers \ {a} : ~ Running(b)'
    BY <1>1 DEF OneAtATime, Running
<1>3. a \notin Initialisers
    BY DEF OneAtATime
<1>4. \A i \in Initialisers : ~ Running(i)'
    BY <1>2, <1>3 DEF Writers
<1> QED
    BY <1>2, <1>4 DEF OneAtATime

\* A tool opens the file when no other is at work.
LEMMA OpenInTurn ==
    ASSUME WellFormed, OneAtATime, NEW p, InTurn(p), NEW c \in Contributors, Open(c), orderly'
    PROVE  OneAtATime' /\ InTurn(p)'
<1>1. /\ pc[c] = "idle" /\ GoTo(c, "reading")
      /\ UNCHANGED <<file, got, mem, at, accepted>>
      /\ c \notin Initialisers /\ \A b \in Writers : ~ Running(b)
    BY DEF Open, Starts
<1>2. c \in Actors /\ c \in Writers
    BY DEF Actors, Writers
<1>3. OnlyMoves(c) /\ pc'[c] = "reading"
    BY <1>1, <1>2 DEF OnlyMoves, GoTo, WellFormed
<1>4. OneAtATime'
    <2>1. \A b \in Writers \ {c} : ~ Running(b)'
        BY <1>1, <1>3 DEF OnlyMoves, Running, Actors
    <2> QED
        BY <1>1, <2>1 DEF OneAtATime, Writers
<1>5. WaitsItsTurn(c, p)'
    <2>1. got'[c] = << >> /\ at'[c] = 0
        BY <1>1 DEF InTurn, WaitsItsTurn
    <2>2. IsSeq(file)
        BY DEF WellFormed, ChunksOK
    <2>3. Begins(got'[c], file')
        BY <1>1, <2>1, <2>2, NothingBegins
    <2> QED
        BY <1>3, <2>1, <2>3 DEF WaitsItsTurn
<1>6. /\ Good(p) /\ Begins(p.contributions, p.contributions)
      /\ Begins(file', Serialized(p))
    BY <1>1 DEF InTurn, Good, ParamsOK, Begins
<1>7. file' # Serialized(p) => \E d \in Contributors : pc'[d] \in {"writing", "killed"}
    <2> SUFFICES ASSUME file' # Serialized(p)
                 PROVE  \E d \in Contributors : pc'[d] \in {"writing", "killed"}
        OBVIOUS
    <2>1. PICK d \in Contributors : pc[d] \in {"writing", "killed"}
        BY <1>1 DEF InTurn
    <2>2. d # c /\ d \in Actors
        BY <1>1, <2>1 DEF Actors, Writers
    <2> QED
        BY <1>3, <2>1, <2>2 DEF OnlyMoves
<1> QED
    BY <1>1, <1>3, <1>4, <1>5, <1>6, <1>7, TurnPasses

\* A contributor at work does something that leaves the file as it is, and does not end
\* its writing.
LEMMA WorksOn ==
    ASSUME WellFormed, OneAtATime, NEW p, InTurn(p), NEW c \in Contributors,
           Running(c), OnlyMoves(c), UNCHANGED <<file, accepted>>,
           pc[c] # "writing" \/ pc'[c] = "killed" \/ file = Serialized(p),
           WaitsItsTurn(c, p)'
    PROVE  OneAtATime' /\ InTurn(p)'
<1>1. c \in Writers
    BY DEF Writers
<1>2. OneAtATime'
    BY <1>1, StillOneAtATime
<1>3. /\ Good(p) /\ Begins(p.contributions, p.contributions)
      /\ Begins(file', Serialized(p))
    BY DEF InTurn, Good, ParamsOK, Begins
<1>4. file' # Serialized(p) => \E d \in Contributors : pc'[d] \in {"writing", "killed"}
    <2> SUFFICES ASSUME file' # Serialized(p)
                 PROVE  \E d \in Contributors : pc'[d] \in {"writing", "killed"}
        OBVIOUS
    <2>1. PICK d \in Contributors : pc[d] \in {"writing", "killed"}
        BY DEF InTurn
    <2>2. CASE d = c
        <3>1. pc[c] # "killed"
            BY DEF Running, Over
        <3> QED
            BY <2>1, <2>2, <3>1
    <2>3. CASE d # c
        <3>1. d \in Actors
            BY DEF Actors, Writers
        <3> QED
            BY <2>1, <2>3, <3>1 DEF OnlyMoves
    <2> QED
        BY <2>2, <2>3
<1> QED
    BY <1>2, <1>3, <1>4, TurnPasses

\* A contributor reads what the file holds.
LEMMA ReadInTurn ==
    ASSUME WellFormed, OneAtATime, NEW p, InTurn(p), NEW c \in Contributors, ReadChunk(c)
    PROVE  OneAtATime' /\ InTurn(p)'
<1> DEFINE i == Len(got[c]) + 1
           g == Append(got[c], file[i])
<1>1. /\ pc[c] = "reading" /\ i <= Len(file)
      /\ got' = [got EXCEPT ![c] = g]
      /\ UNCHANGED <<file, pc, mem, at, accepted>>
    BY DEF ReadChunk, Reading
<1>2. c \in Actors
    BY DEF Actors, Writers
<1>3. OnlyMoves(c) /\ got'[c] = g
    BY <1>1, <1>2 DEF OnlyMoves, WellFormed
<1>4. Running(c)
    BY <1>1 DEF Running, Over
<1>5. Begins(got[c], file) /\ at[c] = 0
    BY <1>1 DEF InTurn, WaitsItsTurn
<1>6. IsSeq(got[c]) /\ Len(got[c]) \in Nat
    BY <1>5, SeqHasLength DEF Begins
<1>7. /\ IsSeq(g) /\ Len(g) = Len(got[c]) + 1
      /\ \A j \in 1..Len(got[c]) : g[j] = got[c][j]
      /\ g[i] = file[i]
    BY <1>6, AppendIsSeq
<1> HIDE DEF g
<1>8. Begins(g, file)
    <2>1. \A j \in 1..Len(g) : j \in 1..Len(got[c]) \/ j = i
        BY <1>6, <1>7
    <2>2. \A j \in 1..Len(got[c]) : got[c][j] = file[j]
        BY <1>5 DEF Begins
    <2>3. \A j \in 1..Len(g) : g[j] = file[j]
        BY <1>7, <2>1, <2>2
    <2> QED
        BY <1>1, <1>7, <2>3 DEF Begins
<1>9. WaitsItsTurn(c, p)'
    BY <1>1, <1>3, <1>5, <1>8 DEF WaitsItsTurn
<1> QED
    BY <1>1, <1>3, <1>4, <1>9, WorksOn

\* It finds a part of a file only, and panics.
LEMMA FailInTurn ==
    ASSUME WellFormed, OneAtATime, NEW p, InTurn(p), NEW c \in Contributors, FailReading(c)
    PROVE  OneAtATime' /\ InTurn(p)'
<1>1. c \in Actors /\ c # Coordinator
    BY ActorsAssumption DEF Actors, Writers
<1>2. /\ pc[c] = "reading" /\ GoTo(c, "failed")
      /\ got' = [got EXCEPT ![c] = << >>]
      /\ UNCHANGED <<file, mem, at, accepted>>
    BY <1>1 DEF FailReading, Reading
<1>3. OnlyMoves(c) /\ got'[c] = << >> /\ pc'[c] = "failed"
    BY <1>1, <1>2 DEF OnlyMoves, WellFormed, GoTo
<1>4. Running(c)
    BY <1>2 DEF Running, Over
<1>5. WaitsItsTurn(c, p)'
    BY <1>2, <1>3 DEF InTurn, WaitsItsTurn
<1> QED
    BY <1>2, <1>3, <1>4, <1>5, WorksOn

\* It has read the whole file, and contributes to what was written.
LEMMA ApplyInTurn ==
    ASSUME HoleIsNoChunk, WellFormed, OneAtATime, NEW p, InTurn(p),
           NEW c \in Contributors, ApplySecret(c)
    PROVE  OneAtATime' /\ InTurn(p)'
<1>1. c \in Actors
    BY DEF Actors, Writers
<1>2. /\ pc[c] = "reading" /\ Len(got[c]) >= ChunksNeeded(got[c])
      /\ mem' = [mem EXCEPT ![c] = Contribute(Decode(got[c]), Secret[c], Nonce[c])]
      /\ got' = [got EXCEPT ![c] = << >>]
      /\ GoTo(c, "creating")
      /\ UNCHANGED <<file, at, accepted>>
    BY DEF ApplySecret, HasRead
<1>3. /\ OnlyMoves(c) /\ got'[c] = << >> /\ pc'[c] = "creating"
      /\ mem'[c] = Contribute(Decode(got[c]), Secret[c], Nonce[c])
    BY <1>1, <1>2 DEF OnlyMoves, WellFormed, GoTo
<1>4. Running(c)
    BY <1>2 DEF Running, Over
<1>5. Begins(got[c], file) /\ at[c] = 0 /\ Begins(file, Serialized(p)) /\ Good(p)
    BY <1>2 DEF InTurn, WaitsItsTurn
<1>6. IsSeq(Serialized(p))
    BY <1>5, ChunksOf DEF Good
<1>7. Begins(got[c], Serialized(p))
    BY <1>5, <1>6, BeginsIsTransitive
<1>8. got[c] = Serialized(p) /\ Decode(got[c]) = p
    BY <1>2, <1>5, <1>7, BeginningReads
<1>9. file = Serialized(p)
    <2>1. Len(got[c]) <= Len(file) /\ Len(file) <= Len(Serialized(p))
        BY <1>5 DEF Begins
    <2>2. Len(file) \in Nat /\ Len(Serialized(p)) \in Nat
        BY <1>5, <1>6, SeqHasLength DEF Begins
    <2>3. Len(file) = Len(Serialized(p))
        BY <1>8, <2>1, <2>2
    <2> QED
        BY <1>5, <1>6, <2>3, BeginsAll
<1>10. WaitsItsTurn(c, p)'
    BY <1>2, <1>3, <1>5, <1>8, <1>9 DEF WaitsItsTurn
<1> QED
    BY <1>2, <1>3, <1>4, <1>10, WorksOn

\* Who writes in turn is a contributor.
LEMMA WritersContribute ==
    ASSUME OneAtATime, NEW w \in Writers, Running(w)
    PROVE  w \in Contributors
BY DEF OneAtATime, Writers

\* It empties the file: from here on the file is being given its parameters.
LEMMA CreateInTurn ==
    ASSUME HoleIsNoChunk, WellFormed, OneAtATime, NEW p, InTurn(p),
           NEW c \in Contributors, Create(c)
    PROVE  OneAtATime' /\ \E q : InTurn(q)'
<1>1. c \in Actors /\ c \in Writers
    BY DEF Actors, Writers
<1>2. /\ pc[c] = "creating" /\ file' = << >> /\ GoTo(c, "writing")
      /\ UNCHANGED <<got, mem, at, accepted>>
    BY DEF Create
<1>3. OnlyMoves(c) /\ pc'[c] = "writing"
    BY <1>1, <1>2 DEF OnlyMoves, WellFormed, GoTo
<1>4. Running(c)
    BY <1>2 DEF Running, Over
<1>5. PICK q : q = mem[c]
    OBVIOUS
<1>6. Good(p) /\ q = Contribute(p, Secret[c], Nonce[c]) /\ at[c] = 0 /\ got[c] = << >>
    BY <1>2, <1>5 DEF InTurn, WaitsItsTurn
<1>7. Good(q) /\ q.contributions # << >> /\ Begins(p.contributions, q.contributions)
    <2>1. Secret[c] \in Scalars \ {Zero} /\ Nonce[c] \in Scalars \ {Zero}
        BY SecretAssumption, NonceAssumption
    <2> QED
        BY <1>6, <2>1, ContributionIsGood
<1>8. Begins(file', Serialized(q))
    BY <1>2, <1>7, ChunksOf, NothingBegins DEF Good
<1>9. WaitsItsTurn(c, q)'
    <2>1. Len(<< >>) = 0
        OBVIOUS
    <2> QED
        BY <1>2, <1>3, <1>5, <1>6, <1>7, <2>1 DEF WaitsItsTurn
<1>10. OneAtATime'
    BY <1>1, <1>3, <1>4, StillOneAtATime
<1>11. \E d \in Contributors : pc'[d] \in {"writing", "killed"}
    BY <1>3
<1>12. InTurn(q)'
    BY <1>2, <1>3, <1>4, <1>7, <1>8, <1>9, <1>11, TurnPasses
<1> QED
    BY <1>10, <1>12

\* It writes the next chunk behind what it has written.
LEMMA WriteInTurn ==
    ASSUME WellFormed, OneAtATime, NEW p, InTurn(p), NEW c \in Contributors, WriteChunk(c)
    PROVE  OneAtATime' /\ InTurn(p)'
<1> DEFINE f == Serialized(p)
           i == at[c] + 1
<1>1. c \in Actors /\ c \in Writers
    BY DEF Actors, Writers
<1>2. /\ pc[c] = "writing" /\ at[c] < Len(Serialized(mem[c]))
      /\ file' = Overwritten(Serialized(mem[c])[i], i)
      /\ at' = [at EXCEPT ![c] = i]
      /\ UNCHANGED <<pc, got, mem, accepted>>
    BY DEF WriteChunk
<1>3. OnlyMoves(c) /\ at'[c] = i
    BY <1>1, <1>2 DEF OnlyMoves, WellFormed
<1>4. Running(c)
    BY <1>2 DEF Running, Over
<1>5. mem[c] = p /\ at[c] = Len(file) /\ p.contributions # << >> /\ Begins(file, f) /\ Good(p)
      /\ got[c] = << >>
    BY <1>2 DEF InTurn, WaitsItsTurn
<1>6. IsSeq(f) /\ Len(f) \in Nat /\ IsSeq(file) /\ Len(file) \in Nat /\ DOMAIN file = 1..Len(file)
    BY <1>5, ChunksOf, SeqHasLength DEF Good, Begins
<1> HIDE DEF f
<1>7. file' = [j \in 1..i |-> IF j = i THEN f[i] ELSE IF j \in DOMAIN file THEN file[j] ELSE Hole]
    <2>1. DOMAIN file \cup 1..i = 1..i
        BY <1>5, <1>6
    <2>2. file' = Overwritten(f[i], i)
        BY <1>2, <1>5 DEF f
    <2> QED
        BY <2>1, <2>2 DEF Overwritten
<1>8. \A j \in 1..i : file'[j] = f[j]
    <2>1. \A j \in 1..i : j = i \/ j \in 1..Len(file)
        BY <1>5, <1>6
    <2>2. \A j \in 1..Len(file) : file[j] = f[j]
        BY <1>5 DEF Begins
    <2> QED
        BY <1>6, <1>7, <2>1, <2>2
<1>9. IsSeq(file') /\ Len(file') = i
    <2> DEFINE S == {f[j] : j \in 1..i}
    <2>1. file' \in [1..i -> S] /\ i \in Nat
        BY <1>5, <1>6, <1>7, <1>8
    <2> HIDE DEF S
    <2>2. file' \in Seq(S) /\ Len(file') = i
        BY <2>1
    <2> QED
        BY <2>2, SeqIsSeq
<1>10. Begins(file', f)
    <2>1. i <= Len(f)
        BY <1>2, <1>5, <1>6 DEF f
    <2> QED
        BY <1>8, <1>9, <2>1 DEF Begins
<1>11. WaitsItsTurn(c, p)'
    BY <1>2, <1>3, <1>5, <1>9 DEF WaitsItsTurn
<1>12. OneAtATime'
    BY <1>1, <1>3, <1>4, StillOneAtATime
<1>13. \E d \in Contributors : pc'[d] \in {"writing", "killed"}
    BY <1>2
<1>14. Begins(p.contributions, p.contributions)
    BY <1>5 DEF Good, ParamsOK, Begins
<1> QED
    BY <1>2, <1>3, <1>4, <1>5, <1>10, <1>11, <1>12, <1>13, <1>14, TurnPasses DEF f

\* It has written all of them; its contribution is the last in the file.
LEMMA AttestInTurn ==
    ASSUME WellFormed, OneAtATime, NEW p, InTurn(p), NEW c \in Contributors, Attest(c)
    PROVE  OneAtATime' /\ InTurn(p)'
<1>1. c \in Actors
    BY DEF Actors, Writers
<1>2. /\ pc[c] = "writing" /\ at[c] = Len(Serialized(mem[c])) /\ GoTo(c, "ended")
      /\ UNCHANGED <<file, got, mem, at, accepted>>
    BY DEF Attest
<1>3. OnlyMoves(c) /\ pc'[c] = "ended"
    BY <1>1, <1>2 DEF OnlyMoves, WellFormed, GoTo
<1>4. Running(c)
    BY <1>2 DEF Running, Over
<1>5. mem[c] = p /\ at[c] = Len(file) /\ p.contributions # << >> /\ got[c] = << >>
      /\ Begins(file, Serialized(p)) /\ Good(p)
    BY <1>2 DEF InTurn, WaitsItsTurn
<1>6. file = Serialized(p)
    BY <1>2, <1>5, ChunksOf, BeginsAll DEF Good
<1>7. Len(p.contributions) \in 1..Len(p.contributions)
    <2>1. IsSeq(p.contributions) /\ Len(p.contributions) \in Nat
        BY <1>5, SeqHasLength DEF Good, ParamsOK
    <2>2. Len(p.contributions) # 0
        BY <1>5, <2>1 DEF IsSeq
    <2> QED
        BY <2>1, <2>2
<1>8. AttestationOf(c)' = p.contributions[Len(p.contributions)]
    BY <1>2, <1>5 DEF AttestationOf
<1>9. WaitsItsTurn(c, p)'
    BY <1>2, <1>3, <1>5, <1>7, <1>8 DEF WaitsItsTurn
<1> QED
    BY <1>2, <1>3, <1>4, <1>6, <1>9, WorksOn

\* It is killed, and leaves a part of a file.
LEMMA KillInTurn ==
    ASSUME WellFormed, OneAtATime, NEW p, InTurn(p), NEW c \in Contributors, Kill(c)
    PROVE  OneAtATime' /\ InTurn(p)'
<1>1. c \in Actors
    BY DEF Actors, Writers
<1>2. /\ pc[c] = "writing" /\ GoTo(c, "killed")
      /\ mem' = [mem EXCEPT ![c] = NoParams]
      /\ at' = [at EXCEPT ![c] = 0]
      /\ UNCHANGED <<file, got, accepted>>
    BY DEF Kill
<1>3. OnlyMoves(c) /\ pc'[c] = "killed" /\ at'[c] = 0
    BY <1>1, <1>2 DEF OnlyMoves, WellFormed, GoTo
<1>4. Running(c)
    BY <1>2 DEF Running, Over
<1>5. WaitsItsTurn(c, p)'
    BY <1>2, <1>3 DEF InTurn, WaitsItsTurn
<1> QED
    BY <1>2, <1>3, <1>4, <1>5, WorksOn

\* The coordinator's steps: nothing changes for the tools.
LEMMA CoordinatorMoves ==
    ASSUME WellFormed, OneAtATime, NEW p, InTurn(p), OnlyMoves(Coordinator), file' = file,
           Begins(accepted'.contributions, p.contributions), HasReadOf(p)'
    PROVE  OneAtATime' /\ InTurn(p)'
<1>1. \A c \in Writers :
        pc'[c] = pc[c] /\ got'[c] = got[c] /\ mem'[c] = mem[c] /\ at'[c] = at[c]
    BY ActorsAssumption DEF OnlyMoves, Actors
<1>2. OneAtATime'
    BY <1>1 DEF OneAtATime, Running, Writers
<1>3. ASSUME NEW c \in Contributors
      PROVE  WaitsItsTurn(c, p)'
    <2>1. WaitsItsTurn(c, p) /\ IsSeq(p.contributions)
        BY DEF InTurn, Good, ParamsOK
    <2>2. Begins(p.contributions, p.contributions)
        BY <2>1 DEF Begins
    <2>3. pc'[c] = pc[c] /\ got'[c] = got[c] /\ mem'[c] = mem[c] /\ at'[c] = at[c]
        BY <1>1 DEF Writers
    <2> QED
        BY <2>1, <2>2, <2>3, OthersWait
<1>4. file' # Serialized(p) => \E c \in Contributors : pc'[c] \in {"writing", "killed"}
    BY <1>1 DEF InTurn, Writers
<1> QED
    BY <1>2, <1>3, <1>4 DEF InTurn

LEMMA InspectInTurn ==
    ASSUME WellFormed, OneAtATime, NEW p, InTurn(p), Inspect(Coordinator)
    PROVE  OneAtATime' /\ InTurn(p)'
<1>1. Coordinator \in Actors
    BY DEF Actors, Readers
<1>2. /\ pc[Coordinator] = "idle" /\ GoTo(Coordinator, "reading")
      /\ UNCHANGED <<file, got, mem, at, accepted>>
    BY DEF Inspect
<1>3. OnlyMoves(Coordinator) /\ pc'[Coordinator] = "reading"
    BY <1>1, <1>2 DEF OnlyMoves, WellFormed, GoTo
<1>4. HasReadOf(p)'
    BY <1>2, <1>3 DEF InTurn, HasReadOf
<1> QED
    BY <1>2, <1>3, <1>4, CoordinatorMoves DEF InTurn

LEMMA CoordinatorReadsInTurn ==
    ASSUME WellFormed, OneAtATime, NEW p, InTurn(p), ReadChunk(Coordinator)
    PROVE  OneAtATime' /\ InTurn(p)'
<1> DEFINE i == Len(got[Coordinator]) + 1
           g == Append(got[Coordinator], file[i])
           f == Serialized(p)
<1>1. Coordinator \in Actors
    BY DEF Actors, Readers
<1>2. /\ pc[Coordinator] = "reading" /\ i <= Len(file)
      /\ got' = [got EXCEPT ![Coordinator] = g]
      /\ UNCHANGED <<file, pc, mem, at, accepted>>
    BY DEF ReadChunk, Reading
<1>3. OnlyMoves(Coordinator) /\ got'[Coordinator] = g
    BY <1>1, <1>2 DEF OnlyMoves, WellFormed
<1>4. IsSeq(got[Coordinator]) /\ Len(got[Coordinator]) \in Nat
    BY <1>1, SeqHasLength DEF WellFormed, ChunksOK
<1>5. /\ Len(g) = i
      /\ \A j \in 1..Len(got[Coordinator]) : g[j] = got[Coordinator][j]
      /\ g[i] = file[i]
    BY <1>4, AppendIsSeq
<1>6. /\ IsSeq(f) /\ Len(f) \in Nat /\ Len(file) \in Nat /\ Len(file) <= Len(f)
      /\ \A j \in 1..Len(file) : file[j] = f[j]
    BY ChunksOf, SeqHasLength DEF InTurn, Good, Begins
<1>7. \A j \in 6..Len(got[Coordinator]) : got[Coordinator][j] = f[j]
    BY DEF InTurn, HasReadOf
<1> HIDE DEF g, f
<1>8. Len(g) <= Len(f)
    BY <1>2, <1>4, <1>5, <1>6
<1>9. \A j \in 6..Len(g) : g[j] = f[j]
    <2>1. \A j \in 6..Len(g) : j = i \/ j \in 6..Len(got[Coordinator])
        BY <1>4, <1>5
    <2>2. \A j \in 6..Len(got[Coordinator]) : j \in 1..Len(got[Coordinator])
        BY <1>4
    <2>3. i \in 1..Len(file)
        BY <1>2, <1>4, <1>6
    <2> QED
        BY <1>5, <1>6, <1>7, <2>1, <2>2, <2>3
<1>10. HasReadOf(p)'
    BY <1>2, <1>3, <1>8, <1>9 DEF HasReadOf, f
<1> QED
    BY <1>2, <1>3, <1>10, CoordinatorMoves DEF InTurn

\* Its reading is over: it has failed, or been checked.
LEMMA CoordinatorDone ==
    ASSUME WellFormed, OneAtATime, NEW p, InTurn(p),
           GoTo(Coordinator, "idle"), got' = [got EXCEPT ![Coordinator] = << >>],
           UNCHANGED <<file, mem, at>>,
           Begins(accepted'.contributions, p.contributions)
    PROVE  OneAtATime' /\ InTurn(p)'
<1>1. Coordinator \in Actors
    BY DEF Actors, Readers
<1>2. OnlyMoves(Coordinator) /\ got'[Coordinator] = << >> /\ pc'[Coordinator] = "idle"
    BY <1>1 DEF OnlyMoves, WellFormed, GoTo
<1>3. Len(Serialized(p)) \in Nat
    BY ChunksOf, SeqHasLength DEF InTurn, Good
<1>4. HasReadOf(p)'
    <2>1. Len(<< >>) = 0 /\ 6..0 = {}
        OBVIOUS
    <2>2. Len(got'[Coordinator]) = 0
        BY <1>2, <2>1
    <2>3. 6..Len(got'[Coordinator]) = {}
        BY <2>1, <2>2
    <2> QED
        BY <1>2, <1>3, <2>2, <2>3 DEF HasReadOf
<1> QED
    BY <1>2, <1>4, CoordinatorMoves

\* What the coordinator takes over, put together from what it read at different times,
\* has a history the file still begins with.
LEMMA CheckHopInTurn ==
    ASSUME WellFormed, OneAtATime, NEW p, InTurn(p), CheckHop(Coordinator)
    PROVE  OneAtATime' /\ InTurn(p)'
<1> DEFINE g == got[Coordinator]
           new == Decode(g)
           n == Len(p.contributions)
<1>1. /\ GoTo(Coordinator, "idle") /\ got' = [got EXCEPT ![Coordinator] = << >>]
      /\ UNCHANGED <<file, mem, at>>
      /\ accepted' = IF Verify(accepted, new) = "ok" THEN new ELSE accepted
    BY DEF CheckHop
<1>2. Coordinator \in Actors
    BY DEF Actors, Readers
<1>3. IsSeq(g) /\ Len(g) \in Nat
    BY <1>2, SeqHasLength DEF WellFormed, ChunksOK
<1>4. n \in Nat /\ ParamsOK(p)
    BY SeqHasLength DEF InTurn, Good, ParamsOK
<1>5. Len(g) <= 5 + n /\ \A j \in 6..Len(g) : g[j] = Serialized(p)[j]
    BY <1>4, ChunksOf DEF InTurn, HasReadOf
<1>6. \A j \in 1..n : Serialized(p)[5 + j] = p.contributions[j]
    BY <1>4, ChunksOf
<1>7. new.contributions = SubSeq(g, 6, Len(g))
    <2>1. HeaderChunks + 1 = 6
        BY DEF HeaderChunks
    <2> QED
        BY <2>1 DEF Decode
<1> HIDE DEF g, new
<1>8. CASE Len(g) >= 5
    <2> DEFINE h == SubSeq(g, 6, Len(g))
    <2>1. IsSeq(h)
        BY <1>3, <1>8, SubSeqIsSeq
    <2>2. Len(h) = Len(g) - 5 /\ \A j \in 1..(Len(g) - 5) : h[j] = g[j + 5]
        <3> DEFINE S == {g[i] : i \in DOMAIN g}
        <3>1. g \in Seq(S)
            BY <1>3 DEF IsSeq
        <3> HIDE DEF S
        <3> DEFINE k == Len(g) - 5
        <3>2. k \in Nat /\ Len(g) = 5 + k
            BY <1>3, <1>8
        <3> HIDE DEF k
        <3>3. h = [j \in 1..k |-> g[j + 5]]
            BY <3>1, <3>2
        <3>4. Len(h) = k /\ \A j \in 1..k : h[j] = g[j + 5]
            BY <3>2, <3>3
        <3> QED
            BY <3>4 DEF k
    <2> HIDE DEF h
    <2>3. ASSUME NEW j \in 1..Len(h)
          PROVE  h[j] = p.contributions[j]
        <3>1. j \in 1..(Len(g) - 5) /\ j \in 1..n /\ (j + 5) \in 6..Len(g) /\ j + 5 = 5 + j
            BY <1>3, <1>4, <1>5, <1>8, <2>2
        <3>2. h[j] = g[j + 5]
            BY <2>2, <3>1
        <3>3. g[j + 5] = Serialized(p)[j + 5]
            BY <1>5, <3>1
        <3>4. Serialized(p)[j + 5] = p.contributions[j]
            BY <1>6, <3>1
        <3> QED
            BY <3>2, <3>3, <3>4
    <2>4. Len(h) <= n
        BY <1>3, <1>4, <1>5, <1>8, <2>2
    <2>5. Begins(h, p.contributions)
        BY <2>1, <2>3, <2>4 DEF Begins
    <2>6. Begins(accepted'.contributions, p.contributions)
        BY <1>1, <1>7, <2>5 DEF h, InTurn
    <2> QED
        BY <1>1, <2>6, CoordinatorDone
<1>9. CASE Len(g) < 5
    <2>1. new.contributions = << >>
        BY <1>3, <1>7, <1>9 DEF IsSeq
    <2>2. Verify(accepted, new) # "ok"
        BY <2>1 DEF Verify
    <2>3. Begins(accepted'.contributions, p.contributions)
        BY <1>1, <2>2 DEF InTurn
    <2> QED
        BY <1>1, <2>3, CoordinatorDone
<1> QED
    BY <1>3, <1>8, <1>9

\* The ceremony starts with a file that holds its starting point.
LEMMA TurnsInvInit == Init => TurnsInv
<1> SUFFICES ASSUME Init PROVE TurnsInv
    OBVIOUS
<1>1. PICK p : p = NewPlaceholder(FirstSetup)
    OBVIOUS
<1>2. Good(p)
    BY <1>1, PlaceholderIsGood
<1>3. /\ file = Serialized(p) /\ accepted = p
      /\ \A a \in Actors : pc[a] \in {"idle", "absent"} /\ got[a] = << >> /\ at[a] = 0
    BY <1>1 DEF Init
<1>4. OneAtATime
    <2>1. \A w \in Writers : ~ Running(w)
        BY <1>3 DEF Running, Over, Actors
    <2> QED
        BY <2>1 DEF OneAtATime, Writers
<1>5. IsSeq(file) /\ Len(file) \in Nat /\ IsSeq(p.contributions)
    BY <1>2, <1>3, ChunksOf, SeqHasLength DEF Good, ParamsOK
<1>6. Begins(accepted.contributions, p.contributions) /\ Begins(file, Serialized(p))
    BY <1>3, <1>5, SeqHasLength DEF Begins
<1>7. \A c \in Contributors : WaitsItsTurn(c, p)
    BY <1>3 DEF WaitsItsTurn, Actors, Writers
<1>8. HasReadOf(p)
    <2>1. Len(<< >>) = 0 /\ 6..0 = {}
        OBVIOUS
    <2>2. got[Coordinator] = << >>
        BY <1>3 DEF Actors, Readers
    <2>3. 6..Len(got[Coordinator]) = {} /\ Len(got[Coordinator]) = 0
        BY <2>1, <2>2
    <2> QED
        BY <1>3, <1>5, <2>2, <2>3 DEF HasReadOf
<1>9. InTurn(p)
    BY <1>2, <1>3, <1>6, <1>7, <1>8 DEF InTurn
<1>10. accepted.delta_g1 # Zero
    BY <1>2, <1>3 DEF Good
<1> QED
    BY <1>4, <1>9, <1>10 DEF TurnsInv

\* What is taken over has a delta.
LEMMA DeltaStays ==
    ASSUME WellFormed, accepted.delta_g1 # Zero, [Next]_vars
    PROVE  accepted'.delta_g1 # Zero
<1>1. CASE accepted' = accepted
    BY <1>1
<1>2. CASE accepted' # accepted
    <2>1. DeltaIsLast(accepted')
        BY <1>2, Step DEF Verify
    <2> QED
        BY <2>1 DEF DeltaIsLast, CheckSameRatio
<1> QED
    BY <1>1, <1>2

LEMMA TurnsInvStep ==
    ASSUME HoleIsNoChunk, WellFormed, TurnsInv, [Next]_vars
    PROVE  TurnsInv'
<1>1. accepted'.delta_g1 # Zero
    BY DeltaStays DEF TurnsInv
<1>2. ASSUME orderly'
      PROVE  OneAtATime' /\ \E q : InTurn(q)'
    <2>1. orderly
        BY <1>2 DEF Next, vars, Open, Starts, ApplySecret, Initialise, Inspect, CheckHop,
                    ReadChunk, FailReading, Create, WriteChunk, Attest, Kill
    <2>2. PICK p : OneAtATime /\ InTurn(p)
        BY <2>1 DEF TurnsInv
    <2>3. CASE UNCHANGED vars
        <3>1. OneAtATime' /\ InTurn(p)'
            BY <2>2, <2>3
               DEF vars, OneAtATime, Running, InTurn, WaitsItsTurn, HasReadOf, AttestationOf
        <3> QED
            BY <3>1
    <2>4. ASSUME NEW c \in Contributors, Open(c)
          PROVE  OneAtATime' /\ \E q : InTurn(q)'
        BY <1>2, <2>2, <2>4, OpenInTurn
    <2>5. ASSUME NEW c \in Contributors, ApplySecret(c)
          PROVE  OneAtATime' /\ \E q : InTurn(q)'
        BY <2>2, <2>5, ApplyInTurn
    <2>6. ASSUME NEW i \in Initialisers, Initialise(i)
          PROVE  FALSE
        BY <1>2, <2>6 DEF Initialise, Starts
    <2>7. CASE Inspect(Coordinator)
        BY <2>2, <2>7, InspectInTurn
    <2>8. CASE CheckHop(Coordinator)
        BY <2>2, <2>8, CheckHopInTurn
    <2>9. ASSUME NEW a \in Readers, ReadChunk(a)
          PROVE  OneAtATime' /\ \E q : InTurn(q)'
        <3>1. CASE a = Coordinator
            BY <2>2, <2>9, <3>1, CoordinatorReadsInTurn
        <3>2. CASE a \in Contributors
            BY <2>2, <2>9, <3>2, ReadInTurn
        <3> QED
            BY <3>1, <3>2 DEF Readers
    <2>10. ASSUME NEW a \in Readers, FailReading(a)
           PROVE  OneAtATime' /\ \E q : InTurn(q)'
        <3>1. CASE a = Coordinator
            <4>1. /\ GoTo(Coordinator, "idle") /\ got' = [got EXCEPT ![Coordinator] = << >>]
                  /\ UNCHANGED <<file, mem, at, accepted>>
                BY <2>10, <3>1 DEF FailReading
            <4>2. Begins(accepted'.contributions, p.contributions)
                BY <2>2, <4>1 DEF InTurn
            <4> QED
                BY <2>2, <4>1, <4>2, CoordinatorDone
        <3>2. CASE a \in Contributors
            BY <2>2, <2>10, <3>2, FailInTurn
        <3> QED
            BY <3>1, <3>2 DEF Readers
    <2>11. ASSUME NEW w \in Writers, Create(w) \/ WriteChunk(w) \/ Attest(w) \/ Kill(w)
           PROVE  OneAtATime' /\ \E q : InTurn(q)'
        <3>1. Running(w)
            BY <2>11 DEF Create, WriteChunk, Attest, Kill, Running, Over
        <3>2. w \in Contributors
            BY <2>2, <3>1, WritersContribute
        <3>3. CASE Create(w)
            BY <2>2, <3>2, <3>3, CreateInTurn
        <3>4. CASE WriteChunk(w)
            BY <2>2, <3>2, <3>4, WriteInTurn
        <3>5. CASE Attest(w)
            BY <2>2, <3>2, <3>5, AttestInTurn
        <3>6. CASE Kill(w)
            BY <2>2, <3>2, <3>6, KillInTurn
        <3> QED
            BY <2>11, <3>3, <3>4, <3>5, <3>6
    <2> QED
        BY <2>3, <2>4, <2>5, <2>6, <2>7, <2>8, <2>9, <2>10, <2>11 DEF Next
<1> QED
    BY <1>1, <1>2 DEF TurnsInv

\* What the file reads as, and what the coordinator would say of it.
LEMMA TurnsSuffice ==
    ASSUME HoleIsNoChunk, QueriesLive, WellFormed, AcceptedIsUsable, TurnsInv
    PROVE  TurnsKeepTheCeremony
<1> SUFFICES ASSUME orderly
             PROVE  /\ CanRead(file) \/ \E c \in Contributors : pc[c] \in {"writing", "killed"}
                    /\ CanRead(file) =>
                        LET p == Read(file)
                        IN  /\ Usable(p)
                            /\ Attested \subseteq Range(p.contributions)
                            /\ Seqs!IsPrefix(accepted.contributions, p.contributions)
                            /\ p.contributions # << >> => Verify(accepted, p) = "ok"
    BY DEF TurnsKeepTheCeremony
<1>1. PICK p : InTurn(p)
    BY DEF TurnsInv
<1>2. Good(p) /\ Begins(file, Serialized(p))
    BY <1>1 DEF InTurn
<1>3. CanRead(file) \/ \E c \in Contributors : pc[c] \in {"writing", "killed"}
    BY <1>1, <1>2, BeginningReads DEF InTurn
<1>4. ASSUME CanRead(file)
      PROVE  LET r == Read(file)
             IN  /\ Usable(r)
                 /\ Attested \subseteq Range(r.contributions)
                 /\ Seqs!IsPrefix(accepted.contributions, r.contributions)
                 /\ r.contributions # << >> => Verify(accepted, r) = "ok"
    <2>1. Read(file) = p
        <3>1. Len(file) >= ChunksNeeded(file)
            <4>1. Len(file) \in Nat /\ ChunksNeeded(file) <= Len(file)
                BY <1>2, <1>4, SeqHasLength DEF CanRead, Begins
            <4> QED
                BY <4>1
        <3>2. file = Serialized(p)
            BY <1>2, <3>1, BeginningReads
        <3> QED
            BY <1>2, <3>2, BeginningReads
    <2>2. Usable(p) /\ IsSeq(p.contributions)
        BY <1>2 DEF Good, ParamsOK
    <2>3. Attested \subseteq Range(p.contributions)
        <3> SUFFICES ASSUME NEW c \in Contributors, pc[c] = "ended"
                     PROVE  AttestationOf(c) \in Range(p.contributions)
            BY DEF Attested
        <3>1. PICK j \in 1..Len(p.contributions) : AttestationOf(c) = p.contributions[j]
            BY <1>1 DEF InTurn, WaitsItsTurn
        <3>2. j \in DOMAIN p.contributions
            BY <2>2, SeqHasLength
        <3> QED
            BY <3>1, <3>2 DEF Range
    <2>4. Begins(accepted.contributions, p.contributions)
        BY <1>1 DEF InTurn
    <2>5. Seqs!IsPrefix(accepted.contributions, p.contributions)
        BY <2>2, <2>4, BeginsIsPrefix
    <2>6. p.contributions # << >> => Verify(accepted, p) = "ok"
        <3>1. ParamsOK(accepted) /\ Usable(accepted) /\ accepted.cs_hash = FirstSetup
              /\ accepted.delta_g1 # Zero
            BY DEF WellFormed, AcceptedIsUsable, TurnsInv
        <3> QED
            BY <1>2, <2>4, <3>1, GoodHopIsAccepted
    <2> QED
        BY <2>1, <2>2, <2>3, <2>5, <2>6
<1> QED
    BY <1>3, <1>4

\* While the tools take turns, whatever their number and whenever they are killed, the
\* file reads back unless one of them is writing or was killed; and what reads back holds
\* every contribution attested or accepted, can prove, and is a hop verify accepts.
THEOREM TurnsKeepEverything ==
    ASSUME HoleIsNoChunk, QueriesLive
    PROVE  Spec => []TurnsKeepTheCeremony
<1>1. Init => TurnsInv
    BY TurnsInvInit
<1>2. WellFormed /\ TurnsInv /\ [Next]_vars => TurnsInv'
    BY TurnsInvStep
<1>3. WellFormed /\ AcceptedIsUsable /\ TurnsInv => TurnsKeepTheCeremony
    BY TurnsSuffice
<1> QED
    BY <1>1, <1>2, <1>3, Safe, AcceptedKeyWorks, PTL DEF Spec

=============================================================================
