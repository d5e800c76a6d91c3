---------------------------- MODULE CircuitProofs ----------------------------
(***************************************************************************)
(* What a proof of observation shows, for every number of contributors and *)
(* texts, every prime, every chunk size and every depth of the trees.      *)
(*                                                                         *)
(* A root is the hash of nothing but its tree, so a path that leads to it  *)
(* starts at one of its leaves (LeafUnderRoot); an indicator hash is that  *)
(* of one text (HashOfOneText); and the tiers are compared in the field.   *)
(***************************************************************************)
EXTENDS CircuitProperties, Foundations, SequenceTheorems

----------------------------------------------------------------------------
(* The recursive functions are what their equations say.                   *)

LEMMA NodesEquation ==
    Nodes = [k \in 0..Depth |-> IF k = 0 THEN 1 ELSE 2 * Nodes[k - 1]]
<1> DEFINE Is(f, m) == f = [k \in 0..m |-> IF k = 0 THEN 1 ELSE 2 * f[k - 1]]
           S == {m \in Nat : \E f : Is(f, m)}
<1>1. 0 \in S
    <2> DEFINE g == [k \in 0..0 |-> 1]
    <2>1. Is(g, 0)
        OBVIOUS
    <2> QED BY <2>1
<1>2. ASSUME NEW m \in Nat, m \in S PROVE m + 1 \in S
    <2>1. PICK f : Is(f, m)
        BY <1>2
    <2> DEFINE g == [k \in 0..(m + 1) |-> IF k = 0 THEN 1 ELSE 2 * f[k - 1]]
    <2>2. ASSUME NEW k \in 0..(m + 1), k # 0 PROVE g[k - 1] = f[k - 1]
        BY <2>1, <2>2
    <2>3. Is(g, m + 1)
        BY <2>2
    <2> HIDE DEF g, Is
    <2> QED BY <2>3
<1>3. Depth \in S
    <2> HIDE DEF S
    <2> QED BY <1>1, <1>2, InductionOnSet, TreesAssumption
<1> QED BY <1>3 DEF Nodes

LEMMA FoldedEquation ==
    ASSUME NEW bytes, Chunks(bytes) \in Nat
    PROVE  Folded(bytes) =
            [k \in 0..Chunks(bytes) |->
                IF k = 0 THEN FromLeBytes(<< >>)
                ELSE Compress(Folded(bytes)[k - 1], FromLeBytes(Chunk(bytes, k)))]
<1> DEFINE Is(f, m) == f = [k \in 0..m |-> IF k = 0 THEN FromLeBytes(<< >>)
                                ELSE Compress(f[k - 1], FromLeBytes(Chunk(bytes, k)))]
           S == {m \in Nat : \E f : Is(f, m)}
<1>1. 0 \in S
    <2> DEFINE g == [k \in 0..0 |-> FromLeBytes(<< >>)]
    <2>1. Is(g, 0)
        OBVIOUS
    <2> QED BY <2>1
<1>2. ASSUME NEW m \in Nat, m \in S PROVE m + 1 \in S
    <2>1. PICK f : Is(f, m)
        BY <1>2
    <2> DEFINE g == [k \in 0..(m + 1) |-> IF k = 0 THEN FromLeBytes(<< >>)
                        ELSE Compress(f[k - 1], FromLeBytes(Chunk(bytes, k)))]
    <2>2. ASSUME NEW k \in 0..(m + 1), k # 0 PROVE g[k - 1] = f[k - 1]
        BY <2>1, <2>2
    <2>3. Is(g, m + 1)
        BY <2>2
    <2> HIDE DEF g, Is
    <2> QED BY <2>3
<1>3. Chunks(bytes) \in S
    <2> HIDE DEF S
    <2> QED BY <1>1, <1>2, InductionOnSet
<1> QED BY <1>3 DEF Folded

LEMMA LevelsEquation ==
    ASSUME NEW leaves
    PROVE  Levels(leaves) =
            [k \in 0..Depth |->
                IF k = 0 THEN leaves
                ELSE Parents(Levels(leaves)[k - 1], Nodes[Depth - k])]
<1> DEFINE Is(f, m) == f = [k \in 0..m |-> IF k = 0 THEN leaves
                                ELSE Parents(f[k - 1], Nodes[Depth - k])]
           S == {m \in Nat : \E f : Is(f, m)}
<1>1. 0 \in S
    <2> DEFINE g == [k \in 0..0 |-> leaves]
    <2>1. Is(g, 0)
        OBVIOUS
    <2> QED BY <2>1
<1>2. ASSUME NEW m \in Nat, m \in S PROVE m + 1 \in S
    <2>1. PICK f : Is(f, m)
        BY <1>2
    <2> DEFINE g == [k \in 0..(m + 1) |-> IF k = 0 THEN leaves
                        ELSE Parents(f[k - 1], Nodes[Depth - k])]
    <2>2. ASSUME NEW k \in 0..(m + 1), k # 0 PROVE g[k - 1] = f[k - 1]
        BY <2>1, <2>2
    <2>3. Is(g, m + 1)
        BY <2>2
    <2> HIDE DEF g, Is
    <2> QED BY <2>3
<1>3. Depth \in S
    <2> HIDE DEF S
    <2> QED BY <1>1, <1>2, InductionOnSet, TreesAssumption
<1> QED BY <1>3 DEF Levels

LEMMA ClimbEquation ==
    ASSUME NEW leaf, NEW path
    PROVE  Climb(leaf, path) =
            [k \in 0..Depth |->
                IF k = 0 THEN leaf
                ELSE IF path[k].right THEN Compress(path[k].sibling, Climb(leaf, path)[k - 1])
                ELSE Compress(Climb(leaf, path)[k - 1], path[k].sibling)]
<1> DEFINE Is(f, m) == f = [k \in 0..m |-> IF k = 0 THEN leaf
                                ELSE IF path[k].right THEN Compress(path[k].sibling, f[k - 1])
                                ELSE Compress(f[k - 1], path[k].sibling)]
           S == {m \in Nat : \E f : Is(f, m)}
<1>1. 0 \in S
    <2> DEFINE g == [k \in 0..0 |-> leaf]
    <2>1. Is(g, 0)
        OBVIOUS
    <2> QED BY <2>1
<1>2. ASSUME NEW m \in Nat, m \in S PROVE m + 1 \in S
    <2>1. PICK f : Is(f, m)
        BY <1>2
    <2> DEFINE g == [k \in 0..(m + 1) |-> IF k = 0 THEN leaf
                        ELSE IF path[k].right THEN Compress(path[k].sibling, f[k - 1])
                        ELSE Compress(f[k - 1], path[k].sibling)]
    <2>2. ASSUME NEW k \in 0..(m + 1), k # 0 PROVE g[k - 1] = f[k - 1]
        BY <2>1, <2>2
    <2>3. Is(g, m + 1)
        BY <2>2
    <2> HIDE DEF g, Is
    <2> QED BY <2>3
<1>3. Depth \in S
    <2> HIDE DEF S
    <2> QED BY <1>1, <1>2, InductionOnSet, TreesAssumption
<1> QED BY <1>3 DEF Climb

LEMMA UpwardsEquation ==
    ASSUME NEW index
    PROVE  Upwards(index) =
            [k \in 0..Depth |-> IF k = 0 THEN index ELSE Upwards(index)[k - 1] \div 2]
<1> DEFINE Is(f, m) == f = [k \in 0..m |-> IF k = 0 THEN index ELSE f[k - 1] \div 2]
           S == {m \in Nat : \E f : Is(f, m)}
<1>1. 0 \in S
    <2> DEFINE g == [k \in 0..0 |-> index]
    <2>1. Is(g, 0)
        OBVIOUS
    <2> QED BY <2>1
<1>2. ASSUME NEW m \in Nat, m \in S PROVE m + 1 \in S
    <2>1. PICK f : Is(f, m)
        BY <1>2
    <2> DEFINE g == [k \in 0..(m + 1) |-> IF k = 0 THEN index ELSE f[k - 1] \div 2]
    <2>2. ASSUME NEW k \in 0..(m + 1), k # 0 PROVE g[k - 1] = f[k - 1]
        BY <2>1, <2>2
    <2>3. Is(g, m + 1)
        BY <2>2
    <2> HIDE DEF g, Is
    <2> QED BY <2>3
<1>3. Depth \in S
    <2> HIDE DEF S
    <2> QED BY <1>1, <1>2, InductionOnSet, TreesAssumption
<1> QED BY <1>3 DEF Upwards

----------------------------------------------------------------------------
(* Hashes.                                                                 *)

\* A hash is that of one input.
LEMMA PoseidonApart ==
    ASSUME NEW a, NEW b, NEW c, NEW x, NEW y, NEW z, Poseidon(a, b, c) = Poseidon(x, y, z)
    PROVE  a = x /\ b = y /\ c = z
<1>1. Poseidon(a, b, c).leaf = <<a, b, c>> /\ Poseidon(x, y, z).leaf = <<x, y, z>>
    BY DEF Poseidon
<1>2. <<a, b, c>> = <<x, y, z>>
    BY <1>1
<1> QED BY <1>2

LEMMA CompressApart ==
    ASSUME NEW a, NEW b, NEW x, NEW y, Compress(a, b) = Compress(x, y)
    PROVE  a = x /\ b = y
<1>1. Compress(a, b).node = <<a, b>> /\ Compress(x, y).node = <<x, y>>
    BY DEF Compress
<1>2. <<a, b>> = <<x, y>>
    BY <1>1
<1> QED BY <1>2

\* Numbers of the field are apart, and none is a hash of the leaves.
LEMMA NumApart ==
    ASSUME NEW m \in Field, NEW n \in Field, Num(m) = Num(n)
    PROVE  m = n
<1>1. Num(m).num = m % Prime /\ Num(n).num = n % Prime
    BY DEF Num
<1>2. m % Prime = m /\ n % Prime = n
    BY PrimeAssumption DEF Field
<1> QED BY <1>1, <1>2

LEMMA NumIsNoHash ==
    ASSUME NEW n, NEW a, NEW b, NEW c
    PROVE  Num(n) # Poseidon(a, b, c)
<1>1. DOMAIN Num(n) = {"num"} /\ DOMAIN Poseidon(a, b, c) = {"leaf"}
    BY DEF Num, Poseidon
<1> QED BY <1>1

LEMMA SecretApart ==
    ASSUME NEW c, NEW d
    PROVE  /\ Secret(c) = Secret(d) => c = d
           /\ Salt(c) = Salt(d) => c = d
<1>1. Secret(c).secret_of = c /\ Secret(d).secret_of = d
    BY DEF Secret
<1>2. Salt(c).salt_of = c /\ Salt(d).salt_of = d
    BY DEF Salt
<1> QED BY <1>1, <1>2

----------------------------------------------------------------------------
(* Trees.                                                                  *)

LEMMA NodesType ==
    /\ \A k \in 0..Depth : Nodes[k] \in Nat \ {0}
    /\ Nodes[0] = 1
    /\ \A k \in 1..Depth : Nodes[k] = 2 * Nodes[k - 1]
<1>1. Depth \in Nat
    BY TreesAssumption
<1>2. Nodes[0] = 1 /\ \A k \in 1..Depth : Nodes[k] = 2 * Nodes[k - 1]
    BY <1>1, NodesEquation
<1> DEFINE S == {k \in Nat : k <= Depth => Nodes[k] \in Nat \ {0}}
<1>3. 0 \in S
    BY <1>2
<1>4. ASSUME NEW k \in Nat, k \in S PROVE k + 1 \in S
    <2> SUFFICES ASSUME k + 1 <= Depth PROVE Nodes[k + 1] \in Nat \ {0}
        OBVIOUS
    <2>1. Nodes[k] \in Nat \ {0}
        BY <1>1, <1>4
    <2>2. k + 1 \in 1..Depth /\ (k + 1) - 1 = k
        BY <1>1
    <2>3. Nodes[k + 1] = 2 * Nodes[k]
        BY <1>2, <2>2
    <2> QED BY <2>1, <2>3
<1> HIDE DEF S
<1>5. \A k \in Nat : k \in S
    BY <1>3, <1>4, InductionOnSet
<1> QED BY <1>1, <1>2, <1>5 DEF S

\* A node is the hash of the two below it.
LEMMA NodeOfLevel ==
    ASSUME NEW leaves, NEW k \in 1..Depth, NEW i \in 1..Nodes[Depth - k]
    PROVE  /\ Levels(leaves)[k][i] =
                Compress(Levels(leaves)[k - 1][2 * i - 1], Levels(leaves)[k - 1][2 * i])
           /\ 2 * i - 1 \in 1..Nodes[Depth - (k - 1)] /\ 2 * i \in 1..Nodes[Depth - (k - 1)]
<1>1. Depth \in Nat
    BY TreesAssumption
<1>2. Levels(leaves)[k] = Parents(Levels(leaves)[k - 1], Nodes[Depth - k])
    BY <1>1, LevelsEquation
<1>3. Nodes[Depth - (k - 1)] = 2 * Nodes[Depth - k] /\ Nodes[Depth - k] \in Nat
    BY <1>1, NodesType, Depth - (k - 1) \in 1..Depth, (Depth - (k - 1)) - 1 = Depth - k,
       Depth - k \in 0..Depth
<1> QED BY <1>2, <1>3 DEF Parents

LEMMA ClimbStep ==
    ASSUME NEW leaf, NEW path, NEW k \in 1..Depth
    PROVE  Climb(leaf, path)[k] =
            IF path[k].right THEN Compress(path[k].sibling, Climb(leaf, path)[k - 1])
            ELSE Compress(Climb(leaf, path)[k - 1], path[k].sibling)
<1> DEFINE current == Climb(leaf, path)
<1>1. k \in 0..Depth /\ k # 0
    BY TreesAssumption
<1>2. current = [j \in 0..Depth |->
                    IF j = 0 THEN leaf
                    ELSE IF path[j].right THEN Compress(path[j].sibling, current[j - 1])
                    ELSE Compress(current[j - 1], path[j].sibling)]
    BY ClimbEquation
<1> HIDE DEF current
<1>3. current[k] = IF path[k].right THEN Compress(path[k].sibling, current[k - 1])
                   ELSE Compress(current[k - 1], path[k].sibling)
    BY <1>1, <1>2
<1> QED BY <1>3 DEF current

\* Whatever siblings and turns lead to the root of a tree, they start at one of its leaves.
LEMMA LeafUnderRoot ==
    ASSUME NEW leaves, NEW leaf, NEW path, FoldMerklePath(leaf, path) = Root(leaves)
    PROVE  \E i \in 1..Leaves : leaf = leaves[i]
<1> DEFINE current == Climb(leaf, path)
           level == Levels(leaves)
           S == {j \in Nat : j <= Depth =>
                    \E i \in 1..Nodes[j] : current[Depth - j] = level[Depth - j][i]}
<1>0. Depth \in Nat
    BY TreesAssumption
<1>1. 0 \in S
    BY <1>0, NodesType, 1 \in 1..Nodes[0] DEF FoldMerklePath, Root
<1>2. ASSUME NEW j \in Nat, j \in S PROVE j + 1 \in S
    <2> SUFFICES ASSUME j + 1 <= Depth
                 PROVE  \E i \in 1..Nodes[j + 1] :
                            current[Depth - (j + 1)] = level[Depth - (j + 1)][i]
        OBVIOUS
    <2> DEFINE k == Depth - j
    <2>1. k \in 1..Depth /\ Depth - k = j /\ k - 1 = Depth - (j + 1) /\ Depth - (k - 1) = j + 1
        BY <1>0
    <2>2. PICK i \in 1..Nodes[j] : current[k] = level[k][i]
        BY <1>0, <1>2
    <2>3. /\ level[k][i] = Compress(level[k - 1][2 * i - 1], level[k - 1][2 * i])
          /\ 2 * i - 1 \in 1..Nodes[j + 1] /\ 2 * i \in 1..Nodes[j + 1]
        BY <2>1, <2>2, NodeOfLevel
    <2>4. current[k] = IF path[k].right THEN Compress(path[k].sibling, current[k - 1])
                       ELSE Compress(current[k - 1], path[k].sibling)
        BY <2>1, ClimbStep
    <2> HIDE DEF k, current, level
    <2>5. current[k - 1] = level[k - 1][2 * i] \/ current[k - 1] = level[k - 1][2 * i - 1]
        BY <2>2, <2>3, <2>4, CompressApart
    <2> QED BY <2>1, <2>3, <2>5
<1> HIDE DEF S
<1>3. Depth \in S
    BY <1>0, <1>1, <1>2, InductionOnSet
<1>4. \E i \in 1..Nodes[Depth] : current[0] = level[0][i]
    BY <1>0, <1>3 DEF S
<1>5. current[0] = leaf /\ level[0] = leaves
    BY <1>0, ClimbEquation, LevelsEquation
<1> QED BY <1>4, <1>5 DEF Leaves

\* The path of build_tree leads from its leaf to the root.
LEMMA PathLeadsToRoot ==
    ASSUME NEW leaves, NEW index \in 0..(Leaves - 1)
    PROVE  FoldMerklePath(leaves[index + 1], Path(leaves, index)) = Root(leaves)
<1> DEFINE path == Path(leaves, index)
           current == Climb(leaves[index + 1], path)
           level == Levels(leaves)
           up == Upwards(index)
           S == {k \in Nat : k <= Depth =>
                    /\ up[k] \in 0..(Nodes[Depth - k] - 1)
                    /\ current[k] = level[k][up[k] + 1]}
<1>0. Depth \in Nat
    BY TreesAssumption
<1>1. 0 \in S
    <2>1. up[0] = index /\ level[0] = leaves /\ current[0] = leaves[index + 1]
        BY <1>0, UpwardsEquation, LevelsEquation, ClimbEquation
    <2> HIDE DEF up, level, current
    <2> QED BY <1>0, <2>1 DEF Leaves
<1>2. ASSUME NEW m \in Nat, m \in S PROVE m + 1 \in S
    <2> SUFFICES ASSUME m + 1 <= Depth
                 PROVE  /\ up[m + 1] \in 0..(Nodes[Depth - (m + 1)] - 1)
                        /\ current[m + 1] = level[m + 1][up[m + 1] + 1]
        OBVIOUS
    <2> DEFINE k == m + 1
               i == up[m]
    <2>1. k \in 1..Depth /\ k - 1 = m
        BY <1>0
    <2>2. i \in 0..(Nodes[Depth - m] - 1) /\ current[m] = level[m][i + 1]
        BY <1>0, <1>2
    <2>3. Nodes[Depth - m] = 2 * Nodes[Depth - k] /\ Nodes[Depth - k] \in Nat \ {0}
        BY <1>0, <2>1, NodesType, Depth - m \in 1..Depth, (Depth - m) - 1 = Depth - k,
           Depth - k \in 0..Depth
    <2>4. up[k] = i \div 2
        BY <1>0, <2>1, UpwardsEquation, k \in 0..Depth, k # 0
    <2>5. i \div 2 \in 0..(Nodes[Depth - k] - 1)
        BY <2>2, <2>3
    <2>6. /\ path[k].sibling = level[m][IF i % 2 = 1 THEN i ELSE i + 2]
          /\ path[k].right <=> i % 2 = 1
        BY <2>1 DEF Path
    <2>7. current[k] = IF path[k].right THEN Compress(path[k].sibling, current[m])
                       ELSE Compress(current[m], path[k].sibling)
        BY <2>1, ClimbStep
    <2>8. i \div 2 + 1 \in 1..Nodes[Depth - k]
        BY <2>3, <2>5
    <2>9. level[k][i \div 2 + 1] =
            Compress(level[m][2 * (i \div 2 + 1) - 1], level[m][2 * (i \div 2 + 1)])
        BY <2>1, <2>8, NodeOfLevel
    <2> HIDE DEF k, i, current, level, up, path
    <2>10. CASE i % 2 = 1
        <3>1. 2 * (i \div 2 + 1) - 1 = i /\ 2 * (i \div 2 + 1) = i + 1
            BY <2>2, <2>3, <2>10
        <3> QED BY <2>2, <2>4, <2>5, <2>6, <2>7, <2>9, <2>10, <3>1 DEF k
    <2>11. CASE i % 2 # 1
        <3>1. 2 * (i \div 2 + 1) - 1 = i + 1 /\ 2 * (i \div 2 + 1) = i + 2
            BY <2>2, <2>3, <2>11
        <3> QED BY <2>2, <2>4, <2>5, <2>6, <2>7, <2>9, <2>11, <3>1 DEF k
    <2> QED BY <2>10, <2>11
<1> HIDE DEF S
<1>3. Depth \in S
    BY <1>0, <1>1, <1>2, InductionOnSet
<1>4. up[Depth] \in 0..(Nodes[0] - 1) /\ current[Depth] = level[Depth][up[Depth] + 1]
    BY <1>0, <1>3 DEF S
<1>5. up[Depth] + 1 = 1
    BY <1>4, NodesType
<1> QED BY <1>4, <1>5 DEF FoldMerklePath, Root

----------------------------------------------------------------------------
(* Indicator hashes.                                                       *)

Bytes == Seq(0..255)

\* from_le_bytes forgets the zeros at the end and nothing else.
LEMMA FromLeBytesKeeps ==
    ASSUME NEW bytes \in Bytes
    PROVE  \E last \in 0..Len(bytes) :
            /\ FromLeBytes(bytes) = [chunk |-> SubSeq(bytes, 1, last)]
            /\ \A i \in (last + 1)..Len(bytes) : bytes[i] = 0
<1> DEFINE used == {i \in 1..Len(bytes) : bytes[i] # 0}
           last == IF used = {} THEN 0 ELSE CHOOSE i \in used : \A j \in used : j <= i
<1>1. Len(bytes) \in Nat
    BY LenProperties DEF Bytes
<1>2. FromLeBytes(bytes) = [chunk |-> SubSeq(bytes, 1, last)]
    BY DEF FromLeBytes
<1>3. last \in 0..Len(bytes) /\ \A j \in used : j <= last
    <2>1. CASE used = {}
        BY <1>1, <2>1
    <2>2. CASE used # {}
        <3>1. used \subseteq 0..Len(bytes)
            BY <1>1
        <3> HIDE DEF used
        <3>2. \E i \in used : \A j \in used : j <= i
            BY <1>1, <2>2, <3>1, GreatestElement
        <3> QED BY <2>2, <3>1, <3>2
    <2> QED BY <2>1, <2>2
<1> HIDE DEF last
<1>4. \A i \in (last + 1)..Len(bytes) : bytes[i] = 0
    BY <1>1, <1>3
<1> QED BY <1>2, <1>3, <1>4

\* Of bytes of one length it forgets nothing.
LEMMA FromLeBytesApart ==
    ASSUME NEW a \in Bytes, NEW b \in Bytes, Len(a) = Len(b), FromLeBytes(a) = FromLeBytes(b)
    PROVE  a = b
<1>1. PICK l \in 0..Len(a) :
        /\ FromLeBytes(a) = [chunk |-> SubSeq(a, 1, l)]
        /\ \A i \in (l + 1)..Len(a) : a[i] = 0
    BY FromLeBytesKeeps
<1>2. PICK m \in 0..Len(b) :
        /\ FromLeBytes(b) = [chunk |-> SubSeq(b, 1, m)]
        /\ \A i \in (m + 1)..Len(b) : b[i] = 0
    BY FromLeBytesKeeps
<1>3. Len(a) \in Nat /\ \A i \in 1..Len(a) : a[i] \in 0..255 /\ b[i] \in 0..255
    BY LenProperties, ElementOfSeq DEF Bytes
<1>4. SubSeq(a, 1, l) = SubSeq(b, 1, m)
    <2>1. FromLeBytes(a).chunk = SubSeq(a, 1, l)
        BY <1>1
    <2>2. FromLeBytes(b).chunk = SubSeq(b, 1, m)
        BY <1>2
    <2> QED BY <2>1, <2>2
<1>5. /\ Len(SubSeq(a, 1, l)) = l /\ \A i \in 1..l : SubSeq(a, 1, l)[i] = a[i]
      /\ Len(SubSeq(b, 1, m)) = m /\ \A i \in 1..m : SubSeq(b, 1, m)[i] = b[i]
    <2>1. \A i \in 1..l : a[i] \in 0..255
        BY <1>3
    <2>2. \A i \in 1..m : b[i] \in 0..255
        BY <1>3
    <2> QED BY <1>3, <2>1, <2>2, SubSeqProperties
<1>6. l = m /\ \A i \in 1..l : a[i] = b[i]
    BY <1>4, <1>5
<1>7. \A i \in 1..Len(a) : a[i] = b[i]
    BY <1>1, <1>2, <1>3, <1>6
<1> QED BY <1>7, SeqEqual DEF Bytes

LEMMA Monotonic ==
    ASSUME NEW c \in Nat, NEW x \in Int, NEW y \in Int, x <= y
    PROVE  c * x <= c * y
<1> DEFINE d == y - x
<1>1. d \in Nat /\ y = x + d
    OBVIOUS
<1> HIDE DEF d
<1>2. c * y = c * x + c * d
    BY <1>1
<1>3. c * d \in Nat /\ c * x \in Int
    BY <1>1
<1> QED BY <1>2, <1>3

\* The chunks cover the bytes, each in its place.
LEMMA ChunkPlaces ==
    ASSUME NEW bytes \in Bytes
    PROVE  /\ Chunks(bytes) \in Nat
           /\ \A k \in 1..Chunks(bytes) :
                LET first == ChunkBytes * (k - 1)
                    size == (IF k = Chunks(bytes) THEN Len(bytes) ELSE ChunkBytes * k) - first
                IN  /\ Chunk(bytes, k) \in Bytes /\ size \in Nat /\ Len(Chunk(bytes, k)) = size
                    /\ \A j \in 1..size : Chunk(bytes, k)[j] = bytes[first + j]
           /\ \A i \in 1..Len(bytes) : \E k \in 1..Chunks(bytes) :
                /\ ChunkBytes * (k - 1) < i
                /\ i <= IF k = Chunks(bytes) THEN Len(bytes) ELSE ChunkBytes * k
<1> DEFINE n == Chunks(bytes)
<1>1. Len(bytes) \in Nat /\ ChunkBytes \in Nat \ {0}
      /\ \A i \in 1..Len(bytes) : bytes[i] \in 0..255
    BY LenProperties, ElementOfSeq, TextsAssumption DEF Bytes
<1>2. /\ n \in Nat
      /\ ChunkBytes * n <= Len(bytes) + ChunkBytes - 1
      /\ Len(bytes) + ChunkBytes - 1 < ChunkBytes * n + ChunkBytes
    BY <1>1 DEF Chunks
<1>3. ASSUME NEW k \in Int
      PROVE  ChunkBytes * (k - 1) = ChunkBytes * k - ChunkBytes /\ ChunkBytes * k \in Int
    BY <1>1
<1>4. ASSUME NEW k \in 1..n PROVE ChunkBytes * k <= ChunkBytes * n
    BY <1>1, <1>2, Monotonic, k \in Int, n \in Int, k <= n
<1>5. ASSUME NEW k \in 1..n, k # n PROVE ChunkBytes * k <= ChunkBytes * n - ChunkBytes
    <2>1. ChunkBytes * k <= ChunkBytes * (n - 1)
        BY <1>1, <1>2, <1>5, Monotonic, k \in Int, n - 1 \in Int, k <= n - 1
    <2> QED BY <1>2, <1>3, <2>1
<1>6. ASSUME NEW k \in 1..n
      PROVE  LET first == ChunkBytes * (k - 1)
                 size == (IF k = n THEN Len(bytes) ELSE ChunkBytes * k) - first
             IN  /\ Chunk(bytes, k) \in Bytes /\ size \in Nat /\ Len(Chunk(bytes, k)) = size
                 /\ \A j \in 1..size : Chunk(bytes, k)[j] = bytes[first + j]
    <2> DEFINE first == ChunkBytes * (k - 1)
               end == IF k = n THEN Len(bytes) ELSE ChunkBytes * k
    <2>1. first \in Nat /\ end \in Nat /\ first < end /\ end <= Len(bytes)
        BY <1>1, <1>2, <1>3, <1>4, <1>5
    <2>2. Chunk(bytes, k) = SubSeq(bytes, first + 1, end)
        BY DEF Chunk
    <2> HIDE DEF first, end, n
    <2>3. \A i \in (first + 1)..end : bytes[i] \in 0..255
        <3>1. ASSUME NEW i \in (first + 1)..end PROVE i \in 1..Len(bytes)
            BY <1>1, <2>1
        <3> QED BY <1>1, <3>1
    <2>4. /\ Chunk(bytes, k) \in Bytes
          /\ Len(Chunk(bytes, k)) = end - first
          /\ \A j \in 1..(end - first) : Chunk(bytes, k)[j] = bytes[first + j]
        <3>1. first + 1 \in Int /\ end \in Int /\ end - (first + 1) + 1 = end - first
            BY <2>1
        <3>2. /\ SubSeq(bytes, first + 1, end) \in Seq(0..255)
              /\ Len(SubSeq(bytes, first + 1, end)) =
                    IF first + 1 <= end THEN end - (first + 1) + 1 ELSE 0
              /\ \A j \in 1..(end - (first + 1) + 1) :
                    SubSeq(bytes, first + 1, end)[j] = bytes[(first + 1) + j - 1]
            BY <2>3, <3>1, SubSeqProperties
        <3> QED BY <2>1, <2>2, <3>1, <3>2 DEF Bytes
    <2> QED BY <2>1, <2>4 DEF first, end
<1>7. ASSUME NEW i \in 1..Len(bytes)
      PROVE  \E k \in 1..n :
                /\ ChunkBytes * (k - 1) < i
                /\ i <= IF k = n THEN Len(bytes) ELSE ChunkBytes * k
    <2> DEFINE k == (i - 1) \div ChunkBytes + 1
    <2>1. k \in Nat /\ 1 <= k /\ ChunkBytes * (k - 1) <= i - 1 /\ i - 1 < ChunkBytes * (k - 1) + ChunkBytes
        BY <1>1
    <2> HIDE DEF k
    <2>2. ASSUME n + 1 <= k PROVE FALSE
        <3>1. ChunkBytes * n <= ChunkBytes * (k - 1)
            BY <1>1, <1>2, <2>1, <2>2, Monotonic, n \in Int, k - 1 \in Int, n <= k - 1
        <3> QED BY <1>1, <1>2, <2>1, <3>1, ChunkBytes * n \in Int, ChunkBytes * (k - 1) \in Int
    <2>3. k \in 1..n
        BY <1>2, <2>1, <2>2
    <2>4. ChunkBytes * (k - 1) < i /\ i <= ChunkBytes * k
        BY <1>1, <1>3, <2>1
    <2> QED BY <1>1, <2>3, <2>4
<1> QED BY <1>2, <1>6, <1>7

\* Folds of as many chunks are of the same chunks.
LEMMA SameChunks ==
    ASSUME NEW a \in Bytes, NEW b \in Bytes, Chunks(a) = Chunks(b), FoldChunks(a) = FoldChunks(b)
    PROVE  \A k \in 1..Chunks(a) : FromLeBytes(Chunk(a, k)) = FromLeBytes(Chunk(b, k))
<1> DEFINE n == Chunks(a)
           f == Folded(a)
           g == Folded(b)
           S == {j \in Nat : j <= n => f[n - j] = g[n - j]}
<1>0. n \in Nat /\ Chunks(b) = n
    BY ChunkPlaces
<1>1. ASSUME NEW k \in 1..n
      PROVE  /\ f[k] = Compress(f[k - 1], FromLeBytes(Chunk(a, k)))
             /\ g[k] = Compress(g[k - 1], FromLeBytes(Chunk(b, k)))
    <2>1. f = [j \in 0..n |-> IF j = 0 THEN FromLeBytes(<< >>)
                             ELSE Compress(f[j - 1], FromLeBytes(Chunk(a, j)))]
        BY <1>0, FoldedEquation
    <2>2. g = [j \in 0..n |-> IF j = 0 THEN FromLeBytes(<< >>)
                             ELSE Compress(g[j - 1], FromLeBytes(Chunk(b, j)))]
        BY <1>0, FoldedEquation
    <2>3. k \in 0..n /\ k # 0
        BY <1>0
    <2> HIDE DEF f, g, n
    <2> QED BY <2>1, <2>2, <2>3
<1>2. ASSUME NEW k \in 1..n, f[k] = g[k]
      PROVE  /\ f[k - 1] = g[k - 1]
             /\ FromLeBytes(Chunk(a, k)) = FromLeBytes(Chunk(b, k))
    BY <1>1, <1>2, CompressApart
<1>3. 0 \in S
    BY <1>0 DEF FoldChunks
<1> HIDE DEF f, g, n
<1>4. ASSUME NEW j \in Nat, j \in S PROVE j + 1 \in S
    <2> SUFFICES ASSUME j + 1 <= n PROVE f[n - (j + 1)] = g[n - (j + 1)]
        OBVIOUS
    <2>1. n - j \in 1..n /\ (n - j) - 1 = n - (j + 1)
        BY <1>0
    <2>2. f[n - j] = g[n - j]
        BY <1>0, <1>4
    <2> QED BY <1>2, <2>1, <2>2
<1>5. \A j \in Nat : j \in S
    <2> HIDE DEF S
    <2> QED BY <1>3, <1>4, InductionOnSet
<1>6. ASSUME NEW k \in 1..n PROVE f[k] = g[k]
    <2>1. n - k \in Nat /\ n - k <= n /\ n - (n - k) = k
        BY <1>0
    <2> QED BY <1>5, <2>1
<1> QED BY <1>2, <1>6 DEF n

\* The bytes behind a hash are those of one normalized text, wherever they are cut and
\* whatever zeros they end in.
LEMMA HashOfOneText ==
    ASSUME NEW s \in Texts, NEW t \in Texts
    PROVE  IndicatorHash(s) = IndicatorHash(t) <=> Normal[s] = Normal[t]
<1> DEFINE a == Normal[s]
           b == Normal[t]
<1>0. a \in Bytes /\ b \in Bytes
    BY TextsAssumption DEF Bytes
<1>1. a = b => IndicatorHash(s) = IndicatorHash(t)
    BY DEF IndicatorHash
<1> SUFFICES ASSUME IndicatorHash(s) = IndicatorHash(t) PROVE a = b
    BY <1>1
<1>2. FoldChunks(a) = FoldChunks(b) /\ [length |-> Len(a)] = [length |-> Len(b)]
    BY CompressApart DEF IndicatorHash
<1>3. Len(a) = Len(b)
    <2>1. [length |-> Len(a)].length = Len(a) /\ [length |-> Len(b)].length = Len(b)
        OBVIOUS
    <2> QED BY <1>2, <2>1
<1>4. Chunks(a) = Chunks(b)
    BY <1>3 DEF Chunks
<1> HIDE DEF a, b
<1>5. ASSUME NEW k \in 1..Chunks(a)
      PROVE  Chunk(a, k) = Chunk(b, k)
    <2>1. FromLeBytes(Chunk(a, k)) = FromLeBytes(Chunk(b, k))
        BY <1>0, <1>2, <1>4, SameChunks
    <2>2. Chunk(a, k) \in Bytes /\ Chunk(b, k) \in Bytes /\ Len(Chunk(a, k)) = Len(Chunk(b, k))
        BY <1>0, <1>3, <1>4, ChunkPlaces
    <2> QED BY <2>1, <2>2, FromLeBytesApart
<1>6. ASSUME NEW i \in 1..Len(a) PROVE a[i] = b[i]
    <2>1. PICK k \in 1..Chunks(a) :
            /\ ChunkBytes * (k - 1) < i
            /\ i <= IF k = Chunks(a) THEN Len(a) ELSE ChunkBytes * k
        BY <1>0, ChunkPlaces
    <2> DEFINE first == ChunkBytes * (k - 1)
               size == (IF k = Chunks(a) THEN Len(a) ELSE ChunkBytes * k) - first
    <2>2. Len(a) \in Nat /\ Chunks(a) \in Nat /\ ChunkBytes \in Nat /\ first \in Int
          /\ ChunkBytes * k \in Int
        BY <1>0, LenProperties, ChunkPlaces, TextsAssumption DEF Bytes
    <2>3. i - first \in 1..size
        BY <2>1, <2>2
    <2>4. \A j \in 1..size : Chunk(a, k)[j] = a[first + j] /\ Chunk(b, k)[j] = b[first + j]
        <3>1. \A j \in 1..size : Chunk(a, k)[j] = a[first + j]
            BY <1>0, ChunkPlaces
        <3>2. \A j \in 1..((IF k = Chunks(b) THEN Len(b) ELSE ChunkBytes * k) - first) :
                Chunk(b, k)[j] = b[first + j]
            BY <1>0, <1>4, ChunkPlaces
        <3> QED BY <1>3, <1>4, <3>1, <3>2
    <2>5. first + (i - first) = i
        BY <2>2
    <2> HIDE DEF first, size
    <2> QED BY <1>5, <2>3, <2>4, <2>5
<1>7. a = b
    BY <1>0, <1>3, <1>6, SeqEqual DEF Bytes
<1> QED BY <1>7

----------------------------------------------------------------------------
(* Tiers.                                                                  *)

LEMMA FieldArithmetic ==
    ASSUME NEW a \in Field, NEW b \in Field
    PROVE  /\ Minus(a, b) \in Field /\ Times(a, b) \in Field
           /\ Minus(a, b) = IF a >= b THEN a - b ELSE a - b + Prime
           /\ Times(a, b) = 0 => a = 0 \/ b = 0
           /\ Times(0, b) = 0 /\ Times(a, 0) = 0
<1>1. /\ a \in Int /\ b \in Int /\ 0 <= a /\ a < Prime /\ 0 <= b /\ b < Prime /\ Prime \in Nat
      /\ Prime > 6
    BY PrimeAssumption DEF Field
<1>2. Minus(a, b) = IF a >= b THEN a - b ELSE a - b + Prime
    BY <1>1 DEF Minus
<1>3. Minus(a, b) \in Field
    BY <1>1, <1>2 DEF Field
<1>4. Times(a, b) \in Field
    BY <1>1, a * b \in Int DEF Times, Field
<1>5. Times(a, b) = 0 => a = 0 \/ b = 0
    BY PrimeAssumption DEF Times
<1>6. Times(0, b) = 0 /\ Times(a, 0) = 0
    BY <1>1 DEF Times
<1> QED BY <1>2, <1>3, <1>4, <1>5, <1>6

\* The polynomial has the four tiers for its roots, and no other.
LEMMA TiersAreRoots ==
    ASSUME NEW v \in Field
    PROVE  IsValidTier(v) <=> v \in 0..3
<1>1. 0 \in Field /\ 1 \in Field /\ 2 \in Field /\ 3 \in Field /\ Prime \in Nat
      /\ v \in Nat /\ v < Prime
    BY PrimeAssumption DEF Field
<1> DEFINE p == Times(v, Minus(v, 1))
           q == Times(p, Minus(v, 2))
<1>2. Minus(v, 1) \in Field /\ Minus(v, 2) \in Field /\ Minus(v, 3) \in Field
    BY <1>1, FieldArithmetic
<1>3. /\ Minus(v, 1) = 0 <=> v = 1
      /\ Minus(v, 2) = 0 <=> v = 2
      /\ Minus(v, 3) = 0 <=> v = 3
    <2>1. ASSUME NEW k \in Field PROVE Minus(v, k) = 0 <=> v = k
        <3>1. Minus(v, k) = IF v >= k THEN v - k ELSE v - k + Prime
            BY FieldArithmetic
        <3>2. k \in Nat /\ k < Prime
            BY PrimeAssumption DEF Field
        <3> QED BY <1>1, <3>1, <3>2
    <2> QED BY <1>1, <2>1
<1>4. p \in Field /\ (p = 0 <=> v = 0 \/ v = 1)
    BY <1>1, <1>2, <1>3, FieldArithmetic
<1> HIDE DEF p
<1>5. q \in Field /\ (q = 0 <=> v = 0 \/ v = 1 \/ v = 2)
    BY <1>1, <1>2, <1>3, <1>4, FieldArithmetic
<1> HIDE DEF q
<1>6. Times(q, Minus(v, 3)) = 0 <=> v = 0 \/ v = 1 \/ v = 2 \/ v = 3
    BY <1>1, <1>2, <1>3, <1>5, FieldArithmetic
<1> QED BY <1>1, <1>6 DEF IsValidTier, p, q

\* Nobody claims more than a tier by wrapping around.
LEMMA TiersCompare ==
    ASSUME NEW tier \in Field, NEW min_tier \in Field
    PROVE  TiersHold(tier, min_tier)
            <=> tier \in 0..3 /\ min_tier \in 0..3 /\ tier >= min_tier
<1>1. tier \in Nat /\ min_tier \in Nat /\ tier < Prime /\ min_tier < Prime /\ Prime \in Nat
      /\ Prime > 6
    BY PrimeAssumption DEF Field
<1>2. /\ Minus(tier, min_tier) \in Field
      /\ Minus(tier, min_tier) =
            IF tier >= min_tier THEN tier - min_tier ELSE tier - min_tier + Prime
    BY FieldArithmetic
<1>3. TiersHold(tier, min_tier)
        <=> tier \in 0..3 /\ min_tier \in 0..3 /\ Minus(tier, min_tier) \in 0..3
    BY <1>2, TiersAreRoots DEF TiersHold
<1> QED BY <1>1, <1>2, <1>3

----------------------------------------------------------------------------
(* The invariant.                                                          *)

\* What is published and proved is as the actions make it.
Shapes ==
    /\ rosters \subseteq Rosters
    /\ \A tree \in trees :
        /\ tree.by \in Contributors /\ tree.text \in Texts
        /\ tree.epoch \in Epochs /\ tree.place \in Places
        /\ tree.leaves = [Filler EXCEPT ![tree.place] =
                            ObservationLeaf(IndicatorHash(tree.text), tree.epoch, Salt(tree.by))]
    /\ \A proof \in proofs :
        /\ proof.by \in Contributors /\ proof.text \in Texts /\ proof.public.epoch \in Epochs
        /\ proof.public.indicator_hash = IndicatorHash(proof.text)
        /\ proof.public.nullifier =
                NullifierOf(Secret(proof.by), IndicatorHash(proof.text), proof.public.epoch)

CircuitInv == Shapes /\ TierIsBacked /\ ObservationWasPublished

\* A prover's choices, what it has checked about them, and what it adds.
Proves(c, text, epoch, tree, roster, tier, min_tier, public, path, credential_path) ==
    /\ public = [indicator_hash |-> IndicatorHash(text), epoch |-> epoch,
                 root |-> Root(tree.leaves),
                 nullifier |-> NullifierOf(Secret(c), IndicatorHash(text), epoch),
                 min_tier |-> min_tier, credential_root |-> Root(RosterLeaves(roster))]
    /\ TiersHold(tier, min_tier)
    /\ FoldMerklePath(ObservationLeaf(IndicatorHash(text), epoch, Salt(c)), path)
            = Root(tree.leaves)
    /\ FoldMerklePath(CredentialLeaf(Secret(c), tier), credential_path)
            = Root(RosterLeaves(roster))
    /\ proofs' = proofs \cup {[by |-> c, text |-> text, public |-> public]}
    /\ UNCHANGED <<rosters, trees>>

LEMMA WhatIsProved ==
    ASSUME NEW c \in Contributors, ProveObservation(c)
    PROVE  \E text \in Texts, epoch \in Epochs, tree \in trees, roster \in rosters,
              tier \in Field, min_tier \in Field : \E public, path, credential_path :
            Proves(c, text, epoch, tree, roster, tier, min_tier, public, path, credential_path)
<1> DEFINE observed(text, epoch, tree) ==
                [indicator_hash |-> IndicatorHash(text), epoch |-> epoch, root |-> Root(tree.leaves)]
           claim(text, epoch, tree, roster, owner, min_tier) ==
                [indicator_hash |-> IndicatorHash(text), epoch |-> epoch, root |-> Root(tree.leaves),
                 nullifier |-> NullifierOf(Secret(owner), IndicatorHash(text), epoch),
                 min_tier |-> min_tier, credential_root |-> Root(RosterLeaves(roster))]
<1>1. PICK text \in Texts, epoch \in Epochs, tree \in trees :
        /\ \E path \in Paths(PublishedTrees) :
                ObservationHolds(observed(text, epoch, tree), Salt(c), path)
        /\ \E roster \in rosters, tier, min_tier \in Field, owner \in Contributors :
            LET public == claim(text, epoch, tree, roster, owner, min_tier)
            IN  /\ TiersHold(tier, min_tier)
                /\ NullifierHolds(public, Secret(c))
                /\ \E path \in Paths(PublishedTrees) : CredentialHolds(public, Secret(c), tier, path)
                /\ proofs' = proofs \cup {[by |-> c, text |-> text, public |-> public]}
    BY DEF ProveObservation
<1>2. PICK roster \in rosters, tier \in Field, min_tier \in Field, owner \in Contributors :
            LET public == claim(text, epoch, tree, roster, owner, min_tier)
            IN  /\ TiersHold(tier, min_tier)
                /\ NullifierHolds(public, Secret(c))
                /\ \E path \in Paths(PublishedTrees) : CredentialHolds(public, Secret(c), tier, path)
                /\ proofs' = proofs \cup {[by |-> c, text |-> text, public |-> public]}
    BY <1>1
<1>3. PICK path \in Paths(PublishedTrees) : ObservationHolds(observed(text, epoch, tree), Salt(c), path)
    BY <1>1
<1> DEFINE public == claim(text, epoch, tree, roster, owner, min_tier)
<1>4. PICK credential_path \in Paths(PublishedTrees) :
        CredentialHolds(public, Secret(c), tier, credential_path)
    BY <1>2
<1>5. public.nullifier = NullifierOf(Secret(c), IndicatorHash(text), epoch)
    BY <1>2 DEF NullifierHolds
<1>6. FoldMerklePath(ObservationLeaf(IndicatorHash(text), epoch, Salt(c)), path) = Root(tree.leaves)
    BY <1>3 DEF ObservationHolds
<1>7. FoldMerklePath(CredentialLeaf(Secret(c), tier), credential_path) = Root(RosterLeaves(roster))
    BY <1>4 DEF CredentialHolds
<1>8. UNCHANGED <<rosters, trees>>
    BY DEF ProveObservation
<1>9. /\ TiersHold(tier, min_tier)
      /\ proofs' = proofs \cup {[by |-> c, text |-> text, public |-> public]}
      /\ public = [indicator_hash |-> IndicatorHash(text), epoch |-> epoch,
                   root |-> Root(tree.leaves),
                   nullifier |-> NullifierOf(Secret(c), IndicatorHash(text), epoch),
                   min_tier |-> min_tier, credential_root |-> Root(RosterLeaves(roster))]
    BY <1>2, <1>5
<1> HIDE DEF public
<1>10. Proves(c, text, epoch, tree, roster, tier, min_tier, public, path, credential_path)
    BY <1>6, <1>7, <1>8, <1>9 DEF Proves
<1> QED BY <1>10

\* A path from a contributor's own observation to a published root goes to a tree that it
\* published itself.
LEMMA OwnLeaf ==
    ASSUME Shapes, NEW c \in Contributors, NEW text \in Texts, NEW epoch \in Epochs,
           NEW tree \in trees, NEW path,
           FoldMerklePath(ObservationLeaf(IndicatorHash(text), epoch, Salt(c)), path)
                = Root(tree.leaves)
    PROVE  tree.by = c /\ Normal[tree.text] = Normal[text] /\ tree.epoch = epoch
<1> DEFINE leaf == ObservationLeaf(IndicatorHash(text), epoch, Salt(c))
           own == ObservationLeaf(IndicatorHash(tree.text), tree.epoch, Salt(tree.by))
<1>1. /\ tree.text \in Texts /\ tree.epoch \in Epochs /\ tree.leaves = [Filler EXCEPT ![tree.place] = own]
    BY DEF Shapes
<1>2. PICK i \in 1..Leaves : leaf = tree.leaves[i]
    BY LeafUnderRoot
<1>3. tree.leaves[i] = own \/ tree.leaves[i] = Num(i)
    BY <1>1 DEF Filler
<1>4. leaf = own
    BY <1>2, <1>3, NumIsNoHash DEF ObservationLeaf
<1>5. /\ IndicatorHash(text) = IndicatorHash(tree.text)
      /\ Num(epoch) = Num(tree.epoch) /\ Salt(c) = Salt(tree.by)
    BY <1>4, PoseidonApart DEF ObservationLeaf
<1>6. epoch \in Field /\ tree.epoch \in Field
    BY <1>1, TextsAssumption
<1> QED BY <1>1, <1>5, <1>6, HashOfOneText, NumApart, SecretApart

\* ... and one from its own credential to a tree of an issuer that has it.
LEMMA OwnCredential ==
    ASSUME Shapes, NEW c, NEW tier \in Field, NEW roster \in rosters, NEW path,
           FoldMerklePath(CredentialLeaf(Secret(c), tier), path) = Root(RosterLeaves(roster))
    PROVE  \E i \in DOMAIN roster : roster[i].holder = c /\ roster[i].tier = tier
<1>1. roster \in Rosters /\ DOMAIN roster = 1..Leaves /\ \A i \in 1..Leaves : roster[i].tier \in 0..3
    BY TreesAssumption DEF Shapes
<1>2. PICK i \in 1..Leaves : CredentialLeaf(Secret(c), tier) = RosterLeaves(roster)[i]
    BY LeafUnderRoot
<1>3. CredentialLeaf(Secret(c), tier) = CredentialLeaf(Secret(roster[i].holder), roster[i].tier)
    BY <1>2 DEF RosterLeaves
<1>4. Secret(c) = Secret(roster[i].holder) /\ Num(tier) = Num(roster[i].tier)
    BY <1>3, PoseidonApart DEF CredentialLeaf
<1>5. roster[i].tier \in Field
    <2>1. \A t \in 0..3 : t \in Field
        BY PrimeAssumption DEF Field
    <2> QED BY <1>1, <2>1
<1> QED BY <1>1, <1>4, <1>5, NumApart, SecretApart

LEMMA ProofKeepsInv ==
    ASSUME CircuitInv, NEW c \in Contributors, ProveObservation(c)
    PROVE  CircuitInv'
<1>0. PICK text \in Texts, epoch \in Epochs, tree \in trees, roster \in rosters,
           tier \in Field, min_tier \in Field : \E public, path, credential_path :
        Proves(c, text, epoch, tree, roster, tier, min_tier, public, path, credential_path)
    BY WhatIsProved
<1>1. PICK public, path, credential_path :
        Proves(c, text, epoch, tree, roster, tier, min_tier, public, path, credential_path)
    BY <1>0
<1> DEFINE new == [by |-> c, text |-> text, public |-> public]
<1>2. /\ new.by = c /\ new.text = text /\ new.public = public
      /\ public.epoch = epoch /\ public.indicator_hash = IndicatorHash(text)
      /\ public.root = Root(tree.leaves) /\ public.min_tier = min_tier
      /\ public.credential_root = Root(RosterLeaves(roster))
      /\ public.nullifier = NullifierOf(Secret(c), IndicatorHash(text), epoch)
    BY <1>1 DEF Proves
<1>3. proofs' = proofs \cup {new} /\ rosters' = rosters /\ trees' = trees
    BY <1>1 DEF Proves
<1> HIDE DEF new
<1>4. Shapes /\ TierIsBacked /\ ObservationWasPublished
    BY DEF CircuitInv
<1>5. Shapes'
    BY <1>2, <1>3, <1>4 DEF Shapes
<1>6. TierIsBacked'
    <2>1. min_tier \in 0..3 /\ tier >= min_tier
        BY <1>1, TiersCompare DEF Proves
    <2>2. \E i \in DOMAIN roster : roster[i].holder = c /\ roster[i].tier = tier
        BY <1>1, <1>4, OwnCredential DEF Proves
    <2> QED BY <1>2, <1>3, <1>4, <2>1, <2>2 DEF TierIsBacked
<1>7. ObservationWasPublished'
    <2>1. tree.by = c /\ Normal[tree.text] = Normal[text] /\ tree.epoch = epoch
        BY <1>1, <1>4, OwnLeaf DEF Proves
    <2> QED BY <1>2, <1>3, <1>4, <2>1 DEF ObservationWasPublished
<1> QED BY <1>5, <1>6, <1>7 DEF CircuitInv

LEMMA CircuitNext == CircuitInv /\ [Next]_vars => CircuitInv'
<1> SUFFICES ASSUME CircuitInv, [Next]_vars PROVE CircuitInv'
    OBVIOUS
<1>0. Shapes /\ TierIsBacked /\ ObservationWasPublished
    BY DEF CircuitInv
<1>1. ASSUME NEW roster \in Rosters, PublishRoster(roster) PROVE CircuitInv'
    <2>1. rosters' = rosters \cup {roster} /\ UNCHANGED <<trees, proofs>>
        BY <1>1 DEF PublishRoster
    <2>2. Shapes'
        BY <1>0, <1>1, <2>1 DEF Shapes
    <2>3. TierIsBacked'
        BY <1>0, <2>1 DEF TierIsBacked
    <2>4. ObservationWasPublished'
        BY <1>0, <2>1 DEF ObservationWasPublished
    <2> QED BY <2>2, <2>3, <2>4 DEF CircuitInv
<1>2. ASSUME NEW c \in Contributors, PublishTree(c) PROVE CircuitInv'
    <2>1. PICK text \in Texts, epoch \in Epochs, place \in Places :
            trees' = trees \cup
                {[by |-> c, text |-> text, epoch |-> epoch, place |-> place,
                  leaves |-> [Filler EXCEPT ![place] =
                                ObservationLeaf(IndicatorHash(text), epoch, Salt(c))]]}
        BY <1>2 DEF PublishTree
    <2> DEFINE new == [by |-> c, text |-> text, epoch |-> epoch, place |-> place,
                       leaves |-> [Filler EXCEPT ![place] =
                                    ObservationLeaf(IndicatorHash(text), epoch, Salt(c))]]
    <2>2. /\ new.by = c /\ new.text = text /\ new.epoch = epoch /\ new.place = place
          /\ new.leaves = [Filler EXCEPT ![place] =
                                    ObservationLeaf(IndicatorHash(text), epoch, Salt(c))]
        OBVIOUS
    <2>3. trees' = trees \cup {new} /\ UNCHANGED <<rosters, proofs>>
        BY <1>2, <2>1 DEF PublishTree
    <2> HIDE DEF new
    <2>4. Shapes'
        BY <1>0, <2>2, <2>3 DEF Shapes
    <2>5. TierIsBacked'
        BY <1>0, <2>3 DEF TierIsBacked
    <2>6. ObservationWasPublished'
        BY <1>0, <2>3 DEF ObservationWasPublished
    <2> QED BY <2>4, <2>5, <2>6 DEF CircuitInv
<1>3. CASE UNCHANGED vars
    BY <1>0, <1>3 DEF vars, CircuitInv, Shapes, TierIsBacked, ObservationWasPublished
<1> QED BY <1>1, <1>2, <1>3, ProofKeepsInv DEF Next

LEMMA CircuitInvariant == Spec => []CircuitInv
<1>1. Init => CircuitInv
    BY DEF Init, CircuitInv, Shapes, TierIsBacked, ObservationWasPublished
<1> QED BY <1>1, CircuitNext, PTL DEF Spec

----------------------------------------------------------------------------
(* What a proof shows.                                                     *)

\* A verifier that sees a tier can rely on a credential of that tier, or a higher one, in the
\* tree of that root: for every prime, every depth and every witness that can be put
\* together of what is published.
THEOREM TiersAreBacked == Spec => []TierIsBacked
<1>1. CircuitInv => TierIsBacked
    BY DEF CircuitInv
<1> QED BY <1>1, CircuitInvariant, PTL

\* Whoever proves an observation has published it in the tree of that root.
THEOREM ObservationsWerePublished == Spec => []ObservationWasPublished
<1>1. CircuitInv => ObservationWasPublished
    BY DEF CircuitInv
<1> QED BY <1>1, CircuitInvariant, PTL

\* A nullifier stands for one contributor, one indicator and one epoch, wherever the bytes of
\* the indicators are cut into chunks.
THEOREM NullifiersAreApart == Spec => []OneNullifierEach
<1>1. Shapes => OneNullifierEach
    <2> SUFFICES ASSUME Shapes, NEW a \in proofs, NEW b \in proofs
                 PROVE  a.public.nullifier = b.public.nullifier <=>
                            /\ a.by = b.by
                            /\ Normal[a.text] = Normal[b.text]
                            /\ a.public.epoch = b.public.epoch
        BY DEF OneNullifierEach
    <2>1. /\ a.text \in Texts /\ b.text \in Texts
          /\ a.public.epoch \in Field /\ b.public.epoch \in Field
          /\ a.public.nullifier = Poseidon(Secret(a.by), IndicatorHash(a.text), Num(a.public.epoch))
          /\ b.public.nullifier = Poseidon(Secret(b.by), IndicatorHash(b.text), Num(b.public.epoch))
        BY TextsAssumption DEF Shapes, NullifierOf
    <2>2. IndicatorHash(a.text) = IndicatorHash(b.text) <=> Normal[a.text] = Normal[b.text]
        BY <2>1, HashOfOneText
    <2>3. ASSUME a.public.nullifier = b.public.nullifier
          PROVE  /\ a.by = b.by
                 /\ Normal[a.text] = Normal[b.text]
                 /\ a.public.epoch = b.public.epoch
        <3>1. /\ Secret(a.by) = Secret(b.by) /\ IndicatorHash(a.text) = IndicatorHash(b.text)
              /\ Num(a.public.epoch) = Num(b.public.epoch)
            <4>1. Poseidon(Secret(a.by), IndicatorHash(a.text), Num(a.public.epoch))
                    = Poseidon(Secret(b.by), IndicatorHash(b.text), Num(b.public.epoch))
                BY <2>1, <2>3
            <4> HIDE <2>1
            <4> QED BY <4>1, PoseidonApart
        <3> QED BY <2>1, <2>2, <3>1, NumApart, SecretApart
    <2> QED BY <2>1, <2>2, <2>3
<1>2. CircuitInv => OneNullifierEach
    BY <1>1 DEF CircuitInv
<1> QED BY <1>2, CircuitInvariant, PTL

\* An indicator hash stands for one normalized text, of whatever length.
THEOREM HashesAreApart == Spec => []IndicatorsKeptApart
<1>1. CircuitInv => IndicatorsKeptApart
    BY HashOfOneText DEF CircuitInv, Shapes, IndicatorsKeptApart
<1> QED BY <1>1, CircuitInvariant, PTL

\* Whoever has published an observation and holds a credential can prove the one with the
\* other, with the paths that build_tree gives.
THEOREM HonestProofsExist == Spec => []HonestProverSucceeds
<1>1. Shapes => HonestProverSucceeds
    <2> SUFFICES ASSUME Shapes, NEW tree \in trees, NEW roster \in rosters, NEW i \in 1..Leaves,
                        roster[i].holder = tree.by, NEW min_tier \in 0..roster[i].tier
                 PROVE
            Satisfied(
                [indicator_hash |-> IndicatorHash(tree.text), epoch |-> tree.epoch,
                 root |-> Root(tree.leaves),
                 nullifier |-> NullifierOf(Secret(tree.by), IndicatorHash(tree.text), tree.epoch),
                 min_tier |-> min_tier, credential_root |-> Root(RosterLeaves(roster))],
                [salt |-> Salt(tree.by), merkle_path |-> Path(tree.leaves, tree.place - 1),
                 credential_secret |-> Secret(tree.by), credential_tier |-> roster[i].tier,
                 credential_merkle_path |-> Path(RosterLeaves(roster), i - 1)])
        BY DEF HonestProverSucceeds
    <2>1. /\ tree.place \in 1..Leaves /\ roster[i].tier \in 0..3 /\ Leaves \in Nat
          /\ tree.leaves[tree.place] =
                ObservationLeaf(IndicatorHash(tree.text), tree.epoch, Salt(tree.by))
          /\ RosterLeaves(roster)[i] = CredentialLeaf(Secret(tree.by), roster[i].tier)
        <3>1. Depth \in 0..Depth
            BY TreesAssumption
        <3>2. Leaves \in Nat
            BY <3>1, NodesType DEF Leaves
        <3>3. tree.place \in 1..Leaves /\ roster \in Rosters
            BY TreesAssumption DEF Shapes
        <3>4. roster[i].tier \in 0..3
            BY <3>3, TreesAssumption
        <3>5. tree.leaves = [Filler EXCEPT ![tree.place] =
                ObservationLeaf(IndicatorHash(tree.text), tree.epoch, Salt(tree.by))]
            BY DEF Shapes
        <3>6. tree.place \in DOMAIN Filler
            BY <3>3 DEF Filler
        <3> QED BY <3>2, <3>3, <3>4, <3>5, <3>6 DEF RosterLeaves
    <2>2. FoldMerklePath(tree.leaves[tree.place], Path(tree.leaves, tree.place - 1))
            = Root(tree.leaves)
        BY <2>1, PathLeadsToRoot, tree.place - 1 \in 0..(Leaves - 1), (tree.place - 1) + 1 = tree.place
    <2>3. FoldMerklePath(RosterLeaves(roster)[i], Path(RosterLeaves(roster), i - 1))
            = Root(RosterLeaves(roster))
        BY <2>1, PathLeadsToRoot, i - 1 \in 0..(Leaves - 1), (i - 1) + 1 = i
    <2>4. TiersHold(roster[i].tier, min_tier)
        <3>1. /\ roster[i].tier \in Field /\ min_tier \in Field
              /\ min_tier \in 0..3 /\ roster[i].tier >= min_tier
            BY <2>1, PrimeAssumption DEF Field
        <3> QED BY <2>1, <3>1, TiersCompare
    <2> QED BY <2>1, <2>2, <2>3, <2>4
            DEF Satisfied, ObservationHolds, NullifierHolds, CredentialHolds
<1>2. CircuitInv => HonestProverSucceeds
    BY <1>1 DEF CircuitInv
<1> QED BY <1>2, CircuitInvariant, PTL

=============================================================================
