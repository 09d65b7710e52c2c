-------------------------- MODULE BPlusTree_theorems --------------------------
(***************************************************************************)
(* The bulk load builds a tree, so every step of the program keeps one;    *)
(* and what follows for the pages, the sizes and the path in work.         *)
(***************************************************************************)
EXTENDS BPlusTree_steps_proofs

-----------------------------------------------------------------------------
(***************************************************************************)
(* The tree of a bulk load.                                                *)
(***************************************************************************)

(* A function on 1 .. n is a sequence.                                     *)
ListOf(s, n, S) == n \in Nat /\ s \in [1 .. n -> S]

LEMMA ListIsSeq ==
  ASSUME NEW S, NEW s, NEW n, ListOf(s, n, S)
  PROVE  s \in Seq(S) /\ Len(s) = n
<1>1. n \in Nat /\ s \in [1 .. n -> S]
  BY DEF ListOf
<1>2. s \in Seq(S)
  BY <1>1, SeqDef
<1>3. DOMAIN s = 1 .. Len(s) /\ Len(s) \in Nat
  BY <1>2, LenProperties
<1>4. 1 .. Len(s) = 1 .. n
  BY <1>1, <1>3
<1>5. Len(s) = n
  <2>1. \A a, b \in Nat : a < b => b \in 1 .. b /\ b \notin 1 .. a
    OBVIOUS
  <2>. QED BY <1>1, <1>3, <1>4, <2>1
<1>. QED BY <1>2, <1>5

(* Leaves over the pieces of a list, and an index node over the leaves.    *)
TwoLevels(nd, s, m, c, off, keys) ==
  /\ Pieces(s, m, c, off)
  /\ DOMAIN nd = 1 .. m + 1
  /\ \A i \in 1 .. m : nd[i] = LeafNode(c[i], IF i = m THEN NoPage ELSE i + 1)
  /\ nd[m + 1] = IndexNode(keys, [i \in 1 .. m |-> i])
  /\ keys \in Seq(Int) /\ Len(keys) = m - 1
  /\ \A i \in 1 .. m - 1 : keys[i] = c[i + 1][1]

(* How the keys lie between the pieces.                                    *)
LEMMA PieceKeys ==
  ASSUME NEW nd, NEW s, Keys(s, Int), NEW m, NEW c, NEW off, NEW keys,
         TwoLevels(nd, s, m, c, off, keys)
  PROVE  /\ IsAscending(keys)
         /\ \A i \in 1 .. m : Keys(c[i], {p \in Int : InSlot(keys, i - 1, p)})
<1>1. /\ s \in Seq(Int) /\ IsAscending(s) /\ Len(s) \in Nat /\ \A x \in 1 .. Len(s) : s[x] \in Int
  BY LenProperties, ElementOfSeq DEF Keys
<1>2. /\ m \in Nat \ {0} /\ Len(keys) = m - 1 /\ \A i \in 1 .. m - 1 : keys[i] = c[i + 1][1]
      /\ \A i \in 1 .. m : /\ c[i] \in Seq(Int) /\ Len(c[i]) \in Nat \ {0}
                           /\ off[i] \in Nat /\ off[i] + Len(c[i]) <= Len(s)
                           /\ \A j \in 1 .. Len(c[i]) : c[i][j] = s[off[i] + j]
      /\ \A i, j \in 1 .. m : i < j => off[i] + Len(c[i]) <= off[j]
      /\ \A i \in 1 .. m - 1 : off[i + 1] = off[i] + Len(c[i])
  BY DEF TwoLevels, Pieces
<1>3. \A i \in 1 .. m : \A j \in 1 .. Len(c[i]) : off[i] + j \in 1 .. Len(s)
  <2>1. ASSUME NEW i \in 1 .. m, NEW j \in 1 .. Len(c[i]) PROVE off[i] + j \in 1 .. Len(s)
    <3>1. off[i] \in Nat /\ Len(c[i]) \in Nat /\ off[i] + Len(c[i]) <= Len(s)
      BY <1>2
    <3>. QED BY <1>1, <2>1, <3>1
  <2>. QED BY <2>1
<1>4. \A i \in 1 .. m : 1 \in 1 .. Len(c[i]) /\ off[i] + 1 \in 1 .. Len(s)
  BY <1>2, <1>3
<1>5. \A i \in 1 .. m - 1 : i + 1 \in 1 .. m /\ keys[i] = s[off[i + 1] + 1] /\ keys[i] \in Int
  BY <1>1, <1>2, <1>4
<1>6. ASSUME NEW i \in 1 .. m - 1, NEW j \in 1 .. m - 1, i < j PROVE keys[i] < keys[j]
  <2>1. PICK a, b : a = i + 1 /\ b = j + 1
    OBVIOUS
  <2>2. a \in 1 .. m /\ b \in 1 .. m /\ a < b
    BY <1>2, <1>6, <2>1
  <2>3. off[a] + 1 < off[b] + 1
    <3>1. off[a] + Len(c[a]) <= off[b] /\ Len(c[a]) \in Nat \ {0} /\ off[a] \in Nat /\ off[b] \in Nat
      BY <1>2, <2>2
    <3>. QED BY <3>1
  <2>. QED BY <1>1, <1>4, <1>5, <2>1, <2>2, <2>3 DEF IsAscending
<1>7. IsAscending(keys)
  BY <1>2, <1>6 DEF IsAscending
<1>8. ASSUME NEW i \in 1 .. m, NEW j \in 1 .. Len(c[i])
      PROVE  c[i][j] \in Int /\ InSlot(keys, i - 1, c[i][j])
  <2>1. c[i][j] = s[off[i] + j] /\ off[i] + j \in 1 .. Len(s) /\ off[i] \in Nat /\ Len(c[i]) \in Nat
    BY <1>2, <1>3
  <2>2. ASSUME i - 1 > 0 PROVE keys[i - 1] <= c[i][j]
    <3>1. i - 1 \in 1 .. m - 1 /\ (i - 1) + 1 = i
      BY <1>2, <2>2
    <3>2. keys[i - 1] = s[off[i] + 1] /\ off[i] + 1 \in 1 .. Len(s)
      BY <1>4, <1>5, <3>1
    <3>3. j = 1 \/ off[i] + 1 < off[i] + j
      BY <1>2, <2>1
    <3>. QED BY SMTT(30), <1>1, <2>1, <3>2, <3>3 DEF IsAscending
  <2>3. ASSUME i - 1 < Len(keys) PROVE c[i][j] < keys[(i - 1) + 1]
    <3>1. i \in 1 .. m - 1 /\ (i - 1) + 1 = i /\ i + 1 \in 1 .. m
      BY <1>2, <2>3
    <3>2. keys[i] = s[off[i + 1] + 1] /\ off[i + 1] + 1 \in 1 .. Len(s) /\ off[i + 1] = off[i] + Len(c[i])
      BY <1>2, <1>4, <1>5, <3>1
    <3>3. off[i] + j < off[i + 1] + 1
      <4> DEFINE a == off[i]  b == off[i + 1]  l == Len(c[i])
      <4>1. a \in Nat /\ l \in Nat /\ b = a + l /\ j \in 1 .. l
        BY <2>1, <3>2
      <4> HIDE DEF a, b, l
      <4>2. a + j < b + 1
        BY <4>1
      <4>. QED BY <4>2 DEF a, b
    <3>. QED BY <1>1, <2>1, <3>1, <3>2, <3>3 DEF IsAscending
  <2>4. c[i][j] \in Int
    BY <1>1, <2>1
  <2>. QED BY <2>2, <2>3, <2>4 DEF InSlot
<1>9. ASSUME NEW i \in 1 .. m PROVE IsAscending(c[i])
  <2>1. ASSUME NEW h \in 1 .. Len(c[i]), NEW j \in 1 .. Len(c[i]), h < j PROVE c[i][h] < c[i][j]
    <3>1. c[i][h] = s[off[i] + h] /\ off[i] + h \in 1 .. Len(s) /\ off[i] \in Nat
      BY <1>2, <1>3
    <3>2. c[i][j] = s[off[i] + j] /\ off[i] + j \in 1 .. Len(s)
      BY <1>2, <1>3
    <3>3. off[i] + h < off[i] + j
      BY <1>2, <2>1, <3>1
    <3>. QED BY <1>1, <3>1, <3>2, <3>3 DEF IsAscending
  <2>. QED BY <2>1 DEF IsAscending
<1>10. ASSUME NEW i \in 1 .. m PROVE Keys(c[i], {p \in Int : InSlot(keys, i - 1, p)})
  <2>1. \A j \in 1 .. Len(c[i]) : c[i][j] \in {p \in Int : InSlot(keys, i - 1, p)}
    BY <1>8
  <2>. QED BY <1>2, <1>9, <2>1 DEF Keys
<1>. QED BY <1>7, <1>10

(* They are a tree of height 2.                                            *)
LEMMA TwoLevelTree ==
  ASSUME NEW st, NEW nd, NEW s, Keys(s, Int), Holds(st, s, Int), NEW m, NEW c, NEW off, NEW keys,
         TwoLevels(nd, s, m, c, off, keys)
  PROVE  \E lev, rng : /\ Shape(nd, m + 1, 2, st, lev, rng)
                       /\ lev[m + 1] = 2 /\ \A i \in 1 .. m : lev[i] = 1
<1> DEFINE R(i) == {p \in Int : InSlot(keys, i - 1, p)}
           lev == [i \in 1 .. m + 1 |-> IF i = m + 1 THEN 2 ELSE 1]
           rng == [i \in 1 .. m + 1 |-> IF i = m + 1 THEN Int ELSE R(i)]
<1>1. /\ m \in Nat \ {0} /\ keys \in Seq(Int) /\ Len(keys) = m - 1
      /\ \A i \in 1 .. m - 1 : keys[i] = c[i + 1][1]
      /\ \A i \in 1 .. m : c[i] \in Seq(Int) /\ Len(c[i]) \in Nat \ {0}
      /\ DOMAIN nd = 1 .. m + 1
      /\ \A i \in 1 .. m : nd[i] = LeafNode(c[i], IF i = m THEN NoPage ELSE i + 1)
      /\ nd[m + 1] = IndexNode(keys, [i \in 1 .. m |-> i])
  BY DEF TwoLevels, Pieces
<1>2. IsAscending(keys) /\ \A i \in 1 .. m : Keys(c[i], R(i))
  BY PieceKeys
<1>3. \A i \in 1 .. m - 1 : keys[i] \in Int
  BY <1>1, ElementOfSeq
<1>4. \A i \in 1 .. m : /\ i \in 1 .. m + 1 /\ i # m + 1 /\ i - 1 \in 0 .. Len(keys)
                        /\ lev[i] = 1 /\ rng[i] = R(i)
  BY <1>1
<1>5. m + 1 \in 1 .. m + 1 /\ lev[m + 1] = 2 /\ rng[m + 1] = Int
  BY <1>1
<1>6. \A n \in 1 .. m + 1 : n = m + 1 \/ n \in 1 .. m
  BY <1>1
<1> HIDE DEF lev, rng
<1>7. ASSUME NEW i \in 1 .. m PROVE Holds(st, c[i], R(i))
  <2>1. ASSUME NEW p \in R(i), p \in st PROVE \E j \in 1 .. Len(c[i]) : c[i][j] = p
    <3>1. PICK x \in 1 .. Len(s) : s[x] = p
      BY <2>1 DEF Holds
    <3>2. PICK h \in 1 .. m : \E j \in 1 .. Len(c[h]) : x = off[h] + j
      BY DEF TwoLevels, Pieces
    <3>3. PICK j \in 1 .. Len(c[h]) : x = off[h] + j
      BY <3>2
    <3>8. c[h][j] = p
      <4>1. c[h][j] = s[off[h] + j]
        BY DEF TwoLevels, Pieces
      <4>. QED BY <3>1, <3>3, <4>1
    <3>4. p \in R(h)
      BY <1>2, <3>8 DEF Keys
    <3>5. /\ p \in Int /\ InSlot(keys, i - 1, p) /\ InSlot(keys, h - 1, p)
      BY <3>4
    <3>6. i - 1 = h - 1
      BY <1>1, <1>2, <1>4, <3>5, SlotUnique
    <3>7. i = h
      BY <1>1, <3>6
    <3>. QED BY <3>3, <3>7, <3>8
  <2>2. ASSUME NEW p \in R(i), NEW j \in 1 .. Len(c[i]), c[i][j] = p PROVE p \in st
    <3>1. off[i] + j \in 1 .. Len(s) /\ c[i][j] = s[off[i] + j]
      <4>1. off[i] \in Nat /\ off[i] + Len(c[i]) <= Len(s) /\ Len(c[i]) \in Nat /\ Len(s) \in Nat
        BY LenProperties DEF TwoLevels, Pieces, Keys
      <4>2. c[i][j] = s[off[i] + j]
        BY DEF TwoLevels, Pieces
      <4>. QED BY <2>2, <4>1, <4>2
    <3>. QED BY <2>2, <3>1 DEF Holds
  <2>. QED BY <2>1, <2>2 DEF Holds
<1>8. ASSUME NEW i \in 1 .. m PROVE IsRange(R(i))
  <2>1. c[i][1] \in R(i)
    <3>1. 1 \in 1 .. Len(c[i])
      BY <1>1
    <3>. QED BY <1>2, <3>1 DEF Keys
  <2>2. ASSUME NEW p \in R(i), NEW q \in R(i), NEW x \in Int, p <= x, x <= q PROVE x \in R(i)
    <3>1. ASSUME i - 1 > 0 PROVE keys[i - 1] <= x
      <4>1. keys[i - 1] <= p /\ keys[i - 1] \in Int /\ p \in Int
        BY <1>1, <1>3, <3>1 DEF InSlot
      <4>. QED BY <2>2, <4>1
    <3>2. ASSUME i - 1 < Len(keys) PROVE x < keys[(i - 1) + 1]
      <4>1. q < keys[(i - 1) + 1] /\ keys[(i - 1) + 1] \in Int /\ q \in Int
        BY <1>1, <1>3, <3>2 DEF InSlot
      <4>. QED BY <2>2, <4>1
    <3>. QED BY <3>1, <3>2 DEF InSlot
  <2>. QED BY <2>1, <2>2 DEF IsRange
<1>9. ASSUME NEW i \in 1 .. m PROVE NextOK(nd, lev, rng, i)
  <2>1. CASE i = m
    <3>1. nd[i].sibling = NoPage
      BY <1>1, <2>1, LeafNodeFacts
    <3>2. ASSUME NEW p \in R(i), NEW x \in Int, p <= x PROVE x \in R(i)
      <4>1. ~ (i - 1 < Len(keys))
        BY <1>1, <2>1
      <4>2. ASSUME i - 1 > 0 PROVE keys[i - 1] <= x
        <5>1. keys[i - 1] <= p /\ keys[i - 1] \in Int /\ p \in Int
          BY <1>1, <1>3, <4>2 DEF InSlot
        <5>. QED BY <3>2, <5>1
      <4>. QED BY <4>1, <4>2 DEF InSlot
    <3>3. rng[i] = R(i)
      BY <1>4
    <3>. QED BY <3>1, <3>2, <3>3 DEF NextOK
  <2>2. CASE i # m
    <3>1. /\ i \in 1 .. m - 1 /\ i + 1 \in 1 .. m /\ i + 1 \in 1 .. m + 1 /\ i + 1 # NoPage
          /\ (i - 1) + 1 = i /\ (i + 1) - 1 = i
      BY <1>1, <2>2, BuildsAssumption
    <3>2. nd[i].sibling = i + 1
      BY <1>1, <2>2, LeafNodeFacts
    <3>3. keys[i] = c[i + 1][1] /\ keys[i] \in Int
      BY <1>1, <1>3, <3>1
    <3>4. keys[i] \in R(i + 1)
      <4>1. PICK h : h = i + 1
        OBVIOUS
      <4>2. 1 \in 1 .. Len(c[h]) /\ Keys(c[h], R(h))
        <5>1. h \in 1 .. m
          BY <3>1, <4>1
        <5>2. Keys(c[h], R(h))
          BY <1>2, <5>1
        <5>3. Len(c[h]) \in Nat \ {0}
          BY <1>1, <5>1
        <5>. QED BY <5>2, <5>3
      <4>3. c[h][1] \in R(h)
        BY <4>2 DEF Keys
      <4> HIDE DEF R
      <4>. QED BY <3>3, <4>1, <4>3
    <3>5. keys[i] \notin R(i)
      <4>1. ASSUME InSlot(keys, i - 1, keys[i]) PROVE FALSE
        <5>1. i - 1 < Len(keys)
          BY <1>1, <3>1
        <5>2. keys[i] < keys[i]
          BY <3>1, <4>1, <5>1 DEF InSlot
        <5>. QED BY <3>3, <5>2
      <4>. QED BY <4>1
    <3>6. keys[i] - 1 \in R(i)
      <4>1. ASSUME i - 1 > 0 PROVE keys[i - 1] <= keys[i] - 1
        <5>1. i - 1 \in 1 .. m - 1 /\ i - 1 < i
          BY <1>1, <3>1, <4>1
        <5>2. keys[i - 1] < keys[i] /\ keys[i - 1] \in Int
          BY <1>1, <1>2, <1>3, <3>1, <5>1 DEF IsAscending
        <5>. QED BY <3>3, <5>2
      <4>2. keys[i] - 1 < keys[(i - 1) + 1] /\ keys[i] - 1 \in Int
        BY <3>1, <3>3
      <4>. QED BY <4>1, <4>2 DEF InSlot
    <3>7. lev[i + 1] = 1 /\ rng[i + 1] = R(i + 1) /\ rng[i] = R(i)
      BY <1>4, <3>1
    <3> HIDE DEF R
    <3>8. \E b \in Int : b \in rng[i + 1] /\ b \notin rng[i] /\ b - 1 \in rng[i]
      BY <3>3, <3>4, <3>5, <3>6, <3>7
    <3>. QED BY <1>1, <3>1, <3>2, <3>7, <3>8 DEF NextOK
  <2>. QED BY <2>1, <2>2
<1>10. ASSUME NEW i \in 1 .. m PROVE NodeOK(nd, st, lev, rng, i)
  <2>1. nd[i].data = c[i] /\ nd[i].children = <<>>
    BY <1>1, LeafNodeFacts
  <2>2. lev[i] = 1 /\ rng[i] = R(i)
    BY <1>4
  <2>3. Keys(c[i], R(i)) /\ Holds(st, c[i], R(i))
    BY <1>2, <1>7
  <2> HIDE DEF R
  <2>. QED BY <1>9, <2>1, <2>2, <2>3 DEF NodeOK
<1> DEFINE ch == [i \in 1 .. m |-> i]
<1>11. ch \in Seq(Nat) /\ Len(ch) = m /\ \A i \in 1 .. m : ch[i] = i
  <2>1. ListOf(ch, m, Nat)
    BY <1>1 DEF ListOf
  <2>2. \A i \in 1 .. m : ch[i] = i
    OBVIOUS
  <2> HIDE DEF ch
  <2>3. ch \in Seq(Nat) /\ Len(ch) = m
    BY ONLY <2>1, ListIsSeq
  <2>. QED BY <2>2, <2>3
<1>12. NodeOK(nd, st, lev, rng, m + 1)
  <2>1. nd[m + 1].data = keys /\ nd[m + 1].children = ch
    BY <1>1, IndexNodeFacts
  <2> HIDE DEF ch
  <2>2. Keys(keys, Int)
    BY <1>1, <1>2, <1>3 DEF Keys
  <2>3. ASSUME NEW i \in 0 .. Len(keys) PROVE Below(DOMAIN nd, lev, rng, ch[i + 1], keys, i, 2, Int)
    <3>1. i + 1 \in 1 .. m /\ (i + 1) - 1 = i
      BY <1>1, <2>3
    <3>2. ch[i + 1] = i + 1 /\ i + 1 \in DOMAIN nd /\ lev[i + 1] = 1 /\ rng[i + 1] = R(i + 1)
      BY <1>1, <1>4, <1>11, <3>1
    <3>3. \A p \in Int : p \in R(i + 1) <=> InSlot(keys, i, p)
      BY <3>1
    <3> HIDE DEF R
    <3>. QED BY <3>2, <3>3 DEF Below
  <2>4. Len(ch) = Len(keys) + 1
    BY <1>1, <1>11
  <2>5. Fan(DOMAIN nd, lev, rng, keys, ch, 2, Int)
    BY <1>11, <2>3, <2>4 DEF Fan
  <2>. QED BY <1>5, <2>1, <2>2, <2>5 DEF NodeOK
<1>13. NodesOK(nd, st, lev, rng)
  BY <1>1, <1>6, <1>10, <1>12 DEF NodesOK
<1>14. Cells(nd, 2, lev, rng)
  <2>1. IsFiniteSet(DOMAIN nd) /\ DOMAIN nd \subseteq Nat \ {0}
    BY <1>1, FS_Interval
  <2>2. \A n \in DOMAIN nd : nd[n] \in NodeType /\ lev[n] \in 1 .. 2 /\ IsRange(rng[n])
    <3>1. nd[m + 1] \in NodeType /\ lev[m + 1] \in 1 .. 2 /\ IsRange(rng[m + 1])
      <4>1. IsRange(Int)
        <5>1. 0 \in Int
          OBVIOUS
        <5>. QED BY <5>1 DEF IsRange
      <4>. QED BY <1>1, <1>5, <1>11, <4>1, IndexNodeFacts
    <3>2. ASSUME NEW i \in 1 .. m PROVE nd[i] \in NodeType /\ lev[i] \in 1 .. 2 /\ IsRange(rng[i])
      <4>1. nd[i] \in NodeType
        <5>1. (IF i = m THEN NoPage ELSE i + 1) \in Nat \cup {NoPage} /\ c[i] \in Seq(Int)
          BY <1>1
        <5>2. LeafNode(c[i], IF i = m THEN NoPage ELSE i + 1) \in NodeType
          BY <5>1, LeafNodeFacts
        <5>. QED BY <1>1, <5>2
      <4>2. IsRange(R(i))
        BY <1>8
      <4> HIDE DEF R
      <4>. QED BY <1>4, <4>1, <4>2
    <3>. QED BY <1>1, <1>6, <3>1, <3>2
  <2>3. ASSUME NEW n \in 1 .. m, NEW h \in 1 .. m, NEW p \in Int, p \in rng[n], p \in rng[h]
        PROVE  n = h
    <3>1. InSlot(keys, n - 1, p) /\ InSlot(keys, h - 1, p)
      BY <1>4, <2>3
    <3>2. n - 1 = h - 1
      BY <1>1, <1>2, <1>4, <3>1, SlotUnique
    <3>. QED BY <1>1, <3>2
  <2>4. \A n, h \in DOMAIN nd : \A p \in Int :
          lev[n] = lev[h] /\ p \in rng[n] /\ p \in rng[h] => n = h
    <3>1. \A n \in 1 .. m : lev[n] # lev[m + 1]
      BY <1>4, <1>5
    <3>2. \A n, h \in 1 .. m + 1 : lev[n] = lev[h] => n = h \/ (n \in 1 .. m /\ h \in 1 .. m)
      BY <1>6, <3>1
    <3>. QED BY <1>1, <2>3, <3>2
  <2>5. ASSUME NEW p \in Int PROVE \E n \in DOMAIN nd : lev[n] = 1 /\ p \in rng[n]
    <3>1. PICK k \in 0 .. Len(keys) : InSlot(keys, k, p)
      BY <1>1, SlotExists
    <3>2. k + 1 \in 1 .. m /\ (k + 1) - 1 = k
      BY <1>1
    <3>3. p \in R(k + 1)
      BY <3>1, <3>2
    <3> HIDE DEF R
    <3>. QED BY ZenonT(30), <1>1, <1>4, <3>2, <3>3
  <2>6. \A k \in 1 .. 2 : \A p \in Int : \E n \in DOMAIN nd : lev[n] = k /\ p \in rng[n]
    <3>1. \A p \in Int : \E n \in DOMAIN nd : lev[n] = 2 /\ p \in rng[n]
      BY <1>1, <1>5
    <3>2. \A k \in 1 .. 2 : k = 1 \/ k = 2
      OBVIOUS
    <3>. QED BY <2>5, <3>1, <3>2
  <2>. QED BY <2>1, <2>2, <2>4, <2>6 DEF Cells
<1>15. Shape(nd, m + 1, 2, st, lev, rng)
  BY <1>1, <1>5, <1>13, <1>14 DEF Shape
<1>. QED BY <1>4, <1>5, <1>15

(* The lowest level of a bulk load.                                        *)
LowestLevel(b, m, c) ==
  /\ m \in Nat \ {0}
  /\ b.height = 1
  /\ b.node \in Seq(NodeType) /\ Len(b.node) = m
  /\ \A i \in 1 .. m : b.node[i] = LeafNode(c[i], IF i = m THEN NoPage ELSE i + 1)
  /\ b.level \in Seq([page : Nat, first : Int]) /\ Len(b.level) = m
  /\ \A i \in 1 .. m : b.level[i] = [page |-> i, first |-> c[i][1]]

LEMMA LeavesFacts ==
  ASSUME NEW s, s \in Seq(Int), Len(s) > 0, LeafSplit \in Nat \ {0}
  PROVE  \E m, c, off : /\ m = (Len(s) + LeafSplit - 1) \div LeafSplit
                        /\ Pieces(s, m, c, off)
                        /\ \A i \in 1 .. m : Len(c[i]) \in 1 .. LeafSplit
                        /\ LowestLevel(Leaves(s), m, c)
<1> DEFINE c == Chunks(s, LeafSplit)
<1>1. PICK m, off : /\ m = (Len(s) + LeafSplit - 1) \div LeafSplit
                    /\ c = [i \in 1 .. m |-> c[i]]
                    /\ Pieces(s, m, c, off)
                    /\ \A i \in 1 .. m : Len(c[i]) \in 1 .. LeafSplit
  BY ChunkFacts
<1> DEFINE next(i) == IF i = Len(c) THEN NoPage ELSE i + 1
           nd == [i \in 1 .. Len(c) |-> LeafNode(c[i], next(i))]
           lv == [i \in 1 .. Len(c) |-> [page |-> i, first |-> c[i][1]]]
<1>2. Leaves(s) = [node |-> nd, level |-> lv, height |-> 1]
  BY DEF Leaves
<1> HIDE DEF c
<1>3. m \in Nat \ {0} /\ \A i \in 1 .. m : c[i] \in Seq(Int) /\ Len(c[i]) \in Nat \ {0}
  BY <1>1 DEF Pieces
<1>4. Len(c) = m
  <2>1. ListOf(c, m, Seq(Int))
    BY <1>1, <1>3 DEF ListOf
  <2>. QED BY <2>1, ListIsSeq
<1>5. ListOf(nd, m, NodeType)
  <2>1. ASSUME NEW i \in 1 .. m PROVE LeafNode(c[i], next(i)) \in NodeType
    <3>1. next(i) \in Nat \cup {NoPage}
      BY <1>3
    <3> HIDE DEF next
    <3>. QED BY <1>3, <3>1, LeafNodeFacts
  <2> HIDE DEF next
  <2>. QED BY <1>3, <1>4, <2>1 DEF ListOf
<1>6. ListOf(lv, m, [page : Nat, first : Int])
  <2>1. ASSUME NEW i \in 1 .. m PROVE c[i][1] \in Int
    <3>1. 1 \in 1 .. Len(c[i])
      BY <1>3
    <3>. QED BY <1>3, <3>1, ElementOfSeq
  <2>. QED BY <1>3, <1>4, <2>1 DEF ListOf
<1>7. \A i \in 1 .. m : nd[i] = LeafNode(c[i], IF i = m THEN NoPage ELSE i + 1)
  BY <1>4
<1>8. \A i \in 1 .. m : lv[i] = [page |-> i, first |-> c[i][1]]
  BY <1>4
<1> HIDE DEF nd, lv, next
<1>9. nd \in Seq(NodeType) /\ Len(nd) = m
  BY <1>5, ListIsSeq
<1>10. lv \in Seq([page : Nat, first : Int]) /\ Len(lv) = m
  BY <1>6, ListIsSeq
<1>11. Leaves(s).node = nd /\ Leaves(s).level = lv /\ Leaves(s).height = 1
  BY <1>2
<1>12. LowestLevel(Leaves(s), m, c)
  BY <1>3, <1>7, <1>8, <1>9, <1>10, <1>11 DEF LowestLevel
<1>. QED BY <1>1, <1>12

(* A list that fits into one chunk.                                        *)
LEMMA OneChunk ==
  ASSUME NEW S, NEW s, s \in Seq(S), NEW k \in Nat \ {0}, Len(s) \in 1 .. k
  PROVE  /\ Len(Chunks(s, k)) = 1 /\ Chunks(s, k)[1] \in Seq(S)
         /\ Len(Chunks(s, k)[1]) = Len(s)
         /\ \A j \in 1 .. Len(s) : Chunks(s, k)[1][j] = s[j]
<1> DEFINE n == Len(s)  q == (n + k - 1) \div k
           c == [i \in 1 .. q |-> SubSeq(s, (i - 1) * k + 1, Min({i * k, n}))]
<1>1. q = 1
  <2>1. n \in Nat \ {0} /\ n <= k
    OBVIOUS
  <2> HIDE DEF n
  <2>2. q \in Nat \ {0} /\ (q - 1) * k < n
    BY <2>1, RoundedUp
  <2> HIDE DEF q
  <2>3. ASSUME q # 1 PROVE FALSE
    <3>1. q - 1 \in Nat \ {0} /\ 0 \in Nat /\ 0 < q - 1
      BY <2>2, <2>3
    <3>2. 0 * k + k <= (q - 1) * k /\ (q - 1) * k \in Nat /\ 0 * k = 0
      BY <3>1, TimesMonotone
    <3> DEFINE x == (q - 1) * k
    <3>3. k <= x /\ x \in Nat /\ x < n
      BY <2>2, <3>2
    <3> HIDE DEF x
    <3>. QED BY <2>1, <3>3
  <2>. QED BY <2>3
<1>2. Chunks(s, k) = c
  BY DEF Chunks
<1>3. (1 - 1) * k + 1 = 1 /\ Min({1 * k, n}) = n
  <2>1. (1 - 1) * k + 1 = 1 /\ 1 * k = k /\ n \in Nat /\ n <= k
    OBVIOUS
  <2> HIDE DEF n
  <2>. QED BY <2>1 DEF Min
<1> HIDE DEF q
<1>4. c = [i \in 1 .. 1 |-> SubSeq(s, (i - 1) * k + 1, Min({i * k, n}))]
  BY <1>1
<1>5. c[1] = SubSeq(s, 1, n) /\ c \in [1 .. 1 -> {c[1]}]
  <2> DEFINE E(i) == SubSeq(s, (i - 1) * k + 1, Min({i * k, n}))
  <2>1. c = [i \in 1 .. 1 |-> E(i)]
    BY <1>4
  <2>2. E(1) = SubSeq(s, 1, n)
    BY <1>3
  <2> HIDE DEF E, c, n
  <2>3. c[1] = E(1) /\ c \in [1 .. 1 -> {c[1]}]
    BY <2>1
  <2>. QED BY <2>2, <2>3
<1> HIDE DEF c, n
<1>6. SubSeq(s, 1, n) \in Seq(S) /\ Len(SubSeq(s, 1, n)) = n
      /\ \A j \in 1 .. n : SubSeq(s, 1, n)[j] = s[j]
  <2>1. n \in 0 .. Len(s)
    BY DEF n
  <2>. QED BY <2>1, PrefixFacts
<1>7. Len(c) = 1
  <2>1. ListOf(c, 1, Seq(S))
    <3>1. {c[1]} \subseteq Seq(S)
      BY <1>5, <1>6
    <3>. QED BY <1>5, <3>1 DEF ListOf
  <2> HIDE DEF c
  <2>. QED BY <2>1, ListIsSeq
<1>. QED BY <1>2, <1>5, <1>6, <1>7 DEF n

(* The level above it, if it needs only one node.                          *)
UpperLevel(b, s, m, c, off) ==
  /\ Len(b.level) = 1 /\ b.level[1].page = m + 1 /\ b.height = 2
  /\ \E keys : TwoLevels(b.node, s, m, c, off, keys)

LEMMA ParentsFacts ==
  ASSUME NEW b, NEW s, NEW m, NEW c, NEW off, Pieces(s, m, c, off), LowestLevel(b, m, c),
         IndexSplit \in Nat \ {0}, m <= IndexSplit + 1
  PROVE  UpperLevel(Parents(b), s, m, c, off)
<1> DEFINE Cell == [page : Nat, first : Int]
           k == IndexSplit + 1
           groups == Chunks(b.level, k)
           index(g) == IndexNode([i \in 1 .. Len(g) - 1 |-> g[i + 1].first],
                                 [i \in 1 .. Len(g) |-> g[i].page])
           top == [i \in 1 .. Len(groups) |-> index(groups[i])]
           lv == [i \in 1 .. Len(groups) |-> [page |-> Len(b.node) + i, first |-> groups[i][1].first]]
<1>1. Parents(b) = [node |-> b.node \o top, level |-> lv, height |-> b.height + 1]
  BY DEF Parents
<1>2. /\ m \in Nat \ {0} /\ b.height = 1
      /\ b.node \in Seq(NodeType) /\ Len(b.node) = m
      /\ \A i \in 1 .. m : b.node[i] = LeafNode(c[i], IF i = m THEN NoPage ELSE i + 1)
      /\ b.level \in Seq(Cell) /\ Len(b.level) = m
      /\ \A i \in 1 .. m : b.level[i] = [page |-> i, first |-> c[i][1]]
  BY DEF LowestLevel
<1>3. k \in Nat \ {0} /\ m \in 1 .. k
  BY <1>2
<1> HIDE DEF k, Cell
<1>4. /\ Len(groups) = 1 /\ groups[1] \in Seq(Cell) /\ Len(groups[1]) = m
      /\ \A j \in 1 .. m : groups[1][j] = b.level[j]
  BY ONLY <1>2, <1>3, OneChunk
<1> HIDE DEF groups
<1> DEFINE g == groups[1]
           keys == [i \in 1 .. m - 1 |-> g[i + 1].first]
           ch == [i \in 1 .. m |-> g[i].page]
<1>5. /\ DOMAIN lv = 1 .. 1 /\ lv \in [1 .. 1 -> {lv[1]}] /\ lv[1].page = m + 1
      /\ DOMAIN top = 1 .. 1 /\ top[1] = IndexNode(keys, ch)
  <2>1. /\ lv = [i \in 1 .. 1 |-> [page |-> m + i, first |-> groups[i][1].first]]
        /\ top = [i \in 1 .. 1 |-> index(groups[i])]
    BY <1>2, <1>4
  <2>2. index(g) = IndexNode(keys, ch)
    BY <1>4
  <2> DEFINE cell(i) == [page |-> m + i, first |-> groups[i][1].first]
  <2>3. lv = [i \in 1 .. 1 |-> cell(i)] /\ cell(1).page = m + 1
    BY <2>1
  <2> HIDE DEF index, lv, top, cell
  <2>4. lv[1] = cell(1) /\ DOMAIN lv = 1 .. 1
    BY <2>3
  <2>5. top[1] = index(g) /\ DOMAIN top = 1 .. 1
    BY <2>1
  <2>6. lv \in [1 .. 1 -> {lv[1]}]
    BY <2>3
  <2>7. lv[1].page = m + 1
    BY <2>3, <2>4
  <2>. QED BY <2>2, <2>4, <2>5, <2>6, <2>7
<1>6. \A i \in 1 .. m : g[i].page = i /\ g[i].first = c[i][1]
  <2>1. ASSUME NEW i \in 1 .. m PROVE g[i].page = i /\ g[i].first = c[i][1]
    <3>1. g[i] = b.level[i] /\ b.level[i] = [page |-> i, first |-> c[i][1]]
      BY <1>2, <1>4
    <3> HIDE DEF g
    <3>. QED BY ONLY <3>1
  <2>. QED BY <2>1
<1>7. ch = [i \in 1 .. m |-> i]
  <2> HIDE DEF g
  <2>. QED BY <1>6
<1>8. \A i \in 1 .. m - 1 : keys[i] = c[i + 1][1] /\ keys[i] \in Int
  <2>1. ASSUME NEW i \in 1 .. m - 1 PROVE keys[i] = c[i + 1][1] /\ c[i + 1][1] \in Int
    <3>1. PICK h : h = i + 1
      OBVIOUS
    <3>2. h \in 1 .. m
      BY <1>2, <3>1
    <3>3. c[h] \in Seq(Int) /\ Len(c[h]) \in Nat \ {0}
      BY <3>2 DEF Pieces
    <3>4. 1 \in 1 .. Len(c[h])
      BY <3>3
    <3>5. c[h][1] \in Int
      BY <3>3, <3>4, ElementOfSeq
    <3>6. keys[i] = g[h].first
      BY <3>1
    <3>7. g[h].first = c[h][1]
      BY <1>6, <3>2
    <3> HIDE DEF keys, g
    <3>. QED BY <3>1, <3>5, <3>6, <3>7
  <2> HIDE DEF keys
  <2>. QED BY <2>1
<1>9. keys \in Seq(Int) /\ Len(keys) = m - 1
  <2>1. m - 1 \in Nat
    BY <1>2
  <2>2. DOMAIN keys = 1 .. m - 1 /\ keys = [i \in 1 .. m - 1 |-> keys[i]]
    OBVIOUS
  <2> HIDE DEF keys
  <2>3. ListOf(keys, m - 1, Int)
    BY <1>8, <2>1, <2>2 DEF ListOf
  <2>. QED BY <2>3, ListIsSeq
<1>10. top \in Seq(NodeType) /\ Len(top) = 1
  <2>1. top = [i \in 1 .. 1 |-> top[i]]
    BY <1>4
  <2>2. ch \in Seq(Nat)
    <3>1. ListOf(ch, m, Nat)
      BY <1>2, <1>7 DEF ListOf
    <3> HIDE DEF ch
    <3>. QED BY <3>1, ListIsSeq
  <2> HIDE DEF ch, keys
  <2>3. top[1] \in NodeType
    BY <1>5, <1>9, <2>2, IndexNodeFacts
  <2> HIDE DEF top
  <2>4. ListOf(top, 1, NodeType)
    BY <2>1, <2>3 DEF ListOf
  <2>. QED BY <2>4, ListIsSeq
<1>11. Len(lv) = 1
  <2> HIDE DEF lv
  <2>1. ListOf(lv, 1, {lv[1]})
    BY <1>5 DEF ListOf
  <2>. QED BY <2>1, ListIsSeq
<1> HIDE DEF top, lv, g, keys
<1> DEFINE nd == b.node \o top
<1>12. nd \in Seq(NodeType) /\ Len(nd) = m + 1
       /\ (\A i \in 1 .. m : nd[i] = b.node[i]) /\ nd[m + 1] = top[1]
  <2>1. /\ nd \in Seq(NodeType) /\ Len(nd) = Len(b.node) + Len(top)
        /\ \A i \in 1 .. Len(b.node) + Len(top) :
             nd[i] = IF i <= Len(b.node) THEN b.node[i] ELSE top[i - Len(b.node)]
    <3> DEFINE low == b.node
    <3>1. low \in Seq(NodeType) /\ top \in Seq(NodeType)
      BY <1>2, <1>10
    <3> HIDE DEF low
    <3>. QED BY ONLY <3>1, ConcatProperties DEF nd, low
  <2> HIDE DEF nd
  <2>2. \A i \in 1 .. m + 1 : nd[i] = IF i <= m THEN b.node[i] ELSE top[i - m]
    BY <1>2, <1>10, <2>1
  <2>3. \A i \in 1 .. m : i \in 1 .. m + 1 /\ i <= m
    BY <1>2
  <2>4. m + 1 \in 1 .. m + 1 /\ ~ (m + 1 <= m) /\ (m + 1) - m = 1
    BY <1>2
  <2>. QED BY <1>2, <1>10, <2>1, <2>2, <2>3, <2>4
<1> HIDE DEF nd
<1>13. DOMAIN nd = 1 .. m + 1
  BY <1>12, LenProperties
<1>14. nd[m + 1] = IndexNode(keys, [i \in 1 .. m |-> i])
  BY <1>5, <1>7, <1>12
<1>15. TwoLevels(nd, s, m, c, off, keys)
  BY <1>2, <1>8, <1>9, <1>12, <1>13, <1>14 DEF TwoLevels
<1>16. Parents(b).node = nd /\ Parents(b).level = lv /\ Parents(b).height = 2
  BY <1>1, <1>2 DEF nd
<1>. QED BY <1>5, <1>11, <1>15, <1>16 DEF UpperLevel

(* The recursion over the levels stops at the second one at the latest.    *)
BuiltBy(f, n, low) ==
  f = [k \in 1 .. n |-> IF k = 1 THEN low
                        ELSE LET b == f[k - 1] IN IF Len(b.level) = 1 THEN b ELSE Parents(b)]

BuiltAt(k, low) == IF k = 1 \/ Len(low.level) = 1 THEN low ELSE Parents(low)

LEMMA BuiltFacts ==
  ASSUME NEW low, NEW n, n \in Nat \ {0}, Len(low.level) # 1 => Len(Parents(low).level) = 1
  PROVE  /\ \E f : BuiltBy(f, n, low)
         /\ \A f : BuiltBy(f, n, low) => f[n] = BuiltAt(n, low)
<1>1. \A k \in 1 .. n : k # 1 => k - 1 \in 1 .. n
  OBVIOUS
<1>2. \A k \in 1 .. n : k # 1 =>
         BuiltAt(k, low) = LET b == BuiltAt(k - 1, low)
                           IN IF Len(b.level) = 1 THEN b ELSE Parents(b)
  BY DEF BuiltAt
<1>3. \E f : BuiltBy(f, n, low)
  <2> DEFINE g == [k \in 1 .. n |-> BuiltAt(k, low)]
  <2>1. \A k \in 1 .. n : g[k] = BuiltAt(k, low)
    OBVIOUS
  <2>2. \A k \in 1 .. n : k # 1 => g[k - 1] = BuiltAt(k - 1, low)
    BY <1>1, <2>1
  <2>3. BuiltAt(1, low) = low
    BY DEF BuiltAt
  <2>4. \A k \in 1 .. n : BuiltAt(k, low) =
           IF k = 1 THEN low
           ELSE LET b == g[k - 1] IN IF Len(b.level) = 1 THEN b ELSE Parents(b)
    BY <1>2, <2>2, <2>3
  <2>5. g = [k \in 1 .. n |-> IF k = 1 THEN low
               ELSE LET b == g[k - 1] IN IF Len(b.level) = 1 THEN b ELSE Parents(b)]
    <3> DEFINE h == [k \in 1 .. n |-> IF k = 1 THEN low
               ELSE LET b == g[k - 1] IN IF Len(b.level) = 1 THEN b ELSE Parents(b)]
    <3>1. DOMAIN g = 1 .. n /\ DOMAIN h = 1 .. n /\ g = [k \in 1 .. n |-> g[k]]
          /\ h = [k \in 1 .. n |-> h[k]]
      OBVIOUS
    <3>2. \A k \in 1 .. n : g[k] = h[k]
      BY <2>1, <2>4
    <3> HIDE DEF g, h
    <3>3. g = h
      BY <3>1, <3>2
    <3>. QED BY <3>3 DEF h
  <2> HIDE DEF g
  <2>6. BuiltBy(g, n, low)
    BY <2>5 DEF BuiltBy
  <2>. QED BY <2>6
<1>4. ASSUME NEW f, BuiltBy(f, n, low) PROVE f[n] = BuiltAt(n, low)
  <2> DEFINE G == {k \in 1 .. n : f[k] = BuiltAt(k, low)}
  <2>1. \A k \in 1 .. n : f[k] = IF k = 1 THEN low
           ELSE LET b == f[k - 1] IN IF Len(b.level) = 1 THEN b ELSE Parents(b)
    BY <1>4 DEF BuiltBy
  <2>2. 1 \in G
    <3>1. 1 \in 1 .. n /\ f[1] = low
      BY <2>1
    <3>. QED BY <3>1 DEF BuiltAt
  <2>3. ASSUME NEW k \in 1 .. n - 1, k \in G PROVE k + 1 \in G
    <3>1. PICK h : h = k + 1
      OBVIOUS
    <3>2. h \in 1 .. n /\ h # 1 /\ h - 1 = k
      BY <3>1
    <3>3. f[k] = BuiltAt(k, low)
      BY <2>3
    <3>4. f[h] = LET b == f[k] IN IF Len(b.level) = 1 THEN b ELSE Parents(b)
      BY <2>1, <3>2
    <3>5. BuiltAt(h, low) = LET b == BuiltAt(k, low)
                            IN IF Len(b.level) = 1 THEN b ELSE Parents(b)
      BY <1>2, <3>2
    <3>6. f[h] = BuiltAt(h, low)
      BY <3>3, <3>4, <3>5
    <3>. QED BY <3>1, <3>2, <3>6
  <2> HIDE DEF G
  <2>4. 1 .. n \subseteq G
    BY <2>2, <2>3, InductionUpTo
  <2>5. n \in 1 .. n
    OBVIOUS
  <2>. QED BY <2>4, <2>5 DEF G
<1>. QED BY <1>3, <1>4

(* A bulk load within the limit of a flush needs at most two levels.       *)
LEMMA FewLeaves ==
  ASSUME NEW n \in Nat \ {0}, NEW k \in Nat \ {0}, NEW i \in Nat \ {0}, n <= k * (i + 1),
         NEW m, m = (n + k - 1) \div k
  PROVE  m \in 1 .. i + 1
<1>1. m \in Nat \ {0} /\ (m - 1) * k < n
  BY RoundedUp
<1>2. ASSUME i + 1 < m PROVE FALSE
  <2>1. m - 1 \in Nat /\ i \in Nat /\ i < m - 1
    BY <1>1, <1>2
  <2>2. i * k + k <= (m - 1) * k /\ i * k \in Nat /\ (m - 1) * k \in Nat
    BY <2>1, TimesMonotone
  <2>3. k * (i + 1) = i * k + k
    <3>1. \A x, y \in Int : x * (y + 1) = y * x + x
      OBVIOUS
    <3>. QED BY <3>1
  <2> DEFINE x == i * k  y == (m - 1) * k
  <2>4. x + k <= y /\ x \in Nat /\ y \in Nat /\ y < n /\ n <= x + k
    BY <1>1, <2>2, <2>3
  <2> HIDE DEF x, y
  <2>. QED BY <2>4
<1>. QED BY <1>1, <1>2

LEMMA BulkLoad ==
  ASSUME IInv, NEW S \in SUBSET Pairs, initialize_from_vector(S)
  PROVE  IInv'
<1> DEFINE s == Ascending(S)  n == Cardinality(S)  low == Leaves(s)
           done == (CHOOSE f : BuiltBy(f, n, low))[n]
<1>1. /\ height = 0 /\ S # {} /\ n <= build.FLUSH_THRESHOLD
      /\ node' = done.node /\ root' = done.level[1].page /\ height' = done.height
      /\ stored' = stored \cup S
      /\ UNCHANGED <<path, pending, build>>
  BY DEF initialize_from_vector, BuiltBy
<1>2. path = NoPath /\ pending = NoRepair /\ stored = {}
  BY <1>1, EmptyFacts
<1>3. /\ build \in Builds /\ LeafSplit \in Nat \ {0} /\ IndexSplit \in Nat \ {0}
      /\ build.FLUSH_THRESHOLD \in Nat /\ build.FLUSH_THRESHOLD <= LeafSplit * (IndexSplit + 1)
  BY BuildFacts DEF IInv, LeafSplit, IndexSplit
<1>4. S \subseteq Int /\ IsFiniteSet(S) /\ S \subseteq Pairs
  BY BuildsAssumption, FS_Subset
<1>5. Keys(s, Int) /\ Holds(S, s, Int) /\ Len(s) = n
  BY <1>4, AscendingFacts
<1>6. n \in Nat \ {0}
  BY <1>1, <1>4, FS_CardinalityType, FS_EmptySet
<1>7. s \in Seq(Int) /\ Len(s) > 0
  BY <1>5, <1>6 DEF Keys
<1> HIDE DEF s, n
<1>8. PICK m, c, off : /\ m = (n + LeafSplit - 1) \div LeafSplit
                       /\ Pieces(s, m, c, off)
                       /\ \A i \in 1 .. m : Len(c[i]) \in 1 .. LeafSplit
                       /\ LowestLevel(low, m, c)
  <2>1. \E m, c, off : /\ m = (Len(s) + LeafSplit - 1) \div LeafSplit
                       /\ Pieces(s, m, c, off)
                       /\ \A i \in 1 .. m : Len(c[i]) \in 1 .. LeafSplit
                       /\ LowestLevel(low, m, c)
    BY ONLY <1>3, <1>7, LeavesFacts
  <2>. QED BY <1>5, <2>1
<1> HIDE DEF low
<1>9. m \in 1 .. IndexSplit + 1
  <2> DEFINE T == build.FLUSH_THRESHOLD  lim == LeafSplit * (IndexSplit + 1)
  <2>1. n \in Nat /\ T \in Nat /\ n <= T /\ T <= lim /\ lim \in Int
    <3>1. \A x, y \in Int : x * (y + 1) \in Int
      OBVIOUS
    <3>. QED BY <1>1, <1>3, <1>6, <3>1
  <2> HIDE DEF T, lim
  <2>2. n <= lim
    BY <2>1
  <2>. QED BY <1>3, <1>6, <1>8, <2>2, FewLeaves DEF lim
<1>10. /\ m \in Nat \ {0} /\ Len(low.level) = m /\ low.height = 1
       /\ low.level[1] = [page |-> 1, first |-> c[1][1]]
  BY <1>9, <1>8 DEF LowestLevel
<1>11. UpperLevel(Parents(low), s, m, c, off)
  BY <1>3, <1>8, <1>9, ParentsFacts
<1>12. done = BuiltAt(n, low)
  <2>1. Len(low.level) # 1 => Len(Parents(low).level) = 1
    BY <1>11 DEF UpperLevel
  <2> DEFINE f == CHOOSE x : BuiltBy(x, n, low)
  <2>2. \E x : BuiltBy(x, n, low)
    BY <1>6, <2>1, BuiltFacts
  <2>3. BuiltBy(f, n, low)
    BY <2>2, Zenon
  <2> HIDE DEF f
  <2>4. f[n] = BuiltAt(n, low)
    BY <1>6, <2>1, <2>3, BuiltFacts
  <2>. QED BY <2>4 DEF f
<1> HIDE DEF done
<1>13. SUFFICES \E lev, rng :
                  /\ Shape(done.node, done.level[1].page, done.height, S, lev, rng)
                  /\ \A x \in DOMAIN done.node : Fits(done.node, lev, build, x)
  <2>1. PICK lev, rng : /\ Shape(done.node, done.level[1].page, done.height, S, lev, rng)
                        /\ \A x \in DOMAIN done.node : Fits(done.node, lev, build, x)
    BY <1>13
  <2>2. FlushOK(done.node, done.level[1].page, done.height, NoPath, NoRepair, S, build, lev, rng)
    BY <2>1, Idle
  <2>3. stored' = S /\ path' = NoPath /\ pending' = NoRepair /\ build' = build
    BY <1>1, <1>2
  <2>4. FlushOK(node', root', height', path', pending', stored', build', lev, rng)
    BY <1>1, <2>2, <2>3
  <2>. QED BY <1>3, <1>4, <2>3, <2>4 DEF IInv
<1>14. CASE m = 1
  <2>1. done = low /\ low.level[1].page = 1
    BY <1>10, <1>12, <1>14 DEF BuiltAt
  <2> DEFINE nd == low.node
  <2>2. DOMAIN nd = {1} /\ nd[1] = LeafNode(c[1], NoPage)
    <3>1. nd \in Seq(NodeType) /\ Len(nd) = 1 /\ 1 \in 1 .. 1
          /\ \A i \in 1 .. 1 : nd[i] = LeafNode(c[i], IF i = 1 THEN NoPage ELSE i + 1)
      BY <1>8, <1>14 DEF LowestLevel
    <3> HIDE DEF nd
    <3>2. DOMAIN nd = 1 .. 1
      BY <3>1, LenProperties
    <3>. QED BY <3>1, <3>2
  <2> HIDE DEF nd
  <2>3. c[1] \in Seq(Int) /\ Len(c[1]) = Len(s) /\ \A j \in 1 .. Len(s) : c[1][j] = s[j]
    <3>1. /\ c[1] \in Seq(Int) /\ Len(c[1]) \in Nat /\ off[1] \in Nat /\ off[1] + Len(c[1]) <= Len(s)
          /\ \A j \in 1 .. Len(c[1]) : c[1][j] = s[off[1] + j]
          /\ \A x \in 1 .. Len(s) : \E j \in 1 .. Len(c[1]) : x = off[1] + j
      <4>1. 1 \in 1 .. m /\ \A i \in 1 .. m : i = 1
        BY <1>14
      <4>. QED BY <1>8, <4>1 DEF Pieces
    <3>2. 1 \in 1 .. Len(s) /\ Len(s) \in 1 .. Len(s) /\ Len(s) \in Nat
      BY <1>5, <1>6
    <3>3. off[1] = 0
      <4>1. PICK j \in 1 .. Len(c[1]) : 1 = off[1] + j
        BY <3>1, <3>2
      <4>. QED BY <3>1, <4>1
    <3>4. Len(c[1]) = Len(s)
      <4>1. PICK j \in 1 .. Len(c[1]) : Len(s) = off[1] + j
        BY <3>1, <3>2
      <4>. QED BY <3>1, <3>2, <3>3, <4>1
    <3>5. \A j \in 1 .. Len(s) : 0 + j = j
      BY <3>2
    <3>. QED BY <3>1, <3>3, <3>4, <3>5
  <2>4. Keys(c[1], Int) /\ Holds(S, c[1], Int)
    BY <1>5, <2>3 DEF Keys, IsAscending, Holds
  <2>5. PICK lev, rng : Shape(nd, 1, 1, S, lev, rng) /\ lev[1] = 1
    <3>1. 1 \in Nat \ {0}
      OBVIOUS
    <3>. QED BY <2>2, <2>4, <3>1, SingleLeaf
  <2>6. \A x \in DOMAIN nd : Fits(nd, lev, build, x)
    <3>1. Len(c[1]) \in 1 .. build.leaf_split
      BY <1>8, <1>14 DEF LeafSplit
    <3>2. nd[1].data = c[1]
      BY <2>2, LeafNodeFacts
    <3>. QED BY <2>2, <2>5, <3>1, <3>2 DEF Fits, Limit
  <2>. QED BY <1>10, <2>1, <2>5, <2>6 DEF nd
<1>15. CASE m # 1
  <2>1. n # 1
    <3>1. 1 \in 1 .. m /\ 2 \in 1 .. m
      BY <1>10, <1>15
    <3>2. /\ off[1] \in Nat /\ Len(c[1]) \in Nat \ {0} /\ off[1] + Len(c[1]) <= off[2]
          /\ off[2] \in Nat /\ Len(c[2]) \in Nat \ {0} /\ off[2] + Len(c[2]) <= Len(s)
      BY <1>8, <3>1 DEF Pieces
    <3>. QED BY <1>5, <3>2
  <2>2. done = Parents(low)
    BY <1>10, <1>12, <1>15, <2>1 DEF BuiltAt
  <2> DEFINE nd == done.node
  <2>3. PICK keys : TwoLevels(nd, s, m, c, off, keys)
    BY <1>11, <2>2 DEF UpperLevel
  <2>4. done.level[1].page = m + 1 /\ done.height = 2
    BY <1>11, <2>2 DEF UpperLevel
  <2> HIDE DEF nd
  <2>5. PICK lev, rng : /\ Shape(nd, m + 1, 2, S, lev, rng)
                        /\ lev[m + 1] = 2 /\ \A i \in 1 .. m : lev[i] = 1
    BY <1>5, <2>3, TwoLevelTree
  <2>6. ASSUME NEW x \in DOMAIN nd PROVE Fits(nd, lev, build, x)
    <3>1. /\ DOMAIN nd = 1 .. m + 1
          /\ \A i \in 1 .. m : nd[i] = LeafNode(c[i], IF i = m THEN NoPage ELSE i + 1)
          /\ nd[m + 1] = IndexNode(keys, [i \in 1 .. m |-> i])
          /\ Len(keys) = m - 1
      BY <2>3 DEF TwoLevels
    <3>2. CASE x \in 1 .. m
      <4>1. nd[x].data = c[x]
        BY <3>1, <3>2, LeafNodeFacts
      <4>2. Len(c[x]) \in 1 .. build.leaf_split /\ lev[x] = 1
        BY <1>8, <2>5, <3>2 DEF LeafSplit
      <4>. QED BY <4>1, <4>2 DEF Fits, Limit
    <3>3. CASE x = m + 1
      <4>1. nd[x].data = keys
        BY <3>1, <3>3, IndexNodeFacts
      <4>2. Len(keys) \in 1 .. build.index_split
        BY <1>3, <1>9, <1>15, <3>1 DEF IndexSplit
      <4>. QED BY <2>5, <3>3, <4>1, <4>2 DEF Fits, Limit
    <3>. QED BY <1>10, <3>1, <3>2, <3>3
  <2>. QED BY <2>4, <2>5, <2>6 DEF nd
<1>. QED BY <1>14, <1>15

-----------------------------------------------------------------------------
(***************************************************************************)
(* The theorems.                                                           *)
(***************************************************************************)

LEMMA NextIInv == IInv /\ [Next]_vars => IInv'
<1> SUFFICES ASSUME IInv, [Next]_vars PROVE IInv'
  OBVIOUS
<1>1. CASE UNCHANGED vars
  BY <1>1 DEF IInv, vars
<1>2. CASE Entry
  <2>1. PICK p \in Pairs :
          Insert(p) \/ InsertPresent(p) \/ Delete(p) \/ DeleteAbsent(p) \/ InsertIntoEmpty(p)
    BY <1>2 DEF Entry
  <2>2. CASE Insert(p)
    BY <2>2, EntryInserts
  <2>3. CASE InsertPresent(p)
    BY <2>3, EntryWithoutChange
  <2>4. CASE Delete(p)
    BY <2>4, EntryDeletes
  <2>5. CASE DeleteAbsent(p)
    BY <2>5, EntryWithoutChange
  <2>6. CASE InsertIntoEmpty(p)
    BY <2>6, EntryIntoEmpty
  <2>. QED BY <2>1, <2>2, <2>3, <2>4, <2>5, <2>6
<1>3. CASE RepairStep
  <2>1. CASE handle_leaf_overflow
    BY <2>1, LeafOverflow
  <2>2. CASE handle_index_overflow
    BY <2>2, IndexOverflow
  <2>3. CASE handle_root_overflow
    BY <2>3, RootOverflow
  <2>4. CASE handle_leaf_underflow
    BY <2>4, LeafUnderflow
  <2>5. CASE handle_index_underflow
    BY <2>5, IndexUnderflow
  <2>6. CASE handle_root_underflow
    BY <2>6, RootUnderflow
  <2>. QED BY <1>3, <2>1, <2>2, <2>3, <2>4, <2>5, <2>6 DEF RepairStep
<1>4. CASE \E S \in SUBSET Pairs : initialize_from_vector(S)
  BY <1>4, BulkLoad
<1>. QED BY <1>1, <1>2, <1>3, <1>4 DEF Next

(* In every state of the program the pages form a tree that holds exactly  *)
(* the stored pairs, sizes and the path in work included.                  *)
THEOREM SpecIInv == Spec => []IInv
<1>1. Init => IInv
  BY InitIInv
<1>2. IInv /\ [Next]_vars => IInv'
  BY NextIInv
<1>. QED BY <1>1, <1>2, PTL DEF Spec

(* A page is a leaf exactly if it has no children.                         *)
LEMMA LeafLevel ==
  ASSUME NEW nd, NEW ht, NEW lev, NEW rng, NEW st,
         Cells(nd, ht, lev, rng), NodesOK(nd, st, lev, rng), NEW n \in DOMAIN nd
  PROVE  /\ lev[n] = 1 => nd[n].children = <<>>
         /\ lev[n] > 1 => nd[n].children # <<>> /\ Len(nd[n].children) = Len(nd[n].data) + 1
         /\ lev[n] = 1 \/ lev[n] > 1
<1>1. lev[n] = 1 => nd[n].children = <<>>
  BY DEF NodesOK, NodeOK
<1>2. ASSUME lev[n] > 1 PROVE nd[n].children # <<>> /\ Len(nd[n].children) = Len(nd[n].data) + 1
  <2>1. Len(nd[n].data) \in Nat /\ Len(nd[n].children) = Len(nd[n].data) + 1
    BY <1>2, ChildFacts
  <2>2. Len(<<>>) = 0
    OBVIOUS
  <2>. QED BY <2>1, <2>2
<1>3. lev[n] \in Int /\ 1 <= lev[n]
  BY CellFacts
<1>. QED BY <1>1, <1>2, <1>3

LEMMA IInvNodesFit == IInv => NodesFit
<1> SUFFICES ASSUME IInv, NEW n \in DOMAIN node,
                    ~ (pending # NoRepair /\ n = path.pages[pending.level])
             PROVE  /\ size(n) >= 1
                    /\ size(n) <= IF node[n].children = <<>> THEN LeafSplit ELSE IndexSplit
  BY DEF NodesFit
<1>1. PICK lev, rng : FlushOK(node, root, height, path, pending, stored, build, lev, rng)
  BY DEF IInv
<1>2. /\ Cells(node, height, lev, rng) /\ NodesOK(node, stored, lev, rng)
      /\ Len(node[n].data) \in 1 .. Limit(build, lev[n])
  BY <1>1 DEF FlushOK, Shape, Fits
<1>3. Limit(build, lev[n]) = IF node[n].children = <<>> THEN LeafSplit ELSE IndexSplit
  BY <1>2, LeafLevel DEF Limit, LeafSplit, IndexSplit
<1>4. Limit(build, lev[n]) \in Nat
  <2>1. build \in Builds
    BY DEF IInv
  <2>. QED BY <2>1, BuildFacts DEF Limit
<1>. QED BY <1>2, <1>3, <1>4 DEF size

(* Between entries no leaf is empty, no index node has a single child and  *)
(* no array overruns; during a repair only the node in work is off limits. *)
THEOREM NodesFitHolds == Spec => []NodesFit
BY SpecIInv, IInvNodesFit, PTL

LEMMA IInvKeptPathIsFresh == IInv => KeptPathIsFresh
<1> SUFFICES ASSUME IInv, pending = NoRepair, path # NoPath, NEW p \in Pairs, Reaches(p)
             PROVE  [find_path(p) EXCEPT !.after = path.after] = path
  BY DEF KeptPathIsFresh
<1>1. PICK lev, rng : FlushOK(node, root, height, path, pending, stored, build, lev, rng)
  BY DEF IInv
<1>2. Shape(node, root, height, stored, lev, rng) /\ height > 0 /\ p \in Int
  BY <1>1, BuildsAssumption DEF FlushOK, Reaches
<1>3. height \in Nat
  BY <1>2 DEF Shape, Cells
<1>4. PathOK(path, height, node, root, height, lev)
  BY <1>1, KeptPath
<1>5. leaf_of(path) = path.pages[height]
  BY <1>3, <1>4, LeafOfPath DEF PathOK
<1>6. p \in rng[path.pages[height]]
  <2>1. AtLeafOf(lev, rng, PathOf(p), leaf_of(PathOf(p)), p)
    BY <1>1, <1>2, EntryFacts
  <2>2. PathOf(p) = path
    BY DEF PathOf
  <2>. QED BY <1>5, <2>1, <2>2 DEF AtLeafOf
<1>7. find_path(p).pages = path.pages /\ find_path(p).pos = path.pos
  BY <1>2, <1>4, <1>6, SamePath
<1> DEFINE v == find_path(p)
<1>8. v = [pages |-> v.pages, pos |-> v.pos, after |-> v.after]
  BY <1>3, DescentFacts
<1>9. path = [pages |-> path.pages, pos |-> path.pos, after |-> path.after]
  BY <1>4 DEF PathOK
<1> HIDE DEF v
<1>10. [v EXCEPT !.after = path.after] = [pages |-> v.pages, pos |-> v.pos, after |-> path.after]
  BY <1>8
<1>. QED BY <1>7, <1>9, <1>10 DEF v

(* A path that is kept for the next entry is the one a descent would take. *)
THEOREM KeptPathIsFreshHolds == Spec => []KeptPathIsFresh
BY SpecIInv, IInvKeptPathIsFresh, PTL

-----------------------------------------------------------------------------
(***************************************************************************)
(* Sequences joined in a row.                                              *)
(***************************************************************************)

Sorted(s, Before) == \A i, j \in 1 .. Len(s) : i < j => <<s[i], s[j]>> \in Before

(* Every element of one before every element of the other.                 *)
AllBefore(s, t, Before) ==
  \A i \in 1 .. Len(s), j \in 1 .. Len(t) : <<s[i], t[j]>> \in Before

Among(s, e) == \E i \in 1 .. Len(s) : s[i] = e

(* A sequence that has the elements of two, and their order.               *)
MadeOf(u, s, t) ==
  /\ \A e : Among(u, e) <=> Among(s, e) \/ Among(t, e)
  /\ \A B : Sorted(s, B) /\ Sorted(t, B) /\ AllBefore(s, t, B) => Sorted(u, B)

LEMMA TwoInARow ==
  ASSUME NEW S, NEW s \in Seq(S), NEW t \in Seq(S)
  PROVE  s \o t \in Seq(S) /\ MadeOf(s \o t, s, t)
<1> DEFINE a == Len(s)  b == Len(t)  u == s \o t
<1>1. a \in Nat /\ b \in Nat
  BY LenProperties
<1>2. u \in Seq(S) /\ Len(u) = a + b /\ \A i \in 1 .. a + b : u[i] = IF i <= a THEN s[i] ELSE t[i - a]
  BY ConcatProperties
<1> HIDE DEF a, b, u
<1>3. \A i \in 1 .. a : i \in 1 .. a + b /\ u[i] = s[i]
  BY <1>1, <1>2
<1>4. \A j \in 1 .. b : a + j \in 1 .. a + b /\ u[a + j] = t[j]
  <2>1. ASSUME NEW j \in 1 .. b PROVE a + j \in 1 .. a + b /\ u[a + j] = t[j]
    <3>1. PICK i : i = a + j
      OBVIOUS
    <3>2. i \in 1 .. a + b /\ ~ (i <= a) /\ i - a = j
      BY <1>1, <3>1
    <3>3. u[i] = t[j]
      BY <1>2, <3>2
    <3>. QED BY <3>1, <3>2, <3>3
  <2>. QED BY <2>1
<1>5. \A i \in 1 .. a + b : i \in 1 .. a \/ (i - a \in 1 .. b /\ a + (i - a) = i)
  BY <1>1
<1>6. ASSUME NEW e PROVE Among(u, e) <=> Among(s, e) \/ Among(t, e)
  <2>1. ASSUME NEW i \in 1 .. a + b, u[i] = e PROVE Among(s, e) \/ Among(t, e)
    <3>1. CASE i \in 1 .. a
      BY <1>3, <2>1, <3>1 DEF Among, a
    <3>2. CASE i - a \in 1 .. b /\ a + (i - a) = i
      <4>1. t[i - a] = e
        BY <1>4, <2>1, <3>2
      <4>. QED BY <3>2, <4>1 DEF Among, b
    <3>. QED BY <1>5, <3>1, <3>2
  <2>2. ASSUME NEW i \in 1 .. a, s[i] = e PROVE Among(u, e)
    BY <1>2, <1>3, <2>2 DEF Among
  <2>3. ASSUME NEW i \in 1 .. b, t[i] = e PROVE Among(u, e)
    BY <1>2, <1>4, <2>3 DEF Among
  <2>4. Among(u, e) <=> \E i \in 1 .. a + b : u[i] = e
    BY <1>2 DEF Among
  <2>. QED BY <2>1, <2>2, <2>3, <2>4 DEF Among, a, b
<1>7. ASSUME NEW B, Sorted(s, B), Sorted(t, B), AllBefore(s, t, B) PROVE Sorted(u, B)
  <2>1. ASSUME NEW i \in 1 .. a + b, NEW j \in 1 .. a + b, i < j PROVE <<u[i], u[j]>> \in B
    <3>1. CASE i \in 1 .. a /\ j \in 1 .. a
      BY <1>3, <1>7, <2>1, <3>1 DEF Sorted, a
    <3>2. CASE i \in 1 .. a /\ j - a \in 1 .. b /\ a + (j - a) = j
      <4>1. u[i] = s[i] /\ u[j] = t[j - a]
        BY <1>3, <1>4, <3>2
      <4>. QED BY <1>7, <3>2, <4>1 DEF AllBefore, a, b
    <3>3. CASE i - a \in 1 .. b /\ a + (i - a) = i /\ j - a \in 1 .. b /\ a + (j - a) = j
      <4>1. u[i] = t[i - a] /\ u[j] = t[j - a] /\ i - a < j - a
        BY <1>1, <1>4, <2>1, <3>3
      <4>. QED BY <1>7, <3>3, <4>1 DEF Sorted, b
    <3>4. ~ (i - a \in 1 .. b /\ j \in 1 .. a)
      BY <1>1, <2>1
    <3>. QED BY <1>5, <3>1, <3>2, <3>3, <3>4
  <2>. QED BY <1>2, <2>1 DEF Sorted
<1>8. MadeOf(u, s, t)
  BY <1>6, <1>7 DEF MadeOf
<1>. QED BY <1>2, <1>8 DEF u

(* The joined sequences have the elements of all, in the order of all.     *)
JoinedBy(f, q) == f = [i \in 1 .. Len(q) |-> IF i = 1 THEN q[i] ELSE f[i - 1] \o q[i]]

LEMMA JoinedExists ==
  ASSUME NEW q, NEW S, q \in Seq(Seq(S))
  PROVE  \E f : JoinedBy(f, q)
<1> DEFINE Sol(m, f) == f = [i \in 1 .. m |-> IF i = 1 THEN q[i] ELSE f[i - 1] \o q[i]]
           G == {m \in Nat : \E f : Sol(m, f)}
<1>1. 0 \in G
  <2>1. Sol(0, <<>>)
    OBVIOUS
  <2>. QED BY <2>1
<1>2. ASSUME NEW m \in Nat, m \in G PROVE m + 1 \in G
  <2>1. PICK f : Sol(m, f)
    BY <1>2
  <2> DEFINE old == [i \in 1 .. m |-> IF i = 1 THEN q[i] ELSE f[i - 1] \o q[i]]
             g == [i \in 1 .. m + 1 |-> IF i = 1 THEN q[i] ELSE f[i - 1] \o q[i]]
  <2>2. \A i \in 1 .. m : g[i] = f[i]
    <3>1. f = old
      BY <2>1
    <3>2. \A i \in 1 .. m : g[i] = old[i]
      OBVIOUS
    <3> HIDE DEF g, old
    <3>. QED BY ONLY <3>1, <3>2
  <2>3. \A i \in 1 .. m + 1 : i # 1 => g[i - 1] = f[i - 1]
    <3>1. \A i \in 1 .. m + 1 : i # 1 => i - 1 \in 1 .. m
      OBVIOUS
    <3> HIDE DEF g
    <3>. QED BY ONLY <2>2, <3>1
  <2>4. Sol(m + 1, g)
    BY <2>3
  <2>5. m + 1 \in Nat
    OBVIOUS
  <2>. QED BY <2>4, <2>5
<1>3. Nat \subseteq G
  <2>. HIDE DEF G
  <2>. QED BY <1>1, <1>2, Induction
<1>4. Len(q) \in Nat
  BY LenProperties
<1>. QED BY <1>3, <1>4 DEF JoinedBy

LEMMA FlattenFacts ==
  ASSUME NEW q, NEW S, q \in Seq(Seq(S))
  PROVE  /\ FlattenSeq(q) \in Seq(S)
         /\ \A e : Among(FlattenSeq(q), e) <=> \E i \in 1 .. Len(q) : Among(q[i], e)
         /\ \A B : /\ \A i \in 1 .. Len(q) : Sorted(q[i], B)
                   /\ \A i, j \in 1 .. Len(q) : i < j => AllBefore(q[i], q[j], B)
                   => Sorted(FlattenSeq(q), B)
<1> DEFINE l == Len(q)
<1>1. l \in Nat /\ \A i \in 1 .. l : q[i] \in Seq(S)
  BY LenProperties, ElementOfSeq
<1>2. CASE l = 0
  <2>1. FlattenSeq(q) = <<>> /\ Len(<<>>) = 0 /\ <<>> \in Seq(S)
    BY <1>2, EmptySeq DEF FlattenSeq
  <2>2. 1 .. 0 = {} /\ 1 .. l = {}
    BY <1>2
  <2>3. (\A e : ~ Among(<<>>, e)) /\ \A B : Sorted(<<>>, B)
    BY <2>1, <2>2 DEF Among, Sorted
  <2>. QED BY <2>1, <2>2, <2>3
<1>3. CASE l # 0
  <2> DEFINE f == CHOOSE x : JoinedBy(x, q)
  <2>1. \E x : JoinedBy(x, q)
    BY JoinedExists
  <2>2. JoinedBy(f, q)
    BY <2>1, Zenon
  <2>3. FlattenSeq(q) = f[l]
    BY <1>3 DEF FlattenSeq, JoinedBy
  <2> HIDE DEF f
  <2>4. \A i \in 1 .. l : f[i] = IF i = 1 THEN q[i] ELSE f[i - 1] \o q[i]
    BY <2>2 DEF JoinedBy
  <2> DEFINE Ok(k) ==
        /\ f[k] \in Seq(S)
        /\ \A e : Among(f[k], e) <=> \E i \in 1 .. k : Among(q[i], e)
        /\ \A B : /\ \A i \in 1 .. l : Sorted(q[i], B)
                  /\ \A i, j \in 1 .. l : i < j => AllBefore(q[i], q[j], B)
                  => Sorted(f[k], B)
        G == {k \in 1 .. l : Ok(k)}
  <2>5. 1 \in G
    <3>1. 1 \in 1 .. l /\ f[1] = q[1] /\ 1 .. 1 = {1}
      BY <1>1, <1>3, <2>4
    <3>. QED BY <1>1, <3>1
  <2>6. ASSUME NEW k \in 1 .. l - 1, k \in G PROVE k + 1 \in G
    <3>1. PICK h : h = k + 1
      OBVIOUS
    <3>2. /\ h \in 1 .. l /\ h # 1 /\ h - 1 = k /\ k \in 1 .. l
          /\ 1 .. h = (1 .. k) \cup {h} /\ \A i \in 1 .. k : i < h /\ i \in 1 .. l
      BY <1>1, <3>1
    <3>3. f[h] = f[k] \o q[h] /\ q[h] \in Seq(S) /\ f[k] \in Seq(S)
      BY <1>1, <2>4, <2>6, <3>2
    <3>4. f[h] \in Seq(S)
      BY <3>3, TwoInARow
    <3>5. MadeOf(f[h], f[k], q[h])
      BY <3>3, TwoInARow
    <3>6. \A e : Among(f[h], e) <=> \E i \in 1 .. h : Among(q[i], e)
      <4>1. \A e : Among(f[h], e) <=> Among(f[k], e) \/ Among(q[h], e)
        BY <3>5 DEF MadeOf
      <4>2. \A e : Among(f[k], e) <=> \E i \in 1 .. k : Among(q[i], e)
        BY <2>6
      <4>. QED BY <3>2, <4>1, <4>2
    <3>7. ASSUME NEW B, \A i \in 1 .. l : Sorted(q[i], B),
                 \A i, j \in 1 .. l : i < j => AllBefore(q[i], q[j], B)
          PROVE  Sorted(f[h], B)
      <4>1. Sorted(f[k], B) /\ Sorted(q[h], B)
        BY <2>6, <3>2, <3>7
      <4>2. AllBefore(f[k], q[h], B)
        <5>1. ASSUME NEW i \in 1 .. Len(f[k]), NEW j \in 1 .. Len(q[h])
              PROVE  <<f[k][i], q[h][j]>> \in B
          <6>1. Among(f[k], f[k][i])
            BY DEF Among
          <6>2. PICK g \in 1 .. k : Among(q[g], f[k][i])
            BY <2>6, <6>1
          <6>3. AllBefore(q[g], q[h], B)
            BY <3>2, <3>7
          <6>. QED BY <6>2, <6>3 DEF Among, AllBefore
        <5>. QED BY <5>1 DEF AllBefore
      <4>. QED BY <3>5, <4>1, <4>2 DEF MadeOf
    <3> HIDE DEF l
    <3>8. Ok(h)
      BY <3>4, <3>6, <3>7
    <3>. QED BY <3>1, <3>2, <3>8
  <2> HIDE DEF G
  <2>7. 1 .. l \subseteq G
    BY <1>1, <1>3, <2>5, <2>6, InductionUpTo
  <2>8. l \in 1 .. l
    BY <1>1, <1>3
  <2>. QED BY <2>3, <2>7, <2>8 DEF G
<1>. QED BY <1>2, <1>3

-----------------------------------------------------------------------------
(***************************************************************************)
(* Scans.                                                                  *)
(***************************************************************************)

(* As many different elements as a finite set has are all of them.         *)
LEMMA Exhausted ==
  ASSUME NEW S, IsFiniteSet(S), NEW f, f \in [1 .. Cardinality(S) -> S],
         \A i, j \in 1 .. Cardinality(S) : f[i] = f[j] => i = j
  PROVE  \A x \in S : \E i \in 1 .. Cardinality(S) : f[i] = x
<1> DEFINE m == Cardinality(S)
<1>1. m \in Nat
  BY FS_CardinalityType
<1> HIDE DEF m
<1>2. f \in Injection(1 .. m, S)
  BY DEF Injection, IsInjective, m
<1>3. Cardinality(1 .. m) = m
  <2>1. 1 \in Int /\ m \in Int /\ (1 > m => m = 0) /\ m - 1 + 1 = m
    BY <1>1
  <2>. QED BY <2>1, FS_Interval
<1>4. Cardinality(1 .. m) = Cardinality(S)
  BY <1>3 DEF m
<1>5. f \in Surjection(1 .. m, S)
  BY <1>2, <1>4, FS_Injection
<1>. QED BY <1>5 DEF Surjection, m

(* A leaf's sibling is the next in the order of pairs.                     *)
LEMMA SiblingAfter ==
  ASSUME NEW nd, NEW ht, NEW lev, NEW rng, NEW st,
         Cells(nd, ht, lev, rng), NodesOK(nd, st, lev, rng),
         NEW n \in DOMAIN nd, lev[n] = 1, nd[n].sibling # NoPage
  PROVE  /\ nd[n].sibling \in DOMAIN nd /\ lev[nd[n].sibling] = 1
         /\ \A x \in rng[n], y \in rng[nd[n].sibling] : x < y
         /\ \A x \in Int : (\A y \in rng[n] : y < x) =>
              \/ x \in rng[nd[n].sibling]
              \/ \A y \in rng[nd[n].sibling] : y < x
<1> DEFINE m == nd[n].sibling
<1>1. NextOK(nd, lev, rng, n)
  BY DEF NodesOK, NodeOK
<1>2. m \in DOMAIN nd /\ lev[m] = 1
  BY <1>1 DEF NextOK
<1>3. PICK b \in Int : b \in rng[m] /\ b \notin rng[n] /\ b - 1 \in rng[n]
  BY <1>1 DEF NextOK
<1> HIDE DEF m
<1>4. IsRange(rng[n]) /\ IsRange(rng[m]) /\ rng[n] \subseteq Int /\ rng[m] \subseteq Int
  BY <1>2, CellFacts
<1>5. ASSUME NEW x \in rng[n] PROVE x < b
  <2>1. x \in Int /\ b - 1 \in Int /\ b - 1 <= b
    BY <1>3, <1>4
  <2>2. ~ (b <= x)
    BY <1>3, <1>4, <2>1 DEF IsRange
  <2>. QED BY <2>1, <2>2
<1>6. ASSUME NEW y \in rng[m] PROVE b <= y
  <2>1. y \in Int /\ b - 1 \in Int /\ b - 1 <= b
    BY <1>3, <1>4
  <2>2. ASSUME y <= b - 1 PROVE FALSE
    <3>1. b - 1 \in rng[m]
      BY <1>3, <1>4, <2>1, <2>2 DEF IsRange
    <3>2. m = n
      BY <1>2, <1>3, <3>1, CellsDisjoint
    <3>. QED BY <1>3, <3>2
  <2>. QED BY <2>1, <2>2
<1>7. \A x \in rng[n], y \in rng[m] : x < y
  BY <1>3, <1>4, <1>5, <1>6
<1>8. ASSUME NEW x \in Int, \A y \in rng[n] : y < x, x \notin rng[m], NEW y \in rng[m]
      PROVE  y < x
  <2>1. b <= x /\ y \in Int
    BY <1>3, <1>4, <1>8
  <2>2. ~ (x <= y)
    BY <1>3, <1>4, <1>8, <2>1 DEF IsRange
  <2>. QED BY <2>1, <2>2
<1>. QED BY <1>2, <1>7, <1>8 DEF m

(* The chain of siblings from a leaf on.                                   *)
ChainBy(f, m, start) ==
  f = [k \in 1 .. m |-> IF k = 1 THEN start
                        ELSE LET n == f[k - 1]
                             IN IF n = NoPage THEN NoPage ELSE node[n].sibling]

LEMMA ChainExists ==
  ASSUME NEW start, NEW m, m \in Nat
  PROVE  \E f : ChainBy(f, m, start)
<1> DEFINE G == {i \in Nat : \E f : ChainBy(f, i, start)}
<1>1. 0 \in G
  <2>1. ChainBy(<<>>, 0, start)
    BY DEF ChainBy
  <2>. QED BY <2>1
<1>2. ASSUME NEW i \in Nat, i \in G PROVE i + 1 \in G
  <2>1. PICK f : ChainBy(f, i, start)
    BY <1>2
  <2> DEFINE old == [k \in 1 .. i |-> IF k = 1 THEN start
                      ELSE LET n == f[k - 1] IN IF n = NoPage THEN NoPage ELSE node[n].sibling]
             g == [k \in 1 .. i + 1 |-> IF k = 1 THEN start
                    ELSE LET n == f[k - 1] IN IF n = NoPage THEN NoPage ELSE node[n].sibling]
  <2>2. \A k \in 1 .. i : g[k] = f[k]
    <3>1. f = old
      BY <2>1 DEF ChainBy
    <3>2. \A k \in 1 .. i : g[k] = old[k]
      OBVIOUS
    <3> HIDE DEF g, old
    <3>. QED BY ONLY <3>1, <3>2
  <2>3. \A k \in 1 .. i + 1 : k # 1 => g[k - 1] = f[k - 1]
    <3>1. \A k \in 1 .. i + 1 : k # 1 => k - 1 \in 1 .. i
      OBVIOUS
    <3> HIDE DEF g
    <3>. QED BY ONLY <2>2, <3>1
  <2>4. ChainBy(g, i + 1, start)
    BY <2>3 DEF ChainBy
  <2>5. i + 1 \in Nat
    OBVIOUS
  <2>. QED BY <2>4, <2>5
<1>3. Nat \subseteq G
  <2>. HIDE DEF G
  <2>. QED BY <1>1, <1>2, Induction
<1>. QED BY <1>3

(* It goes through the leaves in their order, to the last.                 *)
ChainOK(lev, rng, f, m, p) ==
  /\ \A k \in 1 .. m : f[k] # NoPage => f[k] \in DOMAIN node /\ lev[f[k]] = 1
  /\ \A i, j \in 1 .. m : i < j /\ f[i] # NoPage /\ f[j] # NoPage =>
        \A x \in rng[f[i]], y \in rng[f[j]] : x < y
  /\ \A x \in Int : p <= x => \E k \in 1 .. m : f[k] # NoPage /\ x \in rng[f[k]]

LEMMA ChainFacts ==
  ASSUME NEW lev, NEW rng, NEW st, Shape(node, root, height, st, lev, rng),
         NEW n, n \in DOMAIN node, lev[n] = 1, NEW p, p \in rng[n],
         NEW m, m = Cardinality(DOMAIN node), NEW f, ChainBy(f, m, n)
  PROVE  ChainOK(lev, rng, f, m, p)
<1>1. Cells(node, height, lev, rng) /\ NodesOK(node, st, lev, rng)
  BY DEF Shape
<1>2. m \in Nat \ {0} /\ IsFiniteSet(DOMAIN node) /\ NoPage \notin DOMAIN node
  <2>1. IsFiniteSet(DOMAIN node) /\ DOMAIN node \subseteq Nat \ {0}
    BY <1>1 DEF Cells
  <2>. QED BY <2>1, FS_CardinalityType, FS_EmptySet, BuildsAssumption
<1>3. f[1] = n /\ \A k \in 1 .. m - 1 :
         f[k + 1] = IF f[k] = NoPage THEN NoPage ELSE node[f[k]].sibling
  <2>1. \A k \in 1 .. m : f[k] = IF k = 1 THEN n
           ELSE LET h == f[k - 1] IN IF h = NoPage THEN NoPage ELSE node[h].sibling
    BY DEF ChainBy
  <2>2. 1 \in 1 .. m /\ \A k \in 1 .. m - 1 : k + 1 \in 1 .. m /\ k + 1 # 1 /\ (k + 1) - 1 = k
    BY <1>2
  <2>3. ASSUME NEW k \in 1 .. m - 1
        PROVE  f[k + 1] = IF f[k] = NoPage THEN NoPage ELSE node[f[k]].sibling
    <3>1. PICK h : h = k + 1
      OBVIOUS
    <3>2. h \in 1 .. m /\ h # 1 /\ h - 1 = k
      BY <2>2, <3>1
    <3>. QED BY <2>1, <3>1, <3>2
  <2>. QED BY <2>1, <2>2, <2>3
<1> DEFINE Leaf(k) == f[k] # NoPage
           Above(x, k) == \A y \in rng[f[k]] : y < x
<1>4. ASSUME NEW k \in 1 .. m PROVE Leaf(k) => f[k] \in DOMAIN node /\ lev[f[k]] = 1
  <2> DEFINE G == {i \in 1 .. m : Leaf(i) => f[i] \in DOMAIN node /\ lev[f[i]] = 1}
  <2>1. 1 \in G
    BY <1>2, <1>3
  <2>2. ASSUME NEW i \in 1 .. m - 1, i \in G PROVE i + 1 \in G
    <3>1. ASSUME Leaf(i + 1) PROVE f[i + 1] \in DOMAIN node /\ lev[f[i + 1]] = 1
      <4>1. f[i] # NoPage /\ node[f[i]].sibling # NoPage /\ f[i + 1] = node[f[i]].sibling
        BY <1>3, <3>1
      <4>2. f[i] \in DOMAIN node /\ lev[f[i]] = 1
        BY <2>2, <4>1
      <4>. QED BY <1>1, <4>1, <4>2, SiblingAfter
    <3>2. i + 1 \in 1 .. m
      BY <1>2
    <3>. QED BY <3>1, <3>2
  <2> HIDE DEF G
  <2>3. 1 .. m \subseteq G
    BY <1>2, <2>1, <2>2, InductionUpTo
  <2>. QED BY <2>3 DEF G
<1>5. ASSUME NEW k \in 1 .. m - 1, Leaf(k + 1)
      PROVE  /\ Leaf(k) /\ f[k] \in DOMAIN node /\ lev[f[k]] = 1
             /\ f[k + 1] = node[f[k]].sibling /\ node[f[k]].sibling # NoPage
             /\ \A x \in rng[f[k]], y \in rng[f[k + 1]] : x < y
  <2>1. f[k] # NoPage /\ node[f[k]].sibling # NoPage /\ f[k + 1] = node[f[k]].sibling
    BY <1>3, <1>5
  <2>2. k \in 1 .. m
    BY <1>2
  <2>3. f[k] \in DOMAIN node /\ lev[f[k]] = 1
    BY <1>4, <2>1, <2>2
  <2>4. \A x \in rng[f[k]], y \in rng[node[f[k]].sibling] : x < y
    BY <1>1, <2>1, <2>3, SiblingAfter
  <2>. QED BY <2>1, <2>3, <2>4
<1>6. ASSUME NEW i \in 1 .. m
      PROVE  \A j \in 1 .. m : i < j /\ Leaf(j) =>
                Leaf(i) /\ \A x \in rng[f[i]], y \in rng[f[j]] : x < y
  <2> DEFINE Ok(j) == i < j /\ Leaf(j) => Leaf(i) /\ \A x \in rng[f[i]], y \in rng[f[j]] : x < y
             G == {j \in 1 .. m : Ok(j)}
  <2>1. 1 \in G
    BY <1>2
  <2>2. ASSUME NEW j \in 1 .. m - 1, j \in G PROVE j + 1 \in G
    <3>1. PICK h : h = j + 1
      OBVIOUS
    <3>2. h \in 1 .. m /\ j \in 1 .. m /\ (i < h => i = j \/ i < j)
      BY <1>2, <3>1
    <3>3. ASSUME i < h, Leaf(h) PROVE Leaf(i) /\ \A x \in rng[f[i]], y \in rng[f[h]] : x < y
      <4>1. /\ Leaf(j) /\ f[j] \in DOMAIN node /\ f[h] \in DOMAIN node
            /\ \A x \in rng[f[j]], y \in rng[f[h]] : x < y
        BY <1>4, <1>5, <3>1, <3>2, <3>3
      <4>2. CASE i = j
        BY <4>1, <4>2
      <4>3. CASE i < j
        <5>1. Leaf(i) /\ \A x \in rng[f[i]], y \in rng[f[j]] : x < y
          BY <2>2, <4>1, <4>3
        <5>2. f[i] \in DOMAIN node
          BY <1>4, <5>1
        <5>3. rng[f[i]] \subseteq Int /\ rng[f[h]] \subseteq Int /\ \E z \in Int : z \in rng[f[j]]
          BY <1>1, <4>1, <5>2, CellFacts
        <5>4. PICK z \in Int : z \in rng[f[j]]
          BY <5>3
        <5>5. \A x \in rng[f[i]], y \in rng[f[h]] : x < z /\ z < y /\ x \in Int /\ y \in Int
          BY <4>1, <5>1, <5>3, <5>4
        <5>6. \A x, y \in Int : x < z /\ z < y => x < y
          OBVIOUS
        <5>. QED BY <5>1, <5>5, <5>6
      <4>. QED BY <3>2, <3>3, <4>2, <4>3
    <3>4. Ok(h)
      BY <3>3
    <3>. QED BY <3>1, <3>2, <3>4
  <2> HIDE DEF G
  <2>3. 1 .. m \subseteq G
    BY <1>2, <2>1, <2>2, InductionUpTo
  <2>. QED BY <2>3 DEF G
<1>7. ASSUME NEW x \in Int, p <= x
      PROVE  \A k \in 1 .. m : \/ \E h \in 1 .. m : Leaf(h) /\ x \in rng[f[h]]
                               \/ Leaf(k) /\ Above(x, k)
  <2> DEFINE Found == \E h \in 1 .. m : Leaf(h) /\ x \in rng[f[h]]
             G == {k \in 1 .. m : Found \/ (Leaf(k) /\ Above(x, k))}
  <2>1. 1 \in G
    <3>1. 1 \in 1 .. m /\ Leaf(1) /\ f[1] = n
      BY <1>2, <1>3
    <3>2. IsRange(rng[n]) /\ rng[n] \subseteq Int
      BY <1>1, CellFacts
    <3>3. ASSUME x \notin rng[n], NEW y \in rng[n] PROVE y < x
      <4>1. y \in Int /\ ~ (x <= y)
        BY <1>7, <3>2, <3>3 DEF IsRange
      <4>. QED BY <4>1
    <3>. QED BY <3>1, <3>3
  <2>2. ASSUME NEW k \in 1 .. m - 1, k \in G PROVE k + 1 \in G
    <3>1. PICK h : h = k + 1
      OBVIOUS
    <3>2. h \in 1 .. m /\ k \in 1 .. m
      BY <1>2, <3>1
    <3>3. CASE Found
      BY <3>1, <3>2, <3>3
    <3>4. CASE ~ Found
      <4>1. Leaf(k) /\ Above(x, k)
        BY <2>2, <3>4
      <4>2. f[k] \in DOMAIN node /\ lev[f[k]] = 1
        BY <1>4, <3>2, <4>1
      <4>3. NextOK(node, lev, rng, f[k]) /\ rng[f[k]] \subseteq Int /\ \E y \in Int : y \in rng[f[k]]
        BY <1>1, <4>2, CellFacts DEF NodesOK, NodeOK
      <4>4. node[f[k]].sibling # NoPage
        <5>1. PICK y \in Int : y \in rng[f[k]]
          BY <4>3
        <5>2. y < x
          BY <4>1, <5>1
        <5>3. ASSUME node[f[k]].sibling = NoPage PROVE FALSE
          <6>1. x \in rng[f[k]]
            BY <4>3, <5>1, <5>2, <5>3 DEF NextOK
          <6>2. x < x
            BY <4>1, <6>1
          <6>. QED BY <6>2
        <5>. QED BY <5>3
      <4>5. f[h] = node[f[k]].sibling
        BY <1>3, <3>1, <4>1
      <4>6. Leaf(h)
        BY <4>4, <4>5
      <4>7. x \in rng[f[h]] \/ Above(x, h)
        BY <1>1, <4>1, <4>2, <4>4, <4>5, SiblingAfter
      <4>. QED BY <3>1, <3>2, <3>4, <4>6, <4>7
    <3>. QED BY <3>3, <3>4
  <2> HIDE DEF G
  <2>3. 1 .. m \subseteq G
    BY <1>2, <2>1, <2>2, InductionUpTo
  <2>. QED BY <2>3 DEF G
<1>8. ASSUME NEW x \in Int, p <= x PROVE \E k \in 1 .. m : Leaf(k) /\ x \in rng[f[k]]
  <2>1. SUFFICES ASSUME Leaf(m) PROVE \E k \in 1 .. m : Leaf(k) /\ x \in rng[f[k]]
    <3>1. m \in 1 .. m
      BY <1>2
    <3>. QED BY <1>7, <1>8, <3>1
  <2>2. \A k \in 1 .. m : Leaf(k)
    <3>1. m \in 1 .. m /\ \A k \in 1 .. m : k = m \/ k < m
      BY <1>2
    <3>. QED BY <1>6, <2>1, <3>1
  <2>3. \A k \in 1 .. m : f[k] \in DOMAIN node /\ lev[f[k]] = 1
    BY <1>4, <2>2
  <2>4. f \in [1 .. m -> DOMAIN node]
    <3>1. f = [k \in 1 .. m |-> f[k]]
      BY DEF ChainBy
    <3>. QED BY <2>3, <3>1
  <2>5. \A i, j \in 1 .. m : f[i] = f[j] => i = j
    <3>1. ASSUME NEW i \in 1 .. m, NEW j \in 1 .. m, i < j, f[i] = f[j] PROVE FALSE
      <4>1. \A y, z \in rng[f[i]] : y < z
        BY <1>6, <2>2, <3>1
      <4>2. PICK y \in Int : y \in rng[f[i]]
        BY <1>1, <2>3, CellFacts
      <4>3. y < y
        BY <4>1, <4>2
      <4>. QED BY <4>2, <4>3
    <3>2. \A i, j \in 1 .. m : i = j \/ i < j \/ j < i
      OBVIOUS
    <3>. QED BY <3>1, <3>2
  <2>6. PICK c \in DOMAIN node : lev[c] = 1 /\ x \in rng[c]
    <3>1. 1 \in 1 .. height
      <4>1. lev[n] \in 1 .. height /\ height \in Nat
        BY <1>1 DEF Cells
      <4>. QED BY <4>1
    <3>. QED BY <1>1, <3>1 DEF Cells
  <2>7. \E k \in 1 .. m : f[k] = c
    BY <1>2, <2>4, <2>5, Exhausted
  <2>. QED BY <2>2, <2>6, <2>7
<1>. QED BY <1>4, <1>6, <1>8 DEF ChainOK

(* What a scan takes from a leaf.                                          *)
LEMMA TakenFromLeaf ==
  ASSUME NEW n, node[n].data \in Seq(Int), IsAscending(node[n].data), NEW p \in Int,
         NEW t, t = SubSeq(node[n].data, lower_bound_in_leaf(n, p) + 1, size(n))
  PROVE  /\ t \in Seq(Int) /\ IsAscending(t)
         /\ \A x : Among(t, x) <=> Among(node[n].data, x) /\ p <= x
<1> DEFINE d == node[n].data  k == lower_bound_in_leaf(n, p)  l == Len(d)
<1>1. /\ d \in Seq(Int) /\ l \in Nat /\ \A i \in 1 .. l : d[i] \in Int
      /\ \A i, j \in 1 .. l : i < j => d[i] < d[j]
  BY LenProperties, ElementOfSeq DEF IsAscending
<1>2. k \in 0 .. l /\ (k > 0 => d[k] < p) /\ (k < l => p <= d[k + 1])
  BY LeafSearch
<1>3. t \in Seq(Int) /\ Len(t) = l - k /\ \A j \in 1 .. l - k : t[j] = d[k + j]
  <2>1. t = SubSeq(d, k + 1, Len(d))
    BY DEF size
  <2> HIDE DEF d, k, l
  <2>2. d \in Seq(Int) /\ k \in 0 .. Len(d)
    BY <1>1, <1>2 DEF l
  <2>3. /\ SubSeq(d, k + 1, Len(d)) \in Seq(Int) /\ Len(SubSeq(d, k + 1, Len(d))) = Len(d) - k
        /\ \A j \in 1 .. Len(d) - k : SubSeq(d, k + 1, Len(d))[j] = d[k + j]
    BY ONLY <2>2, SuffixFacts
  <2>. QED BY <2>1, <2>3 DEF l
<1> HIDE DEF d, k, l
<1>4. \A j \in 1 .. l - k : k + j \in 1 .. l /\ (k + j = k + 1 \/ k + 1 < k + j)
  BY <1>1, <1>2
<1>5. IsAscending(t)
  <2>1. ASSUME NEW i \in 1 .. l - k, NEW j \in 1 .. l - k, i < j PROVE t[i] < t[j]
    <3>1. PICK a, b : a = k + i /\ b = k + j
      OBVIOUS
    <3>2. t[i] = d[a] /\ t[j] = d[b]
      BY <1>3, <3>1
    <3>3. a < b
      BY <1>2, <2>1, <3>1
    <3>4. a \in 1 .. l /\ b \in 1 .. l
      BY <1>4, <3>1
    <3>. QED BY ONLY <1>1, <3>2, <3>3, <3>4
  <2>. QED BY <1>3, <2>1 DEF IsAscending
<1>6. ASSUME NEW j \in 1 .. l - k PROVE Among(d, t[j]) /\ p <= t[j]
  <2>1. t[j] = d[k + j] /\ k + j \in 1 .. l
    BY <1>3, <1>4
  <2>2. p <= d[k + j]
    <3>1. k + 1 \in 1 .. l /\ p <= d[k + 1]
      BY <1>1, <1>2
    <3>2. PICK a, b : a = k + 1 /\ b = k + j
      OBVIOUS
    <3>3. a \in 1 .. l /\ b \in 1 .. l /\ (a = b \/ a < b) /\ p <= d[a]
      BY <1>4, <3>1, <3>2
    <3>4. p <= d[b]
      BY ONLY <1>1, <3>3, p \in Int
    <3>. QED BY <3>2, <3>4
  <2>. QED BY <2>1, <2>2 DEF Among, l
<1>7. ASSUME NEW i \in 1 .. l, p <= d[i] PROVE Among(t, d[i])
  <2>1. ~ (i <= k)
    <3>1. ASSUME i <= k PROVE FALSE
      <4>1. k > 0 /\ d[k] < p /\ k \in 1 .. l /\ (i = k \/ i < k)
        BY <1>1, <1>2, <3>1
      <4>2. d[i] <= d[k] /\ d[i] \in Int /\ d[k] \in Int
        BY <1>1, <4>1
      <4>. QED BY <1>7, <4>1, <4>2
    <3>. QED BY <3>1
  <2>2. i - k \in 1 .. l - k /\ k + (i - k) = i
    BY <1>1, <1>2, <2>1
  <2>3. t[i - k] = d[i]
    BY <1>3, <2>2
  <2>. QED BY <1>3, <2>2, <2>3 DEF Among
<1>8. \A x : Among(t, x) <=> Among(d, x) /\ p <= x
  BY ZenonT(30), <1>3, <1>6, <1>7 DEF Among, l
<1>. QED BY <1>3, <1>5, <1>8 DEF d

(* A scan finds the stored pairs from the given one on.                    *)
LEMMA IInvScansFindStored == IInv => ScansFindStored
<1> SUFFICES ASSUME IInv, NEW p \in Pairs
             PROVE  find_range_on_bpt(p) = Ascending({q \in stored : q >= p})
  BY DEF ScansFindStored
<1>1. PICK lev, rng : FlushOK(node, root, height, path, pending, stored, build, lev, rng)
  BY DEF IInv
<1>2. /\ Shape(node, root, height, stored, lev, rng)
      /\ Cells(node, height, lev, rng) /\ NodesOK(node, stored, lev, rng)
      /\ p \in Int /\ stored \subseteq Int /\ height \in Nat
  BY <1>1, BuildsAssumption DEF FlushOK, Shape, Cells, IInv
<1> DEFINE S == {q \in stored : q >= p}
<1>3. S \subseteq Int /\ \A q : q \in S <=> q \in stored /\ q >= p
  BY <1>2
<1> HIDE DEF S
<1>4. CASE height = 0
  <2>1. S = {}
    BY <1>3, <1>4, EmptyFacts
  <2>2. Keys(<<>>, Int) /\ Holds({}, <<>>, Int)
    BY DEF Keys, Holds, IsAscending
  <2>3. Ascending(S) = <<>>
    BY <2>1, <2>2, AscendingIs
  <2>. QED BY <1>4, <2>3 DEF find_range_on_bpt, S
<1>5. CASE height # 0
  <2> DEFINE m == Cardinality(DOMAIN node)  n == leaf_of(find_path(p))
             f == CHOOSE x : ChainBy(x, m, n)
             from(h) == SubSeq(node[h].data, lower_bound_in_leaf(h, p) + 1, size(h))
             q == [k \in 1 .. m |-> IF f[k] = NoPage THEN <<>> ELSE from(f[k])]
             F == FlattenSeq(q)
  <2>1. find_range_on_bpt(p) = F
    BY <1>5 DEF find_range_on_bpt, ChainBy
  <2>2. m \in Nat
    BY <1>2, FS_CardinalityType DEF Cells
  <2> HIDE DEF m
  <2>3. ChainBy(f, m, n)
    <3>1. \E x : ChainBy(x, m, n)
      BY <2>2, ChainExists
    <3>. QED BY <3>1, Zenon
  <2> HIDE DEF f
  <2>4. n \in DOMAIN node /\ lev[n] = 1 /\ p \in rng[n]
    <3>1. /\ PathOK(find_path(p), height, node, root, height, lev)
          /\ \A k \in 1 .. height : p \in rng[find_path(p).pages[k]]
      BY <1>2, <1>5, Descent
    <3>2. height \in 1 .. height /\ height - height + 1 = 1
      BY <1>2, <1>5
    <3>3. n = find_path(p).pages[height]
      BY <1>2, <3>1, LeafOfPath DEF PathOK
    <3> HIDE DEF n
    <3>. QED BY <3>1, <3>2, <3>3 DEF PathOK
  <2> HIDE DEF n
  <2>5. ChainOK(lev, rng, f, m, p)
    BY <1>2, <2>3, <2>4, ChainFacts DEF m
  <2>6. ASSUME NEW k \in 1 .. m, f[k] # NoPage
        PROVE  /\ from(f[k]) \in Seq(Int) /\ IsAscending(from(f[k]))
               /\ \A x : Among(from(f[k]), x) <=> Among(node[f[k]].data, x) /\ p <= x
               /\ \A x : Among(node[f[k]].data, x) => x \in Int /\ x \in rng[f[k]] /\ x \in stored
               /\ \A x : x \in rng[f[k]] /\ x \in stored => Among(node[f[k]].data, x)
    <3>1. f[k] \in DOMAIN node /\ lev[f[k]] = 1
      BY <2>5, <2>6 DEF ChainOK
    <3>2. Keys(node[f[k]].data, rng[f[k]]) /\ Holds(stored, node[f[k]].data, rng[f[k]])
      BY <1>2, <3>1 DEF NodesOK, NodeOK
    <3>3. rng[f[k]] \subseteq Int
      BY <1>2, <3>1, CellFacts
    <3>4. node[f[k]].data \in Seq(Int) /\ IsAscending(node[f[k]].data)
      BY <3>2 DEF Keys
    <3>5. /\ \A x : Among(node[f[k]].data, x) => x \in Int /\ x \in rng[f[k]] /\ x \in stored
          /\ \A x : x \in rng[f[k]] /\ x \in stored => Among(node[f[k]].data, x)
      BY <3>2, <3>3 DEF Keys, Holds, Among
    <3>6. /\ from(f[k]) \in Seq(Int) /\ IsAscending(from(f[k]))
          /\ \A x : Among(from(f[k]), x) <=> Among(node[f[k]].data, x) /\ p <= x
      BY <1>2, <3>4, TakenFromLeaf
    <3>. QED BY <3>5, <3>6
  <2>7. /\ \A k \in 1 .. m : f[k] = NoPage => q[k] = <<>>
        /\ \A k \in 1 .. m : f[k] # NoPage => q[k] = from(f[k])
        /\ q = [k \in 1 .. m |-> q[k]]
    OBVIOUS
  <2> HIDE DEF from, q
  <2>8. \A x : ~ Among(<<>>, x)
    <3>1. 1 .. Len(<<>>) = {}
      OBVIOUS
    <3>. QED BY <3>1 DEF Among
  <2>9. \A k \in 1 .. m : q[k] \in Seq(Int) /\ IsAscending(q[k])
    <3>1. <<>> \in Seq(Int) /\ IsAscending(<<>>)
      BY DEF IsAscending
    <3>. QED BY <2>6, <2>7, <3>1
  <2>10. \A k \in 1 .. m : \A x : Among(q[k], x) <=>
            f[k] # NoPage /\ x \in rng[f[k]] /\ x \in stored /\ p <= x
    BY <2>6, <2>7, <2>8
  <2>11. q \in Seq(Seq(Int)) /\ Len(q) = m
    <3>1. ListOf(q, m, Seq(Int))
      BY <2>2, <2>7, <2>9 DEF ListOf
    <3>. QED BY <3>1, ListIsSeq
  <2> DEFINE Before == {r \in Int \X Int : r[1] < r[2]}
  <2>12. \A x, y \in Int : <<x, y>> \in Before <=> x < y
    OBVIOUS
  <2> HIDE DEF Before
  <2>13. \A s \in Seq(Int) : Sorted(s, Before) <=> IsAscending(s)
    <3>1. ASSUME NEW s \in Seq(Int) PROVE Sorted(s, Before) <=> IsAscending(s)
      <4>1. \A i \in 1 .. Len(s) : s[i] \in Int
        BY ElementOfSeq
      <4>. QED BY <2>12, <4>1 DEF Sorted, IsAscending
    <3>. QED BY <3>1
  <2>14. /\ F \in Seq(Int)
         /\ \A x : Among(F, x) <=> \E k \in 1 .. m : Among(q[k], x)
         /\ \A B : /\ \A i \in 1 .. m : Sorted(q[i], B)
                   /\ \A i, j \in 1 .. m : i < j => AllBefore(q[i], q[j], B)
                   => Sorted(F, B)
    BY <2>11, FlattenFacts
  <2> HIDE DEF F
  <2>15. ASSUME NEW i \in 1 .. m, NEW j \in 1 .. m, i < j PROVE AllBefore(q[i], q[j], Before)
    <3>1. ASSUME NEW a \in 1 .. Len(q[i]), NEW b \in 1 .. Len(q[j])
          PROVE  <<q[i][a], q[j][b]>> \in Before
      <4>1. Among(q[i], q[i][a]) /\ Among(q[j], q[j][b])
        BY DEF Among
      <4>2. /\ f[i] # NoPage /\ q[i][a] \in rng[f[i]] /\ q[i][a] \in stored
            /\ f[j] # NoPage /\ q[j][b] \in rng[f[j]] /\ q[j][b] \in stored
        BY <2>10, <4>1
      <4>3. q[i][a] < q[j][b]
        BY <2>5, <2>15, <4>2 DEF ChainOK
      <4>. QED BY <1>2, <2>12, <4>2, <4>3
    <3>. QED BY <3>1 DEF AllBefore
  <2>16. IsAscending(F)
    <3>1. \A i \in 1 .. m : Sorted(q[i], Before)
      BY <2>9, <2>13
    <3>2. Sorted(F, Before)
      BY <2>14, <2>15, <3>1
    <3>. QED BY <2>13, <2>14, <3>2
  <2>17. Keys(F, Int)
    <3>1. \A i \in 1 .. Len(F) : F[i] \in Int
      BY <2>14, ElementOfSeq
    <3>. QED BY <2>14, <2>16, <3>1 DEF Keys
  <2>18. Holds(S, F, Int)
    <3>1. ASSUME NEW x \in Int PROVE x \in S <=> Among(F, x)
      <4>1. ASSUME x \in S PROVE Among(F, x)
        <5>1. x \in stored /\ p <= x
          BY <1>2, <1>3, <4>1
        <5>2. PICK k \in 1 .. m : f[k] # NoPage /\ x \in rng[f[k]]
          BY <2>5, <5>1 DEF ChainOK
        <5>. QED BY <2>10, <2>14, <5>1, <5>2
      <4>2. ASSUME Among(F, x) PROVE x \in S
        <5>1. x \in stored /\ p <= x
          BY <2>10, <2>14, <4>2
        <5>. QED BY <1>2, <1>3, <5>1
      <4>. QED BY <4>1, <4>2
    <3>. QED BY <3>1 DEF Holds, Among
  <2>19. Ascending(S) = F
    BY <1>3, <2>17, <2>18, AscendingIs
  <2>. QED BY <2>1, <2>19 DEF S
<1>. QED BY <1>4, <1>5

(* After every step, one half way through a repair included, a scan from   *)
(* any pair finds exactly the stored pairs from there on, in order.        *)
THEOREM ScansFindStoredHolds == Spec => []ScansFindStored
BY SpecIInv, IInvScansFindStored, PTL

-----------------------------------------------------------------------------
(***************************************************************************)
(* The pages, level by level.                                              *)
(***************************************************************************)

(* Every page but the root's is a child of a page of the level above.      *)
LEMMA HasParent ==
  ASSUME NEW nd, NEW ht, NEW lev, NEW rng, NEW st,
         Cells(nd, ht, lev, rng), NodesOK(nd, st, lev, rng),
         NEW c \in DOMAIN nd, lev[c] < ht
  PROVE  \E n \in DOMAIN nd : lev[n] = lev[c] + 1 /\ c \in Children(nd, n)
<1>1. PICK p \in Int : p \in rng[c]
  BY CellFacts
<1>2. lev[c] + 1 \in 1 .. ht /\ lev[c] \in Nat /\ lev[c] >= 1
  BY CellFacts
<1>3. PICK n \in DOMAIN nd : lev[n] = lev[c] + 1 /\ p \in rng[n]
  BY <1>2 DEF Cells
<1>4. lev[n] > 1
  BY <1>2, <1>3
<1>5. /\ nd[n].data \in Seq(Int) /\ Len(nd[n].data) \in Nat
      /\ Len(nd[n].children) = Len(nd[n].data) + 1
      /\ \A i \in 0 .. Len(nd[n].data) :
           Below(DOMAIN nd, lev, rng, nd[n].children[i + 1], nd[n].data, i, lev[n], rng[n])
  BY <1>4, ChildFacts
<1>6. PICK i \in 0 .. Len(nd[n].data) : InSlot(nd[n].data, i, p)
  BY <1>5, SlotExists
<1> DEFINE e == nd[n].children[i + 1]
<1>7. e \in DOMAIN nd /\ lev[e] = lev[c] /\ p \in rng[e]
  BY <1>1, <1>2, <1>3, <1>5, <1>6 DEF Below
<1>8. e \in Children(nd, n)
  BY <1>5, ChildOfSlot
<1> HIDE DEF e
<1>9. e = c
  BY <1>1, <1>7, CellsDisjoint
<1>. QED BY <1>3, <1>8, <1>9

LevelsBy(f, h) ==
  f = [k \in 1 .. h |-> IF k = 1 THEN <<root>>
                        ELSE LET above == f[k - 1]
                             IN FlattenSeq([i \in 1 .. Len(above) |-> node[above[i]].children])]

LEMMA LevelsExist ==
  ASSUME NEW h, h \in Nat
  PROVE  \E f : LevelsBy(f, h)
<1> DEFINE G == {i \in Nat : \E f : LevelsBy(f, i)}
<1>1. 0 \in G
  <2>1. LevelsBy(<<>>, 0)
    BY DEF LevelsBy
  <2>. QED BY <2>1
<1>2. ASSUME NEW m \in Nat, m \in G PROVE m + 1 \in G
  <2>1. PICK f : LevelsBy(f, m)
    BY <1>2
  <2> DEFINE NextRow(above) == FlattenSeq([i \in 1 .. Len(above) |-> node[above[i]].children])
             old == [k \in 1 .. m |-> IF k = 1 THEN <<root>> ELSE NextRow(f[k - 1])]
             g == [k \in 1 .. m + 1 |-> IF k = 1 THEN <<root>> ELSE NextRow(f[k - 1])]
  <2>2. \A k \in 1 .. m : g[k] = f[k]
    <3>1. f = old
      BY <2>1 DEF LevelsBy
    <3> HIDE DEF NextRow
    <3>2. \A k \in 1 .. m : g[k] = old[k]
      OBVIOUS
    <3> HIDE DEF g, old
    <3>. QED BY ONLY <3>1, <3>2
  <2>3. \A k \in 1 .. m + 1 : k # 1 => g[k - 1] = f[k - 1]
    <3>1. \A k \in 1 .. m + 1 : k # 1 => k - 1 \in 1 .. m
      OBVIOUS
    <3> HIDE DEF g
    <3>. QED BY ONLY <2>2, <3>1
  <2>4. LevelsBy(g, m + 1)
    BY <2>3 DEF LevelsBy
  <2>5. m + 1 \in Nat
    OBVIOUS
  <2>. QED BY <2>4, <2>5
<1>3. Nat \subseteq G
  <2>. HIDE DEF G
  <2>. QED BY <1>1, <1>2, Induction
<1>. QED BY <1>3

(* Two different pages.                                                    *)
Differ == {r \in Nat \X Nat : r[1] # r[2]}

(* A level has each page of its height in the tree once.                   *)
LevelOK(s, lev, l) ==
  /\ s \in Seq(Nat)
  /\ \A n : Among(s, n) <=> n \in DOMAIN node /\ lev[n] = l
  /\ Sorted(s, Differ)

LEMMA NextLevel ==
  ASSUME NEW lev, NEW rng, NEW st, Cells(node, height, lev, rng), NodesOK(node, st, lev, rng),
         NEW s, NEW l, l \in Nat, l > 1, l <= height, LevelOK(s, lev, l)
  PROVE  LevelOK(FlattenSeq([i \in 1 .. Len(s) |-> node[s[i]].children]), lev, l - 1)
<1> DEFINE q == [i \in 1 .. Len(s) |-> node[s[i]].children]
<1>1. /\ s \in Seq(Nat) /\ Len(s) \in Nat /\ Sorted(s, Differ)
      /\ \A n : Among(s, n) <=> n \in DOMAIN node /\ lev[n] = l
  BY LenProperties DEF LevelOK
<1>2. \A i \in 1 .. Len(s) : s[i] \in DOMAIN node /\ lev[s[i]] = l
  BY <1>1 DEF Among
<1>3. ASSUME NEW n \in DOMAIN node, lev[n] = l
      PROVE  /\ node[n].children \in Seq(Nat)
             /\ Sorted(node[n].children, Differ)
             /\ \A c : Among(node[n].children, c) <=> c \in Children(node, n)
             /\ \A c \in Children(node, n) : c \in DOMAIN node /\ lev[c] = l - 1 /\ c \in Nat
  <2> DEFINE ch == node[n].children  d == node[n].data
  <2>1. node[n].children \in Seq(Nat)
    BY CellFacts
  <2>2. /\ Len(d) \in Nat /\ Len(ch) = Len(d) + 1
        /\ \A c \in Children(node, n) : c \in DOMAIN node /\ lev[c] = l - 1
    BY <1>3, ChildFacts
  <2>3. \A c \in Children(node, n) : c \in Nat
    BY <2>2 DEF Cells
  <2>4. ASSUME NEW i \in 1 .. Len(ch), NEW j \in 1 .. Len(ch), i < j
        PROVE  <<ch[i], ch[j]>> \in Differ
    <3>1. i - 1 \in 0 .. Len(d) /\ j - 1 \in 0 .. Len(d) /\ (i - 1) + 1 = i /\ (j - 1) + 1 = j
      BY <2>2
    <3>2. ASSUME ch[i] = ch[j] PROVE FALSE
      <4>1. i - 1 = j - 1
        BY <1>3, <3>1, <3>2, ChildPosition
      <4>. QED BY <2>4, <4>1
    <3>3. ch[i] \in Nat /\ ch[j] \in Nat
      BY <2>1, ElementOfSeq
    <3> HIDE DEF ch
    <3>. QED BY <3>2, <3>3 DEF Differ
  <2>. QED BY <2>1, <2>2, <2>3, <2>4 DEF Sorted, Among, Children
<1>4. \A i \in 1 .. Len(s) : q[i] = node[s[i]].children
  OBVIOUS
<1>5. q \in Seq(Seq(Nat)) /\ Len(q) = Len(s)
  <2>1. ListOf(q, Len(s), Seq(Nat))
    BY <1>1, <1>2, <1>3 DEF ListOf
  <2> HIDE DEF q
  <2>. QED BY <2>1, ListIsSeq
<1> HIDE DEF q
<1> DEFINE F == FlattenSeq(q)
<1>6. /\ F \in Seq(Nat)
      /\ \A x : Among(F, x) <=> \E i \in 1 .. Len(s) : Among(q[i], x)
      /\ \A B : /\ \A i \in 1 .. Len(s) : Sorted(q[i], B)
                /\ \A i, j \in 1 .. Len(s) : i < j => AllBefore(q[i], q[j], B)
                => Sorted(F, B)
  BY <1>5, FlattenFacts
<1> HIDE DEF F
<1>7. ASSUME NEW i \in 1 .. Len(s), NEW j \in 1 .. Len(s), i < j PROVE AllBefore(q[i], q[j], Differ)
  <2>1. ASSUME NEW a \in 1 .. Len(q[i]), NEW b \in 1 .. Len(q[j])
        PROVE  <<q[i][a], q[j][b]>> \in Differ
    <3>1. Among(q[i], q[i][a]) /\ Among(q[j], q[j][b])
      BY DEF Among
    <3>2. q[i][a] \in Children(node, s[i]) /\ q[j][b] \in Children(node, s[j])
      BY <1>2, <1>3, <1>4, <3>1
    <3>3. q[i][a] \in Nat /\ q[j][b] \in Nat
      BY <1>2, <1>3, <3>2
    <3>4. ASSUME q[i][a] = q[j][b] PROVE FALSE
      <4>1. s[i] = s[j]
        BY <1>2, <3>2, <3>4, ParentUnique
      <4>2. <<s[i], s[j]>> \in Differ
        BY <1>1, <1>7 DEF Sorted
      <4>. QED BY <4>1, <4>2 DEF Differ
    <3>. QED BY <3>3, <3>4 DEF Differ
  <2>. QED BY <2>1 DEF AllBefore
<1>8. \A i \in 1 .. Len(s) : Sorted(q[i], Differ)
  BY <1>2, <1>3, <1>4
<1>9. Sorted(F, Differ)
  BY <1>6, <1>7, <1>8
<1>10. ASSUME NEW c PROVE Among(F, c) <=> c \in DOMAIN node /\ lev[c] = l - 1
  <2>1. ASSUME Among(F, c) PROVE c \in DOMAIN node /\ lev[c] = l - 1
    <3>1. PICK i \in 1 .. Len(s) : Among(q[i], c)
      BY <1>6, <2>1
    <3>. QED BY <1>2, <1>3, <1>4, <3>1
  <2>2. ASSUME c \in DOMAIN node, lev[c] = l - 1 PROVE Among(F, c)
    <3>1. lev[c] < height /\ lev[c] + 1 = l
      BY <2>2 DEF Cells
    <3>2. PICK n \in DOMAIN node : lev[n] = l /\ c \in Children(node, n)
      BY <2>2, <3>1, HasParent
    <3>3. PICK i \in 1 .. Len(s) : s[i] = n
      BY <1>1, <3>2 DEF Among
    <3>4. Among(q[i], c)
      BY <1>3, <1>4, <3>2, <3>3
    <3>. QED BY <1>6, <3>4
  <2>. QED BY <2>1, <2>2
<1>11. LevelOK(F, lev, l - 1)
  BY <1>6, <1>9, <1>10 DEF LevelOK
<1>. QED BY <1>11 DEF F, q

LEMMA LevelFacts ==
  ASSUME NEW lev, NEW rng, NEW st, Shape(node, root, height, st, lev, rng), height \in Nat,
         NEW k \in 1 .. height
  PROVE  LevelOK(Level[k], lev, height - k + 1)
<1> DEFINE f == CHOOSE x : LevelsBy(x, height)
<1>1. Level = f
  BY DEF Level, LevelsBy
<1>2. LevelsBy(f, height)
  <2>1. \E x : LevelsBy(x, height)
    BY LevelsExist
  <2>. QED BY <2>1, Zenon
<1> HIDE DEF f
<1>3. Cells(node, height, lev, rng) /\ NodesOK(node, st, lev, rng)
  BY DEF Shape
<1>4. \A i \in 1 .. height : f[i] =
         IF i = 1 THEN <<root>>
         ELSE LET above == f[i - 1]
              IN FlattenSeq([j \in 1 .. Len(above) |-> node[above[j]].children])
  BY <1>2 DEF LevelsBy
<1> DEFINE G == {i \in 1 .. height : LevelOK(f[i], lev, height - i + 1)}
<1>5. height > 0 => 1 \in G
  <2>1. SUFFICES ASSUME height > 0 PROVE 1 \in G
    OBVIOUS
  <2>2. 1 \in 1 .. height /\ height - 1 + 1 = height
    BY <2>1
  <2>3. root \in DOMAIN node /\ lev[root] = height /\ root \in Nat
    BY <1>3, <2>1 DEF Shape, Cells
  <2>4. f[1] = <<root>> /\ Len(<<root>>) = 1 /\ <<root>>[1] = root /\ <<root>> \in Seq(Nat)
    <3>1. f[1] = <<root>>
      BY ONLY <1>4, <2>2
    <3>. QED BY ONLY <2>3, <3>1
  <2>5. \A n : Among(<<root>>, n) <=> n \in DOMAIN node /\ lev[n] = height
    <3>1. \A n \in DOMAIN node : lev[n] = height => n = root
      BY RootAlone
    <3>2. \A n : Among(<<root>>, n) <=> n = root
      BY <2>4 DEF Among
    <3>. QED BY <2>3, <3>1, <3>2
  <2>6. Sorted(<<root>>, Differ)
    <3>1. \A i, j \in 1 .. 1 : ~ (i < j)
      OBVIOUS
    <3>. QED BY <2>4, <3>1 DEF Sorted
  <2>7. LevelOK(f[1], lev, height)
    BY <2>4, <2>5, <2>6 DEF LevelOK
  <2>. QED BY <2>2, <2>7
<1>6. ASSUME NEW i \in 1 .. height - 1, i \in G PROVE i + 1 \in G
  <2>1. PICK h : h = i + 1
    OBVIOUS
  <2>2. h \in 1 .. height /\ h # 1 /\ h - 1 = i /\ (height - i + 1) - 1 = height - h + 1
    BY <2>1
  <2>3. height - i + 1 \in Nat /\ height - i + 1 > 1 /\ height - i + 1 <= height
    OBVIOUS
  <2>4. f[h] = FlattenSeq([j \in 1 .. Len(f[i]) |-> node[f[i][j]].children])
    BY <1>4, <2>2
  <2>5. LevelOK(f[i], lev, height - i + 1)
    BY <1>6
  <2>6. LevelOK(f[h], lev, (height - i + 1) - 1)
    BY <1>3, <2>3, <2>4, <2>5, NextLevel
  <2>. QED BY <2>1, <2>2, <2>6
<1>7. 1 .. height \subseteq G
  <2> HIDE DEF G
  <2>. QED BY <1>5, <1>6, InductionUpTo
<1>. QED BY <1>1, <1>7

LEMMA IInvTypeOK == IInv => TypeOK
<1> SUFFICES ASSUME IInv PROVE TypeOK
  OBVIOUS
<1>1. PICK lev, rng : FlushOK(node, root, height, path, pending, stored, build, lev, rng)
  BY DEF IInv
<1>2. /\ Shape(node, root, height, stored, lev, rng) /\ height \in Nat /\ stored \subseteq Pairs
      /\ Cells(node, height, lev, rng) /\ NodesOK(node, stored, lev, rng)
      /\ DOMAIN node \subseteq Nat
      /\ Working(node, root, height, path, pending, build, lev)
  BY <1>1 DEF FlushOK, Shape, Cells, IInv
<1>3. root \in DOMAIN node \cup {NoPage} /\ (height = 0 <=> root = NoPage)
  <2>1. height = 0 => root = NoPage
    BY <1>2 DEF Shape
  <2>2. height # 0 => root \in DOMAIN node /\ root \in Nat
    BY <1>2 DEF Shape
  <2>3. NoPage \notin Nat
    BY BuildsAssumption
  <2>. QED BY <2>1, <2>2, <2>3
<1>4. \A w, K : PathOK(w, K, node, root, height, lev) =>
         K \in 1 .. height /\ DOMAIN w.pages = 1 .. height /\ w # NoPath
  <2>1. ASSUME NEW w, NEW K, PathOK(w, K, node, root, height, lev)
        PROVE  K \in 1 .. height /\ DOMAIN w.pages = 1 .. height /\ w # NoPath
    <3>1. K \in 1 .. height /\ DOMAIN w.pages = 1 .. height
      BY <2>1 DEF PathOK
    <3>2. DOMAIN NoPath.pages = {}
      BY DEF NoPath
    <3>. QED BY <3>1, <3>2
  <2>. QED BY <2>1
<1>5. /\ path = NoPath \/ DOMAIN path.pages = 1 .. height
      /\ pending = NoRepair \/ (pending.level \in 1 .. height /\ path # NoPath)
  BY <1>2, <1>4 DEF Working
<1>6. ASSUME NEW k \in 1 .. height, NEW n \in ToSet(Level[k])
      PROVE  /\ n \in DOMAIN node
             /\ IF k = height THEN node[n].children = <<>>
                ELSE Len(node[n].children) = size(n) + 1
  <2>1. LevelOK(Level[k], lev, height - k + 1)
    BY <1>2, LevelFacts
  <2>2. Among(Level[k], n)
    BY <2>1, ToSetFacts DEF LevelOK, Among
  <2>3. n \in DOMAIN node /\ lev[n] = height - k + 1
    BY <2>1, <2>2 DEF LevelOK
  <2>4. (k = height => lev[n] = 1) /\ (k # height => lev[n] > 1)
    BY <1>2, <2>3
  <2>. QED BY <1>2, <2>3, <2>4, LeafLevel DEF size
<1>. QED BY <1>2, <1>3, <1>5, <1>6 DEF TypeOK

(* The variables hold what the code's types allow, and every page is a     *)
(* leaf or an index node as its level asks for.                            *)
THEOREM TypeCorrect == Spec => []TypeOK
BY SpecIInv, IInvTypeOK, PTL

(* A sequence without repetition is as long as the set of its elements.    *)
LEMMA LengthOfSet ==
  ASSUME NEW s, s \in Seq(Nat), Sorted(s, Differ), NEW T, \A n : Among(s, n) <=> n \in T
  PROVE  Cardinality(T) = Len(s)
<1> DEFINE m == Len(s)
<1>1. m \in Nat /\ s \in [1 .. m -> Nat] /\ \A i \in 1 .. m : s[i] \in T
  <2>1. m \in Nat /\ s \in [1 .. m -> Nat]
    BY LenProperties
  <2>. QED BY <2>1 DEF Among
<1>2. \A i, j \in 1 .. m : i < j => s[i] # s[j]
  BY DEF Sorted, Differ
<1>3. \A p \in T : \E j \in 1 .. m : s[j] = p
  BY DEF Among
<1> HIDE DEF m
<1>4. s \in [1 .. m -> T]
  BY <1>1
<1>5. \A i, j \in 1 .. m : s[i] = s[j] => i = j
  <2>1. \A i, j \in 1 .. m : i = j \/ i < j \/ j < i
    BY <1>1
  <2>. QED BY <1>2, <2>1
<1>6. s \in Bijection(1 .. m, T)
  BY <1>3, <1>4, <1>5 DEF Bijection, Injection, Surjection, IsInjective
<1>7. IsFiniteSet(1 .. m) /\ Cardinality(1 .. m) = m
  <2>1. 1 \in Int /\ m \in Int /\ (1 > m => m = 0) /\ m - 1 + 1 = m
    BY <1>1
  <2>. QED BY <2>1, FS_Interval
<1>8. ExistsBijection(1 .. m, T)
  BY <1>6 DEF ExistsBijection
<1>. QED BY <1>7, <1>8, FS_Bijection DEF m

LEMMA IInvPagesExact == IInv => PagesExact
<1> SUFFICES ASSUME IInv PROVE PagesExact
  OBVIOUS
<1>1. PICK lev, rng : FlushOK(node, root, height, path, pending, stored, build, lev, rng)
  BY DEF IInv
<1>2. /\ Shape(node, root, height, stored, lev, rng) /\ height \in Nat
      /\ Cells(node, height, lev, rng)
  BY <1>1 DEF FlushOK, Shape, Cells
<1>3. CASE height = 0
  <2>1. DOMAIN node = {}
    BY <1>3, EmptyFacts
  <2>2. Len(<<>>) = 0 /\ ToSet(<<>>) = {} /\ Cardinality({}) = 0
    BY FS_EmptySet DEF ToSet
  <2>. QED BY <1>3, <2>1, <2>2 DEF PagesExact
<1>4. CASE height # 0
  <2> DEFINE q == [k \in 1 .. height |-> Level[k]]  F == FlattenSeq(q)
  <2>1. \A k \in 1 .. height : q[k] = Level[k]
    OBVIOUS
  <2>2. \A k \in 1 .. height : LevelOK(q[k], lev, height - k + 1)
    BY <1>2, <2>1, LevelFacts
  <2>3. q \in Seq(Seq(Nat)) /\ Len(q) = height
    <3>1. ListOf(q, height, Seq(Nat))
      BY <1>2, <2>2 DEF ListOf, LevelOK
    <3> HIDE DEF q
    <3>. QED BY <3>1, ListIsSeq
  <2> HIDE DEF q
  <2>4. /\ F \in Seq(Nat)
        /\ \A x : Among(F, x) <=> \E i \in 1 .. height : Among(q[i], x)
        /\ \A B : /\ \A i \in 1 .. height : Sorted(q[i], B)
                  /\ \A i, j \in 1 .. height : i < j => AllBefore(q[i], q[j], B)
                  => Sorted(F, B)
    BY <2>3, FlattenFacts
  <2> HIDE DEF F
  <2>5. ASSUME NEW i \in 1 .. height, NEW j \in 1 .. height, i < j
        PROVE  AllBefore(q[i], q[j], Differ)
    <3>1. ASSUME NEW a \in 1 .. Len(q[i]), NEW b \in 1 .. Len(q[j])
          PROVE  <<q[i][a], q[j][b]>> \in Differ
      <4>1. Among(q[i], q[i][a]) /\ Among(q[j], q[j][b])
        BY DEF Among
      <4>2. /\ lev[q[i][a]] = height - i + 1 /\ q[i][a] \in DOMAIN node
            /\ lev[q[j][b]] = height - j + 1 /\ q[j][b] \in DOMAIN node
        BY <2>2, <4>1 DEF LevelOK
      <4>3. height - i + 1 # height - j + 1
        BY <1>2, <2>5
      <4>4. q[i][a] # q[j][b]
        BY <4>2, <4>3
      <4>5. q[i][a] \in Nat /\ q[j][b] \in Nat
        BY <1>2, <4>2 DEF Cells
      <4>. QED BY <4>4, <4>5 DEF Differ
    <3>. QED BY <3>1 DEF AllBefore
  <2>6. Sorted(F, Differ)
    BY <2>2, <2>4, <2>5 DEF LevelOK
  <2>7. ASSUME NEW n PROVE Among(F, n) <=> n \in DOMAIN node
    <3>1. Among(F, n) => n \in DOMAIN node
      BY <2>2, <2>4 DEF LevelOK
    <3>2. ASSUME n \in DOMAIN node PROVE Among(F, n)
      <4>1. lev[n] \in 1 .. height
        BY <1>2, <3>2 DEF Cells
      <4>2. PICK k : k = height - lev[n] + 1
        OBVIOUS
      <4>3. k \in 1 .. height /\ height - k + 1 = lev[n]
        BY <1>2, <4>1, <4>2
      <4>4. Among(q[k], n)
        BY <2>2, <3>2, <4>3 DEF LevelOK
      <4>. QED BY <2>4, <4>3, <4>4
    <3>. QED BY <3>1, <3>2
  <2>8. Cardinality(DOMAIN node) = Len(F)
    BY <2>4, <2>6, <2>7, LengthOfSet
  <2>9. ToSet(F) = DOMAIN node
    BY <2>4, <2>7, ToSetFacts DEF Among
  <2>. QED BY <1>4, <2>8, <2>9 DEF PagesExact, F, q
<1>. QED BY <1>3, <1>4

(* The pages in use are those of the tree, and each is in it once.         *)
THEOREM PagesExactHolds == Spec => []PagesExact
BY SpecIInv, IInvPagesExact, PTL

-----------------------------------------------------------------------------
(***************************************************************************)
(* The look-ahead.                                                         *)
(***************************************************************************)

LEMMA MaxFacts ==
  ASSUME NEW B, B \subseteq Int, NEW h \in Int, \A n \in B : n <= h, B # {}
  PROVE  Max(B) \in B /\ \A n \in B : n <= Max(B)
<1>1. \E n \in B : \A k \in B : n >= k
  <2>1. PICK n \in B : \A k \in B : k <= n
    BY GreatestNumber
  <2>2. \A k \in B : n >= k
    BY <2>1
  <2>. QED BY <2>2
<1> DEFINE m == CHOOSE n \in B : \A k \in B : n >= k
<1>2. m \in B /\ \A k \in B : m >= k
  BY <1>1, Zenon
<1>3. Max(B) = m
  BY DEF Max
<1> HIDE DEF m
<1>4. \A k \in B : k <= m
  BY <1>2
<1>. QED BY <1>2, <1>3, <1>4

(* The descent to p, page by page.                                         *)
Descends(lev, rng, w, p) ==
  /\ height \in Nat /\ height > 0
  /\ w.pages \in Seq(Nat) /\ Len(w.pages) = height
  /\ \A k \in 1 .. height :
        w.pages[k] \in DOMAIN node /\ lev[w.pages[k]] = height - k + 1 /\ p \in rng[w.pages[k]]
  /\ \A k \in 1 .. height - 1 :
        /\ w.pages[k + 1] = node[w.pages[k]].children[find_idx_in_index(w.pages[k], p) + 1]
        /\ find_idx_in_index(w.pages[k], p) \in 0 .. size(w.pages[k])
        /\ InSlot(node[w.pages[k]].data, find_idx_in_index(w.pages[k], p), p)

LEMMA DescentDescends ==
  ASSUME NEW lev, NEW rng, NEW st, Shape(node, root, height, st, lev, rng), height > 0,
         NEW p \in Int
  PROVE  Descends(lev, rng, find_path(p), p)
<1> DEFINE w == find_path(p)
<1>1. /\ Cells(node, height, lev, rng) /\ NodesOK(node, st, lev, rng) /\ height \in Nat
  BY DEF Shape, Cells
<1>2. PathOK(w, height, node, root, height, lev) /\ \A k \in 1 .. height : p \in rng[w.pages[k]]
  BY Descent
<1>3. /\ \A k \in 1 .. height - 1 : /\ w.pos[k] = find_idx_in_index(w.pages[k], p)
                                    /\ w.pages[k + 1] = node[w.pages[k]].children[w.pos[k] + 1]
  BY <1>1, DescentFacts
<1> HIDE DEF w
<1>4. /\ w.pages \in [1 .. height -> Nat]
      /\ \A k \in 1 .. height : w.pages[k] \in DOMAIN node /\ lev[w.pages[k]] = height - k + 1
  BY <1>2 DEF PathOK
<1>5. w.pages \in Seq(Nat) /\ Len(w.pages) = height
  <2>1. ListOf(w.pages, height, Nat)
    BY <1>1, <1>4 DEF ListOf
  <2>. QED BY <2>1, ListIsSeq
<1>6. ASSUME NEW k \in 1 .. height - 1
      PROVE  /\ find_idx_in_index(w.pages[k], p) \in 0 .. size(w.pages[k])
             /\ InSlot(node[w.pages[k]].data, find_idx_in_index(w.pages[k], p), p)
  <2>1. w.pages[k] \in DOMAIN node
    <3>1. k \in 1 .. height
      BY <1>1
    <3>. QED BY <1>4, <3>1
  <2>2. node[w.pages[k]].data \in Seq(Int) /\ IsAscending(node[w.pages[k]].data)
    BY <1>1, <2>1 DEF NodesOK, NodeOK, Keys
  <2>. QED BY <2>2, IndexSearch
<1>7. \A k \in 1 .. height :
         w.pages[k] \in DOMAIN node /\ lev[w.pages[k]] = height - k + 1 /\ p \in rng[w.pages[k]]
  BY <1>2, <1>4
<1>8. \A k \in 1 .. height - 1 :
         w.pages[k + 1] = node[w.pages[k]].children[find_idx_in_index(w.pages[k], p) + 1]
  <2>1. ASSUME NEW k \in 1 .. height - 1
        PROVE  w.pages[k + 1] = node[w.pages[k]].children[find_idx_in_index(w.pages[k], p) + 1]
    <3>1. /\ w.pos[k] = find_idx_in_index(w.pages[k], p)
          /\ w.pages[k + 1] = node[w.pages[k]].children[w.pos[k] + 1]
      BY <1>3
    <3>. QED BY ONLY <3>1
  <2>. QED BY <2>1
<1>9. Descends(lev, rng, w, p)
  BY ONLY <1>1, <1>5, <1>6, <1>7, <1>8, height > 0 DEF Descends
<1>. QED BY <1>9 DEF w

(* Two descents share the pages whose ranges have both pairs.              *)
LEMMA SharedPage ==
  ASSUME NEW lev, NEW rng, Cells(node, height, lev, rng),
         NEW v, NEW p, NEW w, NEW q,
         Descends(lev, rng, v, p), Descends(lev, rng, w, q), NEW k \in 1 .. height,
         p \in rng[w.pages[k]]
  PROVE  v.pages[k] = w.pages[k]
<1>1. /\ v.pages[k] \in DOMAIN node /\ lev[v.pages[k]] = height - k + 1 /\ p \in rng[v.pages[k]]
      /\ w.pages[k] \in DOMAIN node /\ lev[w.pages[k]] = height - k + 1
  BY DEF Descends
<1>. QED BY <1>1, CellsDisjoint

(* A pair stays on the path of a smaller one past a node that has no key   *)
(* between them.                                                           *)
LEMMA SameChild ==
  ASSUME NEW lev, NEW rng, NEW st, Cells(node, height, lev, rng), NodesOK(node, st, lev, rng),
         NEW w, NEW q \in Int, Descends(lev, rng, w, q), NEW k \in 1 .. height - 1,
         NEW x \in Int, q <= x, x \in rng[w.pages[k]],
         find_idx_in_index(w.pages[k], q) < size(w.pages[k]) =>
           x < node[w.pages[k]].data[find_idx_in_index(w.pages[k], q) + 1]
  PROVE  x \in rng[w.pages[k + 1]]
<1> DEFINE n == w.pages[k]  d == node[n].data  i == find_idx_in_index(n, q)
<1>1. height \in Nat /\ k \in 1 .. height
  BY DEF Descends
<1>2. /\ n \in DOMAIN node /\ lev[n] = height - k + 1
      /\ w.pages[k + 1] = node[n].children[i + 1]
      /\ i \in 0 .. Len(d) /\ InSlot(d, i, q)
  BY <1>1 DEF Descends, size
<1>3. lev[n] > 1
  BY <1>1, <1>2
<1>4. Below(DOMAIN node, lev, rng, node[n].children[i + 1], d, i, lev[n], rng[n])
  BY <1>2, <1>3, ChildFacts
<1>5. x \in rng[n] /\ (i < Len(d) => x < d[i + 1])
  BY DEF size
<1>6. d \in Seq(Int)
  BY <1>2, CellFacts
<1> HIDE DEF n, d, i
<1>7. InSlot(d, i, x)
  <2>1. ASSUME i > 0 PROVE d[i] <= x
    <3>1. i \in 1 .. Len(d)
      BY <1>2, <2>1
    <3>2. d[i] <= q /\ d[i] \in Int
      BY <1>2, <1>6, <2>1, <3>1, ElementOfSeq DEF InSlot
    <3>. QED BY <3>2
  <2>. QED BY <1>5, <2>1 DEF InSlot
<1>. QED BY <1>2, <1>4, <1>5, <1>7 DEF Below

LEMMA SameDescent ==
  ASSUME NEW lev, NEW rng, NEW st, Cells(node, height, lev, rng), NodesOK(node, st, lev, rng),
         NEW w, NEW q \in Int, Descends(lev, rng, w, q),
         NEW e \in 1 .. height, NEW a \in 1 .. e,
         NEW x \in Int, q <= x, x \in rng[w.pages[a]],
         \A k \in a .. e - 1 :
           find_idx_in_index(w.pages[k], q) < size(w.pages[k]) =>
             x < node[w.pages[k]].data[find_idx_in_index(w.pages[k], q) + 1]
  PROVE  x \in rng[w.pages[e]]
<1> DEFINE G == {k \in 1 .. e : k >= a => x \in rng[w.pages[k]]}
<1>1. 1 \in G
  <2>1. 1 \in 1 .. e /\ (1 >= a => a = 1)
    OBVIOUS
  <2>. QED BY <2>1
<1>2. ASSUME NEW k \in 1 .. e - 1, k \in G PROVE k + 1 \in G
  <2>1. PICK h : h = k + 1
    OBVIOUS
  <2>2. h \in 1 .. e /\ k \in 1 .. height - 1 /\ (h >= a => h = a \/ (k >= a /\ k \in a .. e - 1))
    BY <2>1 DEF Descends
  <2>3. ASSUME h >= a PROVE x \in rng[w.pages[h]]
    <3>1. CASE h = a
      BY <3>1
    <3>2. CASE k >= a /\ k \in a .. e - 1
      <4>1. x \in rng[w.pages[k]]
        BY <1>2, <3>2
      <4>2. x \in rng[w.pages[k + 1]]
        BY <2>2, <3>2, <4>1, SameChild
      <4>. QED BY <2>1, <4>2
    <3>. QED BY <2>2, <2>3, <3>1, <3>2
  <2>. QED BY <2>1, <2>2, <2>3
<1>3. e \in Nat /\ e >= a /\ e \in 1 .. e
  BY DEF Descends
<1>4. 1 .. e \subseteq G
  <2> HIDE DEF G
  <2>. QED BY <1>1, <1>2, <1>3, InductionUpTo
<1>. QED BY <1>3, <1>4

(* The range of a page lies within those of the pages above.               *)
LEMMA RangesNest ==
  ASSUME NEW lev, NEW rng, NEW st, Cells(node, height, lev, rng), NodesOK(node, st, lev, rng),
         NEW w, NEW p \in Int, Descends(lev, rng, w, p),
         NEW j \in 1 .. height, NEW x \in Int, x \in rng[w.pages[j]], NEW k \in 1 .. j
  PROVE  x \in rng[w.pages[k]]
<1>1. height \in Nat /\ j \in Nat /\ j > 0 /\ j <= height
  BY DEF Descends
<1> DEFINE G == {i \in 1 .. j : x \in rng[w.pages[j - i + 1]]}
<1>2. 1 \in G
  <2>1. 1 \in 1 .. j /\ j - 1 + 1 = j
    BY <1>1
  <2>. QED BY <2>1
<1>3. ASSUME NEW i \in 1 .. j - 1, i \in G PROVE i + 1 \in G
  <2>1. PICK h : h = j - i
    OBVIOUS
  <2>2. /\ h \in 1 .. height - 1 /\ h \in 1 .. height /\ h + 1 = j - i + 1
        /\ h = j - (i + 1) + 1 /\ i + 1 \in 1 .. j /\ height - h + 1 > 1
    BY <1>1, <2>1
  <2> DEFINE n == w.pages[h]  c == find_idx_in_index(w.pages[h], p)
  <2>3. /\ n \in DOMAIN node /\ lev[n] > 1 /\ w.pages[h + 1] = node[n].children[c + 1]
        /\ c \in 0 .. Len(node[n].data)
    BY <2>2 DEF Descends, size
  <2>4. Below(DOMAIN node, lev, rng, node[n].children[c + 1], node[n].data, c, lev[n], rng[n])
    BY <2>3, ChildFacts
  <2>5. x \in rng[w.pages[h + 1]]
    BY <1>3, <2>2
  <2> HIDE DEF n, c
  <2>6. x \in rng[n]
    BY <2>3, <2>4, <2>5 DEF Below
  <2>. QED BY <2>2, <2>6 DEF n
<1>4. 1 .. j \subseteq G
  <2> HIDE DEF G
  <2>. QED BY <1>1, <1>2, <1>3, InductionUpTo
<1>5. j - k + 1 \in 1 .. j /\ j - (j - k + 1) + 1 = k
  BY <1>1
<1>. QED BY <1>4, <1>5

(* What next_prefetch_step takes from the nodes it holds: they are those   *)
(* of the descent to a smaller pair, and down to the node where it turns   *)
(* also those of the descent to the pair it looks at.                      *)
TurnsAt(w, held, q, t) ==
  /\ t \in 1 .. height - 1
  /\ \A k \in 1 .. t : held[k] = w.pages[k]
  /\ t > 1 => find_idx_in_index(w.pages[t], q) < size(w.pages[t])

LEMMA TurnFacts ==
  ASSUME NEW lev, NEW rng, NEW st, Shape(node, root, height, st, lev, rng),
         NEW v, NEW p \in Int, Descends(lev, rng, v, p),
         NEW w, NEW q \in Int, Descends(lev, rng, w, q), p <= q,
         NEW l \in 1 .. height - 1,
         NEW held, Len(held) = l, \A k \in 1 .. l : held[k] = v.pages[k]
  PROVE  TurnsAt(w, held, q, Turn(held, q))
<1>1. Cells(node, height, lev, rng) /\ NodesOK(node, st, lev, rng) /\ height \in Nat /\ height > 0
  BY DEF Shape, Descends
<1> DEFINE B == {1} \cup {k \in 1 .. l : find_idx_in_index(held[k], q) < size(held[k])}
           t == Turn(held, q)
<1>2. t = Max(B)
  BY DEF Turn
<1>3. B \subseteq Int /\ (\A n \in B : n <= l) /\ B # {} /\ l \in Int
  BY <1>1
<1>4. t \in B
  <2> HIDE DEF B, t
  <2>. QED BY <1>2, <1>3, MaxFacts
<1> HIDE DEF t
<1>5. /\ t \in 1 .. l /\ t \in 1 .. height - 1 /\ t \in 1 .. height
      /\ t > 1 => find_idx_in_index(held[t], q) < size(held[t])
  BY <1>1, <1>4
<1>6. q \in rng[v.pages[t]]
  <2> DEFINE n == v.pages[t]
  <2>1. n \in DOMAIN node /\ lev[n] = height - t + 1 /\ p \in rng[n]
    BY <1>5 DEF Descends
  <2>2. CASE t = 1
    <3>1. root \in DOMAIN node /\ lev[root] = height /\ rng[root] = Int
      BY <1>1 DEF Shape
    <3>2. lev[n] = lev[root]
      BY <1>1, <2>1, <2>2, <3>1
    <3> HIDE DEF n
    <3>3. n = root
      BY <1>1, <2>1, <3>1, <3>2, CellsDisjoint
    <3>. QED BY <3>1, <3>3 DEF n
  <2>3. CASE t > 1
    <3> DEFINE d == node[n].data  i == find_idx_in_index(n, q)
    <3>1. i < Len(d)
      BY <1>5, <2>3 DEF size
    <3>2. d \in Seq(Int) /\ IsAscending(d) /\ \A k \in 1 .. Len(d) : d[k] \in rng[n]
      BY <1>1, <2>1 DEF NodesOK, NodeOK, Keys
    <3>3. i \in 0 .. Len(d) /\ InSlot(d, i, q)
      BY <3>2, IndexSearch DEF size
    <3>4. IsRange(rng[n])
      BY <1>1, <2>1, CellFacts
    <3> HIDE DEF n, d, i
    <3>5. i + 1 \in 1 .. Len(d)
      BY <3>1, <3>3
    <3>6. q < d[i + 1] /\ d[i + 1] \in rng[n] /\ d[i + 1] \in Int
      BY <3>1, <3>2, <3>3, <3>5, ElementOfSeq DEF InSlot
    <3>7. q \in rng[n]
      BY <2>1, <3>4, <3>6 DEF IsRange
    <3>. QED BY <3>7 DEF n
  <2>. QED BY <1>5, <2>2, <2>3
<1>7. ASSUME NEW k \in 1 .. t PROVE held[k] = w.pages[k]
  <2>1. k \in 1 .. height /\ k \in 1 .. l
    BY <1>1, <1>5
  <2>2. q \in rng[v.pages[k]]
    BY <1>1, <1>5, <1>6, RangesNest
  <2>3. w.pages[k] = v.pages[k]
    BY <1>1, <2>1, <2>2, SharedPage
  <2>. QED BY <2>1, <2>3
<1>8. t \in 1 .. t
  BY <1>5
<1>9. held[t] = w.pages[t]
  BY <1>7, <1>8
<1>. QED BY <1>5, <1>7, <1>9 DEF TurnsAt, t

WalkBy(f, h, held, t, q) ==
  f = [k \in 1 .. h |->
         IF k <= t THEN held[k]
         ELSE LET n == f[k - 1] IN node[n].children[find_idx_in_index(n, q) + 1]]

LEMMA WalkExists ==
  ASSUME NEW h, h \in Nat, NEW held, NEW t \in Nat, t > 0, NEW q
  PROVE  \E f : WalkBy(f, h, held, t, q)
<1> DEFINE G == {i \in Nat : \E f : WalkBy(f, i, held, t, q)}
<1>1. 0 \in G
  <2>1. WalkBy(<<>>, 0, held, t, q)
    BY DEF WalkBy
  <2>. QED BY <2>1
<1>2. ASSUME NEW m \in Nat, m \in G PROVE m + 1 \in G
  <2>1. PICK f : WalkBy(f, m, held, t, q)
    BY <1>2
  <2> DEFINE NextPage(n) == node[n].children[find_idx_in_index(n, q) + 1]
             old == [k \in 1 .. m |-> IF k <= t THEN held[k] ELSE NextPage(f[k - 1])]
             g == [k \in 1 .. m + 1 |-> IF k <= t THEN held[k] ELSE NextPage(f[k - 1])]
  <2>2. \A k \in 1 .. m : g[k] = f[k]
    <3>1. f = old
      BY <2>1 DEF WalkBy
    <3> HIDE DEF NextPage
    <3>2. \A k \in 1 .. m : g[k] = old[k]
      OBVIOUS
    <3> HIDE DEF g, old
    <3>. QED BY ONLY <3>1, <3>2
  <2>3. \A k \in 1 .. m + 1 : ~ k <= t => g[k - 1] = f[k - 1]
    <3>1. \A k \in 1 .. m + 1 : ~ k <= t => k - 1 \in 1 .. m
      OBVIOUS
    <3> HIDE DEF g
    <3>. QED BY ONLY <2>2, <3>1
  <2>4. WalkBy(g, m + 1, held, t, q)
    BY <2>3 DEF WalkBy
  <2>5. m + 1 \in Nat
    OBVIOUS
  <2>. QED BY <2>4, <2>5
<1>3. Nat \subseteq G
  <2>. HIDE DEF G
  <2>. QED BY <1>1, <1>2, Induction
<1>. QED BY <1>3

(* From the node where it turns on, the walk is the descent.               *)
LEMMA WalkFacts ==
  ASSUME NEW lev, NEW rng, NEW w, NEW q \in Int, Descends(lev, rng, w, q),
         NEW held, NEW t, TurnsAt(w, held, q, t),
         NEW f, WalkBy(f, height, held, t, q)
  PROVE  \A k \in 1 .. height : f[k] = w.pages[k]
<1>1. height \in Nat /\ height > 0 /\ t \in 1 .. height - 1 /\ t \in Nat
  BY DEF Descends, TurnsAt
<1> DEFINE G == {k \in 1 .. height : f[k] = w.pages[k]}
<1>2. /\ \A k \in 1 .. height : k <= t => f[k] = held[k]
      /\ \A k \in 1 .. height : ~ k <= t =>
            f[k] = node[f[k - 1]].children[find_idx_in_index(f[k - 1], q) + 1]
  BY DEF WalkBy
<1>3. \A k \in 1 .. t : held[k] = w.pages[k]
  BY DEF TurnsAt
<1>4. 1 \in G
  BY <1>1, <1>2, <1>3
<1>5. ASSUME NEW k \in 1 .. height - 1, k \in G PROVE k + 1 \in G
  <2>1. PICK h : h = k + 1
    OBVIOUS
  <2>2. h \in 1 .. height /\ h - 1 = k /\ (h <= t => h \in 1 .. t)
    BY <1>1, <2>1
  <2>3. CASE h <= t
    BY <1>2, <1>3, <2>1, <2>2, <2>3
  <2>4. CASE ~ h <= t
    <3>1. f[h] = node[f[k]].children[find_idx_in_index(f[k], q) + 1]
      BY <1>2, <2>2, <2>4
    <3>2. f[k] = w.pages[k]
      BY <1>5
    <3>3. w.pages[k + 1] = node[w.pages[k]].children[find_idx_in_index(w.pages[k], q) + 1]
      BY DEF Descends
    <3>. QED BY <2>1, <2>2, <3>1, <3>2, <3>3
  <2>. QED BY <2>3, <2>4
<1>6. 1 .. height \subseteq G
  <2> HIDE DEF G
  <2>. QED BY <1>1, <1>4, <1>5, InductionUpTo
<1>. QED BY <1>6

(* The key past the slot of q, if the node at level k has one.             *)
KeyPast(w, q, k) ==
  {node[w.pages[k]].data[i] : i \in {find_idx_in_index(w.pages[k], q) + 1}
                                       \cap (1 .. size(w.pages[k]))}

Bounding(w, q, t, e) == {k \in t .. e - 1 : KeyPast(w, q, k) # {}}

(* A step of the look-ahead in terms of the descent to q.                  *)
StepOf(w, q, t, e, m, step) ==
  /\ e \in t + 1 .. height /\ m \in 1 .. height
  /\ step.page = w.pages[e]
  /\ step.held = [k \in 1 .. m |-> w.pages[k]]
  /\ step.bound = IF Bounding(w, q, t, e) = {} THEN {}
                  ELSE KeyPast(w, q, Max(Bounding(w, q, t, e)))

LEMMA StepIs ==
  ASSUME NEW lev, NEW rng, NEW w, NEW q \in Int, Descends(lev, rng, w, q),
         NEW held, TurnsAt(w, held, q, Turn(held, q)), NEW missing \in 2 .. height + 1
  PROVE  \E e, m : StepOf(w, q, Turn(held, q), e, m, next_prefetch_step(held, q, missing))
<1> DEFINE t == Turn(held, q)
           f == CHOOSE x : WalkBy(x, height, held, t, q)
           e == IF missing > height THEN height ELSE Max({t + 1, missing})
           m == IF missing > height THEN height - 1 ELSE e - 1
           keys(k) == {node[f[k]].data[i] : i \in {find_idx_in_index(f[k], q) + 1}
                                                     \cap (1 .. size(f[k]))}
           B == {k \in t .. e - 1 : keys(k) # {}}
           step == [page |-> f[e], bound |-> IF B = {} THEN {} ELSE keys(Max(B)),
                    held |-> [k \in 1 .. m |-> f[k]]]
<1>1. next_prefetch_step(held, q, missing) = step
  BY DEF next_prefetch_step, WalkBy
<1>2. height \in Nat /\ height > 0 /\ t \in 1 .. height - 1 /\ t \in Nat /\ t > 0
  BY DEF Descends, TurnsAt
<1> HIDE DEF t
<1>3. WalkBy(f, height, held, t, q)
  <2>1. \E x : WalkBy(x, height, held, t, q)
    BY <1>2, WalkExists
  <2>. QED BY <2>1, Zenon
<1> HIDE DEF f
<1>4. \A k \in 1 .. height : f[k] = w.pages[k]
  <2>1. TurnsAt(w, held, q, t)
    BY DEF t
  <2>. QED BY <1>3, <2>1, WalkFacts
<1>5. e \in t + 1 .. height /\ m \in 1 .. height
  <2>1. CASE missing > height
    BY <1>2, <2>1
  <2>2. CASE ~ missing > height
    <3> DEFINE C == {t + 1, missing}
    <3>1. /\ C \subseteq Int /\ (\A n \in C : n <= height) /\ C # {} /\ height \in Int
          /\ t + 1 \in C
      BY <1>2, <2>2
    <3>2. Max(C) \in C /\ \A n \in C : n <= Max(C)
      <4> HIDE DEF C
      <4>. QED BY <3>1, MaxFacts
    <3>3. e = Max(C) /\ m = e - 1
      BY <2>2
    <3>. QED BY <1>2, <3>1, <3>2, <3>3
  <2>. QED BY <2>1, <2>2
<1> HIDE DEF e, m
<1>6. \A k \in t .. e - 1 : k \in 1 .. height
  BY <1>2, <1>5
<1>7. \A k \in 1 .. height : keys(k) = KeyPast(w, q, k)
  BY <1>4 DEF KeyPast
<1> HIDE DEF keys
<1>8. B = Bounding(w, q, t, e)
  BY <1>6, <1>7 DEF Bounding
<1>9. B # {} => keys(Max(B)) = KeyPast(w, q, Max(B))
  <2>1. ASSUME B # {} PROVE Max(B) \in B
    <3>1. B \subseteq Int /\ (\A n \in B : n <= height) /\ height \in Int
      BY <1>2, <1>6
    <3> HIDE DEF B
    <3>. QED BY <2>1, <3>1, MaxFacts
  <2>. QED BY <1>6, <1>7, <2>1
<1> HIDE DEF B
<1>10. f[e] = w.pages[e]
  BY <1>2, <1>4, <1>5
<1>11. [k \in 1 .. m |-> f[k]] = [k \in 1 .. m |-> w.pages[k]]
  <2>1. \A k \in 1 .. m : k \in 1 .. height
    BY <1>2, <1>5
  <2>. QED BY <1>4, <2>1
<1>12. StepOf(w, q, t, e, m, step)
  <2>1. step.bound = IF B = {} THEN {} ELSE KeyPast(w, q, Max(B))
    BY <1>9
  <2>2. step.page = w.pages[e]
    BY <1>10
  <2>3. step.held = [k \in 1 .. m |-> w.pages[k]]
    BY <1>11
  <2>. QED BY <1>5, <1>8, <2>1, <2>2, <2>3 DEF StepOf
<1>. QED BY <1>1, <1>12 DEF t

(* The page of the step is read by every pair from q on that the bound     *)
(* lets pass, and q is below the bound.                                    *)
LEMMA StepReads ==
  ASSUME NEW lev, NEW rng, NEW st, Shape(node, root, height, st, lev, rng),
         NEW w, NEW q \in Int, Descends(lev, rng, w, q),
         NEW held, NEW t, TurnsAt(w, held, q, t),
         NEW e, NEW m, NEW step, StepOf(w, q, t, e, m, step)
  PROVE  /\ \A b \in step.bound : q < b
         /\ \A x \in Int : x >= q /\ (\A b \in step.bound : x < b) => x \in rng[step.page]
<1>1. Cells(node, height, lev, rng) /\ NodesOK(node, st, lev, rng) /\ height \in Nat /\ height > 0
  BY DEF Shape, Descends
<1>2. /\ t \in 1 .. height - 1 /\ e \in t + 1 .. height
      /\ step.page = w.pages[e]
      /\ step.bound = IF Bounding(w, q, t, e) = {} THEN {}
                      ELSE KeyPast(w, q, Max(Bounding(w, q, t, e)))
  BY DEF StepOf, TurnsAt
<1> DEFINE B == Bounding(w, q, t, e)
           idx(k) == find_idx_in_index(w.pages[k], q)
           d(k) == node[w.pages[k]].data
<1>3. ASSUME NEW k \in 1 .. height - 1
      PROVE  /\ idx(k) \in 0 .. Len(d(k)) /\ d(k) \in Seq(Int)
             /\ w.pages[k] \in DOMAIN node /\ IsRange(rng[w.pages[k]]) /\ q \in rng[w.pages[k]]
             /\ idx(k) >= Len(d(k)) => KeyPast(w, q, k) = {}
             /\ idx(k) < Len(d(k)) =>
                  /\ KeyPast(w, q, k) = {d(k)[idx(k) + 1]}
                  /\ q < d(k)[idx(k) + 1]
                  /\ d(k)[idx(k) + 1] \in rng[w.pages[k]] /\ d(k)[idx(k) + 1] \in Int
  <2>1. k \in 1 .. height
    BY <1>1
  <2> DEFINE n == w.pages[k]
  <2>2. n \in DOMAIN node /\ q \in rng[n]
    BY <2>1 DEF Descends
  <2>3. idx(k) \in 0 .. Len(d(k)) /\ InSlot(d(k), idx(k), q)
    BY DEF Descends, size
  <2>4. d(k) \in Seq(Int) /\ IsRange(rng[n]) /\ \A i \in 1 .. Len(d(k)) : d(k)[i] \in rng[n]
    BY <1>1, <2>2, CellFacts DEF NodesOK, NodeOK, Keys
  <2>5. KeyPast(w, q, k) = {d(k)[i] : i \in {idx(k) + 1} \cap (1 .. Len(d(k)))}
    BY DEF KeyPast, size
  <2> HIDE DEF idx, d
  <2>6. ASSUME idx(k) < Len(d(k))
        PROVE  /\ KeyPast(w, q, k) = {d(k)[idx(k) + 1]}
               /\ q < d(k)[idx(k) + 1]
               /\ d(k)[idx(k) + 1] \in rng[n] /\ d(k)[idx(k) + 1] \in Int
    <3>1. idx(k) + 1 \in 1 .. Len(d(k))
      BY <2>3, <2>6
    <3>2. {idx(k) + 1} \cap (1 .. Len(d(k))) = {idx(k) + 1}
      BY <3>1
    <3>3. KeyPast(w, q, k) = {d(k)[idx(k) + 1]}
      BY <2>5, <3>2
    <3>4. d(k)[idx(k) + 1] \in rng[n] /\ d(k)[idx(k) + 1] \in Int
      BY <2>4, <3>1, ElementOfSeq
    <3>. QED BY <2>3, <2>6, <3>3, <3>4 DEF InSlot
  <2>7. ASSUME idx(k) >= Len(d(k)) PROVE KeyPast(w, q, k) = {}
    <3>1. Len(d(k)) \in Nat
      BY <2>4, LenProperties
    <3>2. {idx(k) + 1} \cap (1 .. Len(d(k))) = {}
      BY <2>3, <2>7, <3>1
    <3>. QED BY <2>5, <3>2
  <2>. QED BY <2>2, <2>3, <2>4, <2>6, <2>7 DEF n
<1>4. /\ \A k \in t .. e - 1 : k \in 1 .. height - 1
      /\ t \in t .. e - 1 /\ e \in 1 .. height
  BY <1>1, <1>2
<1>5. \A k : k \in B <=> k \in t .. e - 1 /\ KeyPast(w, q, k) # {}
  BY DEF Bounding
<1> HIDE DEF B, idx, d
<1>6. \A k : k \in B <=> k \in t .. e - 1 /\ idx(k) < Len(d(k))
  <2>1. ASSUME NEW k \in t .. e - 1 PROVE KeyPast(w, q, k) # {} <=> idx(k) < Len(d(k))
    <3>1. k \in 1 .. height - 1
      BY <1>4
    <3>2. idx(k) \in 0 .. Len(d(k)) /\ d(k) \in Seq(Int)
      BY <1>3, <3>1
    <3>3. Len(d(k)) \in Int /\ idx(k) \in Int
      BY <3>2, LenProperties
    <3>4. idx(k) < Len(d(k)) => KeyPast(w, q, k) = {d(k)[idx(k) + 1]}
      BY <1>3, <3>1
    <3>5. idx(k) >= Len(d(k)) => KeyPast(w, q, k) = {}
      BY <1>3, <3>1
    <3>6. idx(k) < Len(d(k)) \/ idx(k) >= Len(d(k))
      BY ONLY <3>3
    <3>7. ~ (idx(k) < Len(d(k)) /\ idx(k) >= Len(d(k)))
      BY ONLY <3>3
    <3>. QED BY ONLY <3>4, <3>5, <3>6, <3>7
  <2>. QED BY <1>5, <2>1
<1>7. step.bound = IF B = {} THEN {} ELSE KeyPast(w, q, Max(B))
  BY <1>2 DEF B
<1>8. CASE B = {}
  <2>1. step.bound = {}
    BY <1>7, <1>8
  <2>2. t = 1
    <3>1. \A k \in 1 .. height : size(w.pages[k]) = Len(d(k))
      BY DEF size, d
    <3>2. ASSUME t > 1 PROVE FALSE
      <4>1. find_idx_in_index(w.pages[t], q) < size(w.pages[t])
        BY <3>2 DEF TurnsAt
      <4>2. idx(t) < Len(d(t))
        BY <4>1 DEF idx, d, size
      <4>. QED BY <1>4, <1>6, <1>8, <4>2
    <3>. QED BY <1>2, <3>2
  <2>3. rng[w.pages[t]] = Int
    <3>1. root \in DOMAIN node /\ lev[root] = height /\ rng[root] = Int
      BY <1>1 DEF Shape
    <3>2. 1 \in 1 .. height /\ height - 1 + 1 = height
      BY <1>1
    <3>3. w.pages[1] \in DOMAIN node /\ lev[w.pages[1]] = lev[root] /\ q \in rng[w.pages[1]]
      BY <3>1, <3>2 DEF Descends
    <3>4. w.pages[1] = root
      BY <1>1, <3>1, <3>3, CellsDisjoint
    <3>. QED BY <2>2, <3>1, <3>4
  <2>4. ASSUME NEW x \in Int, x >= q PROVE x \in rng[w.pages[e]]
    <3>1. \A k \in t .. e - 1 :
            find_idx_in_index(w.pages[k], q) < size(w.pages[k]) =>
              x < node[w.pages[k]].data[find_idx_in_index(w.pages[k], q) + 1]
      BY <1>6, <1>8 DEF idx, d, size
    <3>2. t \in 1 .. e /\ q <= x /\ x \in rng[w.pages[t]]
      BY <1>2, <2>3, <2>4
    <3>. QED BY <1>1, <1>4, <3>1, <3>2, SameDescent
  <2>. QED BY <1>2, <2>1, <2>4
<1>9. CASE B # {}
  <2> DEFINE a == Max(B)
  <2>1. B \subseteq Int /\ (\A n \in B : n <= height) /\ height \in Int
    BY <1>1, <1>4, <1>6
  <2>2. a \in B /\ \A n \in B : n <= a
    BY <1>9, <2>1, MaxFacts
  <2>3. step.bound = KeyPast(w, q, a)
    BY <1>7, <1>9
  <2> HIDE DEF a
  <2>4. a \in t .. e - 1 /\ a \in 1 .. height - 1 /\ idx(a) < Len(d(a))
    BY <1>4, <1>6, <2>2
  <2> DEFINE key == d(a)[idx(a) + 1]
  <2>5. /\ step.bound = {key} /\ q < key /\ key \in rng[w.pages[a]] /\ key \in Int
        /\ IsRange(rng[w.pages[a]]) /\ q \in rng[w.pages[a]]
    BY <1>3, <2>3, <2>4
  <2> HIDE DEF key
  <2>6. ASSUME NEW x \in Int, x >= q, x < key PROVE x \in rng[w.pages[e]]
    <3>1. x \in rng[w.pages[a]]
      BY <2>5, <2>6 DEF IsRange
    <3>2. ASSUME NEW k \in a .. e - 1, idx(k) < Len(d(k)) PROVE x < d(k)[idx(k) + 1]
      <4>1. k \in t .. e - 1
        BY <1>2, <2>4
      <4>2. k \in B
        BY <1>6, <3>2, <4>1
      <4>3. k = a
        BY <2>2, <2>4, <4>2
      <4>. QED BY <2>6, <4>3 DEF key
    <3>3. \A k \in a .. e - 1 :
            find_idx_in_index(w.pages[k], q) < size(w.pages[k]) =>
              x < node[w.pages[k]].data[find_idx_in_index(w.pages[k], q) + 1]
      BY <3>2 DEF idx, d, size
    <3>4. a \in 1 .. e /\ q <= x
      BY <1>2, <2>4, <2>6
    <3>. QED BY <1>1, <1>4, <3>1, <3>3, <3>4, SameDescent
  <2>. QED BY <1>2, <2>5, <2>6
<1>. QED BY <1>8, <1>9

(* The first pages of the descent to p are held.                           *)
LEMMA HeldPages ==
  ASSUME NEW lev, NEW rng, NEW v, NEW p, Descends(lev, rng, v, p), NEW l \in 1 .. height
  PROVE  /\ Len(SubSeq(v.pages, 1, l)) = l
         /\ \A k \in 1 .. l : SubSeq(v.pages, 1, l)[k] = v.pages[k]
<1>1. height \in Nat /\ v.pages \in Seq(Nat) /\ Len(v.pages) = height
  BY DEF Descends
<1>2. 1 \in 1 .. Len(v.pages) + 1 /\ l \in 1 - 1 .. Len(v.pages) /\ l - 1 + 1 = l
  BY <1>1
<1>3. /\ Len(SubSeq(v.pages, 1, l)) = l - 1 + 1
      /\ \A j \in 1 .. l - 1 + 1 : SubSeq(v.pages, 1, l)[j] = v.pages[1 + j - 1]
  BY <1>1, <1>2, SubSeqFacts
<1>4. \A k \in 1 .. l : 1 + k - 1 = k
  OBVIOUS
<1>. QED BY <1>2, <1>3, <1>4

LEMMA BeginsWith ==
  ASSUME NEW lev, NEW rng, NEW w, NEW q, Descends(lev, rng, w, q), NEW m \in 1 .. height
  PROVE  IsPrefix([k \in 1 .. m |-> w.pages[k]], w.pages)
<1> DEFINE s == [k \in 1 .. m |-> w.pages[k]]
<1>1. /\ height \in Nat /\ w.pages \in Seq(Nat) /\ Len(w.pages) = height /\ m \in Nat
      /\ 1 <= m /\ m <= height
  BY DEF Descends
<1>2. \A k \in 1 .. m : w.pages[k] \in Nat
  BY <1>1, ElementOfSeq
<1>3. s \in Seq(Nat) /\ Len(s) = m
  <2>1. ListOf(s, m, Nat)
    BY <1>1, <1>2 DEF ListOf
  <2>. QED BY <2>1, ListIsSeq
<1>4. \A k \in 1 .. m : s[k] = w.pages[k]
  OBVIOUS
<1> HIDE DEF s
<1>5. /\ 1 \in 1 .. m + 1 /\ m \in 1 - 1 .. m /\ 1 \in 1 .. height + 1 /\ m \in 1 - 1 .. height
      /\ m - 1 + 1 = m /\ \A k \in 1 .. m : 1 + k - 1 = k
  BY <1>1
<1>6. /\ SubSeq(s, 1, m) \in Seq(Nat) /\ Len(SubSeq(s, 1, m)) = m
      /\ \A k \in 1 .. m : SubSeq(s, 1, m)[k] = s[k]
  <2>1. /\ SubSeq(s, 1, m) \in Seq(Nat) /\ Len(SubSeq(s, 1, m)) = m - 1 + 1
        /\ \A j \in 1 .. m - 1 + 1 : SubSeq(s, 1, m)[j] = s[1 + j - 1]
    BY <1>3, <1>5, SubSeqFacts
  <2>. QED BY <1>5, <2>1
<1>7. /\ SubSeq(w.pages, 1, m) \in Seq(Nat) /\ Len(SubSeq(w.pages, 1, m)) = m
      /\ \A k \in 1 .. m : SubSeq(w.pages, 1, m)[k] = w.pages[k]
  <2>1. /\ SubSeq(w.pages, 1, m) \in Seq(Nat) /\ Len(SubSeq(w.pages, 1, m)) = m - 1 + 1
        /\ \A j \in 1 .. m - 1 + 1 : SubSeq(w.pages, 1, m)[j] = w.pages[1 + j - 1]
    BY <1>1, <1>5, SubSeqFacts
  <2>. QED BY <1>5, <2>1
<1>8. SubSeq(s, 1, m) = SubSeq(w.pages, 1, m)
  BY <1>4, <1>6, <1>7, SeqEqual
<1>9. IsPrefix(s, w.pages)
  BY <1>1, <1>3, <1>8 DEF IsPrefix
<1>. QED BY <1>9 DEF s

LEMMA IInvPrefetchesAhead == IInv => PrefetchesAhead
<1> DEFINE
      pages == [p \in Pairs |-> find_path(p).pages]
      Good(step, q) ==
        /\ IsPrefix(step.held, pages[q])
        /\ \A b \in step.bound : q < b
        /\ \A x \in Pairs :
             x >= q /\ (\A b \in step.bound : x < b) => step.page \in ToSet(pages[x])
<1> SUFFICES ASSUME IInv, pending = NoRepair, height > 1
             PROVE  \A q \in Pairs, missing \in 2 .. height + 1 :
                      \A held \in {SubSeq(pages[p], 1, l) :
                                     p \in {x \in Pairs : x <= q}, l \in 1 .. height - 1} :
                        Good(next_prefetch_step(held, q, missing), q)
  BY DEF PrefetchesAhead
<1> HIDE DEF pages, Good
<1> TAKE q \in Pairs, missing \in 2 .. height + 1
<1> TAKE held \in {SubSeq(pages[p], 1, l) : p \in {x \in Pairs : x <= q}, l \in 1 .. height - 1}
<1>0. PICK p \in {x \in Pairs : x <= q}, l \in 1 .. height - 1 : held = SubSeq(pages[p], 1, l)
  OBVIOUS
<1> USE DEF pages, Good
<1>1. PICK lev, rng : FlushOK(node, root, height, path, pending, stored, build, lev, rng)
  BY DEF IInv
<1>2. /\ Shape(node, root, height, stored, lev, rng) /\ height \in Nat /\ height > 0
      /\ Cells(node, height, lev, rng) /\ Pairs \subseteq Int
  <2> HIDE DEF pages, Good
  <2>1. Shape(node, root, height, stored, lev, rng)
    BY ONLY <1>1 DEF FlushOK
  <2>2. Cells(node, height, lev, rng)
    BY ONLY <2>1 DEF Shape
  <2>3. height \in Nat
    BY ONLY <2>2 DEF Cells
  <2>. QED BY <2>1, <2>2, <2>3, BuildsAssumption
<1>3. \A x \in Int : Descends(lev, rng, find_path(x), x)
  BY <1>2, DescentDescends
<1> DEFINE w == find_path(q)
           v == find_path(p)
           step == next_prefetch_step(held, q, missing)
<1>4. held = SubSeq(v.pages, 1, l) /\ pages[q] = w.pages /\ p \in Pairs /\ p <= q
  BY <1>0
<1>5. Descends(lev, rng, v, p) /\ Descends(lev, rng, w, q) /\ p \in Int /\ q \in Int
  BY <1>2, <1>3, <1>4
<1>6. \A x \in Pairs : pages[x] = find_path(x).pages
  OBVIOUS
<1> HIDE DEF v, w, pages
<1>7. Len(held) = l /\ \A k \in 1 .. l : held[k] = v.pages[k]
  <2>1. l \in 1 .. height
    BY <1>2
  <2>. QED BY <1>4, <1>5, <2>1, HeldPages
<1>8. TurnsAt(w, held, q, Turn(held, q))
  <2>1. p <= q /\ l \in 1 .. height - 1
    BY <1>4
  <2>. QED BY ONLY <1>2, <1>5, <1>7, <2>1, TurnFacts
<1>9. PICK e, m : StepOf(w, q, Turn(held, q), e, m, step)
  BY <1>5, <1>8, StepIs
<1> HIDE DEF step
<1>10. /\ \A b \in step.bound : q < b
       /\ \A x \in Int : x >= q /\ (\A b \in step.bound : x < b) => x \in rng[step.page]
  BY <1>2, <1>5, <1>8, <1>9, StepReads
<1>11. IsPrefix(step.held, w.pages)
  <2>1. m \in 1 .. height /\ step.held = [k \in 1 .. m |-> w.pages[k]]
    BY <1>9 DEF StepOf
  <2>. QED BY <1>5, <2>1, BeginsWith
<1>12. ASSUME NEW x \in Pairs, x >= q, \A b \in step.bound : x < b
       PROVE  step.page \in ToSet(find_path(x).pages)
  <2> DEFINE u == find_path(x)
  <2>1. Descends(lev, rng, u, x) /\ x \in Int
    BY <1>2, <1>3
  <2>2. e \in 1 .. height /\ step.page = w.pages[e]
    BY <1>8, <1>9 DEF StepOf, TurnsAt
  <2> HIDE DEF u
  <2>3. x \in rng[w.pages[e]]
    BY <1>10, <1>12, <2>1, <2>2
  <2>4. u.pages[e] = w.pages[e]
    BY <1>2, <1>5, <2>1, <2>2, <2>3, SharedPage
  <2>5. u.pages \in Seq(Nat) /\ e \in 1 .. Len(u.pages)
    BY <2>1, <2>2 DEF Descends
  <2>6. step.page \in ToSet(u.pages)
    BY <2>2, <2>4, <2>5, ToSetFacts
  <2>. QED BY <2>6 DEF u
<1>13. Good(step, q)
  BY <1>4, <1>6, <1>10, <1>11, <1>12
<1>. QED BY <1>13 DEF step

(* The look-ahead asks for pages the entries will read, the entries it     *)
(* skips would read the same page, and it gets past the one it looked at.  *)
THEOREM PrefetchesAheadHolds == Spec => []PrefetchesAhead
BY SpecIInv, IInvPrefetchesAhead, PTL
=============================================================================
