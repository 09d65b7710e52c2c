------------------------ MODULE BPlusTree_steps_proofs ------------------------
(***************************************************************************)
(* The steps of a flush keep a tree, its sizes and the path in work; and   *)
(* what follows for descents.                                              *)
(***************************************************************************)
EXTENDS BPlusTree_proofs

-----------------------------------------------------------------------------
(***************************************************************************)
(* The state of a flush.                                                   *)
(***************************************************************************)

(* The greatest size of a node, and the least one that is not repaired.    *)
Limit(b, l) == IF l = 1 THEN b.leaf_split ELSE b.index_split
Least(b, l, ht) ==
  IF l > 1 THEN b.index_merge ELSE IF ht = 1 THEN 1 ELSE b.leaf_merge

Fits(nd, lev, b, n) == Len(nd[n].data) \in 1 .. Limit(b, lev[n])

(* The size of a node that is due for repair.                              *)
DueSize(kind, sz, b, l, ht) ==
  /\ kind \in {"overflow", "underflow"}
  /\ kind = "overflow" => sz = Limit(b, l) + 1
  /\ kind = "underflow" => sz < Least(b, l, ht)

(* The first K pages of a path lie below each other.                       *)
PathOK(w, K, nd, rt, ht, lev) ==
  /\ K \in 1 .. ht
  /\ w = [pages |-> w.pages, pos |-> w.pos, after |-> w.after]
  /\ w.pages \in [1 .. ht -> Nat] /\ w.pos \in [1 .. ht - 1 -> Nat]
  /\ w.pages[1] = rt
  /\ \A k \in 1 .. K : w.pages[k] \in DOMAIN nd /\ lev[w.pages[k]] = ht - k + 1
  /\ \A k \in 1 .. K - 1 :
        /\ w.pos[k] \in 0 .. Len(nd[w.pages[k]].data)
        /\ w.pages[k + 1] = nd[w.pages[k]].children[w.pos[k] + 1]

(* The path in work and the repair that is due.                            *)
Working(nd, rt, ht, w, pend, b, lev) ==
  \/ pend = NoRepair /\ w = NoPath
  \/ pend = NoRepair /\ PathOK(w, ht, nd, rt, ht, lev)
  \/ /\ pend = [kind |-> pend.kind, level |-> pend.level]
     /\ PathOK(w, pend.level, nd, rt, ht, lev)
     /\ DueSize(pend.kind, Len(nd[w.pages[pend.level]].data), b,
                lev[w.pages[pend.level]], ht)

FlushOK(nd, rt, ht, w, pend, st, b, lev, rng) ==
  /\ Shape(nd, rt, ht, st, lev, rng)
  /\ Working(nd, rt, ht, w, pend, b, lev)
  /\ \A n \in DOMAIN nd :
        (pend # NoRepair /\ n = w.pages[pend.level]) \/ Fits(nd, lev, b, n)

IInv ==
  /\ build \in Builds
  /\ stored \subseteq Pairs
  /\ \E lev, rng : FlushOK(node, root, height, path, pending, stored, build, lev, rng)

(* What is known of a build.                                               *)
LEMMA BuildFacts ==
  ASSUME NEW b \in Builds
  PROVE  /\ b.leaf_merge \in Nat \ {0} /\ b.leaf_split \in Nat \ {0}
         /\ b.index_merge \in Nat \ {0} /\ b.index_split \in Nat \ {0}
         /\ b.FLUSH_THRESHOLD \in Nat \ {0}
         /\ 2 * b.leaf_merge <= b.leaf_split
         /\ 2 * b.index_merge <= b.index_split
         /\ b.FLUSH_THRESHOLD <= b.leaf_split * (b.index_split + 1)
<1>1. b \in [BuildFields -> Nat \ {0}]
  BY BuildsAssumption
<1>2. /\ 2 * b.leaf_merge <= b.leaf_split /\ 2 * b.index_merge <= b.index_split
      /\ b.FLUSH_THRESHOLD <= b.leaf_split * (b.index_split + 1)
  BY BuildsAssumption
<1>. QED BY <1>1, <1>2 DEF BuildFields

(* The page of the root is the only one of its level.                      *)
LEMMA RootAlone ==
  ASSUME NEW nd, NEW rt, NEW ht, NEW st, NEW lev, NEW rng, Shape(nd, rt, ht, st, lev, rng),
         NEW n \in DOMAIN nd, lev[n] = ht
  PROVE  n = rt
<1>1. Cells(nd, ht, lev, rng) /\ ht \in Nat
  BY DEF Shape, Cells
<1>2. ht > 0
  BY <1>1, CellFacts
<1>3. rt \in DOMAIN nd /\ lev[rt] = ht /\ rng[rt] = Int
  BY <1>2 DEF Shape
<1>4. PICK p \in Int : p \in rng[n]
  BY <1>1, CellFacts
<1>. QED BY <1>1, <1>3, <1>4, CellsDisjoint

(* A page that is the only one of the highest level has all pairs in its   *)
(* range.                                                                  *)
LEMMA RootRange ==
  ASSUME NEW nd, NEW rt, NEW ht, NEW lev, NEW rng, Cells(nd, ht, lev, rng), ht > 0,
         rt \in DOMAIN nd, \A n \in DOMAIN nd : lev[n] = ht => n = rt
  PROVE  rng[rt] = Int
<1>1. ht \in 1 .. ht
  BY DEF Cells
<1>2. \A p \in Int : p \in rng[rt]
  BY <1>1 DEF Cells
<1>3. rng[rt] \subseteq Int
  BY CellFacts
<1>. QED BY <1>2, <1>3

-----------------------------------------------------------------------------
(***************************************************************************)
(* A repair at level K of the path.                                        *)
(***************************************************************************)

(* What is known of the node to be repaired and of its parent.             *)
StepDown(nd, ht, lev, K, P, i, n) ==
  /\ K \in Nat /\ K <= ht /\ ht \in Nat
  /\ P \in DOMAIN nd /\ n \in DOMAIN nd /\ P # n
  /\ lev[P] = ht - K + 2 /\ lev[n] = ht - K + 1
  /\ lev[P] > 1 /\ lev[n] = lev[P] - 1
  /\ i \in 0 .. Len(nd[P].data) /\ n = nd[P].children[i + 1]

LEMMA PathStep ==
  ASSUME NEW w, NEW K, NEW nd, NEW rt, NEW ht, NEW lev, PathOK(w, K, nd, rt, ht, lev), K > 1,
         ht \in Nat
  PROVE  StepDown(nd, ht, lev, K, w.pages[K - 1], w.pos[K - 1], w.pages[K])
<1>1. K \in Nat /\ K <= ht /\ ht \in Nat
  BY DEF PathOK
<1>2. K - 1 \in 1 .. K - 1 /\ K - 1 \in 1 .. K /\ K \in 1 .. K /\ (K - 1) + 1 = K
  BY <1>1
<1>3. /\ w.pages[K - 1] \in DOMAIN nd /\ lev[w.pages[K - 1]] = ht - (K - 1) + 1
      /\ w.pages[K] \in DOMAIN nd /\ lev[w.pages[K]] = ht - K + 1
  BY <1>2 DEF PathOK
<1>4. /\ w.pos[K - 1] \in 0 .. Len(nd[w.pages[K - 1]].data)
      /\ w.pages[K] = nd[w.pages[K - 1]].children[w.pos[K - 1] + 1]
  BY <1>2 DEF PathOK
<1>5. ht - (K - 1) + 1 = ht - K + 2 /\ ht - K + 2 > 1 /\ ht - K + 1 = (ht - K + 2) - 1
  BY <1>1
<1>6. w.pages[K] # w.pages[K - 1]
  BY <1>1, <1>3, <1>5
<1>. QED BY <1>1, <1>3, <1>4, <1>5, <1>6 DEF StepDown

(* The tree after the repair: nothing has changed above the parent P.      *)
Mended(nd, P, ht, st, b, lev, nd2, lev2, rng2) ==
  /\ Cells(nd2, ht, lev2, rng2) /\ NodesOK(nd2, st, lev2, rng2)
  /\ \A n \in DOMAIN nd : lev[n] >= lev[P] => n \in DOMAIN nd2 /\ lev2[n] = lev[n]
  /\ \A n \in DOMAIN nd : lev[n] >= lev[P] /\ n # P => nd2[n] = nd[n]
  /\ \A n \in DOMAIN nd2 : lev2[n] >= lev[P] => n \in DOMAIN nd /\ lev[n] = lev2[n]
  /\ \A n \in DOMAIN nd2 : n = P \/ Fits(nd2, lev2, b, n)

(* Either the parent is the next node to be repaired or the entry is done. *)
Onward(kind, needed, w, K, pend2, w2) ==
  IF needed THEN pend2 = [kind |-> kind, level |-> K - 1] /\ w2 = w
  ELSE pend2 = NoRepair /\ w2 = NoPath

LEMMA RepairUp ==
  ASSUME NEW nd, NEW rt, NEW ht, NEW w, NEW K, NEW st, NEW b, NEW lev, NEW rng,
         Shape(nd, rt, ht, st, lev, rng), PathOK(w, K, nd, rt, ht, lev), K > 1,
         NEW nd2, NEW lev2, NEW rng2,
         Mended(nd, w.pages[K - 1], ht, st, b, lev, nd2, lev2, rng2),
         NEW kind, NEW needed \in BOOLEAN, NEW pend2, NEW w2, Onward(kind, needed, w, K, pend2, w2),
         needed => DueSize(kind, Len(nd2[w.pages[K - 1]].data), b, lev[w.pages[K - 1]], ht),
         ~needed => Fits(nd2, lev2, b, w.pages[K - 1])
  PROVE  FlushOK(nd2, rt, ht, w2, pend2, st, b, lev2, rng2)
<1> DEFINE P == w.pages[K - 1]
<1>1. /\ K \in Nat /\ K <= ht /\ ht \in Nat /\ P \in DOMAIN nd /\ lev[P] = ht - K + 2
  <2>1. ht \in Nat
    BY DEF Shape, Cells
  <2>. QED BY <2>1, PathStep DEF StepDown
<1>2. Cells(nd2, ht, lev2, rng2) /\ NodesOK(nd2, st, lev2, rng2)
  BY DEF Mended
<1>3. rt \in DOMAIN nd /\ lev[rt] = ht /\ ht > 0
  BY <1>1 DEF Shape
<1>4. rt \in DOMAIN nd2 /\ lev2[rt] = ht
  BY <1>1, <1>3 DEF Mended
<1>5. \A n \in DOMAIN nd2 : lev2[n] = ht => n = rt
  BY <1>1, RootAlone DEF Mended
<1>6. rng2[rt] = Int
  BY <1>2, <1>3, <1>4, <1>5, RootRange
<1>7. Shape(nd2, rt, ht, st, lev2, rng2)
  BY <1>2, <1>3, <1>4, <1>6 DEF Shape
<1>8. P \in DOMAIN nd2 /\ lev2[P] = lev[P]
  BY <1>1 DEF Mended
<1>9. CASE needed
  <2>1. pend2 = [kind |-> kind, level |-> K - 1] /\ w2 = w
    BY <1>9 DEF Onward
  <2>2. PathOK(w, K - 1, nd2, rt, ht, lev2)
    <3>1. K - 1 \in 1 .. ht
      BY <1>1
    <3>2. ASSUME NEW k \in 1 .. K - 1
          PROVE  w.pages[k] \in DOMAIN nd2 /\ lev2[w.pages[k]] = ht - k + 1
      <4>1. k \in 1 .. K /\ ht - k + 1 >= ht - K + 2
        BY <1>1
      <4>2. w.pages[k] \in DOMAIN nd /\ lev[w.pages[k]] = ht - k + 1
        BY <4>1 DEF PathOK
      <4>. QED BY <1>1, <4>1, <4>2 DEF Mended
    <3>3. ASSUME NEW k \in 1 .. (K - 1) - 1
          PROVE  /\ w.pos[k] \in 0 .. Len(nd2[w.pages[k]].data)
                 /\ w.pages[k + 1] = nd2[w.pages[k]].children[w.pos[k] + 1]
      <4>1. k \in 1 .. K - 1 /\ k \in 1 .. K /\ ht - k + 1 > ht - K + 2
        BY <1>1
      <4>2. w.pages[k] \in DOMAIN nd /\ lev[w.pages[k]] = ht - k + 1
        BY <4>1 DEF PathOK
      <4>3. w.pages[k] # P /\ lev[w.pages[k]] >= lev[P]
        BY <1>1, <4>1, <4>2
      <4>4. nd2[w.pages[k]] = nd[w.pages[k]]
        BY <4>2, <4>3 DEF Mended
      <4>. QED BY <4>1, <4>4 DEF PathOK
    <3>. QED BY <3>1, <3>2, <3>3 DEF PathOK
  <2>3. Working(nd2, rt, ht, w2, pend2, b, lev2)
    BY <1>8, <1>9, <2>1, <2>2 DEF Working
  <2>4. pend2 # NoRepair /\ w2.pages[pend2.level] = P
    <3>1. kind # "none"
      BY <1>9 DEF DueSize
    <3>. QED BY <2>1, <3>1 DEF NoRepair
  <2>. QED BY <1>7, <2>3, <2>4 DEF FlushOK, Mended
<1>10. CASE ~needed
  <2>1. pend2 = NoRepair /\ w2 = NoPath
    BY <1>10 DEF Onward
  <2>2. \A n \in DOMAIN nd2 : Fits(nd2, lev2, b, n)
    BY <1>10 DEF Mended
  <2>. QED BY <1>7, <2>1, <2>2 DEF FlushOK, Working
<1>. QED BY <1>9, <1>10

(* What is known when a repair is due.                                     *)
LEMMA DueFacts ==
  ASSUME NEW nd, NEW rt, NEW ht, NEW w, NEW pend, NEW st, NEW b, NEW lev, NEW rng,
         FlushOK(nd, rt, ht, w, pend, st, b, lev, rng), pend # NoRepair
  PROVE  /\ Shape(nd, rt, ht, st, lev, rng)
         /\ Cells(nd, ht, lev, rng) /\ NodesOK(nd, st, lev, rng)
         /\ pend = [kind |-> pend.kind, level |-> pend.level]
         /\ PathOK(w, pend.level, nd, rt, ht, lev)
         /\ w.pages[pend.level] \in DOMAIN nd
         /\ DueSize(pend.kind, Len(nd[w.pages[pend.level]].data), b,
                    lev[w.pages[pend.level]], ht)
         /\ \A n \in DOMAIN nd : n # w.pages[pend.level] => Fits(nd, lev, b, n)
<1>1. PathOK(w, pend.level, nd, rt, ht, lev) /\ pend = [kind |-> pend.kind, level |-> pend.level]
  BY DEF FlushOK, Working
<1>2. pend.level \in 1 .. pend.level
  BY <1>1 DEF PathOK
<1>3. w.pages[pend.level] \in DOMAIN nd
  BY <1>1, <1>2 DEF PathOK
<1>. QED BY <1>1, <1>3 DEF FlushOK, Working, Shape

(* Both halves of a node that was one too large fit.                       *)
LEMMA SplitSizes ==
  ASSUME NEW b \in Builds, NEW a, NEW l \in Nat \ {0}, NEW key, NEW page, NEW a1, NEW a2,
         Splits(a, l, key, page, a1, a2),
         a1.data \in Seq(Int), a2.data \in Seq(Int), Len(a1.data) > 0, Len(a2.data) > 0,
         Len(a.data) = Limit(b, l) + 1
  PROVE  Len(a1.data) \in 1 .. Limit(b, l) /\ Len(a2.data) \in 1 .. Limit(b, l)
<1>1. Len(a1.data) \in Nat /\ Len(a2.data) \in Nat /\ Limit(b, l) \in Nat
  BY LenProperties, BuildFacts DEF Limit
<1>2. CASE l = 1
  <2>1. Len(a.data) = Len(a1.data) + Len(a2.data)
    BY <1>2 DEF Splits, SplitsLeaf, InTwo
  <2>2. \A m, n, h \in Nat : m > 0 /\ n > 0 /\ m + n = h + 1 => m \in 1 .. h /\ n \in 1 .. h
    OBVIOUS
  <2>. QED BY <1>1, <2>1, <2>2
<1>3. CASE l > 1
  <2>1. Len(a2.data) = Len(a.data) - (Len(a1.data) + 1)
    BY <1>3 DEF Splits, SplitsIndex, CutAt
  <2>. QED BY <1>1, <2>1
<1>. QED BY <1>2, <1>3

(* Splitting the node that overflows repairs it.                           *)
LEMMA OverflowRepaired ==
  ASSUME NEW nd, NEW rt, NEW ht, NEW w, NEW pend, NEW st, NEW b, NEW lev, NEW rng,
         FlushOK(nd, rt, ht, w, pend, st, b, lev, rng), b \in Builds,
         NEW K, pend.kind = "overflow", K > 1,
         NEW key, NEW new, NEW nd2,
         SplitBelow(nd, lev, w.pages[K - 1], w.pos[K - 1], w.pages[K], key, new, nd2),
         Len(nd2[w.pages[K]].data) > 0, Len(nd2[new].data) > 0,
         NEW pend2, NEW w2,
         Onward("overflow", Len(nd2[w.pages[K - 1]].data) > b.index_split, w, K, pend2, w2),
         K = pend.level
  PROVE  \E lev2, rng2 : FlushOK(nd2, rt, ht, w2, pend2, st, b, lev2, rng2)
<1> DEFINE P == w.pages[K - 1]  old == w.pages[K]
<1>1. /\ Shape(nd, rt, ht, st, lev, rng) /\ Cells(nd, ht, lev, rng) /\ NodesOK(nd, st, lev, rng)
      /\ PathOK(w, K, nd, rt, ht, lev) /\ DueSize("overflow", Len(nd[old].data), b, lev[old], ht)
      /\ \A n \in DOMAIN nd : n # old => Fits(nd, lev, b, n)
  BY DueFacts DEF NoRepair
<1>2. PICK lev2, rng2 :
           /\ Cells(nd2, ht, lev2, rng2) /\ NodesOK(nd2, st, lev2, rng2)
           /\ lev2[new] = lev[old]
           /\ \A n \in DOMAIN nd : lev2[n] = lev[n] /\ (n # old => rng2[n] = rng[n])
  BY <1>1, SplitTree
<1>3. /\ P \in DOMAIN nd /\ old \in DOMAIN nd /\ lev[P] > 1 /\ lev[old] = lev[P] - 1 /\ P # old
  <2>1. ht \in Nat
    BY <1>1 DEF Cells
  <2>2. StepDown(nd, ht, lev, K, P, w.pos[K - 1], old)
    BY <1>1, <2>1, PathStep
  <2> HIDE DEF P, old
  <2>. QED BY <2>2 DEF StepDown
<1>4. /\ new \notin DOMAIN nd /\ DOMAIN nd2 = DOMAIN nd \cup {new}
      /\ \A n \in DOMAIN nd : n # P /\ n # old => nd2[n] = nd[n]
      /\ Splits(nd[old], lev[old], key, new, nd2[old], nd2[new])
      /\ Len(nd2[P].data) = Len(nd[P].data) + 1
  BY DEF SplitBelow, Inserted
<1>5. lev[P] \in Nat /\ lev[old] \in Nat \ {0} /\ \A n \in DOMAIN nd : lev[n] \in Nat
  BY <1>1, <1>3, CellFacts
<1>6. /\ nd2[old].data \in Seq(Int) /\ nd2[new].data \in Seq(Int)
  BY <1>2, <1>3, <1>4, CellFacts
<1>7. Len(nd[old].data) = Limit(b, lev[old]) + 1
  BY <1>1 DEF DueSize
<1>8. /\ Len(nd2[old].data) \in 1 .. Limit(b, lev[old])
      /\ Len(nd2[new].data) \in 1 .. Limit(b, lev[old])
  BY <1>4, <1>5, <1>6, <1>7, SplitSizes
<1>9. \A n \in DOMAIN nd2 : n = P \/ Fits(nd2, lev2, b, n)
  <2>1. Fits(nd2, lev2, b, old) /\ Fits(nd2, lev2, b, new)
    BY <1>2, <1>3, <1>8 DEF Fits
  <2>2. ASSUME NEW n \in DOMAIN nd, n # P, n # old PROVE Fits(nd2, lev2, b, n)
    BY <1>1, <1>2, <1>4, <2>2 DEF Fits
  <2>. QED BY <1>4, <2>1, <2>2
<1>10. Mended(nd, P, ht, st, b, lev, nd2, lev2, rng2)
  <2>1. \A n \in DOMAIN nd : lev[n] >= lev[P] => n # old
    BY <1>3, <1>5
  <2>2. \A n \in DOMAIN nd2 : lev2[n] >= lev[P] => n \in DOMAIN nd
    <3>1. lev2[new] = lev[old] /\ ~ (lev[old] >= lev[P])
      BY <1>2, <1>3, <1>5
    <3>2. DOMAIN nd2 = DOMAIN nd \cup {new}
      BY <1>4
    <3>. QED BY ONLY <3>1, <3>2
  <2>. QED BY <1>2, <1>4, <1>9, <2>1, <2>2 DEF Mended
<1>11. Len(nd[P].data) \in 1 .. b.index_split /\ b.index_split \in Nat
  BY SMTT(30), <1>1, <1>3, <1>5, BuildFacts DEF Fits, Limit
<1>12. lev2[P] = lev[P] /\ Limit(b, lev[P]) = b.index_split
  BY <1>2, <1>3, <1>5 DEF Limit
<1> DEFINE sz == Len(nd2[P].data)  needed == sz > b.index_split
<1>13. /\ sz \in 1 .. b.index_split + 1
       /\ needed => sz = b.index_split + 1
       /\ ~needed => sz \in 1 .. b.index_split
  <2>1. \A m, h \in Nat : m \in 1 .. h =>
          /\ m + 1 \in 1 .. h + 1
          /\ m + 1 > h => m + 1 = h + 1
          /\ ~ (m + 1 > h) => m + 1 \in 1 .. h
    OBVIOUS
  <2>2. Len(nd[P].data) \in Nat
    BY <1>11
  <2>3. sz = Len(nd[P].data) + 1
    BY <1>4
  <2> HIDE DEF sz
  <2>. QED BY <1>11, <2>1, <2>2, <2>3
<1>14. needed => DueSize("overflow", sz, b, lev[P], ht)
  BY <1>12, <1>13 DEF DueSize
<1>15. ~needed => Fits(nd2, lev2, b, P)
  BY <1>12, <1>13 DEF Fits
<1>16. needed \in BOOLEAN
  OBVIOUS
<1>17. Onward("overflow", needed, w, K, pend2, w2)
  OBVIOUS
<1> HIDE DEF needed, sz
<1>18. needed => DueSize("overflow", Len(nd2[w.pages[K - 1]].data), b, lev[w.pages[K - 1]], ht)
  BY <1>14 DEF sz, P
<1>19. ~needed => Fits(nd2, lev2, b, w.pages[K - 1])
  BY <1>15 DEF P
<1>20. Mended(nd, w.pages[K - 1], ht, st, b, lev, nd2, lev2, rng2)
  BY <1>10 DEF P
<1>21. FlushOK(nd2, rt, ht, w2, pend2, st, b, lev2, rng2)
  BY ONLY <1>1, <1>16, <1>17, <1>18, <1>19, <1>20, RepairUp, K > 1
<1>. QED BY <1>21

-----------------------------------------------------------------------------
(***************************************************************************)
(* What the operators on nodes do.                                         *)
(***************************************************************************)

(* There is always a free page.                                            *)
LEMMA NewPageFacts ==
  ASSUME NEW m, IsFiniteSet(DOMAIN m)
  PROVE  NewPage(m) \in Nat \ {0} /\ NewPage(m) \notin DOMAIN m
<1> DEFINE c == Cardinality(DOMAIN m)
<1>1. c \in Nat
  BY FS_CardinalityType
<1>2. Cardinality(1 .. c + 1) = c + 1
  <2>1. c + 1 \in Int /\ 1 \in Int /\ ~ (1 > c + 1) /\ (c + 1) - 1 + 1 = c + 1
    BY <1>1
  <2>2. Cardinality(1 .. c + 1) = (c + 1) - 1 + 1
    BY <2>1, FS_Interval
  <2>. QED BY <2>1, <2>2
<1>3. ~ (1 .. c + 1 \subseteq DOMAIN m)
  <2>1. SUFFICES ASSUME 1 .. c + 1 \subseteq DOMAIN m PROVE FALSE
    OBVIOUS
  <2>2. Cardinality(1 .. c + 1) <= c
    BY <2>1, FS_Subset
  <2>. QED BY <1>1, <1>2, <2>2
<1>4. \E n \in 1 .. c + 1 : n \notin DOMAIN m
  BY <1>3
<1>5. NewPage(m) \in 1 .. c + 1 /\ NewPage(m) \notin DOMAIN m
  BY <1>4 DEF NewPage
<1>. QED BY <1>1, <1>5

(* A sequence cut after k elements.                                        *)
LEMMA PrefixFacts ==
  ASSUME NEW S, NEW d \in Seq(S), NEW k \in 0 .. Len(d)
  PROVE  /\ SubSeq(d, 1, k) \in Seq(S) /\ Len(SubSeq(d, 1, k)) = k
         /\ \A j \in 1 .. k : SubSeq(d, 1, k)[j] = d[j]
<1> DEFINE d1 == SubSeq(d, 1, k)
<1>1. Len(d) \in Nat
  BY LenProperties
<1>2. 1 \in 1 .. Len(d) + 1 /\ k \in 1 - 1 .. Len(d) /\ k - 1 + 1 = k
  BY <1>1
<1>3. /\ d1 \in Seq(S) /\ Len(d1) = k - 1 + 1
      /\ \A j \in 1 .. k - 1 + 1 : d1[j] = d[1 + j - 1]
  BY <1>2, SubSeqFacts
<1>4. \A j \in 1 .. k : 1 + j - 1 = j
  OBVIOUS
<1> HIDE DEF d1
<1>5. d1 \in Seq(S) /\ Len(d1) = k /\ \A j \in 1 .. k : d1[j] = d[j]
  BY <1>2, <1>3, <1>4
<1>. QED BY <1>5 DEF d1

LEMMA SuffixFacts ==
  ASSUME NEW S, NEW d \in Seq(S), NEW k \in 0 .. Len(d)
  PROVE  /\ SubSeq(d, k + 1, Len(d)) \in Seq(S) /\ Len(SubSeq(d, k + 1, Len(d))) = Len(d) - k
         /\ \A j \in 1 .. Len(d) - k : SubSeq(d, k + 1, Len(d))[j] = d[k + j]
<1> DEFINE h == k + 1  l == Len(d)  d2 == SubSeq(d, h, l)
<1>1. l \in Nat
  BY LenProperties
<1>2. h \in 1 .. l + 1 /\ l \in h - 1 .. l /\ l - h + 1 = l - k
  BY <1>1
<1>4. \A j \in 1 .. l - k : h + j - 1 = k + j
  BY <1>1
<1> HIDE DEF h, l
<1>3. /\ d2 \in Seq(S) /\ Len(d2) = l - h + 1
      /\ \A j \in 1 .. l - h + 1 : d2[j] = d[h + j - 1]
  BY <1>2, SubSeqFacts DEF l
<1> HIDE DEF d2
<1>5. d2 \in Seq(S) /\ Len(d2) = l - k /\ \A j \in 1 .. l - k : d2[j] = d[k + j]
  BY <1>2, <1>3, <1>4
<1>. QED BY <1>5 DEF d2, h, l

(* The two pieces.                                                         *)
LEMMA PiecesFacts ==
  ASSUME NEW S, NEW d, NEW k, d \in Seq(S), k \in 0 .. Len(d)
  PROVE  /\ SubSeq(d, 1, k) \in Seq(S) /\ SubSeq(d, k + 1, Len(d)) \in Seq(S)
         /\ InTwo(d, SubSeq(d, 1, k), SubSeq(d, k + 1, Len(d)))
         /\ Len(SubSeq(d, 1, k)) = k /\ Len(SubSeq(d, k + 1, Len(d))) = Len(d) - k
<1> DEFINE d1 == SubSeq(d, 1, k)  d2 == SubSeq(d, k + 1, Len(d))
<1>1. /\ d1 \in Seq(S) /\ Len(d1) = k /\ \A j \in 1 .. k : d1[j] = d[j]
  BY PrefixFacts
<1>2. d2 \in Seq(S) /\ Len(d2) = Len(d) - k /\ \A j \in 1 .. Len(d) - k : d2[j] = d[k + j]
  BY SuffixFacts
<1>3. Len(d) = k + (Len(d) - k)
  BY LenProperties
<1> HIDE DEF d1, d2
<1>4. d1 \in Seq(S) /\ d2 \in Seq(S) /\ InTwo(d, d1, d2) /\ Len(d1) = k /\ Len(d2) = Len(d) - k
  BY <1>1, <1>2, <1>3 DEF InTwo
<1>. QED BY <1>4 DEF d1, d2

(* The fields of the nodes.                                                *)
LEMMA LeafNodeFacts ==
  ASSUME NEW d, NEW s
  PROVE  /\ LeafNode(d, s).data = d /\ LeafNode(d, s).children = <<>> /\ LeafNode(d, s).sibling = s
         /\ d \in Seq(Int) /\ s \in Nat \cup {NoPage} => LeafNode(d, s) \in NodeType
<1>1. <<>> \in Seq(Nat)
  OBVIOUS
<1>. QED BY <1>1 DEF LeafNode, NodeType

LEMMA IndexNodeFacts ==
  ASSUME NEW d, NEW c
  PROVE  /\ IndexNode(d, c).data = d /\ IndexNode(d, c).children = c
         /\ IndexNode(d, c).sibling = NoPage
         /\ d \in Seq(Int) /\ c \in Seq(Nat) => IndexNode(d, c) \in NodeType
  BY DEF IndexNode, NodeType

(* A leaf cut in the middle.                                               *)
AfterSplit(m, old, new, key, s) ==
  /\ DOMAIN s = DOMAIN m \cup {new}
  /\ \A n \in DOMAIN m : n # old => s[n] = m[n]
  /\ Len(s[old].data) > 0 /\ Len(s[new].data) > 0
  /\ key \in Int

LEMMA SplitLeafFacts ==
  ASSUME NEW m, NEW old, NEW new, old \in DOMAIN m, m[old] \in NodeType,
         m[old].children = <<>>, Len(m[old].data) > 1, new \in Nat \ {0}, new \notin DOMAIN m
  PROVE  LET s == SplitLeaf(m, old, new)
         IN /\ AfterSplit(m, old, new, s[new].data[1], s)
            /\ SplitsLeaf(m[old], s[new].data[1], new, s[old], s[new])
<1> DEFINE s == SplitLeaf(m, old, new)
<1> DEFINE d == m[old].data  half == Len(d) \div 2
           d1 == SubSeq(d, 1, half)  d2 == SubSeq(d, half + 1, Len(d))
<1>1. d \in Seq(Int) /\ Len(d) \in Nat /\ m[old].sibling \in Nat \cup {NoPage}
  BY LenProperties DEF NodeType
<1>2. half \in 1 .. Len(d) - 1
  <2>1. \A n \in Nat : n > 1 => n \div 2 \in 1 .. n - 1
    OBVIOUS
  <2>. QED BY <1>1, <2>1
<1> HIDE DEF half
<1>3. /\ d1 \in Seq(Int) /\ d2 \in Seq(Int) /\ InTwo(d, d1, d2)
      /\ Len(d1) = half /\ Len(d2) = Len(d) - half
  <2>1. half \in 0 .. Len(d)
    BY <1>1, <1>2
  <2> HIDE DEF d
  <2>2. /\ SubSeq(d, 1, half) \in Seq(Int) /\ SubSeq(d, half + 1, Len(d)) \in Seq(Int)
        /\ InTwo(d, SubSeq(d, 1, half), SubSeq(d, half + 1, Len(d)))
        /\ Len(SubSeq(d, 1, half)) = half /\ Len(SubSeq(d, half + 1, Len(d))) = Len(d) - half
    BY ONLY <1>1, <2>1, PiecesFacts
  <2>. QED BY ONLY <2>2 DEF d1, d2, d
<1>4. Len(d1) > 0 /\ Len(d2) > 0 /\ Len(d1) < Len(d) /\ Len(d1) \in Nat /\ Len(d2) \in Nat
  BY <1>1, <1>2, <1>3
<1>5. /\ DOMAIN s = DOMAIN m \cup {new}
      /\ \A n \in DOMAIN m : n # old => s[n] = m[n]
      /\ s[old] = LeafNode(d1, new)
      /\ s[new] = LeafNode(d2, m[old].sibling)
  BY DEF SplitLeaf, With, half
<1> HIDE DEF s
<1>6. /\ s[old].data = d1 /\ s[old].children = <<>> /\ s[old].sibling = new
      /\ s[new].data = d2 /\ s[new].children = <<>> /\ s[new].sibling = m[old].sibling
  <2> HIDE DEF d1, d2
  <2>1. LeafNode(d1, new).data = d1
    BY ONLY LeafNodeFacts
  <2>2. s[old].data = d1
    BY ONLY <2>1, <1>5
  <2>. QED BY ONLY <1>5, LeafNodeFacts
<1> HIDE DEF d1, d2, d
<1>7. s[old] \in NodeType /\ s[new] \in NodeType
  <2>1. <<>> \in Seq(Nat)
    OBVIOUS
  <2>. QED BY <1>1, <1>3, <1>5, <2>1 DEF LeafNode, NodeType
<1>8. d2[1] = d[Len(d1) + 1] /\ d2[1] \in Int
  <2>1. 1 \in 1 .. Len(d2)
    BY <1>4
  <2>. QED BY <1>3, <2>1 DEF InTwo
<1>9. SplitsLeaf(m[old], s[new].data[1], new, s[old], s[new])
  BY <1>3, <1>4, <1>6, <1>7, <1>8 DEF SplitsLeaf, d
<1>10. AfterSplit(m, old, new, s[new].data[1], s)
  BY <1>4, <1>5, <1>6, <1>8 DEF AfterSplit
<1>. QED BY <1>9, <1>10 DEF s

(* An index node cut at a key.                                             *)
IndexCut(d, c, k, d1, d2, c1, c2) ==
  /\ d1 \in Seq(Int) /\ d2 \in Seq(Int) /\ CutAt(d, k + 1, d1, d2) /\ Len(d1) = k
  /\ Len(d2) = Len(d) - k - 1 /\ c1 \in Seq(Nat) /\ c2 \in Seq(Nat) /\ InTwo(c, c1, c2)
  /\ Len(c1) = k + 1

LEMMA IndexPieces ==
  ASSUME NEW d, NEW c, d \in Seq(Int), c \in Seq(Nat), Len(c) = Len(d) + 1,
         NEW k \in 0 .. Len(d) - 1
  PROVE  IndexCut(d, c, k, SubSeq(d, 1, k), SubSeq(d, k + 2, Len(d)),
                  SubSeq(c, 1, k + 1), SubSeq(c, k + 2, Len(c)))
<1>1. Len(d) \in Nat
  BY LenProperties
<1>2. k \in 0 .. Len(d) /\ k + 1 \in 0 .. Len(d) /\ k + 1 \in 0 .. Len(c) /\ k \in Nat
  BY <1>1
<1> DEFINE i == k + 1  h == k + 2
<1>3. i + 1 = h /\ i - 1 = k
  BY <1>2
<1>4. i \in 0 .. Len(d) /\ i \in 0 .. Len(c) /\ i \in Nat
  BY <1>2
<1>5. Len(d) - i = Len(d) - k - 1
  BY <1>1, <1>2
<1> HIDE DEF i, h
<1> DEFINE d1 == SubSeq(d, 1, k)  d2 == SubSeq(d, h, Len(d))
           c1 == SubSeq(c, 1, i)  c2 == SubSeq(c, h, Len(c))
<1>6. d1 \in Seq(Int) /\ Len(d1) = k /\ \A j \in 1 .. k : d1[j] = d[j]
  BY ONLY <1>2, PrefixFacts, d \in Seq(Int)
<1>7. d2 \in Seq(Int) /\ Len(d2) = Len(d) - i /\ \A j \in 1 .. Len(d) - i : d2[j] = d[i + j]
  BY ONLY <1>3, <1>4, SuffixFacts, d \in Seq(Int)
<1>8. c1 \in Seq(Nat) /\ c2 \in Seq(Nat) /\ InTwo(c, c1, c2) /\ Len(c1) = i
  <2>1. /\ SubSeq(c, 1, i) \in Seq(Nat) /\ SubSeq(c, i + 1, Len(c)) \in Seq(Nat)
        /\ InTwo(c, SubSeq(c, 1, i), SubSeq(c, i + 1, Len(c))) /\ Len(SubSeq(c, 1, i)) = i
    <3>1. i \in 0 .. Len(c) /\ c \in Seq(Nat)
      BY <1>4
    <3>2. SubSeq(c, 1, i) \in Seq(Nat)
      BY ONLY <3>1, PiecesFacts
    <3>3. SubSeq(c, i + 1, Len(c)) \in Seq(Nat)
      BY ONLY <3>1, PiecesFacts
    <3>4. InTwo(c, SubSeq(c, 1, i), SubSeq(c, i + 1, Len(c)))
      BY ONLY <3>1, PiecesFacts
    <3>5. Len(SubSeq(c, 1, i)) = i
      BY ONLY <3>1, PiecesFacts
    <3>. QED BY ONLY <3>2, <3>3, <3>4, <3>5
  <2>. QED BY ONLY <1>3, <2>1 DEF c1, c2
<1> HIDE DEF d1, d2, c1, c2
<1>9. CutAt(d, i, d1, d2)
  BY <1>3, <1>6, <1>7 DEF CutAt
<1>10. IndexCut(d, c, k, d1, d2, c1, c2)
  BY ONLY <1>5, <1>6, <1>7, <1>8, <1>9 DEF IndexCut, i
<1>. QED BY ONLY <1>10 DEF d1, d2, c1, c2, i, h

(* An index node cut in the middle.                                        *)
LEMMA SplitIndexFacts ==
  ASSUME NEW m, NEW old, NEW new, old \in DOMAIN m, m[old] \in NodeType,
         Len(m[old].children) = Len(m[old].data) + 1,
         Len(m[old].data) > 2, new \in Nat \ {0}, new \notin DOMAIN m
  PROVE  LET s == SplitIndex(m, old, new)  key == m[old].data[KeysKept(m[old].data) + 1]
         IN AfterSplit(m, old, new, key, s) /\ SplitsIndex(m[old], key, s[old], s[new])
<1> DEFINE s == SplitIndex(m, old, new)
<1> DEFINE d == m[old].data  c == m[old].children  k == KeysKept(d)
           d1 == SubSeq(d, 1, k)  d2 == SubSeq(d, k + 2, Len(d))
           c1 == SubSeq(c, 1, k + 1)  c2 == SubSeq(c, k + 2, Len(c))
<1>1. d \in Seq(Int) /\ Len(d) \in Nat /\ c \in Seq(Nat)
  BY LenProperties DEF NodeType
<1>2. k \in 1 .. Len(d) - 2
  <2>1. \A n \in Nat : n > 2 => (n - 1) \div 2 \in 1 .. n - 2
    OBVIOUS
  <2>. QED BY <1>1, <2>1 DEF KeysKept
<1>3. /\ DOMAIN s = DOMAIN m \cup {new}
      /\ \A n \in DOMAIN m : n # old => s[n] = m[n]
      /\ s[old] = IndexNode(d1, c1)
      /\ s[new] = IndexNode(d2, c2)
  BY DEF SplitIndex, With
<1> HIDE DEF k, s
<1>4. k \in 0 .. Len(d) - 1 /\ Len(d) - k - 1 > 0 /\ k \in Nat
  BY <1>1, <1>2
<1>5. /\ d1 \in Seq(Int) /\ d2 \in Seq(Int) /\ CutAt(d, k + 1, d1, d2) /\ Len(d1) = k
      /\ Len(d2) = Len(d) - k - 1 /\ c1 \in Seq(Nat) /\ c2 \in Seq(Nat) /\ InTwo(c, c1, c2)
      /\ Len(c1) = k + 1
  <2> HIDE DEF d, c
  <2>1. Len(c) = Len(d) + 1
    BY DEF d, c
  <2>2. IndexCut(d, c, k, SubSeq(d, 1, k), SubSeq(d, k + 2, Len(d)),
                 SubSeq(c, 1, k + 1), SubSeq(c, k + 2, Len(c)))
    BY ONLY <1>1, <1>4, <2>1, IndexPieces
  <2>. QED BY ONLY <2>2 DEF IndexCut, d1, d2, c1, c2, d, c
<1>6. k + 1 \in 1 .. Len(d)
  BY <1>1, <1>2
<1>7. d[k + 1] \in Int
  BY <1>1, <1>6
<1> HIDE DEF d1, d2, c1, c2, d, c
<1>8. /\ s[old].data = d1 /\ s[old].children = c1 /\ s[old] \in NodeType
      /\ s[new].data = d2 /\ s[new].children = c2 /\ s[new] \in NodeType
  BY ONLY <1>3, <1>5, IndexNodeFacts
<1>9. SplitsIndex(m[old], d[k + 1], s[old], s[new])
  <2>1. Len(d1) < Len(d)
    BY <1>1, <1>4, <1>5
  <2>. QED BY <1>5, <1>8, <2>1 DEF SplitsIndex, d, c
<1>10. Len(s[old].data) > 0 /\ Len(s[new].data) > 0
  <2>1. k > 0
    BY <1>2
  <2>. QED BY ONLY <1>4, <1>5, <1>8, <2>1
<1>11. AfterSplit(m, old, new, d[k + 1], s)
  BY <1>3, <1>7, <1>10 DEF AfterSplit
<1>. QED BY <1>9, <1>11 DEF k, d, s

(* A child and the key before it come into a node.                         *)
ChildAdded(m, n, i, key, child, s) ==
  /\ DOMAIN s = DOMAIN m
  /\ \A x \in DOMAIN m : x # n => s[x] = m[x]
  /\ s[n] \in NodeType
  /\ Inserted(m[n].data, i + 1, key, s[n].data)
  /\ Inserted(m[n].children, i + 2, child, s[n].children)

LEMMA AddChildFacts ==
  ASSUME NEW m, NEW n, NEW i, NEW key, NEW child, n \in DOMAIN m, m[n] \in NodeType,
         Len(m[n].children) = Len(m[n].data) + 1, i \in 0 .. Len(m[n].data),
         key \in Int, child \in Nat
  PROVE  ChildAdded(m, n, i, key, child, AddChild(m, n, i, key, child))
<1> DEFINE s == AddChild(m, n, i, key, child)
<1> DEFINE d == m[n].data  c == m[n].children  j == i + 1  h == i + 2
           d2 == InsertAt(d, j, key)  c2 == InsertAt(c, h, child)
<1>1. d \in Seq(Int) /\ Len(d) \in Nat /\ c \in Seq(Nat)
  BY LenProperties DEF NodeType
<1>2. j \in 1 .. Len(d) + 1 /\ h \in 1 .. Len(c) + 1
  BY <1>1
<1>3. /\ DOMAIN s = DOMAIN m
      /\ \A x \in DOMAIN m : x # n => s[x] = m[x]
      /\ s[n] = IndexNode(d2, c2)
  BY DEF AddChild
<1> HIDE DEF d, c, j, h, s
<1>4. d2 \in Seq(Int) /\ Inserted(d, j, key, d2)
  <2>1. /\ d2 \in Seq(Int) /\ Len(d2) = Len(d) + 1
        /\ \A x \in 1 .. Len(d) + 1 :
              d2[x] = IF x < j THEN d[x] ELSE IF x = j THEN key ELSE d[x - 1]
    BY ONLY <1>1, <1>2, InsertAtFacts, key \in Int DEF d2
  <2>. QED BY ONLY <2>1 DEF Inserted
<1>5. c2 \in Seq(Nat) /\ Inserted(c, h, child, c2)
  BY ONLY <1>1, <1>2, InsertAtFacts, child \in Nat DEF Inserted
<1> HIDE DEF d2, c2
<1>6. s[n].data = d2 /\ s[n].children = c2 /\ s[n] \in NodeType
  BY ONLY <1>3, <1>4, <1>5, IndexNodeFacts
<1>7. ChildAdded(m, n, i, key, child, s)
  BY <1>3, <1>4, <1>5, <1>6 DEF d, c, j, h, ChildAdded
<1>. QED BY <1>7 DEF s

-----------------------------------------------------------------------------
(***************************************************************************)
(* Overflow.                                                               *)
(***************************************************************************)

(* What a repair below the root finds: the node, its parent P and its      *)
(* place there.                                                            *)
RepairBelow(nd, rt, ht, w, K, st, b, lev, rng, P, i, n) ==
  /\ Shape(nd, rt, ht, st, lev, rng) /\ Cells(nd, ht, lev, rng) /\ NodesOK(nd, st, lev, rng)
  /\ PathOK(w, K, nd, rt, ht, lev) /\ K \in Nat /\ K > 1
  /\ P = w.pages[K - 1] /\ i = w.pos[K - 1] /\ n = w.pages[K]
  /\ P \in DOMAIN nd /\ n \in DOMAIN nd /\ P # n
  /\ lev[P] \in Nat /\ lev[P] > 1 /\ lev[n] = lev[P] - 1
  /\ lev[n] \in Nat \ {0} /\ (lev[n] = 1 <=> K = ht)
  /\ nd[P] \in NodeType /\ nd[n] \in NodeType
  /\ Len(nd[P].data) \in 1 .. b.index_split
  /\ Len(nd[P].children) = Len(nd[P].data) + 1
  /\ lev[n] = 1 => nd[n].children = <<>>
  /\ lev[n] > 1 => Len(nd[n].children) = Len(nd[n].data) + 1
  /\ i \in 0 .. Len(nd[P].data) /\ n = nd[P].children[i + 1]

LEMMA RepairFacts ==
  ASSUME NEW nd, NEW rt, NEW ht, NEW w, NEW pend, NEW st, NEW b, NEW lev, NEW rng,
         FlushOK(nd, rt, ht, w, pend, st, b, lev, rng), pend # NoRepair, pend.level > 1
  PROVE  RepairBelow(nd, rt, ht, w, pend.level, st, b, lev, rng, w.pages[pend.level - 1],
                     w.pos[pend.level - 1], w.pages[pend.level])
<1> DEFINE K == pend.level  P == w.pages[K - 1]  n == w.pages[K]
<1>1. /\ Shape(nd, rt, ht, st, lev, rng) /\ Cells(nd, ht, lev, rng) /\ NodesOK(nd, st, lev, rng)
      /\ PathOK(w, K, nd, rt, ht, lev)
      /\ \A m \in DOMAIN nd : m # n => Fits(nd, lev, b, m)
  BY DueFacts
<1>2. /\ K \in Nat /\ K <= ht /\ ht \in Nat /\ P \in DOMAIN nd /\ n \in DOMAIN nd /\ P # n
      /\ lev[P] > 1 /\ lev[n] = lev[P] - 1 /\ lev[n] = ht - K + 1
      /\ w.pos[K - 1] \in 0 .. Len(nd[P].data)
      /\ n = nd[P].children[w.pos[K - 1] + 1]
  <2>1. ht \in Nat
    BY <1>1 DEF Cells
  <2>2. StepDown(nd, ht, lev, K, P, w.pos[K - 1], n)
    BY <1>1, <2>1, PathStep
  <2> HIDE DEF K, P, n
  <2>. QED BY <2>2 DEF StepDown
<1>3. lev[P] \in Nat /\ lev[n] \in Nat /\ 1 <= lev[n] /\ nd[P] \in NodeType /\ nd[n] \in NodeType
  BY <1>1, <1>2, CellFacts
<1>4. lev[n] \in Nat \ {0} /\ (lev[n] = 1 <=> K = ht)
  <2>1. \A k, h, l \in Nat : k <= h /\ l = h - k + 1 => l # 0 /\ (l = 1 <=> k = h)
    OBVIOUS
  <2> HIDE DEF K, P, n
  <2>. QED BY <1>2, <1>3, <2>1
<1>5. Len(nd[P].children) = Len(nd[P].data) + 1
  BY <1>1, <1>2, ChildFacts
<1>6. lev[n] > 1 => Len(nd[n].children) = Len(nd[n].data) + 1
  BY <1>1, <1>2, ChildFacts
<1>7. lev[n] = 1 => nd[n].children = <<>>
  BY <1>1, <1>2 DEF NodesOK, NodeOK
<1>8. Len(nd[P].data) \in 1 .. b.index_split
  <2> HIDE DEF K, P, n
  <2>1. Fits(nd, lev, b, P) /\ lev[P] # 1
    BY <1>1, <1>2, <1>3
  <2>. QED BY <2>1 DEF Fits, Limit
<1> HIDE DEF P, n
<1>9. P = w.pages[K - 1] /\ n = w.pages[K]
  BY DEF P, n
<1> HIDE DEF K
<1>10. RepairBelow(nd, rt, ht, w, K, st, b, lev, rng, P, w.pos[K - 1], n)
  <2>1. K > 1
    BY DEF K
  <2>. QED BY ONLY <1>1, <1>2, <1>3, <1>4, <1>5, <1>6, <1>7, <1>8, <1>9, <2>1 DEF RepairBelow
<1>. QED BY <1>10 DEF P, n, K

(* The two halves are put below the parent.                                *)
LEMMA SplitStep ==
  ASSUME NEW nd, NEW rt, NEW ht, NEW w, NEW pend, NEW st, NEW b, NEW lev, NEW rng,
         FlushOK(nd, rt, ht, w, pend, st, b, lev, rng), b \in Builds, pend.kind = "overflow",
         NEW P, NEW i, NEW old,
         RepairBelow(nd, rt, ht, w, pend.level, st, b, lev, rng, P, i, old),
         NEW new, new \in Nat \ {0}, new \notin DOMAIN nd, NEW key, NEW split,
         AfterSplit(nd, old, new, key, split),
         Splits(nd[old], lev[old], key, new, split[old], split[new]),
         NEW pend2, NEW w2,
         Onward("overflow", Len(AddChild(split, P, i, key, new)[P].data) > b.index_split, w,
                pend.level, pend2, w2)
  PROVE  \E lev2, rng2 :
            FlushOK(AddChild(split, P, i, key, new), rt, ht, w2, pend2, st, b, lev2, rng2)
<1> DEFINE K == pend.level  nd2 == AddChild(split, P, i, key, new)
<1>1. /\ old \in DOMAIN nd /\ P \in DOMAIN nd /\ nd[P] \in NodeType /\ P # old
      /\ i \in 0 .. Len(nd[P].data) /\ K > 1
      /\ Len(nd[P].children) = Len(nd[P].data) + 1 /\ lev[P] > 1
      /\ old = nd[P].children[i + 1]
      /\ P = w.pages[K - 1] /\ i = w.pos[K - 1] /\ old = w.pages[K]
  BY DEF RepairBelow
<1> HIDE DEF K
<1>2. /\ DOMAIN split = DOMAIN nd \cup {new}
      /\ \A n \in DOMAIN nd : n # old => split[n] = nd[n]
      /\ Len(split[old].data) > 0 /\ Len(split[new].data) > 0
      /\ key \in Int
  BY DEF AfterSplit
<1>3. split[P] = nd[P] /\ P \in DOMAIN split /\ new # P /\ old # new
  BY <1>1, <1>2
<1>4. /\ DOMAIN nd2 = DOMAIN split
      /\ \A x \in DOMAIN split : x # P => nd2[x] = split[x]
      /\ nd2[P] \in NodeType
      /\ Inserted(nd[P].data, i + 1, key, nd2[P].data)
      /\ Inserted(nd[P].children, i + 2, new, nd2[P].children)
  <2>1. new \in Nat /\ split[P] \in NodeType /\ i \in 0 .. Len(split[P].data)
        /\ Len(split[P].children) = Len(split[P].data) + 1
    BY <1>1, <1>3
  <2>2. ChildAdded(split, P, i, key, new, nd2)
    BY <1>2, <1>3, <2>1, AddChildFacts
  <2> HIDE DEF nd2
  <2>. QED BY <1>3, <2>2 DEF ChildAdded
<1> HIDE DEF nd2
<1>5. nd2[old] = split[old] /\ nd2[new] = split[new]
  BY <1>1, <1>2, <1>3, <1>4
<1>6. SplitBelow(nd, lev, P, i, old, key, new, nd2)
  <2>1. Splits(nd[old], lev[old], key, new, nd2[old], nd2[new])
    BY <1>5
  <2>2. \A n \in DOMAIN nd : n # P /\ n # old => nd2[n] = nd[n]
    BY <1>2, <1>4
  <2>. QED BY <1>1, <1>2, <1>4, <2>1, <2>2 DEF SplitBelow
<1>7. K = pend.level /\ pend.kind = "overflow" /\ K > 1 /\ b \in Builds
  BY <1>1 DEF K
<1>8. SplitBelow(nd, lev, w.pages[K - 1], w.pos[K - 1], w.pages[K], key, new, nd2)
  BY <1>1, <1>6
<1>9. Len(nd2[w.pages[K]].data) > 0 /\ Len(nd2[new].data) > 0
  BY <1>1, <1>2, <1>5
<1>10. Onward("overflow", Len(nd2[w.pages[K - 1]].data) > b.index_split, w, K, pend2, w2)
  BY <1>1 DEF nd2, K
<1>11. FlushOK(nd, rt, ht, w, pend, st, b, lev, rng)
  OBVIOUS
<1>12. \E lev2, rng2 : FlushOK(nd2, rt, ht, w2, pend2, st, b, lev2, rng2)
  BY ONLY <1>7, <1>8, <1>9, <1>10, <1>11, OverflowRepaired
<1>. QED BY <1>12 DEF nd2

(* What a split finds and where it puts the new node.                      *)
LEMMA BeforeSplit ==
  ASSUME NEW lev, NEW rng,
         FlushOK(node, root, height, path, pending, stored, build, lev, rng),
         build \in Builds, pending.kind = "overflow", pending.level > 1
  PROVE  /\ RepairBelow(node, root, height, path, pending.level, stored, build, lev, rng,
                         Parent, child_idx, Child(child_idx))
         /\ Len(node[Child(child_idx)].data) = Limit(build, lev[Child(child_idx)]) + 1
         /\ NewPage(node) \in Nat \ {0} /\ NewPage(node) \notin DOMAIN node
<1> DEFINE K == pending.level
<1>1. pending # NoRepair
  BY DEF NoRepair
<1>2. RepairBelow(node, root, height, path, K, stored, build, lev, rng, Parent, child_idx,
                  path.pages[K])
  BY <1>1, RepairFacts DEF Parent, child_idx
<1>3. Child(child_idx) = path.pages[K]
  BY <1>2 DEF RepairBelow, Child
<1>4. DueSize("overflow", Len(node[path.pages[K]].data), build, lev[path.pages[K]], height)
  BY <1>1, DueFacts
<1>5. NewPage(node) \in Nat \ {0} /\ NewPage(node) \notin DOMAIN node
  BY <1>2, NewPageFacts DEF RepairBelow, Cells
<1>. QED BY <1>2, <1>3, <1>4, <1>5 DEF DueSize

(* A leaf is split.                                                        *)
LEMMA LeafOverflow ==
  ASSUME IInv, handle_leaf_overflow
  PROVE  IInv'
<1>1. PICK lev, rng : FlushOK(node, root, height, path, pending, stored, build, lev, rng)
  BY DEF IInv
<1> DEFINE K == pending.level  P == Parent  i == child_idx  old == Child(i)
           new == NewPage(node)  split == SplitLeaf(node, old, new)
           key == split[new].data[1]  nd2 == AddChild(split, P, i, key, new)
<1>2. /\ pending.kind = "overflow" /\ K = height /\ K > 1
      /\ node' = nd2 /\ root' = root /\ height' = height /\ stored' = stored /\ build' = build
      /\ Propagate("overflow", Len(node'[P].data) > IndexSplit)
  BY DEF handle_leaf_overflow, Due, AtLeaf
<1>3. build \in Builds /\ stored \subseteq Pairs
  BY DEF IInv
<1>4. /\ RepairBelow(node, root, height, path, K, stored, build, lev, rng, P, i, old)
      /\ Len(node[old].data) = Limit(build, lev[old]) + 1
      /\ new \in Nat \ {0} /\ new \notin DOMAIN node
  BY <1>1, <1>2, <1>3, BeforeSplit
<1> HIDE DEF P, i, old, new
<1>5. /\ old \in DOMAIN node /\ node[old] \in NodeType /\ node[old].children = <<>>
      /\ lev[old] = 1
  BY <1>2, <1>4 DEF RepairBelow
<1>6. Len(node[old].data) > 1
  BY <1>3, <1>4, <1>5, BuildFacts DEF Limit
<1>7. AfterSplit(node, old, new, key, split) /\ SplitsLeaf(node[old], key, new, split[old], split[new])
  BY <1>4, <1>5, <1>6, SplitLeafFacts
<1> HIDE DEF split, key
<1>8. Splits(node[old], lev[old], key, new, split[old], split[new])
  BY <1>5, <1>7 DEF Splits
<1>9. Onward("overflow", Len(nd2[P].data) > build.index_split, path, K, pending', path')
  BY <1>2 DEF Propagate, Onward, IndexSplit
<1>10. \E lev2, rng2 : FlushOK(nd2, root, height, path', pending', stored, build, lev2, rng2)
  BY ONLY ZenonT(30), <1>1, <1>2, <1>3, <1>4, <1>7, <1>8, <1>9, SplitStep
<1>. QED BY <1>2, <1>3, <1>10 DEF IInv

(* An index node is split.                                                 *)
LEMMA IndexOverflow ==
  ASSUME IInv, handle_index_overflow
  PROVE  IInv'
<1>1. PICK lev, rng : FlushOK(node, root, height, path, pending, stored, build, lev, rng)
  BY DEF IInv
<1> DEFINE K == pending.level  P == Parent  i == child_idx  old == Child(i)
           new == NewPage(node)  split == SplitIndex(node, old, new)
           key == PromotedKey(old)  nd2 == AddChild(split, P, i, key, new)
<1>2. /\ pending.kind = "overflow" /\ K > 1 /\ K < height
      /\ node' = nd2 /\ root' = root /\ height' = height /\ stored' = stored /\ build' = build
      /\ Propagate("overflow", Len(node'[P].data) > IndexSplit)
  BY DEF handle_index_overflow, Due, AtIndex
<1>3. build \in Builds /\ stored \subseteq Pairs
  BY DEF IInv
<1>4. /\ RepairBelow(node, root, height, path, K, stored, build, lev, rng, P, i, old)
      /\ Len(node[old].data) = Limit(build, lev[old]) + 1
      /\ new \in Nat \ {0} /\ new \notin DOMAIN node
  BY <1>1, <1>2, <1>3, BeforeSplit
<1> HIDE DEF P, i, old, new
<1>5. /\ old \in DOMAIN node /\ node[old] \in NodeType /\ lev[old] > 1
      /\ Len(node[old].children) = Len(node[old].data) + 1
  <2>1. lev[old] \in Nat \ {0} /\ K \in Nat /\ (lev[old] = 1 <=> K = height)
    BY ONLY <1>4 DEF RepairBelow
  <2>2. K # height
    BY <1>2, <2>1
  <2>3. lev[old] > 1
    BY ONLY <2>1, <2>2
  <2>. QED BY ONLY <1>4, <2>3 DEF RepairBelow
<1>6. Len(node[old].data) > 2
  <2>1. lev[old] # 1
    BY ONLY <1>5
  <2>2. build.index_split \in Nat /\ build.index_merge \in Nat \ {0}
        /\ 2 * build.index_merge <= build.index_split
    BY <1>3, BuildFacts
  <2>3. Len(node[old].data) = build.index_split + 1
    BY <1>4, <2>1 DEF Limit
  <2>. QED BY ONLY <2>2, <2>3
<1>7. AfterSplit(node, old, new, key, split) /\ SplitsIndex(node[old], key, split[old], split[new])
  BY <1>4, <1>5, <1>6, SplitIndexFacts DEF PromotedKey
<1> HIDE DEF split, key
<1>8. Splits(node[old], lev[old], key, new, split[old], split[new])
  BY <1>5, <1>7 DEF Splits
<1>9. Onward("overflow", Len(nd2[P].data) > build.index_split, path, K, pending', path')
  BY <1>2 DEF Propagate, Onward, IndexSplit
<1>10. \E lev2, rng2 : FlushOK(nd2, root, height, path', pending', stored, build, lev2, rng2)
  BY ONLY <1>1, <1>2, <1>3, <1>4, <1>7, <1>8, <1>9, SplitStep
<1>. QED BY <1>2, <1>3, <1>10 DEF IInv

(* The halves of the root are put below a new one.                         *)
LEMMA RootSplit ==
  ASSUME NEW nd, NEW rt, NEW ht, NEW st, NEW b, NEW lev, NEW rng,
         Shape(nd, rt, ht, st, lev, rng), ht > 0, b \in Builds,
         Len(nd[rt].data) = Limit(b, lev[rt]) + 1,
         \A n \in DOMAIN nd : n # rt => Fits(nd, lev, b, n),
         NEW top, NEW grown, Grown(nd, rt, top, grown),
         NEW new, new \in Nat \ {0}, new \notin DOMAIN grown, NEW key, NEW split,
         AfterSplit(grown, rt, new, key, split),
         Splits(nd[rt], lev[rt], key, new, split[rt], split[new])
  PROVE  \E lev2, rng2 :
            FlushOK(AddChild(split, top, 0, key, new), top, ht + 1, NoPath, NoRepair, st, b,
                    lev2, rng2)
<1>. /\ top \in Nat \ {0} /\ top \notin DOMAIN nd
     /\ DOMAIN grown = DOMAIN nd \cup {top}
     /\ \A n \in DOMAIN nd : grown[n] = nd[n]
     /\ grown[top] = IndexNode(<<>>, <<rt>>)
  BY DEF Grown
<1> DEFINE nd2 == AddChild(split, top, 0, key, new)  ht2 == ht + 1
<1>1. ht \in Nat /\ rt \in DOMAIN nd /\ lev[rt] = ht /\ rt # top
  BY DEF Shape, Cells
<1>2. ht2 \in Nat /\ ht2 > 1 /\ ht2 > 0 /\ ht = ht2 - 1
  BY <1>1
<1>3. PICK lev1, rng1 : Shape(grown, top, ht2, st, lev1, rng1) /\ \A n \in DOMAIN nd : lev1[n] = lev[n]
  BY GrowTree
<1> HIDE DEF ht2
<1>4. /\ Cells(grown, ht2, lev1, rng1) /\ NodesOK(grown, st, lev1, rng1)
      /\ top \in DOMAIN grown /\ lev1[top] = ht2 /\ rng1[top] = Int
  BY <1>2, <1>3 DEF Shape
<1>5. /\ grown[top].data = <<>> /\ grown[top].children = <<rt>>
  BY IndexNodeFacts
<1>6. /\ Len(grown[top].data) = 0 /\ Len(grown[top].children) = 1
      /\ 0 \in 0 .. Len(grown[top].data) /\ rt = grown[top].children[0 + 1]
  BY <1>5
<1>7. /\ DOMAIN split = DOMAIN grown \cup {new}
      /\ \A n \in DOMAIN grown : n # rt => split[n] = grown[n]
      /\ Len(split[rt].data) > 0 /\ Len(split[new].data) > 0
      /\ key \in Int
  BY DEF AfterSplit
<1>8. split[top] = grown[top] /\ top \in DOMAIN split /\ new # top /\ rt # new
  BY <1>1, <1>4, <1>7
<1>9. /\ DOMAIN nd2 = DOMAIN split
      /\ \A x \in DOMAIN split : x # top => nd2[x] = split[x]
      /\ nd2[top] \in NodeType
      /\ Inserted(grown[top].data, 0 + 1, key, nd2[top].data)
      /\ Inserted(grown[top].children, 0 + 2, new, nd2[top].children)
  <2>1. new \in Nat /\ split[top] \in NodeType /\ 0 \in 0 .. Len(split[top].data)
        /\ Len(split[top].children) = Len(split[top].data) + 1
    <3>1. grown[top] \in NodeType
      BY ONLY <1>4, CellFacts
    <3>2. Len(grown[top].children) = Len(grown[top].data) + 1 /\ 0 \in 0 .. Len(grown[top].data)
      BY ONLY <1>6
    <3>. QED BY ONLY <1>8, <3>1, <3>2, new \in Nat \ {0}
  <2>2. ChildAdded(split, top, 0, key, new, nd2)
    BY <1>7, <1>8, <2>1, AddChildFacts
  <2> HIDE DEF nd2
  <2>. QED BY <1>8, <2>2 DEF ChildAdded
<1> HIDE DEF nd2
<1>10. nd2[rt] = split[rt] /\ nd2[new] = split[new] /\ grown[rt] = nd[rt] /\ lev1[rt] = lev[rt]
  BY <1>1, <1>3, <1>7, <1>8, <1>9
<1>11. SplitBelow(grown, lev1, top, 0, rt, key, new, nd2)
  <2>1. Splits(grown[rt], lev1[rt], key, new, nd2[rt], nd2[new])
    BY <1>10
  <2>2. \A n \in DOMAIN grown : n # top /\ n # rt => nd2[n] = grown[n]
    BY <1>7, <1>9
  <2>. QED BY <1>2, <1>4, <1>6, <1>7, <1>9, <2>1, <2>2 DEF SplitBelow
<1>12. PICK lev2, rng2 :
           /\ Cells(nd2, ht2, lev2, rng2) /\ NodesOK(nd2, st, lev2, rng2)
           /\ lev2[new] = lev1[rt]
           /\ \A n \in DOMAIN grown : lev2[n] = lev1[n] /\ (n # rt => rng2[n] = rng1[n])
  BY <1>4, <1>11, SplitTree
<1>13. Shape(nd2, top, ht2, st, lev2, rng2)
  <2>1. top \in DOMAIN nd2 /\ lev2[top] = ht2 /\ rng2[top] = Int
    BY <1>1, <1>4, <1>7, <1>9, <1>12
  <2>. QED BY <1>2, <1>12, <2>1 DEF Shape
<1>14. /\ Len(nd2[rt].data) \in 1 .. Limit(b, lev[rt])
       /\ Len(nd2[new].data) \in 1 .. Limit(b, lev[rt])
  <2>1. rt \in DOMAIN nd2 /\ new \in DOMAIN nd2 /\ lev[rt] \in Nat \ {0}
    BY <1>1, <1>7, <1>9
  <2>2. nd2[rt].data \in Seq(Int) /\ nd2[new].data \in Seq(Int)
    BY <1>12, <2>1, CellFacts
  <2>. QED BY <1>7, <1>10, <2>1, <2>2, SplitSizes
<1>15. \A n \in DOMAIN nd2 : Fits(nd2, lev2, b, n)
  <2>1. Fits(nd2, lev2, b, rt) /\ Fits(nd2, lev2, b, new)
    BY <1>1, <1>3, <1>10, <1>12, <1>14 DEF Fits
  <2>2. ASSUME NEW n \in DOMAIN nd, n # rt PROVE Fits(nd2, lev2, b, n)
    <3>1. n # top /\ n \in DOMAIN grown
      OBVIOUS
    <3>2. nd2[n] = nd[n] /\ lev2[n] = lev[n]
      BY <1>3, <1>7, <1>9, <1>12, <2>2, <3>1
    <3>. QED BY <2>2, <3>2 DEF Fits
  <2>3. Fits(nd2, lev2, b, top)
    <3>1. lev2[top] # 1
      BY <1>2, <1>4, <1>12
    <3>2. Len(nd2[top].data) = 1
      BY <1>6, <1>9 DEF Inserted
    <3>3. b.index_split \in Nat \ {0}
      BY BuildFacts
    <3>4. Limit(b, lev2[top]) = b.index_split
      BY <3>1 DEF Limit
    <3>5. 1 \in 1 .. b.index_split
      BY <3>3
    <3>. QED BY <3>2, <3>4, <3>5 DEF Fits
  <2>. QED BY <1>7, <1>9, <2>1, <2>2, <2>3
<1>16. FlushOK(nd2, top, ht2, NoPath, NoRepair, st, b, lev2, rng2)
  BY <1>13, <1>15 DEF FlushOK, Working
<1>. QED BY <1>16 DEF nd2, ht2

(* A repair at the root.                                                   *)
LEMMA AtTheRoot ==
  ASSUME NEW nd, NEW rt, NEW ht, NEW w, NEW pend, NEW st, NEW b, NEW lev, NEW rng,
         FlushOK(nd, rt, ht, w, pend, st, b, lev, rng), pend # NoRepair, pend.level = 1
  PROVE  /\ Shape(nd, rt, ht, st, lev, rng) /\ Cells(nd, ht, lev, rng) /\ NodesOK(nd, st, lev, rng)
         /\ ht \in Nat /\ ht > 0 /\ rt \in DOMAIN nd /\ lev[rt] = ht /\ rng[rt] = Int
         /\ nd[rt] \in NodeType
         /\ DueSize(pend.kind, Len(nd[rt].data), b, ht, ht)
         /\ \A n \in DOMAIN nd : n # rt => Fits(nd, lev, b, n)
<1>1. /\ PathOK(w, 1, nd, rt, ht, lev) /\ Shape(nd, rt, ht, st, lev, rng)
      /\ DueSize(pend.kind, Len(nd[w.pages[1]].data), b, lev[w.pages[1]], ht)
      /\ \A n \in DOMAIN nd : n # w.pages[1] => Fits(nd, lev, b, n)
      /\ Cells(nd, ht, lev, rng) /\ NodesOK(nd, st, lev, rng)
  BY DueFacts
<1>2. w.pages[1] = rt /\ 1 \in 1 .. ht
  BY <1>1 DEF PathOK
<1>3. ht \in Nat /\ ht > 0
  BY <1>1, <1>2 DEF Shape, Cells
<1>4. rt \in DOMAIN nd /\ lev[rt] = ht /\ rng[rt] = Int
  BY <1>1, <1>3 DEF Shape
<1>5. nd[rt] \in NodeType
  <2>1. rt \in DOMAIN nd /\ Cells(nd, ht, lev, rng)
    BY ONLY <1>1, <1>4
  <2>. QED BY ONLY <2>1, CellFacts
<1>6. DueSize(pend.kind, Len(nd[rt].data), b, ht, ht)
  BY ONLY <1>1, <1>2, <1>4
<1>7. \A n \in DOMAIN nd : n # rt => Fits(nd, lev, b, n)
  BY ONLY <1>1, <1>2
<1>. QED BY ONLY <1>1, <1>3, <1>4, <1>5, <1>6, <1>7

(* The tree grows by a level.                                              *)
LEMMA RootOverflow ==
  ASSUME IInv, handle_root_overflow
  PROVE  IInv'
<1>1. PICK lev, rng : FlushOK(node, root, height, path, pending, stored, build, lev, rng)
  BY DEF IInv
<1> DEFINE top == NewPage(node)  grown == With(node, top, IndexNode(<<>>, <<root>>))
           new == NewPage(grown)
           split == IF height = 1 THEN SplitLeaf(grown, root, new)
                    ELSE SplitIndex(grown, root, new)
           key == IF height = 1 THEN split[new].data[1] ELSE PromotedKey(root)
           nd2 == AddChild(split, top, 0, key, new)
<1>2. /\ pending.kind = "overflow" /\ pending.level = 1
      /\ node' = nd2 /\ root' = top /\ height' = height + 1 /\ stored' = stored /\ build' = build
      /\ pending' = NoRepair /\ path' = NoPath
  BY DEF handle_root_overflow, Due, AtRoot
<1>3. build \in Builds /\ stored \subseteq Pairs
  BY DEF IInv
<1>4. pending # NoRepair
  BY <1>2 DEF NoRepair
<1>5. /\ Shape(node, root, height, stored, lev, rng) /\ Cells(node, height, lev, rng)
      /\ NodesOK(node, stored, lev, rng)
      /\ height \in Nat /\ height > 0 /\ root \in DOMAIN node /\ lev[root] = height
      /\ node[root] \in NodeType
      /\ DueSize("overflow", Len(node[root].data), build, height, height)
      /\ \A n \in DOMAIN node : n # root => Fits(node, lev, build, n)
  BY ONLY <1>1, <1>2, <1>4, AtTheRoot
<1>6. IsFiniteSet(DOMAIN node)
  BY <1>5 DEF Cells
<1>7. top \in Nat \ {0} /\ top \notin DOMAIN node
  BY <1>6, NewPageFacts
<1>8. /\ DOMAIN grown = DOMAIN node \cup {top}
      /\ \A n \in DOMAIN node : grown[n] = node[n]
      /\ grown[top] = IndexNode(<<>>, <<root>>)
  BY <1>7 DEF With
<1> HIDE DEF top, grown
<1>14. Grown(node, root, top, grown)
  BY <1>7, <1>8 DEF Grown
<1>9. new \in Nat \ {0} /\ new \notin DOMAIN grown
  <2>1. IsFiniteSet(DOMAIN grown)
    BY <1>6, <1>8, FS_AddElement
  <2>. QED BY <2>1, NewPageFacts
<1> HIDE DEF new
<1>10. root \in DOMAIN grown /\ grown[root] = node[root]
  BY <1>5, <1>8
<1>11. Len(node[root].data) = Limit(build, lev[root]) + 1
  BY <1>5 DEF DueSize
<1>12. AfterSplit(grown, root, new, key, split)
       /\ Splits(node[root], lev[root], key, new, split[root], split[new])
  <2>1. CASE height = 1
    <3>1. Len(node[root].data) > 1
      BY <1>3, <1>5, <1>11, <2>1, BuildFacts DEF Limit
    <3>2. node[root].children = <<>>
      BY <1>5, <2>1 DEF NodesOK, NodeOK
    <3> DEFINE sp == SplitLeaf(grown, root, new)
    <3>3. /\ AfterSplit(grown, root, new, sp[new].data[1], sp)
          /\ SplitsLeaf(node[root], sp[new].data[1], new, sp[root], sp[new])
      BY <1>5, <1>9, <1>10, <3>1, <3>2, SplitLeafFacts
    <3>4. split = sp /\ key = sp[new].data[1]
      BY <2>1
    <3> HIDE DEF sp, split, key
    <3>. QED BY <1>5, <2>1, <3>3, <3>4 DEF Splits
  <2>2. CASE height # 1
    <3>1. lev[root] # 1 /\ lev[root] > 1
      BY <1>5, <2>2
    <3>2. Len(node[root].data) > 2
      <4>1. build.index_split \in Nat /\ build.index_merge \in Nat \ {0}
            /\ 2 * build.index_merge <= build.index_split
        BY <1>3, BuildFacts
      <4>2. Len(node[root].data) = build.index_split + 1
        BY <1>11, <3>1 DEF Limit
      <4>. QED BY ONLY <4>1, <4>2
    <3>3. Len(node[root].children) = Len(node[root].data) + 1
      BY <1>5, <3>1, ChildFacts
    <3> DEFINE sp == SplitIndex(grown, root, new)
    <3>4. /\ AfterSplit(grown, root, new, PromotedKey(root), sp)
          /\ SplitsIndex(node[root], PromotedKey(root), sp[root], sp[new])
      <4>1. LET k == grown[root].data[KeysKept(grown[root].data) + 1]
            IN AfterSplit(grown, root, new, k, sp) /\ SplitsIndex(grown[root], k, sp[root], sp[new])
        BY <1>5, <1>9, <1>10, <3>2, <3>3, SplitIndexFacts
      <4>. QED BY <1>10, <4>1 DEF PromotedKey
    <3>5. split = sp /\ key = PromotedKey(root)
      BY <2>2
    <3> HIDE DEF sp, split, key
    <3>. QED BY <3>1, <3>4, <3>5 DEF Splits
  <2>. QED BY <2>1, <2>2
<1> HIDE DEF split, key
<1>13. \E lev2, rng2 : FlushOK(nd2, top, height + 1, NoPath, NoRepair, stored, build, lev2, rng2)
  BY ONLY <1>3, <1>5, <1>14, <1>9, <1>11, <1>12, RootSplit
<1>. QED BY <1>2, <1>3, <1>13 DEF IInv

-----------------------------------------------------------------------------
(***************************************************************************)
(* Underflow.                                                              *)
(***************************************************************************)

(* The empty tree.                                                         *)
LEMMA EmptyTree ==
  ASSUME NEW nd, DOMAIN nd = {}, NEW lev, NEW rng
  PROVE  Shape(nd, NoPage, 0, {}, lev, rng)
<1>1. Cells(nd, 0, lev, rng)
  <2>1. IsFiniteSet(DOMAIN nd)
    BY FS_EmptySet
  <2>2. 1 .. 0 = {}
    OBVIOUS
  <2>. QED BY <2>1, <2>2 DEF Cells
<1>2. NodesOK(nd, {}, lev, rng)
  BY DEF NodesOK
<1>. QED BY <1>1, <1>2 DEF Shape

(* The tree loses a level, if the root asks for it.                        *)
LEMMA RootUnderflow ==
  ASSUME IInv, handle_root_underflow
  PROVE  IInv'
<1>1. PICK lev, rng : FlushOK(node, root, height, path, pending, stored, build, lev, rng)
  BY DEF IInv
<1>2. /\ pending.kind = "underflow" /\ pending.level = 1
      /\ pending' = NoRepair /\ path' = NoPath /\ stored' = stored /\ build' = build
      /\ size(root) = 0 => /\ node' = Without(node, root) /\ height' = height - 1
                           /\ root' = IF height = 1 THEN NoPage ELSE node[root].children[1]
      /\ size(root) # 0 => node' = node /\ root' = root /\ height' = height
  BY DEF handle_root_underflow, Due, AtRoot
<1>3. build \in Builds /\ stored \subseteq Pairs
  BY DEF IInv
<1>4. pending # NoRepair
  BY <1>2 DEF NoRepair
<1>5. /\ Shape(node, root, height, stored, lev, rng) /\ Cells(node, height, lev, rng)
      /\ NodesOK(node, stored, lev, rng)
      /\ height \in Nat /\ height > 0 /\ root \in DOMAIN node /\ lev[root] = height
      /\ rng[root] = Int /\ node[root] \in NodeType
      /\ DueSize("underflow", Len(node[root].data), build, height, height)
      /\ \A n \in DOMAIN node : n # root => Fits(node, lev, build, n)
  BY ONLY <1>1, <1>2, <1>4, AtTheRoot
<1>6. ASSUME NEW lev2, NEW rng2, Shape(node', root', height', stored, lev2, rng2),
             \A n \in DOMAIN node' : Fits(node', lev2, build, n)
      PROVE  IInv'
  <2>1. FlushOK(node', root', height', path', pending', stored', build', lev2, rng2)
    BY <1>2, <1>6 DEF FlushOK, Working
  <2>. QED BY <1>2, <1>3, <2>1 DEF IInv
<1>7. CASE size(root) # 0
  <2>1. Len(node[root].data) \in Nat /\ Len(node[root].data) > 0
    <3>1. Len(node[root].data) \in Nat
      BY <1>5, LenProperties DEF NodeType
    <3>. QED BY <1>7, <3>1 DEF size
  <2>2. Len(node[root].data) < Least(build, height, height)
    BY <1>5 DEF DueSize
  <2>3. height > 1
    BY <1>5, <2>1, <2>2 DEF Least
  <2>4. Fits(node, lev, build, root)
    <3>1. Limit(build, lev[root]) = build.index_split
      BY <1>5, <2>3 DEF Limit
    <3>2. Least(build, height, height) = build.index_merge
      BY <2>3 DEF Least
    <3>3. /\ build.index_split \in Nat /\ build.index_merge \in Nat
          /\ 2 * build.index_merge <= build.index_split
      BY <1>3, BuildFacts
    <3>4. Len(node[root].data) \in 1 .. build.index_split
      BY <2>1, <2>2, <3>2, <3>3
    <3>. QED BY <3>1, <3>4 DEF Fits
  <2>. QED BY <1>2, <1>5, <1>6, <1>7, <2>4
<1>8. CASE size(root) = 0 /\ height = 1
  <2>1. \A n \in DOMAIN node : n = root
    <3>1. ASSUME NEW n \in DOMAIN node PROVE n = root
      <4>1. lev[n] = height
        BY <1>5, <1>8, CellFacts
      <4>. QED BY <1>5, <4>1, RootAlone
    <3>. QED BY <3>1
  <2>2. DOMAIN node' = {} /\ root' = NoPage /\ height' = 0
    BY SMTT(30), <1>2, <1>8, <2>1 DEF Without
  <2>3. stored = {}
    <3>1. Holds(stored, node[root].data, Int)
      BY <1>5, <1>8 DEF NodesOK, NodeOK
    <3>2. \A p \in Int : p \notin stored
      BY <1>8, <3>1 DEF Holds, size
    <3>. QED BY <1>3, <3>2, BuildsAssumption
  <2>4. Shape(node', root', height', stored, lev, rng)
    BY <2>2, <2>3, EmptyTree
  <2>. QED BY <1>6, <2>2, <2>4
<1>9. CASE size(root) = 0 /\ height # 1
  <2>1. height > 1 /\ Len(node[root].data) = 0
    BY <1>5, <1>9 DEF size
  <2>2. Shrunk(node, root, node')
    BY <1>2, <1>9 DEF Without, Shrunk
  <2>3. Shape(node', root', height', stored, lev, rng)
    BY <1>2, <1>5, <1>9, <2>1, <2>2, ShrinkTree
  <2>4. \A n \in DOMAIN node' : Fits(node', lev, build, n)
    BY <1>5, <2>2 DEF Shrunk, Fits
  <2>. QED BY <1>6, <2>3, <2>4
<1>. QED BY <1>7, <1>8, <1>9

(* A repair of the sizes of two neighbours.                                *)
Adjusted(nd, lev, b, P, nd2) ==
  /\ \A n \in DOMAIN nd2 : n \in DOMAIN nd
  /\ \A n \in DOMAIN nd : lev[n] >= lev[P] => n \in DOMAIN nd2
  /\ \A n \in DOMAIN nd : lev[n] >= lev[P] /\ n # P => nd2[n] = nd[n]
  /\ \A n \in DOMAIN nd2 : n # P => Len(nd2[n].data) \in 1 .. Limit(b, lev[n])

(* After it the parent may be due.                                         *)
LEMMA UnderflowRepaired ==
  ASSUME NEW nd, NEW rt, NEW ht, NEW w, NEW K, NEW st, NEW b, NEW lev, NEW rng,
         NEW P, NEW i, NEW n, b \in Builds,
         RepairBelow(nd, rt, ht, w, K, st, b, lev, rng, P, i, n),
         NEW nd2, Adjusted(nd, lev, b, P, nd2),
         NEW lev2, NEW rng2, Cells(nd2, ht, lev2, rng2), NodesOK(nd2, st, lev2, rng2),
         \A m \in DOMAIN nd2 : lev2[m] = lev[m],
         NEW needed \in BOOLEAN, NEW pend2, NEW w2, Onward("underflow", needed, w, K, pend2, w2),
         needed <=> Len(nd2[P].data) < b.index_merge,
         Len(nd2[P].data) \in 0 .. b.index_split
  PROVE  FlushOK(nd2, rt, ht, w2, pend2, st, b, lev2, rng2)
<1>1. /\ Shape(nd, rt, ht, st, lev, rng) /\ Cells(nd, ht, lev, rng)
      /\ PathOK(w, K, nd, rt, ht, lev) /\ K > 1
      /\ P = w.pages[K - 1] /\ P \in DOMAIN nd /\ lev[P] > 1 /\ lev[P] \in Nat
  BY DEF RepairBelow
<1>2. /\ \A m \in DOMAIN nd2 : m \in DOMAIN nd
      /\ \A m \in DOMAIN nd : lev[m] >= lev[P] => m \in DOMAIN nd2
      /\ \A m \in DOMAIN nd : lev[m] >= lev[P] /\ m # P => nd2[m] = nd[m]
      /\ \A m \in DOMAIN nd2 : m # P => Len(nd2[m].data) \in 1 .. Limit(b, lev[m])
  BY DEF Adjusted
<1>3. \A m \in DOMAIN nd2 : m = P \/ Fits(nd2, lev2, b, m)
  BY <1>2 DEF Fits
<1>4. Mended(nd, P, ht, st, b, lev, nd2, lev2, rng2)
  BY <1>2, <1>3 DEF Mended
<1>5. P \in DOMAIN nd2 /\ lev2[P] = lev[P] /\ lev[P] # 1
  BY <1>1, <1>2
<1>6. b.index_merge \in Nat \ {0} /\ b.index_split \in Nat
  BY BuildFacts
<1>7. needed => DueSize("underflow", Len(nd2[P].data), b, lev[P], ht)
  BY <1>1 DEF DueSize, Least
<1>8. ~needed => Fits(nd2, lev2, b, P)
  <2>1. Limit(b, lev2[P]) = b.index_split
    BY <1>5 DEF Limit
  <2>. QED BY <1>6, <2>1 DEF Fits
<1>. QED BY <1>1, <1>4, <1>7, <1>8, RepairUp

(* Two sequences in a row, and around a key.                               *)
LEMMA ConcatFacts ==
  ASSUME NEW S, NEW s, NEW s2, s \in Seq(S), s2 \in Seq(S)
  PROVE  s \o s2 \in Seq(S) /\ InTwo(s \o s2, s, s2)
<1>1. s \o s2 \in Seq(S) /\ Len(s \o s2) = Len(s) + Len(s2)
  BY ConcatProperties
<1>2. \A j \in 1 .. Len(s) + Len(s2) :
        (s \o s2)[j] = IF j <= Len(s) THEN s[j] ELSE s2[j - Len(s)]
  BY ConcatProperties
<1>3. Len(s) \in Nat /\ Len(s2) \in Nat
  BY LenProperties
<1> DEFINE t == s \o s2
<1> HIDE DEF t
<1>4. \A j \in 1 .. Len(s) : s[j] = t[j]
  <2>1. \A j \in 1 .. Len(s) : j \in 1 .. Len(s) + Len(s2) /\ j <= Len(s)
    BY <1>3
  <2>. QED BY <1>2, <2>1 DEF t
<1>5. \A j \in 1 .. Len(s2) : s2[j] = t[Len(s) + j]
  <2>1. ASSUME NEW j \in 1 .. Len(s2) PROVE s2[j] = t[Len(s) + j]
    <3>1. PICK h : h = Len(s) + j
      OBVIOUS
    <3>2. h \in 1 .. Len(s) + Len(s2) /\ ~ (h <= Len(s)) /\ h - Len(s) = j
      BY <1>3, <3>1
    <3>3. t[h] = s2[h - Len(s)]
      BY <1>2, <3>2 DEF t
    <3>. QED BY <3>1, <3>2, <3>3
  <2>. QED BY <2>1
<1>. QED BY <1>1, <1>4, <1>5 DEF InTwo, t

AroundKey(a, d1, key, d2) ==
  /\ a \in Seq(Int)
  /\ Len(a) = Len(d1) + Len(d2) + 1
  /\ CutAt(a, Len(d1) + 1, d1, d2)
  /\ key = a[Len(d1) + 1]

LEMMA AroundKeyFacts ==
  ASSUME NEW d1, NEW key, NEW d2, d1 \in Seq(Int), key \in Int, d2 \in Seq(Int)
  PROVE  AroundKey(Append(d1, key) \o d2, d1, key, d2)
<1> DEFINE e == Append(d1, key)  a == e \o d2
<1>1. e \in Seq(Int) /\ Len(e) = Len(d1) + 1 /\ e[Len(d1) + 1] = key
      /\ \A j \in 1 .. Len(d1) : e[j] = d1[j]
  BY AppendProperties
<1>2. Len(d1) \in Nat /\ Len(d2) \in Nat
  BY LenProperties
<1> HIDE DEF e
<1>3. a \in Seq(Int) /\ InTwo(a, e, d2)
  BY <1>1, ConcatFacts
<1> HIDE DEF a
<1>4. /\ Len(a) = Len(d1) + 1 + Len(d2)
      /\ \A j \in 1 .. Len(d1) + 1 : e[j] = a[j]
      /\ \A j \in 1 .. Len(d2) : d2[j] = a[(Len(d1) + 1) + j]
  BY <1>1, <1>3 DEF InTwo
<1>5. Len(a) = Len(d1) + Len(d2) + 1 /\ (Len(d1) + 1) - 1 = Len(d1)
      /\ Len(a) - (Len(d1) + 1) = Len(d2) /\ Len(d1) + 1 \in 1 .. Len(d1) + 1
  BY <1>2, <1>4
<1>6. \A j \in 1 .. Len(d1) : d1[j] = a[j]
  <2>1. \A j \in 1 .. Len(d1) : j \in 1 .. Len(d1) + 1
    BY <1>2
  <2>. QED BY <1>1, <1>4, <2>1
<1>7. CutAt(a, Len(d1) + 1, d1, d2)
  BY <1>4, <1>5, <1>6 DEF CutAt
<1>8. key = a[Len(d1) + 1]
  BY <1>1, <1>4, <1>5
<1>9. AroundKey(a, d1, key, d2)
  BY <1>3, <1>5, <1>7, <1>8 DEF AroundKey
<1>. QED BY <1>9 DEF a, e

(* An element taken out.                                                   *)
LEMMA InsertedFacts ==
  ASSUME NEW S, NEW s, s \in Seq(S), NEW i, i \in 1 .. Len(s) + 1, NEW e, e \in S
  PROVE  /\ InsertAt(s, i, e) \in Seq(S) /\ Len(InsertAt(s, i, e)) = Len(s) + 1
         /\ Inserted(s, i, e, InsertAt(s, i, e))
<1> DEFINE s2 == InsertAt(s, i, e)
<1>1. /\ s2 \in Seq(S) /\ Len(s2) = Len(s) + 1
      /\ \A j \in 1 .. Len(s) + 1 :
           s2[j] = IF j < i THEN s[j] ELSE IF j = i THEN e ELSE s[j - 1]
  BY InsertAtFacts
<1> HIDE DEF s2
<1>2. Inserted(s, i, e, s2)
  BY <1>1 DEF Inserted
<1>. QED BY <1>1, <1>2 DEF s2

LEMMA RemovedFacts ==
  ASSUME NEW S, NEW s, s \in Seq(S), NEW i, i \in 1 .. Len(s)
  PROVE  /\ RemoveAt(s, i) \in Seq(S) /\ Len(RemoveAt(s, i)) = Len(s) - 1
         /\ Inserted(RemoveAt(s, i), i, s[i], s)
<1>1. RemoveAt(s, i) \in Seq(S) /\ Len(RemoveAt(s, i)) = Len(s) - 1
  BY RemoveAtFacts
<1>2. \A j \in 1 .. Len(s) : s[j] = IF j = i THEN s[i] ELSE s[j]
  OBVIOUS
<1>3. PICK s2 : s2 = s
  OBVIOUS
<1>4. PICK e : e = s[i]
  OBVIOUS
<1>5. Len(s2) = Len(s) /\ \A j \in 1 .. Len(s) : s2[j] = IF j = i THEN e ELSE s[j]
  BY <1>2, <1>3, <1>4
<1>6. Inserted(RemoveAt(s, i), i, e, s2)
  BY <1>5, Reinserted
<1>. QED BY <1>1, <1>3, <1>4, <1>6

(* A child and the key before it go from a node.                           *)
ChildDropped(m, n, i, s) ==
  /\ DOMAIN s = DOMAIN m
  /\ \A x \in DOMAIN m : x # n => s[x] = m[x]
  /\ s[n] \in NodeType
  /\ Len(s[n].data) = Len(m[n].data) - 1
  /\ Inserted(s[n].data, i + 1, m[n].data[i + 1], m[n].data)
  /\ Inserted(s[n].children, i + 2, m[n].children[i + 2], m[n].children)

LEMMA DropChildFacts ==
  ASSUME NEW m, NEW n, NEW i, n \in DOMAIN m, m[n] \in NodeType,
         Len(m[n].children) = Len(m[n].data) + 1, i \in 0 .. Len(m[n].data) - 1
  PROVE  ChildDropped(m, n, i, DropChild(m, n, i))
<1> DEFINE d == m[n].data  c == m[n].children  j == i + 1  h == i + 2
           d2 == RemoveAt(d, j)  c2 == RemoveAt(c, h)  s == DropChild(m, n, i)
<1>1. d \in Seq(Int) /\ Len(d) \in Nat /\ c \in Seq(Nat)
  BY LenProperties DEF NodeType
<1>2. j \in 1 .. Len(d) /\ h \in 1 .. Len(c)
  BY <1>1
<1>3. /\ DOMAIN s = DOMAIN m
      /\ \A x \in DOMAIN m : x # n => s[x] = m[x]
      /\ s[n] = IndexNode(d2, c2)
  BY DEF DropChild
<1> HIDE DEF d, c, j, h, s
<1>4. d2 \in Seq(Int) /\ Len(d2) = Len(d) - 1 /\ Inserted(d2, j, d[j], d)
  BY ONLY <1>1, <1>2, RemovedFacts DEF d2
<1>5. c2 \in Seq(Nat) /\ Inserted(c2, h, c[h], c)
  BY ONLY <1>1, <1>2, RemovedFacts DEF c2
<1> HIDE DEF d2, c2
<1>6. s[n].data = d2 /\ s[n].children = c2 /\ s[n] \in NodeType
  BY ONLY <1>3, <1>4, <1>5, IndexNodeFacts
<1>7. ChildDropped(m, n, i, s)
  BY <1>3, <1>4, <1>5, <1>6 DEF d, c, j, h, ChildDropped
<1>. QED BY <1>7 DEF s

(* Two neighbours are replaced by one node a, on the page of the left one. *)
Fused(m, P, i, left, right, a, s) ==
  /\ DOMAIN s = DOMAIN m \ {right}
  /\ \A x \in DOMAIN m : x # P /\ x # left /\ x # right => s[x] = m[x]
  /\ s[left] = a
  /\ s[P] \in NodeType
  /\ Len(s[P].data) = Len(m[P].data) - 1
  /\ Inserted(s[P].data, i + 1, m[P].data[i + 1], m[P].data)
  /\ Inserted(s[P].children, i + 2, m[P].children[i + 2], m[P].children)

LEMMA FusedFacts ==
  ASSUME NEW m, NEW P, NEW i, NEW left, NEW right, NEW a,
         P \in DOMAIN m, left \in DOMAIN m, right \in DOMAIN m,
         P # left, P # right, left # right, m[P] \in NodeType,
         Len(m[P].children) = Len(m[P].data) + 1, i \in 0 .. Len(m[P].data) - 1
  PROVE  Fused(m, P, i, left, right, a,
               DropChild(Without([m EXCEPT ![left] = a], right), P, i))
<1> DEFINE m2 == Without([m EXCEPT ![left] = a], right)  s == DropChild(m2, P, i)
<1>1. /\ DOMAIN m2 = DOMAIN m \ {right} /\ P \in DOMAIN m2 /\ left \in DOMAIN m2
      /\ \A x \in DOMAIN m : x # left /\ x # right => m2[x] = m[x]
      /\ m2[left] = a /\ m2[P] = m[P]
  BY DEF Without
<1> HIDE DEF m2
<1>2. ChildDropped(m2, P, i, s)
  BY <1>1, DropChildFacts
<1> HIDE DEF s
<1>3. Fused(m, P, i, left, right, a, s)
  BY <1>1, <1>2 DEF ChildDropped, Fused
<1>. QED BY <1>3 DEF s, m2

(* The two children of P beside its key at the position i, one of which is *)
(* the node n that is due.                                                 *)
Siblings(nd, lev, rng, P, i, left, right, n) ==
  /\ i \in 0 .. Len(nd[P].data) - 1
  /\ left = nd[P].children[i + 1] /\ right = nd[P].children[i + 2]
  /\ n \in {left, right}
  /\ Neighbours(nd, P, i, left, nd[P].data[i + 1], right)
  /\ Adjacent(nd, lev, rng, P, left, nd[P].data[i + 1], right)
  /\ left \in DOMAIN nd /\ right \in DOMAIN nd
  /\ P # left /\ P # right /\ left # right
  /\ lev[left] = lev[n] /\ lev[right] = lev[n]
  /\ nd[P].data[i + 1] \in Int
  /\ nd[left] \in NodeType /\ nd[right] \in NodeType
  /\ lev[n] = 1 => nd[left].children = <<>> /\ nd[right].children = <<>>
  /\ lev[n] > 1 => /\ Len(nd[left].children) = Len(nd[left].data) + 1
                   /\ Len(nd[right].children) = Len(nd[right].data) + 1

LEMMA SiblingFacts ==
  ASSUME NEW nd, NEW rt, NEW ht, NEW w, NEW K, NEW st, NEW b, NEW lev, NEW rng,
         NEW P, NEW j, NEW n, RepairBelow(nd, rt, ht, w, K, st, b, lev, rng, P, j, n),
         NEW i, i \in 0 .. Len(nd[P].data) - 1, i = j \/ i = j - 1
  PROVE  Siblings(nd, lev, rng, P, i, nd[P].children[i + 1], nd[P].children[i + 2], n)
<1> DEFINE left == nd[P].children[i + 1]  right == nd[P].children[i + 2]
           sep == nd[P].data[i + 1]
<1>1. /\ Cells(nd, ht, lev, rng) /\ NodesOK(nd, st, lev, rng)
      /\ P \in DOMAIN nd /\ lev[P] > 1 /\ lev[P] \in Nat /\ lev[n] = lev[P] - 1
      /\ j \in 0 .. Len(nd[P].data) /\ n = nd[P].children[j + 1]
  BY DEF RepairBelow
<1>2. Neighbours(nd, P, i, left, sep, right)
  BY DEF Neighbours
<1>3. n \in {left, right}
  <2>1. CASE i = j
    BY <1>1, <2>1
  <2>2. CASE i = j - 1
    <3>1. j + 1 = i + 2
      BY <1>1, <2>2
    <3>. QED BY <1>1, <3>1
  <2>. QED BY <2>1, <2>2
<1> HIDE DEF left, right, sep
<1>4. Adjacent(nd, lev, rng, P, left, sep, right)
  BY <1>1, <1>2, NeighbourRanges
<1>5. /\ left \in DOMAIN nd /\ right \in DOMAIN nd /\ left # right
      /\ lev[left] = lev[n] /\ lev[right] = lev[n] /\ sep \in Int
  BY <1>1, <1>4 DEF Adjacent
<1>6. P # left /\ P # right
  BY <1>1, <1>5
<1>7. nd[left] \in NodeType /\ nd[right] \in NodeType
  BY ONLY <1>1, <1>5, CellFacts
<1>8. lev[n] = 1 => nd[left].children = <<>> /\ nd[right].children = <<>>
  BY ONLY <1>1, <1>5 DEF NodesOK, NodeOK
<1>9. lev[n] > 1 => /\ Len(nd[left].children) = Len(nd[left].data) + 1
                    /\ Len(nd[right].children) = Len(nd[right].data) + 1
  <2>1. lev[left] > 1 => Len(nd[left].children) = Len(nd[left].data) + 1
    BY ONLY <1>1, <1>5, ChildFacts
  <2>2. lev[right] > 1 => Len(nd[right].children) = Len(nd[right].data) + 1
    BY ONLY <1>1, <1>5, ChildFacts
  <2>. QED BY <1>5, <2>1, <2>2
<1>10. left = nd[P].children[i + 1] /\ right = nd[P].children[i + 2] /\ sep = nd[P].data[i + 1]
  BY DEF left, right, sep
<1>11. Siblings(nd, lev, rng, P, i, left, right, n)
  BY <1>2, <1>3, <1>4, <1>5, <1>6, <1>7, <1>8, <1>9, <1>10 DEF Siblings
<1>. QED BY <1>11 DEF left, right

(* A merge repairs the node.                                               *)
LEMMA MergeStep ==
  ASSUME NEW nd, NEW rt, NEW ht, NEW w, NEW K, NEW st, NEW b, NEW lev, NEW rng,
         NEW P, NEW j, NEW n, b \in Builds,
         RepairBelow(nd, rt, ht, w, K, st, b, lev, rng, P, j, n),
         \A m \in DOMAIN nd : m # n => Fits(nd, lev, b, m),
         NEW i, NEW left, NEW right, Siblings(nd, lev, rng, P, i, left, right, n),
         NEW a, NEW nd2, Fused(nd, P, i, left, right, a, nd2),
         Merges(nd[left], nd[right], lev[n], nd[P].data[i + 1], a),
         Len(a.data) \in 1 .. Limit(b, lev[n]),
         NEW pend2, NEW w2,
         Onward("underflow", Len(nd2[P].data) < b.index_merge, w, K, pend2, w2)
  PROVE  \E lev2, rng2 : FlushOK(nd2, rt, ht, w2, pend2, st, b, lev2, rng2)
<1>1. /\ Cells(nd, ht, lev, rng) /\ NodesOK(nd, st, lev, rng)
      /\ P \in DOMAIN nd /\ lev[P] > 1 /\ lev[P] \in Nat /\ lev[n] = lev[P] - 1
      /\ Len(nd[P].data) \in 1 .. b.index_split
  BY DEF RepairBelow
<1>2. /\ Neighbours(nd, P, i, left, nd[P].data[i + 1], right)
      /\ left \in DOMAIN nd /\ right \in DOMAIN nd
      /\ P # left /\ P # right /\ left # right
      /\ lev[left] = lev[n] /\ lev[right] = lev[n] /\ n \in {left, right}
      /\ right = nd[P].children[i + 2]
  BY DEF Siblings
<1>3. /\ DOMAIN nd2 = DOMAIN nd \ {right}
      /\ \A x \in DOMAIN nd : x # P /\ x # left /\ x # right => nd2[x] = nd[x]
      /\ nd2[left] = a
      /\ nd2[P] \in NodeType
      /\ Len(nd2[P].data) = Len(nd[P].data) - 1
      /\ Inserted(nd2[P].data, i + 1, nd[P].data[i + 1], nd[P].data)
      /\ Inserted(nd2[P].children, i + 2, nd[P].children[i + 2], nd[P].children)
  BY DEF Fused
<1>4. MergedBelow(nd, lev, P, i, left, nd[P].data[i + 1], right, nd2)
  BY <1>1, <1>2, <1>3 DEF MergedBelow
<1>5. PICK lev2, rng2 :
           /\ Cells(nd2, ht, lev2, rng2) /\ NodesOK(nd2, st, lev2, rng2)
           /\ \A x \in DOMAIN nd2 : lev2[x] = lev[x] /\ (x # left => rng2[x] = rng[x])
  BY <1>1, <1>4, MergeTree
<1>6. \A x \in DOMAIN nd : lev[x] >= lev[P] => x # left /\ x # right
  BY <1>1, <1>2
<1>7. \A x \in DOMAIN nd2 : x # P => Len(nd2[x].data) \in 1 .. Limit(b, lev[x])
  <2>1. ASSUME NEW x \in DOMAIN nd2, x # P PROVE Len(nd2[x].data) \in 1 .. Limit(b, lev[x])
    <3>1. CASE x = left
      BY <1>2, <1>3, <3>1
    <3>2. CASE x # left
      <4>1. nd2[x] = nd[x] /\ x # n /\ x \in DOMAIN nd
        BY <1>2, <1>3, <2>1, <3>2
      <4>. QED BY <4>1 DEF Fits
    <3>. QED BY <3>1, <3>2
  <2>. QED BY <2>1
<1>8. Adjusted(nd, lev, b, P, nd2)
  BY <1>3, <1>6, <1>7 DEF Adjusted
<1>9. Len(nd2[P].data) \in 0 .. b.index_split
  <2>1. \A s, l \in Int : s \in 1 .. l => s - 1 \in 0 .. l
    OBVIOUS
  <2>2. b.index_split \in Int /\ Len(nd[P].data) \in Int
    BY <1>1, BuildFacts
  <2>. QED BY <1>1, <1>3, <2>1, <2>2
<1> DEFINE needed == Len(nd2[P].data) < b.index_merge
<1>10. needed \in BOOLEAN /\ Onward("underflow", needed, w, K, pend2, w2)
       /\ (needed <=> Len(nd2[P].data) < b.index_merge)
  OBVIOUS
<1> HIDE DEF needed
<1>11. \A x \in DOMAIN nd2 : lev2[x] = lev[x]
  BY <1>5
<1>12. Cells(nd2, ht, lev2, rng2) /\ NodesOK(nd2, st, lev2, rng2)
  BY <1>5
<1>13. RepairBelow(nd, rt, ht, w, K, st, b, lev, rng, P, j, n) /\ b \in Builds
  OBVIOUS
<1>14. FlushOK(nd2, rt, ht, w2, pend2, st, b, lev2, rng2)
  BY ONLY <1>8, <1>9, <1>10, <1>11, <1>12, <1>13, UnderflowRepaired
<1>. QED BY <1>14

(* What two neighbours hold is shared out anew.                            *)
Rebalanced(nd, P, i, left, right, key, nd2) ==
  /\ DOMAIN nd2 = DOMAIN nd
  /\ \A x \in DOMAIN nd : x # P /\ x # left /\ x # right => nd2[x] = nd[x]
  /\ nd2[P] \in NodeType /\ nd2[P].children = nd[P].children
  /\ Len(nd2[P].data) = Len(nd[P].data)
  /\ \A j \in 1 .. Len(nd[P].data) :
        nd2[P].data[j] = IF j = i + 1 THEN key ELSE nd[P].data[j]

LEMMA BalanceStep ==
  ASSUME NEW nd, NEW rt, NEW ht, NEW w, NEW K, NEW st, NEW b, NEW lev, NEW rng,
         NEW P, NEW j, NEW n, b \in Builds,
         RepairBelow(nd, rt, ht, w, K, st, b, lev, rng, P, j, n),
         \A m \in DOMAIN nd : m # n => Fits(nd, lev, b, m),
         NEW i, NEW left, NEW right, Siblings(nd, lev, rng, P, i, left, right, n),
         NEW key, NEW nd2, Rebalanced(nd, P, i, left, right, key, nd2),
         NEW mid, Merges(nd[left], nd[right], lev[n], nd[P].data[i + 1], mid),
         Splits(mid, lev[n], key, right, nd2[left], nd2[right]),
         Len(nd2[left].data) \in 1 .. Limit(b, lev[n]),
         Len(nd2[right].data) \in 1 .. Limit(b, lev[n])
  PROVE  \E lev2, rng2 : FlushOK(nd2, rt, ht, NoPath, NoRepair, st, b, lev2, rng2)
<1>1. /\ Cells(nd, ht, lev, rng) /\ NodesOK(nd, st, lev, rng)
      /\ Shape(nd, rt, ht, st, lev, rng) /\ PathOK(w, K, nd, rt, ht, lev) /\ K > 1
      /\ P \in DOMAIN nd /\ lev[P] > 1 /\ lev[P] \in Nat /\ lev[n] = lev[P] - 1
      /\ Len(nd[P].data) \in 1 .. b.index_split /\ P = w.pages[K - 1] /\ P # n
  BY DEF RepairBelow
<1>2. /\ Neighbours(nd, P, i, left, nd[P].data[i + 1], right)
      /\ left \in DOMAIN nd /\ right \in DOMAIN nd
      /\ P # left /\ P # right /\ left # right
      /\ lev[left] = lev[n] /\ lev[right] = lev[n] /\ n \in {left, right}
  BY DEF Siblings
<1>3. /\ DOMAIN nd2 = DOMAIN nd
      /\ \A x \in DOMAIN nd : x # P /\ x # left /\ x # right => nd2[x] = nd[x]
      /\ Len(nd2[P].data) = Len(nd[P].data)
  BY DEF Rebalanced
<1>4. BalancedBelow(nd, lev, P, i, left, nd[P].data[i + 1], right, mid, key, nd2)
  BY <1>1, <1>2 DEF BalancedBelow, Rebalanced
<1>5. PICK lev2, rng2 :
           /\ Cells(nd2, ht, lev2, rng2) /\ NodesOK(nd2, st, lev2, rng2)
           /\ \A x \in DOMAIN nd : lev2[x] = lev[x]
  BY <1>1, <1>4, BalanceTree
<1>6. \A x \in DOMAIN nd : lev[x] >= lev[P] => x # left /\ x # right
  BY <1>1, <1>2
<1>7. Fits(nd2, lev2, b, P)
  <2>1. Fits(nd, lev, b, P)
    BY <1>1
  <2>. QED BY <1>1, <1>3, <1>5, <2>1 DEF Fits
<1>8. \A x \in DOMAIN nd2 : x = P \/ Fits(nd2, lev2, b, x)
  <2>1. ASSUME NEW x \in DOMAIN nd, x # P PROVE Fits(nd2, lev2, b, x)
    <3>1. CASE x = left \/ x = right
      BY <1>2, <1>5, <3>1 DEF Fits
    <3>2. CASE ~ (x = left \/ x = right)
      <4>1. nd2[x] = nd[x] /\ x # n
        BY <1>2, <1>3, <2>1, <3>2
      <4>2. Fits(nd, lev, b, x)
        BY <4>1
      <4>. QED BY <1>5, <4>1, <4>2 DEF Fits
    <3>. QED BY <3>1, <3>2
  <2>. QED BY <1>3, <2>1
<1>9. Mended(nd, P, ht, st, b, lev, nd2, lev2, rng2)
  BY <1>3, <1>5, <1>6, <1>8 DEF Mended
<1> DEFINE needed == FALSE
<1>10. /\ needed \in BOOLEAN /\ Onward("underflow", needed, w, K, NoRepair, NoPath)
       /\ needed => DueSize("underflow", Len(nd2[w.pages[K - 1]].data), b, lev[w.pages[K - 1]], ht)
       /\ ~needed => Fits(nd2, lev2, b, w.pages[K - 1])
       /\ Mended(nd, w.pages[K - 1], ht, st, b, lev, nd2, lev2, rng2)
  BY <1>1, <1>7, <1>9 DEF Onward
<1> HIDE DEF needed
<1>11. FlushOK(nd2, rt, ht, NoPath, NoRepair, st, b, lev2, rng2)
  BY ONLY <1>1, <1>10, RepairUp
<1>. QED BY <1>11

(* The left of two leaves is chained to the right one.                     *)
LEMMA ChainedNeighbours ==
  ASSUME NEW nd, NEW ht, NEW lev, NEW rng, NEW st,
         Cells(nd, ht, lev, rng), NodesOK(nd, st, lev, rng),
         NEW P, NEW left, NEW sep, NEW right, Adjacent(nd, lev, rng, P, left, sep, right),
         lev[left] = 1
  PROVE  nd[left].sibling = right
<1>1. /\ left \in DOMAIN nd /\ right \in DOMAIN nd /\ lev[right] = 1 /\ left # right
      /\ sep \in Int /\ sep \in rng[right]
      /\ \A p \in rng[left] : p < sep
      /\ IsRange(rng[left] \cup rng[right]) /\ rng[left] \subseteq Int
  BY DEF Adjacent, IsRange
<1>2. NextOK(nd, lev, rng, left)
  BY <1>1 DEF NodesOK, NodeOK
<1>3. CASE nd[left].sibling = NoPage
  <2>1. \A p \in rng[left] : \A x \in Int : p <= x => x \in rng[left]
    BY <1>2, <1>3 DEF NextOK
  <2>2. PICK p \in rng[left] : p \in Int
    BY <1>1, CellFacts
  <2>3. p <= sep
    BY <1>1, <2>2
  <2>4. sep \in rng[left]
    BY <1>1, <2>1, <2>2, <2>3
  <2>. QED BY <1>1, <2>4
<1>4. CASE nd[left].sibling # NoPage
  <2> DEFINE s == nd[left].sibling
  <2>1. s \in DOMAIN nd /\ lev[s] = 1 /\ \E x \in Int : x \in rng[s] /\ x \notin rng[left] /\ x - 1 \in rng[left]
    BY <1>2, <1>4 DEF NextOK
  <2>2. PICK x \in Int : x \in rng[s] /\ x \notin rng[left] /\ x - 1 \in rng[left]
    BY <2>1
  <2> HIDE DEF s
  <2>3. x - 1 \in Int /\ x - 1 <= x /\ x <= sep
    BY <1>1, <2>2
  <2>4. x \in rng[left] \cup rng[right]
    <3>1. x - 1 \in rng[left] \cup rng[right] /\ sep \in rng[left] \cup rng[right]
      BY <1>1, <2>2
    <3>. QED BY <1>1, <2>3, <3>1 DEF IsRange
  <2>5. x \in rng[right]
    BY <2>2, <2>4
  <2>6. s = right
    BY <1>1, <2>1, <2>2, <2>5 DEF Cells
  <2>. QED BY <2>6 DEF s
<1>. QED BY <1>3, <1>4

(* The pieces of a sequence beside another one.                            *)
LEMMA CutBefore ==
  ASSUME NEW S, NEW d, NEW d1, NEW d2, NEW e, d \in Seq(S), d1 \in Seq(S), d2 \in Seq(S),
         e \in Seq(S), InTwo(d, d1, d2)
  PROVE  InTwo(d \o e, d1, d2 \o e)
<1> DEFINE a == d \o e  d3 == d2 \o e
<1>1. Len(d) \in Nat /\ Len(d1) \in Nat /\ Len(d2) \in Nat /\ Len(e) \in Nat
  BY LenProperties
<1>2. InTwo(a, d, e) /\ InTwo(d3, d2, e)
  BY ConcatFacts
<1> HIDE DEF a, d3
<1>3. /\ Len(a) = Len(d) + Len(e) /\ \A j \in 1 .. Len(d) : d[j] = a[j]
      /\ \A j \in 1 .. Len(e) : e[j] = a[Len(d) + j]
      /\ Len(d3) = Len(d2) + Len(e) /\ \A j \in 1 .. Len(d2) : d2[j] = d3[j]
      /\ \A j \in 1 .. Len(e) : e[j] = d3[Len(d2) + j]
      /\ Len(d) = Len(d1) + Len(d2) /\ \A j \in 1 .. Len(d1) : d1[j] = d[j]
      /\ \A j \in 1 .. Len(d2) : d2[j] = d[Len(d1) + j]
  BY <1>2 DEF InTwo
<1>4. Len(a) = Len(d1) + Len(d3)
  BY <1>1, <1>3
<1>5. \A j \in 1 .. Len(d1) : d1[j] = a[j]
  <2>1. \A j \in 1 .. Len(d1) : j \in 1 .. Len(d)
    BY <1>1, <1>3
  <2>. QED BY <1>3, <2>1
<1>6. ASSUME NEW j \in 1 .. Len(d3) PROVE d3[j] = a[Len(d1) + j]
  <2>1. CASE j <= Len(d2)
    <3>1. j \in 1 .. Len(d2) /\ Len(d1) + j \in 1 .. Len(d)
      BY <1>1, <1>3, <2>1
    <3>. QED BY <1>3, <3>1
  <2>2. CASE j > Len(d2)
    <3>1. PICK h : h = j - Len(d2)
      OBVIOUS
    <3>2. h \in 1 .. Len(e) /\ Len(d2) + h = j /\ Len(d) + h = Len(d1) + j
      BY <1>1, <1>3, <2>2, <3>1
    <3>. QED BY <1>3, <3>2
  <2>. QED BY <1>1, <1>3, <2>1, <2>2
<1>7. InTwo(a, d1, d3)
  BY <1>4, <1>5, <1>6 DEF InTwo
<1>. QED BY <1>7 DEF a, d3

LEMMA CutAfter ==
  ASSUME NEW S, NEW d, NEW d1, NEW d2, NEW e, d \in Seq(S), d1 \in Seq(S), d2 \in Seq(S),
         e \in Seq(S), InTwo(d, d1, d2)
  PROVE  InTwo(e \o d, e \o d1, d2)
<1> DEFINE a == e \o d  d3 == e \o d1
<1>1. Len(d) \in Nat /\ Len(d1) \in Nat /\ Len(d2) \in Nat /\ Len(e) \in Nat
  BY LenProperties
<1>2. InTwo(a, e, d) /\ InTwo(d3, e, d1)
  BY ConcatFacts
<1> HIDE DEF a, d3
<1>3. /\ Len(a) = Len(e) + Len(d) /\ \A j \in 1 .. Len(e) : e[j] = a[j]
      /\ \A j \in 1 .. Len(d) : d[j] = a[Len(e) + j]
      /\ Len(d3) = Len(e) + Len(d1) /\ \A j \in 1 .. Len(e) : e[j] = d3[j]
      /\ \A j \in 1 .. Len(d1) : d1[j] = d3[Len(e) + j]
      /\ Len(d) = Len(d1) + Len(d2) /\ \A j \in 1 .. Len(d1) : d1[j] = d[j]
      /\ \A j \in 1 .. Len(d2) : d2[j] = d[Len(d1) + j]
  BY <1>2 DEF InTwo
<1>4. Len(a) = Len(d3) + Len(d2)
  BY <1>1, <1>3
<1>5. ASSUME NEW j \in 1 .. Len(d2) PROVE d2[j] = a[Len(d3) + j]
  <2>1. PICK h : h = Len(d1) + j
    OBVIOUS
  <2>2. h \in 1 .. Len(d) /\ Len(e) + h = Len(d3) + j
    BY <1>1, <1>3, <2>1
  <2>. QED BY <1>3, <2>1, <2>2
<1>6. ASSUME NEW j \in 1 .. Len(d3) PROVE d3[j] = a[j]
  <2>1. CASE j <= Len(e)
    <3>1. j \in 1 .. Len(e)
      BY <1>1, <1>3, <2>1
    <3>. QED BY <1>3, <3>1
  <2>2. CASE j > Len(e)
    <3>1. PICK h : h = j - Len(e)
      OBVIOUS
    <3>2. h \in 1 .. Len(d1) /\ Len(e) + h = j /\ h \in 1 .. Len(d)
      BY <1>1, <1>3, <2>2, <3>1
    <3>. QED BY <1>3, <3>2
  <2>. QED BY <1>1, <1>3, <2>1, <2>2
<1>7. InTwo(a, d3, d2)
  BY <1>4, <1>5, <1>6 DEF InTwo
<1>. QED BY <1>7 DEF a, d3

-----------------------------------------------------------------------------
(* The node that is due and its siblings.                                  *)
UnderflowBelow(lev, rng) ==
  /\ build \in Builds
  /\ RepairBelow(node, root, height, path, pending.level, stored, build, lev, rng,
                 Parent, child_idx, Current)
  /\ \A m \in DOMAIN node : m # Current => Fits(node, lev, build, m)
  /\ size(Current) \in Nat
  /\ lev[Current] = 1 => size(Current) < build.leaf_merge
  /\ lev[Current] > 1 => size(Current) < build.index_merge

LEMMA BeforeUnderflow ==
  ASSUME NEW lev, NEW rng,
         FlushOK(node, root, height, path, pending, stored, build, lev, rng),
         build \in Builds, pending.kind = "underflow", pending.level > 1
  PROVE  UnderflowBelow(lev, rng)
<1> DEFINE K == pending.level
<1>1. pending # NoRepair
  BY DEF NoRepair
<1>2. RepairBelow(node, root, height, path, K, stored, build, lev, rng, Parent, child_idx,
                  path.pages[K])
  BY <1>1, RepairFacts DEF Parent, child_idx
<1>3. Current = path.pages[K]
  BY <1>2 DEF RepairBelow, Child, Current
<1>4. /\ DueSize("underflow", Len(node[Current].data), build, lev[Current], height)
      /\ \A m \in DOMAIN node : m # Current => Fits(node, lev, build, m)
  BY <1>1, <1>3, DueFacts
<1>5. RepairBelow(node, root, height, path, K, stored, build, lev, rng, Parent, child_idx, Current)
  BY <1>2, <1>3
<1> HIDE DEF K
<1>6. node[Current] \in NodeType /\ height > 1
  <2>1. /\ node[Current] \in NodeType /\ K \in Nat /\ K > 1 /\ PathOK(path, K, node, root, height, lev)
        /\ Cells(node, height, lev, rng)
    BY <1>5 DEF RepairBelow
  <2>2. K \in 1 .. height /\ height \in Nat
    BY <2>1 DEF PathOK, Cells
  <2>. QED BY <2>1, <2>2
<1>7. size(Current) \in Nat
  BY <1>6, LenProperties DEF NodeType, size
<1>8. size(Current) < Least(build, lev[Current], height)
  BY <1>4 DEF DueSize, size
<1>9. lev[Current] \in Nat
  BY <1>5 DEF RepairBelow
<1>10. /\ lev[Current] = 1 => size(Current) < build.leaf_merge
       /\ lev[Current] > 1 => size(Current) < build.index_merge
  BY <1>6, <1>8, <1>9 DEF Least
<1>. QED BY <1>4, <1>5, <1>7, <1>10 DEF UnderflowBelow, K

(* A leaf that cannot lend can be merged.                                  *)
LEMMA LeafUnlendable ==
  ASSUME NEW n, size(n) \in Nat, size(Current) \in Nat, build \in Builds,
         size(Current) < build.leaf_merge, ~LeafCanLend(n)
  PROVE  size(n) + size(Current) <= build.leaf_split
<1>1. /\ build.leaf_merge \in Nat /\ build.leaf_split \in Nat
      /\ 2 * build.leaf_merge <= build.leaf_split
  BY BuildFacts
<1> DEFINE s == size(n)  c == size(Current)  lm == build.leaf_merge  ls == build.leaf_split
           half == (s - c) \div 2
<1>2. s \in Nat /\ c \in Nat /\ lm \in Nat /\ ls \in Nat /\ 2 * lm <= ls /\ c < lm
  BY <1>1
<1>3. CASE s <= lm
  <2> HIDE DEF s, c, lm, ls
  <2>1. s + c <= ls
    BY ONLY <1>2, <1>3
  <2>. QED BY <2>1 DEF s, c, ls
<1>4. CASE s > lm
  <2>1. NumToMove(n) = IF half = 0 THEN 1 ELSE half
    BY <1>2, <1>4 DEF NumToMove, LeafMerge
  <2> DEFINE m == NumToMove(n)
  <2>2. ~ (s + c >= 2 * lm + 1 /\ m > 0 /\ s >= lm + m)
    BY <1>4 DEF LeafCanLend, LeafMerge
  <2> HIDE DEF m
  <2>3. m = IF half = 0 THEN 1 ELSE half
    BY <2>1 DEF m
  <2> HIDE DEF s, c, lm, ls
  <2>4. half \in Nat /\ 2 * half <= s - c
    BY ONLY <1>2, <1>4
  <2> HIDE DEF half
  <2>5. s + c <= ls
    BY ONLY <1>2, <1>4, <2>2, <2>3, <2>4
  <2>. QED BY <2>5 DEF s, c, ls
<1>. QED BY <1>2, <1>3, <1>4

(* A leaf that can lend does so without breaking a bound.                  *)
LEMMA LeafLendable ==
  ASSUME NEW n, size(n) \in Nat, size(Current) \in Nat, build \in Builds,
         size(Current) < build.leaf_merge, LeafCanLend(n), size(n) <= build.leaf_split
  PROVE  /\ NumToMove(n) \in 1 .. size(n) - 1
         /\ size(n) - NumToMove(n) \in 1 .. build.leaf_split
         /\ size(Current) + NumToMove(n) \in 1 .. build.leaf_split
<1>1. /\ build.leaf_merge \in Nat \ {0} /\ build.leaf_split \in Nat
  BY BuildFacts
<1> DEFINE s == size(n)  c == size(Current)  lm == build.leaf_merge  ls == build.leaf_split
           half == (s - c) \div 2  m == NumToMove(n)
<1>2. s \in Nat /\ c \in Nat /\ lm \in Nat \ {0} /\ ls \in Nat /\ c < lm /\ s > lm /\ s <= ls
  BY <1>1 DEF LeafCanLend, LeafMerge
<1>3. m > 0 /\ s >= lm + m
  BY DEF LeafCanLend, LeafMerge
<1>4. m = IF half = 0 THEN 1 ELSE half
  BY <1>2 DEF NumToMove, LeafMerge
<1> HIDE DEF s, c, lm, ls, m
<1>5. half \in Nat /\ 2 * half <= s - c
  BY ONLY <1>2
<1> HIDE DEF half
<1>6. m \in 1 .. s - 1 /\ s - m \in 1 .. ls /\ c + m \in 1 .. ls
  BY ONLY <1>2, <1>3, <1>4, <1>5
<1>. QED BY <1>6 DEF s, c, m, ls

(* Two leaves are merged.                                                  *)
LEMMA LeafMerged ==
  ASSUME NEW lev, NEW rng, UnderflowBelow(lev, rng), lev[Current] = 1,
         NEW i, Siblings(node, lev, rng, Parent, i, Child(i), Child(i + 1), Current),
         size(Child(i)) + size(Child(i + 1)) \in 1 .. build.leaf_split,
         NEW pend2, NEW w2,
         Onward("underflow", Len(merge_leaf_with_right(i)[Parent].data) < build.index_merge,
                path, pending.level, pend2, w2)
  PROVE  \E lev2, rng2 :
            FlushOK(merge_leaf_with_right(i), root, height, w2, pend2, stored, build, lev2, rng2)
<1> DEFINE left == Child(i)  right == Child(i + 1)
           a == LeafNode(node[left].data \o node[right].data, node[right].sibling)
           nd2 == merge_leaf_with_right(i)
<1>1. nd2 = DropChild(Without([node EXCEPT ![left] = a], right), Parent, i)
  BY DEF merge_leaf_with_right
<1>2. /\ left \in DOMAIN node /\ right \in DOMAIN node
      /\ Parent # left /\ Parent # right /\ left # right
      /\ node[left] \in NodeType /\ node[right] \in NodeType
      /\ i \in 0 .. Len(node[Parent].data) - 1
  BY DEF Siblings
<1>3. /\ Parent \in DOMAIN node /\ node[Parent] \in NodeType
      /\ Len(node[Parent].children) = Len(node[Parent].data) + 1
  BY DEF UnderflowBelow, RepairBelow
<1>4. /\ node[left].data \o node[right].data \in Seq(Int)
      /\ InTwo(node[left].data \o node[right].data, node[left].data, node[right].data)
  BY ONLY <1>2, ConcatFacts DEF NodeType
<1>5. /\ a.data = node[left].data \o node[right].data /\ a.children = <<>>
      /\ a.sibling = node[right].sibling /\ a \in NodeType
  <2>1. node[right].sibling \in Nat \cup {NoPage}
    BY ONLY <1>2 DEF NodeType
  <2> DEFINE d == node[left].data \o node[right].data  s == node[right].sibling
  <2>2. d \in Seq(Int) /\ s \in Nat \cup {NoPage} /\ a = LeafNode(d, s)
    BY <1>4, <2>1
  <2> HIDE DEF a, d, s
  <2>3. a.data = d /\ a.children = <<>> /\ a.sibling = s /\ a \in NodeType
    BY ONLY <2>2, LeafNodeFacts
  <2>. QED BY ONLY <2>3 DEF d, s
<1> HIDE DEF a
<1>6. Merges(node[left], node[right], lev[Current], node[Parent].data[i + 1], a)
  BY <1>4, <1>5 DEF Merges, MergesLeaf
<1>7. Len(a.data) \in 1 .. Limit(build, lev[Current])
  BY <1>4, <1>5 DEF InTwo, Limit, size
<1> HIDE DEF nd2
<1> HIDE DEF left, right
<1>8. Fused(node, Parent, i, left, right, a, nd2)
  BY ONLY <1>1, <1>2, <1>3, FusedFacts
<1>9. Siblings(node, lev, rng, Parent, i, left, right, Current)
  BY DEF left, right
<1>10. Onward("underflow", Len(nd2[Parent].data) < build.index_merge, path, pending.level, pend2, w2)
  BY DEF nd2
<1>11. /\ build \in Builds
       /\ RepairBelow(node, root, height, path, pending.level, stored, build, lev, rng,
                      Parent, child_idx, Current)
       /\ \A m \in DOMAIN node : m # Current => Fits(node, lev, build, m)
  BY DEF UnderflowBelow
<1>12. \E lev2, rng2 : FlushOK(nd2, root, height, w2, pend2, stored, build, lev2, rng2)
  BY ONLY <1>6, <1>7, <1>8, <1>9, <1>10, <1>11, MergeStep
<1>. QED BY <1>12 DEF nd2

(* A key is replaced.                                                      *)
LEMMA KeyReplaced ==
  ASSUME NEW r, r \in NodeType, NEW j, j \in 1 .. Len(r.data), NEW key, key \in Int,
         NEW r2, r2 = [r EXCEPT !.data = [@ EXCEPT ![j] = key]]
  PROVE  /\ r2 \in NodeType /\ r2.children = r.children
         /\ Len(r2.data) = Len(r.data)
         /\ \A x \in 1 .. Len(r.data) : r2.data[x] = IF x = j THEN key ELSE r.data[x]
<1> DEFINE d == r.data  d2 == [d EXCEPT ![j] = key]
<1>1. d \in Seq(Int) /\ Len(d) \in Nat
  BY LenProperties DEF NodeType
<1>2. d2 \in Seq(Int) /\ Len(d2) = Len(d)
      /\ \A x \in 1 .. Len(d) : d2[x] = IF x = j THEN key ELSE d[x]
  <2> HIDE DEF d
  <2>1. j \in 1 .. Len(d)
    BY DEF d
  <2>. QED BY ONLY <1>1, <2>1, key \in Int, ExceptSeq DEF d2
<1> HIDE DEF d2
<1>3. r2.data = d2 /\ r2.children = r.children /\ r2.sibling = r.sibling /\ r2 \in NodeType
  <2>1. r2 = [r EXCEPT !.data = d2]
    BY DEF d2
  <2>. QED BY <1>2, <2>1 DEF NodeType
<1>. QED BY <1>2, <1>3

(* Pairs move from one of two leaves to the other.                         *)
LeafMoved(P, i, left, right, key, l1, r1, nd2) ==
  /\ DOMAIN nd2 = DOMAIN node
  /\ \A x \in DOMAIN node : x # P /\ x # left /\ x # right => nd2[x] = node[x]
  /\ nd2[left] = [node[left] EXCEPT !.data = l1]
  /\ nd2[right] = [node[right] EXCEPT !.data = r1]
  /\ nd2[P] = [node[P] EXCEPT !.data = [@ EXCEPT ![i + 1] = key]]
  /\ l1 \in Seq(Int) /\ r1 \in Seq(Int)
  /\ InTwo(node[left].data \o node[right].data, l1, r1)
  /\ key = (node[left].data \o node[right].data)[Len(l1) + 1]

LEMMA LeafBalanced ==
  ASSUME NEW lev, NEW rng, UnderflowBelow(lev, rng), lev[Current] = 1,
         NEW i, NEW left, NEW right, Siblings(node, lev, rng, Parent, i, left, right, Current),
         NEW key, NEW l1, NEW r1, NEW nd2,
         LeafMoved(Parent, i, left, right, key, l1, r1, nd2),
         Len(l1) \in 1 .. build.leaf_split, Len(r1) \in 1 .. build.leaf_split
  PROVE  \E lev2, rng2 :
            FlushOK(nd2, root, height, NoPath, NoRepair, stored, build, lev2, rng2)
<1> DEFINE d == node[left].data \o node[right].data
           mid == LeafNode(d, node[right].sibling)  P == Parent
<1>1. /\ build \in Builds
      /\ RepairBelow(node, root, height, path, pending.level, stored, build, lev, rng,
                     P, child_idx, Current)
      /\ \A m \in DOMAIN node : m # Current => Fits(node, lev, build, m)
  BY DEF UnderflowBelow
<1>2. /\ Cells(node, height, lev, rng) /\ NodesOK(node, stored, lev, rng)
      /\ P \in DOMAIN node /\ node[P] \in NodeType
  BY <1>1 DEF RepairBelow
<1>3. /\ left \in DOMAIN node /\ right \in DOMAIN node
      /\ P # left /\ P # right /\ left # right
      /\ node[left] \in NodeType /\ node[right] \in NodeType
      /\ node[left].children = <<>> /\ node[right].children = <<>>
      /\ i \in 0 .. Len(node[P].data) - 1 /\ lev[left] = 1
      /\ Adjacent(node, lev, rng, P, left, node[P].data[i + 1], right)
  BY DEF Siblings
<1>4. node[left].sibling = right
  BY <1>2, <1>3, ChainedNeighbours
<1>5. /\ DOMAIN nd2 = DOMAIN node
      /\ \A x \in DOMAIN node : x # P /\ x # left /\ x # right => nd2[x] = node[x]
      /\ nd2[left] = [node[left] EXCEPT !.data = l1]
      /\ nd2[right] = [node[right] EXCEPT !.data = r1]
      /\ nd2[P] = [node[P] EXCEPT !.data = [@ EXCEPT ![i + 1] = key]]
      /\ l1 \in Seq(Int) /\ r1 \in Seq(Int)
      /\ InTwo(d, l1, r1) /\ key = d[Len(l1) + 1]
  BY DEF LeafMoved
<1>6. d \in Seq(Int) /\ InTwo(d, node[left].data, node[right].data)
  BY ONLY <1>3, ConcatFacts DEF NodeType, d
<1> HIDE DEF d
<1>7. /\ Len(d) \in Nat /\ Len(d) = Len(l1) + Len(r1) /\ Len(l1) + 1 \in 1 .. Len(d)
      /\ Len(l1) < Len(d)
  <2>1. Len(d) = Len(l1) + Len(r1)
    BY <1>5 DEF InTwo
  <2>2. \A m, n, h \in Int : m \in 1 .. h /\ n \in 1 .. h =>
          m + n \in Nat /\ m + 1 \in 1 .. m + n /\ m < m + n
    OBVIOUS
  <2>3. build.leaf_split \in Int
    BY <1>1, BuildFacts
  <2>. QED BY <2>1, <2>2, <2>3
<1>8. key \in Int
  BY <1>5, <1>6, <1>7
<1>9. /\ nd2[left] \in NodeType /\ nd2[left].data = l1 /\ nd2[left].children = <<>>
      /\ nd2[left].sibling = right
      /\ nd2[right] \in NodeType /\ nd2[right].data = r1 /\ nd2[right].children = <<>>
      /\ nd2[right].sibling = node[right].sibling
  BY ONLY <1>3, <1>4, <1>5 DEF NodeType
<1>10. /\ mid.data = d /\ mid.children = <<>> /\ mid.sibling = node[right].sibling
       /\ mid \in NodeType
  <2>1. node[right].sibling \in Nat \cup {NoPage}
    BY <1>3 DEF NodeType
  <2>. QED BY <1>6, <2>1, LeafNodeFacts
<1> HIDE DEF mid
<1>11. Merges(node[left], node[right], lev[Current], node[P].data[i + 1], mid)
  BY <1>6, <1>10 DEF Merges, MergesLeaf
<1>12. Splits(mid, lev[Current], key, right, nd2[left], nd2[right])
  BY <1>5, <1>7, <1>9, <1>10 DEF Splits, SplitsLeaf
<1>13. Rebalanced(node, P, i, left, right, key, nd2)
  <2>1. i + 1 \in 1 .. Len(node[P].data)
    <3>1. Len(node[P].data) \in Nat
      BY <1>2, LenProperties DEF NodeType
    <3>. QED BY <1>3, <3>1
  <2> DEFINE j == i + 1
  <2> HIDE DEF j
  <2>2. /\ nd2[P] \in NodeType /\ nd2[P].children = node[P].children
        /\ Len(nd2[P].data) = Len(node[P].data)
        /\ \A x \in 1 .. Len(node[P].data) : nd2[P].data[x] = IF x = j THEN key ELSE node[P].data[x]
    <3> DEFINE a == node[P]  b == nd2[P]
    <3>1. a \in NodeType /\ j \in 1 .. Len(a.data) /\ key \in Int
      BY <1>2, <1>8, <2>1 DEF j
    <3>2. b = [a EXCEPT !.data = [@ EXCEPT ![j] = key]]
      BY <1>5 DEF j
    <3> HIDE DEF a, b
    <3>3. /\ b \in NodeType /\ b.children = a.children
          /\ Len(b.data) = Len(a.data)
          /\ \A x \in 1 .. Len(a.data) : b.data[x] = IF x = j THEN key ELSE a.data[x]
      BY ONLY <3>1, <3>2, KeyReplaced
    <3>. QED BY <3>3 DEF a, b
  <2>. QED BY <1>5, <2>2 DEF Rebalanced, j
<1>14. /\ Len(nd2[left].data) \in 1 .. Limit(build, lev[Current])
       /\ Len(nd2[right].data) \in 1 .. Limit(build, lev[Current])
  BY <1>9 DEF Limit
<1> HIDE DEF P
<1>15. Siblings(node, lev, rng, P, i, left, right, Current)
  BY DEF P
<1>. QED BY ONLY <1>1, <1>11, <1>12, <1>13, <1>14, <1>15, BalanceStep

(* The position of the left sibling.                                       *)
LEMMA LeftSibling ==
  ASSUME NEW lev, NEW rng, UnderflowBelow(lev, rng), HasLeft
  PROVE  /\ Siblings(node, lev, rng, Parent, child_idx - 1, Left, Current, Current)
         /\ child_idx \in Nat /\ (child_idx - 1) + 1 = child_idx
         /\ child_idx - 1 \in 0 .. Len(node[Parent].data) - 1
         /\ Left = Child(child_idx - 1) /\ Current = Child((child_idx - 1) + 1)
<1>1. RepairBelow(node, root, height, path, pending.level, stored, build, lev, rng,
                     Parent, child_idx, Current)
  BY DEF UnderflowBelow
<1>2. child_idx \in 0 .. Len(node[Parent].data) /\ node[Parent] \in NodeType
  BY <1>1 DEF RepairBelow
<1>3. Len(node[Parent].data) \in Nat
  BY <1>2, LenProperties DEF NodeType
<1> DEFINE i == child_idx - 1
<1>4. i \in 0 .. Len(node[Parent].data) - 1 /\ i = child_idx - 1 /\ i + 2 = child_idx + 1
      /\ i + 1 = child_idx /\ child_idx \in Nat
  BY <1>2, <1>3 DEF HasLeft
<1>5. Left = node[Parent].children[i + 1] /\ Current = node[Parent].children[i + 2]
  BY <1>4 DEF Left, Current, Child
<1>6. Left = Child(i) /\ Current = Child(i + 1)
  BY <1>4 DEF Left, Current
<1> HIDE DEF i
<1>7. Siblings(node, lev, rng, Parent, i, node[Parent].children[i + 1],
               node[Parent].children[i + 2], Current)
  BY ONLY <1>1, <1>4, SiblingFacts
<1>. QED BY <1>4, <1>5, <1>6, <1>7 DEF i

LEMMA RightSibling ==
  ASSUME NEW lev, NEW rng, UnderflowBelow(lev, rng), HasRight
  PROVE  /\ Siblings(node, lev, rng, Parent, child_idx, Current, Right, Current)
         /\ child_idx \in 0 .. Len(node[Parent].data) - 1
         /\ Current = Child(child_idx) /\ Right = Child(child_idx + 1)
<1>1. RepairBelow(node, root, height, path, pending.level, stored, build, lev, rng,
                     Parent, child_idx, Current)
  BY DEF UnderflowBelow
<1>2. child_idx \in 0 .. Len(node[Parent].data) /\ node[Parent] \in NodeType
  BY <1>1 DEF RepairBelow
<1>3. Len(node[Parent].data) \in Nat
  BY <1>2, LenProperties DEF NodeType
<1> DEFINE i == child_idx
<1>4. i \in 0 .. Len(node[Parent].data) - 1 /\ (i + 1) + 1 = i + 2 /\ i = child_idx
  BY <1>2, <1>3 DEF HasRight, size
<1>5. Current = node[Parent].children[i + 1] /\ Right = node[Parent].children[i + 2]
  BY <1>4 DEF Right, Current, Child
<1>6. Current = Child(i) /\ Right = Child(i + 1)
  BY <1>4 DEF Right, Current
<1> HIDE DEF i
<1>7. Siblings(node, lev, rng, Parent, i, node[Parent].children[i + 1],
               node[Parent].children[i + 2], Current)
  BY ONLY <1>1, <1>4, SiblingFacts
<1>. QED BY <1>4, <1>5, <1>6, <1>7 DEF i

(* Three pages change.                                                     *)
LEMMA ThreeLeaves ==
  ASSUME NEW m, NEW P, NEW l, NEW r, P \in DOMAIN m, l \in DOMAIN m, r \in DOMAIN m,
         P # l, P # r, l # r, NEW x, NEW y, NEW j, NEW key,
         NEW nd2, nd2 = [m EXCEPT ![l].data = x, ![r].data = y, ![P].data[j] = key]
  PROVE  /\ DOMAIN nd2 = DOMAIN m
         /\ \A n \in DOMAIN m : n # P /\ n # l /\ n # r => nd2[n] = m[n]
         /\ nd2[l] = [m[l] EXCEPT !.data = x]
         /\ nd2[r] = [m[r] EXCEPT !.data = y]
         /\ nd2[P] = [m[P] EXCEPT !.data = [@ EXCEPT ![j] = key]]
OBVIOUS

(* What the left leaf lends.                                               *)
LEMMA BorrowedLeft ==
  ASSUME NEW lev, NEW rng, UnderflowBelow(lev, rng), lev[Current] = 1, HasLeft,
         NumToMove(Left) \in 1 .. size(Left) - 1, BorrowLeafLeft,
         NEW k, k = size(Left) - NumToMove(Left)
  PROVE  LET d == node[Left].data
         IN LeafMoved(Parent, child_idx - 1, Left, Current, d[k + 1], SubSeq(d, 1, k),
                      SubSeq(d, k + 1, Len(d)) \o node[Current].data, node')
<1> DEFINE d == node[Left].data  e == node[Current].data
           l1 == SubSeq(d, 1, k)  l2 == SubSeq(d, k + 1, Len(d))  r1 == l2 \o e  i == child_idx - 1
           key == d[k + 1]
<1>1. /\ Siblings(node, lev, rng, Parent, i, Left, Current, Current)
      /\ child_idx \in Nat /\ i + 1 = child_idx
  BY LeftSibling
<1>2. /\ Left \in DOMAIN node /\ Current \in DOMAIN node
      /\ Parent # Left /\ Parent # Current /\ Left # Current
      /\ node[Left] \in NodeType /\ node[Current] \in NodeType
  BY <1>1 DEF Siblings
<1>3. Parent \in DOMAIN node
  BY DEF UnderflowBelow, RepairBelow
<1>4. d \in Seq(Int) /\ e \in Seq(Int) /\ Len(d) \in Nat
  BY <1>2, LenProperties DEF NodeType
<1>5. k \in 1 .. Len(d) - 1 /\ k \in 0 .. Len(d)
  <2> DEFINE s == Len(d)  t == NumToMove(Left)
  <2>1. t \in 1 .. s - 1 /\ k = s - t /\ s \in Nat
    BY <1>4 DEF size
  <2> HIDE DEF s, t
  <2>2. k \in 1 .. s - 1 /\ k \in 0 .. s
    BY ONLY <2>1
  <2>. QED BY <2>2 DEF s
<1>6. node' = [node EXCEPT ![Left].data = l1, ![Current].data = l2 \o @, ![Parent].data[i + 1] = key]
  BY <1>1 DEF BorrowLeafLeft
<1>7. node' = [node EXCEPT ![Left].data = l1, ![Current].data = r1, ![Parent].data[i + 1] = key]
  BY <1>2, <1>6
<1> HIDE DEF d, e
<1>8. /\ l1 \in Seq(Int) /\ l2 \in Seq(Int) /\ InTwo(d, l1, l2) /\ Len(l1) = k
  BY <1>4, <1>5, PiecesFacts
<1>9. /\ r1 \in Seq(Int) /\ InTwo(d \o e, l1, r1)
  <2> HIDE DEF l1, l2
  <2>. QED BY <1>4, <1>8, ConcatFacts, CutBefore
<1>10. key = (d \o e)[Len(l1) + 1]
  <2> HIDE DEF l1
  <2>1. k + 1 \in 1 .. Len(d)
    BY <1>4, <1>5
  <2>2. InTwo(d \o e, d, e)
    BY <1>4, ConcatFacts
  <2>3. PICK h : h = k + 1
    OBVIOUS
  <2>4. d[h] = (d \o e)[h]
    BY <2>1, <2>2, <2>3 DEF InTwo
  <2>. QED BY <1>8, <2>3, <2>4
<1> HIDE DEF l1, l2, r1, key
<1> DEFINE j == i + 1
<1> HIDE DEF i
<1>11. /\ DOMAIN node' = DOMAIN node
       /\ \A x \in DOMAIN node : x # Parent /\ x # Left /\ x # Current => node'[x] = node[x]
       /\ node'[Left] = [node[Left] EXCEPT !.data = l1]
       /\ node'[Current] = [node[Current] EXCEPT !.data = r1]
       /\ node'[Parent] = [node[Parent] EXCEPT !.data = [@ EXCEPT ![i + 1] = key]]
  BY ONLY <1>2, <1>3, <1>7, ThreeLeaves
<1>12. LeafMoved(Parent, i, Left, Current, key, l1, r1, node')
  BY <1>8, <1>9, <1>10, <1>11 DEF LeafMoved, d, e
<1>. QED BY <1>12 DEF i, key, l1, r1, d, e, l2

(* What the right leaf lends.                                              *)
LEMMA BorrowedRight ==
  ASSUME NEW lev, NEW rng, UnderflowBelow(lev, rng), lev[Current] = 1, HasRight,
         NumToMove(Right) \in 1 .. size(Right) - 1, BorrowLeafRight,
         NEW k, k = NumToMove(Right)
  PROVE  LET d == node[Right].data
         IN LeafMoved(Parent, child_idx, Current, Right, d[k + 1],
                      node[Current].data \o SubSeq(d, 1, k), SubSeq(d, k + 1, Len(d)), node')
<1> DEFINE d == node[Right].data  e == node[Current].data
           l2 == SubSeq(d, 1, k)  r1 == SubSeq(d, k + 1, Len(d))  l1 == e \o l2  i == child_idx
           key == d[k + 1]
<1>1. Siblings(node, lev, rng, Parent, i, Current, Right, Current)
  BY RightSibling
<1>2. /\ Right \in DOMAIN node /\ Current \in DOMAIN node
      /\ Parent # Right /\ Parent # Current /\ Right # Current
      /\ node[Right] \in NodeType /\ node[Current] \in NodeType
  BY <1>1 DEF Siblings
<1>3. Parent \in DOMAIN node
  BY DEF UnderflowBelow, RepairBelow
<1>4. d \in Seq(Int) /\ e \in Seq(Int) /\ Len(d) \in Nat /\ Len(e) \in Nat
  BY <1>2, LenProperties DEF NodeType
<1>5. k \in 1 .. Len(d) - 1 /\ k \in 0 .. Len(d)
  <2> DEFINE s == Len(d)  t == NumToMove(Right)
  <2>1. t \in 1 .. s - 1 /\ k = t /\ s \in Nat
    BY <1>4 DEF size
  <2> HIDE DEF s, t
  <2>2. k \in 1 .. s - 1 /\ k \in 0 .. s
    BY ONLY <2>1
  <2>. QED BY <2>2 DEF s
<1>6. node' = [node EXCEPT ![Right].data = r1, ![Current].data = @ \o l2, ![Parent].data[i + 1] = key]
  BY DEF BorrowLeafRight
<1>7. node' = [node EXCEPT ![Right].data = r1, ![Current].data = l1, ![Parent].data[i + 1] = key]
  BY <1>2, <1>6
<1> HIDE DEF d, e
<1>8. /\ l2 \in Seq(Int) /\ r1 \in Seq(Int) /\ InTwo(d, l2, r1) /\ Len(l2) = k
  BY <1>4, <1>5, PiecesFacts
<1>9. /\ l1 \in Seq(Int) /\ InTwo(e \o d, l1, r1) /\ Len(l1) = Len(e) + k
  <2> HIDE DEF l2, r1
  <2>1. l1 \in Seq(Int) /\ InTwo(l1, e, l2)
    BY <1>4, <1>8, ConcatFacts
  <2>2. InTwo(e \o d, l1, r1)
    BY <1>4, <1>8, CutAfter
  <2>. QED BY <1>8, <2>1, <2>2 DEF InTwo
<1>10. key = (e \o d)[Len(l1) + 1]
  <2> HIDE DEF l1
  <2>1. k + 1 \in 1 .. Len(d) /\ Len(l1) + 1 = Len(e) + (k + 1)
    <3> DEFINE a == Len(d)  b == Len(e)  c == Len(l1)
    <3>1. a \in Nat /\ b \in Nat /\ c = b + k /\ k \in 1 .. a - 1
      BY <1>4, <1>5, <1>9
    <3> HIDE DEF a, b, c
    <3>2. k + 1 \in 1 .. a /\ c + 1 = b + (k + 1)
      BY ONLY <3>1
    <3>. QED BY <3>2 DEF a, b, c
  <2>2. InTwo(e \o d, e, d)
    BY <1>4, ConcatFacts
  <2>3. PICK h : h = k + 1
    OBVIOUS
  <2>4. d[h] = (e \o d)[Len(e) + h]
    BY <2>1, <2>2, <2>3 DEF InTwo
  <2>. QED BY <2>1, <2>3, <2>4
<1> HIDE DEF l1, l2, r1, key
<1> HIDE DEF i
<1>11. /\ DOMAIN node' = DOMAIN node
       /\ \A x \in DOMAIN node : x # Parent /\ x # Right /\ x # Current => node'[x] = node[x]
       /\ node'[Right] = [node[Right] EXCEPT !.data = r1]
       /\ node'[Current] = [node[Current] EXCEPT !.data = l1]
       /\ node'[Parent] = [node[Parent] EXCEPT !.data = [@ EXCEPT ![i + 1] = key]]
  BY ONLY <1>2, <1>3, <1>7, ThreeLeaves
<1>12. LeafMoved(Parent, i, Current, Right, key, l1, r1, node')
  BY <1>8, <1>9, <1>10, <1>11 DEF LeafMoved, d, e
<1>. QED BY <1>12 DEF i, key, l1, r1, d, e, l2

(* The size of a sibling.                                                  *)
LEMMA SiblingSize ==
  ASSUME NEW lev, NEW rng, UnderflowBelow(lev, rng), NEW i, NEW left, NEW right,
         Siblings(node, lev, rng, Parent, i, left, right, Current),
         NEW n, n \in {left, right}, n # Current
  PROVE  size(n) \in 1 .. Limit(build, lev[Current]) /\ size(n) \in Nat
<1>1. n \in DOMAIN node /\ lev[n] = lev[Current] /\ node[n] \in NodeType
  BY DEF Siblings
<1>2. Fits(node, lev, build, n)
  BY <1>1 DEF UnderflowBelow
<1>3. size(n) \in Nat
  BY <1>1, LenProperties DEF NodeType, size
<1>. QED BY <1>1, <1>2, <1>3 DEF Fits, size

(* A leaf borrows from its left sibling, or from its right one.            *)
LEMMA LentLeft ==
  ASSUME NEW lev, NEW rng, UnderflowBelow(lev, rng), lev[Current] = 1, HasLeft,
         LeafCanLend(Left), BorrowLeafLeft
  PROVE  \E lev2, rng2 :
            FlushOK(node', root, height, NoPath, NoRepair, stored, build, lev2, rng2)
<1> DEFINE d == node[Left].data  e == node[Current].data  k == size(Left) - NumToMove(Left)
           l1 == SubSeq(d, 1, k)  l2 == SubSeq(d, k + 1, Len(d))  r1 == l2 \o e  i == child_idx - 1
           key == d[k + 1]
<1>1. Siblings(node, lev, rng, Parent, i, Left, Current, Current)
  BY LeftSibling
<1>2. Left # Current /\ node[Left] \in NodeType /\ node[Current] \in NodeType
  BY <1>1 DEF Siblings
<1>3. size(Left) \in 1 .. build.leaf_split /\ size(Left) \in Nat
  BY <1>1, <1>2, SiblingSize DEF Limit
<1>4. /\ build \in Builds /\ size(Current) < build.leaf_merge /\ size(Current) \in Nat
  BY DEF UnderflowBelow
<1>5. /\ NumToMove(Left) \in 1 .. size(Left) - 1
      /\ size(Left) - NumToMove(Left) \in 1 .. build.leaf_split
      /\ size(Current) + NumToMove(Left) \in 1 .. build.leaf_split
  <2>1. size(Left) <= build.leaf_split
    BY <1>3
  <2>. QED BY <1>3, <1>4, <2>1, LeafLendable
<1> HIDE DEF k
<1>6. k = size(Left) - NumToMove(Left)
  BY DEF k
<1>7. LeafMoved(Parent, i, Left, Current, key, l1, r1, node')
  BY <1>5, <1>6, BorrowedLeft
<1>8. d \in Seq(Int) /\ e \in Seq(Int) /\ Len(d) = size(Left) /\ Len(e) = size(Current)
  BY <1>2 DEF NodeType, size
<1>9. k \in 0 .. Len(d) /\ (Len(d) - k) = NumToMove(Left)
  <2> DEFINE s == size(Left)  t == NumToMove(Left)
  <2>1. s \in Nat /\ t \in 1 .. s - 1 /\ k = s - t
    BY <1>3, <1>5, <1>6
  <2> HIDE DEF s, t
  <2>2. k \in 0 .. s /\ s - k = t
    BY ONLY <2>1
  <2>. QED BY <1>8, <2>2 DEF s, t
<1> HIDE DEF d, e
<1>10. Len(l1) = k /\ l2 \in Seq(Int) /\ Len(l2) = Len(d) - k
  BY <1>8, <1>9, PiecesFacts
<1>11. Len(r1) = size(Current) + NumToMove(Left)
  <2> HIDE DEF l2
  <2>1. Len(r1) = Len(l2) + Len(e)
    <3>1. InTwo(r1, l2, e)
      BY <1>8, <1>10, ConcatFacts
    <3>. QED BY <3>1 DEF InTwo
  <2>2. \A x, y \in Int : x + y = y + x
    OBVIOUS
  <2>3. NumToMove(Left) \in Int
    BY <1>5
  <2>. QED BY <1>4, <1>8, <1>9, <1>10, <2>1, <2>2, <2>3
<1>12. Len(l1) \in 1 .. build.leaf_split /\ Len(r1) \in 1 .. build.leaf_split
  BY <1>5, <1>6, <1>10, <1>11
<1> HIDE DEF l1, r1, i, key
<1>. QED BY <1>1, <1>7, <1>12, LeafBalanced

LEMMA LentRight ==
  ASSUME NEW lev, NEW rng, UnderflowBelow(lev, rng), lev[Current] = 1, HasRight,
         LeafCanLend(Right), BorrowLeafRight
  PROVE  \E lev2, rng2 :
            FlushOK(node', root, height, NoPath, NoRepair, stored, build, lev2, rng2)
<1> DEFINE d == node[Right].data  e == node[Current].data  k == NumToMove(Right)
           l2 == SubSeq(d, 1, k)  r1 == SubSeq(d, k + 1, Len(d))  l1 == e \o l2  i == child_idx
           key == d[k + 1]
<1>1. Siblings(node, lev, rng, Parent, i, Current, Right, Current)
  BY RightSibling
<1>2. Right # Current /\ node[Right] \in NodeType /\ node[Current] \in NodeType
  BY <1>1 DEF Siblings
<1>3. size(Right) \in 1 .. build.leaf_split /\ size(Right) \in Nat
  BY <1>1, <1>2, SiblingSize DEF Limit
<1>4. /\ build \in Builds /\ size(Current) < build.leaf_merge /\ size(Current) \in Nat
  BY DEF UnderflowBelow
<1>5. /\ NumToMove(Right) \in 1 .. size(Right) - 1
      /\ size(Right) - NumToMove(Right) \in 1 .. build.leaf_split
      /\ size(Current) + NumToMove(Right) \in 1 .. build.leaf_split
  <2>1. size(Right) <= build.leaf_split
    BY <1>3
  <2>. QED BY <1>3, <1>4, <2>1, LeafLendable
<1> HIDE DEF k
<1>6. k = NumToMove(Right)
  BY DEF k
<1>7. LeafMoved(Parent, i, Current, Right, key, l1, r1, node')
  BY <1>5, <1>6, BorrowedRight
<1>8. d \in Seq(Int) /\ e \in Seq(Int) /\ Len(d) = size(Right) /\ Len(e) = size(Current)
  BY <1>2 DEF NodeType, size
<1>9. k \in 0 .. Len(d)
  <2> DEFINE s == size(Right)
  <2>1. s \in Nat /\ k \in 1 .. s - 1
    BY <1>3, <1>5, <1>6
  <2> HIDE DEF s
  <2>2. k \in 0 .. s
    BY ONLY <2>1
  <2>. QED BY <1>8, <2>2 DEF s
<1> HIDE DEF d, e
<1>10. l2 \in Seq(Int) /\ Len(l2) = k /\ Len(r1) = Len(d) - k
  BY <1>8, <1>9, PiecesFacts
<1>11. Len(l1) = size(Current) + NumToMove(Right)
  <2> HIDE DEF l2
  <2>1. Len(l1) = Len(e) + Len(l2)
    <3>1. InTwo(l1, e, l2)
      BY <1>8, <1>10, ConcatFacts
    <3>. QED BY <3>1 DEF InTwo
  <2>. QED BY <1>6, <1>8, <1>10, <2>1
<1>12. Len(l1) \in 1 .. build.leaf_split /\ Len(r1) \in 1 .. build.leaf_split
  BY <1>5, <1>6, <1>8, <1>10, <1>11
<1> HIDE DEF l1, r1, i, key
<1>. QED BY <1>1, <1>7, <1>12, LeafBalanced

(* The pair of children that is merged when none lends.                    *)
LEMMA MergePair ==
  ASSUME NEW lev, NEW rng, UnderflowBelow(lev, rng), NEW i, i = MergeIdx
  PROVE  /\ Siblings(node, lev, rng, Parent, i, Child(i), Child(i + 1), Current)
         /\ \/ HasRight /\ Child(i) = Current /\ Child(i + 1) = Right
            \/ HasLeft /\ Child(i) = Left /\ Child(i + 1) = Current
<1>1. CASE HasRight
  <2>1. i = child_idx
    BY <1>1 DEF MergeIdx
  <2>2. /\ Siblings(node, lev, rng, Parent, child_idx, Current, Right, Current)
        /\ Current = Child(child_idx) /\ Right = Child(child_idx + 1)
    BY <1>1, RightSibling
  <2>. QED BY <1>1, <2>1, <2>2
<1>2. CASE ~HasRight
  <2>1. i = child_idx - 1
    BY <1>2 DEF MergeIdx
  <2>2. HasLeft
    <3>1. /\ child_idx \in 0 .. Len(node[Parent].data)
          /\ Len(node[Parent].data) \in 1 .. build.index_split /\ build \in Builds
      BY DEF UnderflowBelow, RepairBelow
    <3> DEFINE c == child_idx  s == Len(node[Parent].data)
    <3>2. c \in 0 .. s /\ s \in 1 .. build.index_split /\ ~ (c < s) /\ build.index_split \in Nat
      BY <1>2, <3>1, BuildFacts DEF HasRight, size
    <3> HIDE DEF c, s
    <3>3. c > 0
      BY <3>2
    <3>. QED BY <3>3 DEF c, HasLeft
  <2>3. /\ Siblings(node, lev, rng, Parent, child_idx - 1, Left, Current, Current)
        /\ Left = Child(child_idx - 1) /\ Current = Child((child_idx - 1) + 1)
    BY <2>2, LeftSibling
  <2>. QED BY <2>1, <2>2, <2>3
<1>. QED BY <1>1, <1>2

(* A leaf that has become too small.                                       *)
LEMMA LeafUnderflow ==
  ASSUME IInv, handle_leaf_underflow
  PROVE  IInv'
<1>1. PICK lev, rng : FlushOK(node, root, height, path, pending, stored, build, lev, rng)
  BY DEF IInv
<1> DEFINE fromLeft == HasLeft /\ LeafCanLend(Left)
           fromRight == ~fromLeft /\ HasRight /\ LeafCanLend(Right)
<1>2. /\ pending.kind = "underflow" /\ pending.level = height /\ height > 1
      /\ root' = root /\ height' = height /\ stored' = stored /\ build' = build
      /\ \/ fromLeft /\ BorrowLeafLeft /\ Propagate("underflow", FALSE)
         \/ fromRight /\ BorrowLeafRight /\ Propagate("underflow", FALSE)
         \/ /\ ~fromLeft /\ ~fromRight
            /\ node' = merge_leaf_with_right(MergeIdx)
            /\ Propagate("underflow", Len(node'[Parent].data) < IndexMerge)
  BY DEF handle_leaf_underflow, Due, AtLeaf
<1>3. build \in Builds /\ stored \subseteq Pairs
  BY DEF IInv
<1>4. UnderflowBelow(lev, rng)
  BY <1>1, <1>2, <1>3, BeforeUnderflow
<1>5. lev[Current] = 1
  BY <1>2, <1>4 DEF UnderflowBelow, RepairBelow
<1>6. \E lev2, rng2 : FlushOK(node', root, height, path', pending', stored, build, lev2, rng2)
  <2>1. CASE fromLeft /\ BorrowLeafLeft /\ Propagate("underflow", FALSE)
    <3>1. path' = NoPath /\ pending' = NoRepair
      BY <2>1 DEF Propagate
    <3>. QED BY <1>4, <1>5, <2>1, <3>1, LentLeft
  <2>2. CASE fromRight /\ BorrowLeafRight /\ Propagate("underflow", FALSE)
    <3>1. path' = NoPath /\ pending' = NoRepair
      BY <2>2 DEF Propagate
    <3>. QED BY <1>4, <1>5, <2>2, <3>1, LentRight
  <2>3. CASE /\ ~fromLeft /\ ~fromRight
             /\ node' = merge_leaf_with_right(MergeIdx)
             /\ Propagate("underflow", Len(node'[Parent].data) < IndexMerge)
    <3> DEFINE i == MergeIdx
    <3>1. /\ Siblings(node, lev, rng, Parent, i, Child(i), Child(i + 1), Current)
          /\ \/ HasRight /\ Child(i) = Current /\ Child(i + 1) = Right
             \/ HasLeft /\ Child(i) = Left /\ Child(i + 1) = Current
      BY <1>4, MergePair
    <3>2. size(Child(i)) + size(Child(i + 1)) \in 1 .. build.leaf_split
      <4>0. Child(i) # Child(i + 1)
        BY <3>1 DEF Siblings
      <4>1. size(Current) \in Nat /\ size(Current) < build.leaf_merge
        BY <1>4, <1>5 DEF UnderflowBelow
      <4>2. \A x, y \in Int : x \in Nat /\ y \in Nat /\ y >= 1 =>
              \A l \in Int : (y + x <= l => x + y \in 1 .. l /\ y + x \in 1 .. l)
        OBVIOUS
      <4>3. build.leaf_split \in Int
        BY <1>3, BuildFacts
      <4>4. CASE HasRight /\ Child(i) = Current /\ Child(i + 1) = Right
        <5>1. size(Right) \in Nat /\ size(Right) \in 1 .. build.leaf_split
          <6>1. Right \in {Child(i), Child(i + 1)} /\ Right # Current
            BY <4>0, <4>4
          <6>. QED BY <1>4, <1>5, <3>1, <6>1, SiblingSize DEF Limit
        <5>2. ~LeafCanLend(Right)
          BY <2>3, <4>4
        <5>3. size(Right) + size(Current) <= build.leaf_split
          BY <1>3, <4>1, <5>1, <5>2, LeafUnlendable
        <5>4. size(Right) >= 1
          BY <5>1
        <5>. QED BY <4>1, <4>2, <4>3, <4>4, <5>1, <5>3, <5>4
      <4>5. CASE HasLeft /\ Child(i) = Left /\ Child(i + 1) = Current
        <5>1. size(Left) \in Nat /\ size(Left) \in 1 .. build.leaf_split
          <6>1. Left \in {Child(i), Child(i + 1)} /\ Left # Current
            BY <4>0, <4>5
          <6>. QED BY <1>4, <1>5, <3>1, <6>1, SiblingSize DEF Limit
        <5>2. ~LeafCanLend(Left)
          BY <2>3, <4>5
        <5>3. size(Left) + size(Current) <= build.leaf_split
          BY <1>3, <4>1, <5>1, <5>2, LeafUnlendable
        <5>4. size(Left) >= 1
          BY <5>1
        <5>. QED BY <4>1, <4>2, <4>3, <4>5, <5>1, <5>3, <5>4
      <4>. QED BY <3>1, <4>4, <4>5
    <3>3. node' = merge_leaf_with_right(i)
      BY <2>3
    <3> HIDE DEF i
    <3>4. Onward("underflow", Len(merge_leaf_with_right(i)[Parent].data) < build.index_merge,
                 path, pending.level, pending', path')
      BY <2>3, <3>3 DEF Propagate, Onward, IndexMerge
    <3>5. \E lev2, rng2 : FlushOK(merge_leaf_with_right(i), root, height, path', pending',
                                  stored, build, lev2, rng2)
      BY ONLY <1>4, <1>5, <3>1, <3>2, <3>4, LeafMerged
    <3>. QED BY <3>3, <3>5
  <2>. QED BY <1>2, <2>1, <2>2, <2>3
<1>. QED BY <1>2, <1>3, <1>6 DEF IInv

-----------------------------------------------------------------------------
(***************************************************************************)
(* The last element of one sequence becomes the first of the next, and the *)
(* other way round.                                                        *)
(***************************************************************************)

LEMMA FrontFacts ==
  ASSUME NEW S, NEW s, s \in Seq(S), Len(s) > 0
  PROVE  /\ Front(s) \in Seq(S) /\ Len(Front(s)) = Len(s) - 1
         /\ \A j \in 1 .. Len(s) - 1 : Front(s)[j] = s[j]
         /\ Last(s) = s[Len(s)] /\ Last(s) \in S
<1> DEFINE k == Len(s) - 1
<1>1. Len(s) \in Nat /\ k \in 0 .. Len(s) /\ Len(s) \in 1 .. Len(s)
  BY LenProperties
<1>2. Front(s) = SubSeq(s, 1, k)
  BY DEF Front
<1> HIDE DEF k
<1>3. /\ SubSeq(s, 1, k) \in Seq(S) /\ Len(SubSeq(s, 1, k)) = k
      /\ \A j \in 1 .. k : SubSeq(s, 1, k)[j] = s[j]
  BY <1>1, PrefixFacts
<1>4. Last(s) = s[Len(s)] /\ s[Len(s)] \in S
  BY <1>1, ElementOfSeq DEF Last
<1>5. Front(s) \in Seq(S) /\ Len(Front(s)) = k /\ \A j \in 1 .. k : Front(s)[j] = s[j]
  BY <1>2, <1>3
<1>. QED BY <1>4, <1>5 DEF k

LEMMA HeadFacts ==
  ASSUME NEW S, NEW s, s \in Seq(S), Len(s) > 0
  PROVE  /\ Tail(s) \in Seq(S) /\ Len(Tail(s)) = Len(s) - 1
         /\ \A j \in 1 .. Len(s) - 1 : Tail(s)[j] = s[j + 1]
         /\ Head(s) = s[1] /\ Head(s) \in S
<1>1. s # <<>>
  OBVIOUS
<1>2. /\ Tail(s) \in Seq(S) /\ Len(Tail(s)) = Len(s) - 1
      /\ \A j \in 1 .. Len(Tail(s)) : Tail(s)[j] = s[j + 1] /\ Head(s) \in S
  BY <1>1, HeadTailProperties
<1>3. Head(s) = s[1] /\ Head(s) \in S
  BY <1>1, HeadTailProperties
<1>. QED BY <1>2, <1>3

LEMMA Prepended ==
  ASSUME NEW S, NEW e, e \in S, NEW t, t \in Seq(S)
  PROVE  /\ <<e>> \o t \in Seq(S) /\ Len(<<e>> \o t) = Len(t) + 1
         /\ (<<e>> \o t)[1] = e
         /\ \A j \in 1 .. Len(t) : (<<e>> \o t)[j + 1] = t[j]
<1> DEFINE s == <<e>>
<1>1. s \in Seq(S) /\ Len(s) = 1 /\ s[1] = e
  OBVIOUS
<1>2. Len(t) \in Nat
  BY LenProperties
<1> HIDE DEF s
<1> DEFINE a == s \o t
<1>3. a \in Seq(S) /\ InTwo(a, s, t)
  BY <1>1, ConcatFacts
<1> HIDE DEF a
<1>4. /\ a \in Seq(S) /\ Len(a) = 1 + Len(t) /\ \A j \in 1 .. 1 : s[j] = a[j]
      /\ \A j \in 1 .. Len(t) : t[j] = a[1 + j]
  BY <1>1, <1>3 DEF InTwo
<1>5. Len(a) = Len(t) + 1 /\ a[1] = e
  BY <1>1, <1>2, <1>4
<1>6. \A j \in 1 .. Len(t) : a[j + 1] = t[j]
  <2>1. \A j \in 1 .. Len(t) : 1 + j = j + 1
    OBVIOUS
  <2>. QED BY <1>4, <2>1
<1>. QED BY <1>4, <1>5, <1>6 DEF a, s

LEMMA LastMoves ==
  ASSUME NEW S, NEW s, s \in Seq(S), Len(s) > 0, NEW t, t \in Seq(S)
  PROVE  InTwo(s \o t, Front(s), <<Last(s)>> \o t)
<1> DEFINE a == s \o t  f == Front(s)  e == Last(s)  u == <<e>> \o t
<1>1. /\ f \in Seq(S) /\ Len(f) = Len(s) - 1 /\ \A j \in 1 .. Len(s) - 1 : f[j] = s[j]
      /\ e = s[Len(s)] /\ e \in S
  BY FrontFacts
<1>2. Len(s) \in Nat /\ Len(t) \in Nat
  BY LenProperties
<1> HIDE DEF f, e
<1>3. Len(u) = Len(t) + 1 /\ u[1] = e /\ \A j \in 1 .. Len(t) : u[j + 1] = t[j]
  BY <1>1, Prepended
<1>4. InTwo(a, s, t)
  BY ConcatFacts
<1> HIDE DEF u, a
<1>5. /\ Len(a) = Len(s) + Len(t) /\ \A j \in 1 .. Len(s) : s[j] = a[j]
      /\ \A j \in 1 .. Len(t) : t[j] = a[Len(s) + j]
  BY <1>4 DEF InTwo
<1>6. Len(a) = Len(f) + Len(u)
  BY <1>1, <1>2, <1>3, <1>5
<1>7. \A j \in 1 .. Len(f) : f[j] = a[j]
  <2>1. \A j \in 1 .. Len(f) : j \in 1 .. Len(s) /\ j \in 1 .. Len(s) - 1
    BY <1>1, <1>2
  <2>. QED BY <1>1, <1>5, <2>1
<1>8. ASSUME NEW j \in 1 .. Len(u) PROVE u[j] = a[Len(f) + j]
  <2>1. CASE j = 1
    <3>1. Len(f) + 1 = Len(s) /\ Len(s) \in 1 .. Len(s)
      BY <1>1, <1>2
    <3>. QED BY <1>1, <1>3, <1>5, <2>1, <3>1
  <2>2. CASE j # 1
    <3>1. PICK h : h = j - 1
      OBVIOUS
    <3>2. h \in 1 .. Len(t) /\ h + 1 = j /\ Len(s) + h = Len(f) + j
      BY <1>1, <1>2, <1>3, <2>2, <3>1
    <3>. QED BY <1>3, <1>5, <3>2
  <2>. QED BY <2>1, <2>2
<1>9. InTwo(a, f, u)
  BY <1>6, <1>7, <1>8 DEF InTwo
<1>. QED BY <1>9 DEF a, f, u, e

LEMMA HeadMoves ==
  ASSUME NEW S, NEW s, s \in Seq(S), NEW t, t \in Seq(S), Len(t) > 0
  PROVE  InTwo(s \o t, Append(s, Head(t)), Tail(t))
<1> DEFINE a == s \o t  f == Tail(t)  e == Head(t)  u == Append(s, e)
<1>1. /\ f \in Seq(S) /\ Len(f) = Len(t) - 1 /\ \A j \in 1 .. Len(t) - 1 : f[j] = t[j + 1]
      /\ e = t[1] /\ e \in S
  BY HeadFacts
<1>2. Len(s) \in Nat /\ Len(t) \in Nat
  BY LenProperties
<1> HIDE DEF f, e
<1>3. Len(u) = Len(s) + 1 /\ u[Len(s) + 1] = e /\ \A j \in 1 .. Len(s) : u[j] = s[j]
  BY <1>1, AppendProperties
<1>4. InTwo(a, s, t)
  BY ConcatFacts
<1> HIDE DEF u, a
<1>5. /\ Len(a) = Len(s) + Len(t) /\ \A j \in 1 .. Len(s) : s[j] = a[j]
      /\ \A j \in 1 .. Len(t) : t[j] = a[Len(s) + j]
  BY <1>4 DEF InTwo
<1>6. Len(a) = Len(u) + Len(f)
  BY <1>1, <1>2, <1>3, <1>5
<1>7. ASSUME NEW j \in 1 .. Len(u) PROVE u[j] = a[j]
  <2>1. CASE j = Len(s) + 1
    <3>1. 1 \in 1 .. Len(t)
      BY <1>2
    <3>. QED BY <1>1, <1>3, <1>5, <2>1, <3>1
  <2>2. CASE j # Len(s) + 1
    <3>1. j \in 1 .. Len(s)
      BY <1>2, <1>3, <2>2
    <3>. QED BY <1>3, <1>5, <3>1
  <2>. QED BY <2>1, <2>2
<1>8. ASSUME NEW j \in 1 .. Len(f) PROVE f[j] = a[Len(u) + j]
  <2>1. PICK h : h = j + 1
    OBVIOUS
  <2>2. j \in 1 .. Len(t) - 1 /\ h \in 1 .. Len(t) /\ Len(s) + h = Len(u) + j
    BY <1>1, <1>2, <1>3, <2>1
  <2>3. f[j] = t[h] /\ t[h] = a[Len(s) + h]
    BY <1>1, <1>5, <2>1, <2>2
  <2>. QED BY <2>2, <2>3
<1>9. InTwo(a, u, f)
  BY <1>6, <1>7, <1>8 DEF InTwo
<1>. QED BY <1>9 DEF a, f, u, e

(* The key between two nodes goes down and the next one comes up.          *)
LEMMA KeyMovesRight ==
  ASSUME NEW a, NEW d1, NEW key, NEW d2, AroundKey(a, d1, key, d2),
         d1 \in Seq(Int), key \in Int, d2 \in Seq(Int), Len(d1) > 0
  PROVE  AroundKey(a, Front(d1), Last(d1), <<key>> \o d2)
<1> DEFINE f == Front(d1)  e == Last(d1)  u == <<key>> \o d2
<1>1. /\ f \in Seq(Int) /\ Len(f) = Len(d1) - 1 /\ \A j \in 1 .. Len(d1) - 1 : f[j] = d1[j]
      /\ e = d1[Len(d1)]
  BY FrontFacts
<1>2. Len(d1) \in Nat /\ Len(d2) \in Nat
  BY LenProperties
<1>3. Len(u) = Len(d2) + 1 /\ u[1] = key /\ \A j \in 1 .. Len(d2) : u[j + 1] = d2[j]
  BY Prepended
<1> HIDE DEF u, f, e
<1>4. /\ a \in Seq(Int) /\ Len(a) = Len(d1) + Len(d2) + 1
      /\ \A j \in 1 .. (Len(d1) + 1) - 1 : d1[j] = a[j]
      /\ Len(d2) = Len(a) - (Len(d1) + 1)
      /\ \A j \in 1 .. Len(d2) : d2[j] = a[Len(d1) + 1 + j]
      /\ key = a[Len(d1) + 1]
  BY DEF AroundKey, CutAt
<1>5. Len(f) + 1 = Len(d1) /\ Len(a) = Len(f) + Len(u) + 1 /\ Len(u) = Len(a) - (Len(f) + 1)
      /\ (Len(f) + 1) - 1 = Len(f) /\ (Len(d1) + 1) - 1 = Len(d1)
  BY <1>1, <1>2, <1>3, <1>4
<1>6. \A j \in 1 .. Len(f) : f[j] = a[j]
  <2>1. \A j \in 1 .. Len(f) : j \in 1 .. Len(d1) /\ j \in 1 .. Len(d1) - 1
    BY <1>1, <1>2
  <2>. QED BY <1>1, <1>4, <1>5, <2>1
<1>7. ASSUME NEW j \in 1 .. Len(u) PROVE u[j] = a[Len(f) + 1 + j]
  <2>1. CASE j = 1
    BY <1>3, <1>4, <1>5, <2>1
  <2>2. CASE j # 1
    <3>1. PICK h : h = j - 1
      OBVIOUS
    <3>2. h \in 1 .. Len(d2) /\ h + 1 = j /\ Len(d1) + 1 + h = Len(f) + 1 + j
      BY <1>1, <1>2, <1>3, <2>2, <3>1
    <3>. QED BY <1>3, <1>4, <3>2
  <2>. QED BY <2>1, <2>2
<1>8. e = a[Len(f) + 1]
  <2>1. Len(d1) \in 1 .. Len(d1)
    BY <1>2
  <2>. QED BY <1>1, <1>4, <1>5, <2>1
<1>9. CutAt(a, Len(f) + 1, f, u)
  BY <1>5, <1>6, <1>7 DEF CutAt
<1>10. AroundKey(a, f, e, u)
  BY <1>4, <1>5, <1>8, <1>9 DEF AroundKey
<1>. QED BY <1>10 DEF f, e, u

LEMMA KeyMovesLeft ==
  ASSUME NEW a, NEW d1, NEW key, NEW d2, AroundKey(a, d1, key, d2),
         d1 \in Seq(Int), key \in Int, d2 \in Seq(Int), Len(d2) > 0
  PROVE  AroundKey(a, Append(d1, key), Head(d2), Tail(d2))
<1> DEFINE f == Tail(d2)  e == Head(d2)  u == Append(d1, key)
<1>1. /\ f \in Seq(Int) /\ Len(f) = Len(d2) - 1 /\ \A j \in 1 .. Len(d2) - 1 : f[j] = d2[j + 1]
      /\ e = d2[1]
  BY HeadFacts
<1>2. Len(d1) \in Nat /\ Len(d2) \in Nat
  BY LenProperties
<1>3. Len(u) = Len(d1) + 1 /\ u[Len(d1) + 1] = key /\ \A j \in 1 .. Len(d1) : u[j] = d1[j]
  BY AppendProperties
<1> HIDE DEF u, f, e
<1>4. /\ a \in Seq(Int) /\ Len(a) = Len(d1) + Len(d2) + 1
      /\ \A j \in 1 .. (Len(d1) + 1) - 1 : d1[j] = a[j]
      /\ Len(d2) = Len(a) - (Len(d1) + 1)
      /\ \A j \in 1 .. Len(d2) : d2[j] = a[Len(d1) + 1 + j]
      /\ key = a[Len(d1) + 1]
  BY DEF AroundKey, CutAt
<1>5. Len(a) = Len(u) + Len(f) + 1 /\ Len(f) = Len(a) - (Len(u) + 1)
      /\ (Len(u) + 1) - 1 = Len(u) /\ (Len(d1) + 1) - 1 = Len(d1)
  BY <1>1, <1>2, <1>3, <1>4
<1>6. ASSUME NEW j \in 1 .. Len(u) PROVE u[j] = a[j]
  <2>1. CASE j = Len(d1) + 1
    BY <1>3, <1>4, <2>1
  <2>2. CASE j # Len(d1) + 1
    <3>1. j \in 1 .. Len(d1)
      BY <1>2, <1>3, <2>2
    <3>. QED BY <1>3, <1>4, <1>5, <3>1
  <2>. QED BY <2>1, <2>2
<1>7. ASSUME NEW j \in 1 .. Len(f) PROVE f[j] = a[Len(u) + 1 + j]
  <2>1. PICK h : h = j + 1
    OBVIOUS
  <2>2. j \in 1 .. Len(d2) - 1 /\ h \in 1 .. Len(d2) /\ Len(d1) + 1 + h = Len(u) + 1 + j
    BY <1>1, <1>2, <1>3, <2>1
  <2>3. f[j] = d2[h] /\ d2[h] = a[Len(d1) + 1 + h]
    BY <1>1, <1>4, <2>1, <2>2
  <2>. QED BY <2>2, <2>3
<1>8. e = a[Len(u) + 1]
  <2>1. 1 \in 1 .. Len(d2) /\ Len(d1) + 1 + 1 = Len(u) + 1
    BY <1>2, <1>3
  <2>2. d2[1] = a[Len(d1) + 1 + 1]
    BY <1>4, <2>1
  <2>. QED BY <1>1, <2>1, <2>2
<1>9. CutAt(a, Len(u) + 1, u, f)
  BY <1>5, <1>6, <1>7 DEF CutAt
<1>10. AroundKey(a, u, e, f)
  BY <1>4, <1>5, <1>8, <1>9 DEF AroundKey
<1>. QED BY <1>10 DEF f, e, u

-----------------------------------------------------------------------------
(* Two index nodes and the key between them, as one.                       *)
Joined(b, c, key) == IndexNode(Append(b.data, key) \o c.data, b.children \o c.children)

LEMMA JoinedFacts ==
  ASSUME NEW b, NEW c, NEW key, b \in NodeType, c \in NodeType, key \in Int
  PROVE  /\ Joined(b, c, key) \in NodeType
         /\ AroundKey(Joined(b, c, key).data, b.data, key, c.data)
         /\ Joined(b, c, key).children = b.children \o c.children
         /\ MergesIndex(b, c, key, Joined(b, c, key))
<1> DEFINE a == Joined(b, c, key)  d == Append(b.data, key) \o c.data  e == b.children \o c.children
<1>1. /\ b.data \in Seq(Int) /\ c.data \in Seq(Int)
      /\ b.children \in Seq(Nat) /\ c.children \in Seq(Nat)
  BY DEF NodeType
<1>2. AroundKey(d, b.data, key, c.data)
  BY <1>1, AroundKeyFacts
<1>3. e \in Seq(Nat) /\ InTwo(e, b.children, c.children)
  BY <1>1, ConcatFacts
<1> HIDE DEF d, e
<1>4. d \in Seq(Int)
  BY <1>2 DEF AroundKey
<1>5. a = IndexNode(d, e)
  BY DEF Joined, d, e
<1> HIDE DEF a
<1>6. a.data = d /\ a.children = e /\ a \in NodeType
  BY ONLY <1>3, <1>4, <1>5, IndexNodeFacts
<1>7. MergesIndex(b, c, key, a)
  BY <1>2, <1>3, <1>6 DEF MergesIndex, AroundKey
<1>. QED BY <1>2, <1>6, <1>7 DEF a, e

(* It is also the node that the two are after one child has turned.        *)
LEMMA TurnedRight ==
  ASSUME NEW b, NEW c, NEW key, b \in NodeType, c \in NodeType, key \in Int,
         Len(b.data) > 0, Len(b.children) = Len(b.data) + 1
  PROVE  SplitsIndex(Joined(b, c, key), Last(b.data),
                     IndexNode(Front(b.data), Front(b.children)),
                     IndexNode(<<key>> \o c.data, <<Last(b.children)>> \o c.children))
<1> DEFINE a == Joined(b, c, key)  d1 == Front(b.data)  c1 == Front(b.children)
           d2 == <<key>> \o c.data  c2 == <<Last(b.children)>> \o c.children  e == Last(b.data)
           b2 == IndexNode(d1, c1)  r2 == IndexNode(d2, c2)
<1>1. /\ b.data \in Seq(Int) /\ c.data \in Seq(Int)
      /\ b.children \in Seq(Nat) /\ c.children \in Seq(Nat) /\ Len(b.data) \in Nat
      /\ Len(b.children) > 0
  <2>1. /\ b.data \in Seq(Int) /\ c.data \in Seq(Int)
        /\ b.children \in Seq(Nat) /\ c.children \in Seq(Nat)
    BY DEF NodeType
  <2>2. Len(b.data) \in Nat
    BY <2>1, LenProperties
  <2>. QED BY <2>1, <2>2
<1>2. AroundKey(a.data, b.data, key, c.data) /\ a.children = b.children \o c.children
  BY JoinedFacts
<1> HIDE DEF a
<1>3. AroundKey(a.data, d1, e, d2) /\ InTwo(a.children, c1, c2)
  BY <1>1, <1>2, KeyMovesRight, LastMoves
<1>4. /\ d1 \in Seq(Int) /\ c1 \in Seq(Nat) /\ Len(d1) = Len(b.data) - 1
      /\ Len(c1) = Len(b.children) - 1 /\ Last(b.children) \in Nat
  BY <1>1, FrontFacts
<1>5. d2 \in Seq(Int) /\ c2 \in Seq(Nat)
  BY <1>1, <1>4, Prepended
<1> HIDE DEF d1, c1, d2, c2, e
<1>6. /\ b2.data = d1 /\ b2.children = c1 /\ b2 \in NodeType
      /\ r2.data = d2 /\ r2.children = c2 /\ r2 \in NodeType
  BY <1>4, <1>5, IndexNodeFacts
<1> HIDE DEF b2, r2
<1>7. Len(d1) < Len(a.data) /\ Len(c1) = Len(d1) + 1
  <2>1. Len(a.data) = Len(d1) + Len(d2) + 1 /\ Len(d1) \in Nat /\ Len(d2) \in Nat
    BY <1>3, <1>4, <1>5, LenProperties DEF AroundKey
  <2>. QED BY <1>1, <1>4, <2>1
<1>8. SplitsIndex(a, e, b2, r2)
  BY <1>3, <1>6, <1>7 DEF SplitsIndex, AroundKey
<1>. QED BY <1>8 DEF a, d1, c1, d2, c2, e, b2, r2

LEMMA TurnedLeft ==
  ASSUME NEW b, NEW c, NEW key, b \in NodeType, c \in NodeType, key \in Int,
         Len(c.data) > 0, Len(b.children) = Len(b.data) + 1, Len(c.children) > 0
  PROVE  SplitsIndex(Joined(b, c, key), Head(c.data),
                     IndexNode(Append(b.data, key), Append(b.children, Head(c.children))),
                     IndexNode(Tail(c.data), Tail(c.children)))
<1> DEFINE a == Joined(b, c, key)  d1 == Append(b.data, key)
           c1 == Append(b.children, Head(c.children))
           d2 == Tail(c.data)  c2 == Tail(c.children)  e == Head(c.data)
           b2 == IndexNode(d1, c1)  r2 == IndexNode(d2, c2)
<1>1. /\ b.data \in Seq(Int) /\ c.data \in Seq(Int)
      /\ b.children \in Seq(Nat) /\ c.children \in Seq(Nat) /\ Len(b.data) \in Nat
  <2>1. /\ b.data \in Seq(Int) /\ c.data \in Seq(Int)
        /\ b.children \in Seq(Nat) /\ c.children \in Seq(Nat)
    BY DEF NodeType
  <2>2. Len(b.data) \in Nat
    BY <2>1, LenProperties
  <2>. QED BY <2>1, <2>2
<1>2. AroundKey(a.data, b.data, key, c.data) /\ a.children = b.children \o c.children
  BY JoinedFacts
<1> HIDE DEF a
<1>3. AroundKey(a.data, d1, e, d2) /\ InTwo(a.children, c1, c2)
  BY <1>1, <1>2, KeyMovesLeft, HeadMoves
<1>4. /\ d2 \in Seq(Int) /\ c2 \in Seq(Nat) /\ Head(c.children) \in Nat
  BY <1>1, HeadFacts
<1>5. /\ d1 \in Seq(Int) /\ c1 \in Seq(Nat) /\ Len(d1) = Len(b.data) + 1
      /\ Len(c1) = Len(b.children) + 1
  BY SMTT(30), <1>1, <1>4, AppendProperties
<1> HIDE DEF d1, c1, d2, c2, e
<1>6. /\ b2.data = d1 /\ b2.children = c1 /\ b2 \in NodeType
      /\ r2.data = d2 /\ r2.children = c2 /\ r2 \in NodeType
  BY <1>4, <1>5, IndexNodeFacts
<1> HIDE DEF b2, r2
<1>7. Len(d1) < Len(a.data) /\ Len(c1) = Len(d1) + 1
  <2>1. Len(a.data) = Len(d1) + Len(d2) + 1 /\ Len(d1) \in Nat /\ Len(d2) \in Nat
    BY <1>3, <1>4, <1>5, LenProperties DEF AroundKey
  <2>. QED BY <1>1, <1>5, <2>1
<1>8. SplitsIndex(a, e, b2, r2)
  BY <1>3, <1>6, <1>7 DEF SplitsIndex, AroundKey
<1>. QED BY <1>8 DEF a, d1, c1, d2, c2, e, b2, r2

(* Two pages get new nodes, a third one a new key.                         *)
LEMMA ThreeIndexes ==
  ASSUME NEW m, NEW P, NEW l, NEW r, P \in DOMAIN m, l \in DOMAIN m, r \in DOMAIN m,
         P # l, P # r, l # r, NEW x, NEW y, NEW j, NEW key,
         NEW nd2, nd2 = [m EXCEPT ![l] = x, ![r] = y, ![P].data[j] = key]
  PROVE  /\ DOMAIN nd2 = DOMAIN m
         /\ \A n \in DOMAIN m : n # P /\ n # l /\ n # r => nd2[n] = m[n]
         /\ nd2[l] = x
         /\ nd2[r] = y
         /\ nd2[P] = [m[P] EXCEPT !.data = [@ EXCEPT ![j] = key]]
OBVIOUS

(* One child moves from one of two index nodes to the other.               *)
LEMMA IndexBalanced ==
  ASSUME NEW lev, NEW rng, UnderflowBelow(lev, rng), lev[Current] > 1,
         NEW i, NEW left, NEW right, Siblings(node, lev, rng, Parent, i, left, right, Current),
         NEW key, NEW nd2, NEW x, NEW y,
         SplitsIndex(Joined(node[left], node[right], node[Parent].data[i + 1]), key, x, y),
         Len(x.data) \in 1 .. build.index_split, Len(y.data) \in 1 .. build.index_split,
         key \in Int,
         nd2 = [node EXCEPT ![left] = x, ![right] = y, ![Parent].data[i + 1] = key]
  PROVE  \E lev2, rng2 :
            FlushOK(nd2, root, height, NoPath, NoRepair, stored, build, lev2, rng2)
<1> DEFINE P == Parent  sep == node[P].data[i + 1]  mid == Joined(node[left], node[right], sep)
           j == i + 1
<1>1. /\ build \in Builds
      /\ RepairBelow(node, root, height, path, pending.level, stored, build, lev, rng,
                     P, child_idx, Current)
      /\ \A m \in DOMAIN node : m # Current => Fits(node, lev, build, m)
  BY DEF UnderflowBelow
<1>2. P \in DOMAIN node /\ node[P] \in NodeType
  BY <1>1 DEF RepairBelow
<1>3. /\ left \in DOMAIN node /\ right \in DOMAIN node
      /\ P # left /\ P # right /\ left # right
      /\ node[left] \in NodeType /\ node[right] \in NodeType
      /\ i \in 0 .. Len(node[P].data) - 1 /\ sep \in Int
  BY DEF Siblings
<1>4. j \in 1 .. Len(node[P].data)
  <2>1. Len(node[P].data) \in Nat
    BY <1>2, LenProperties DEF NodeType
  <2>. QED BY <1>3, <2>1
<1>5. MergesIndex(node[left], node[right], sep, mid)
  BY <1>3, JoinedFacts
<1>6. SplitsIndex(mid, key, x, y)
  OBVIOUS
<1>7. nd2 = [node EXCEPT ![left] = x, ![right] = y, ![P].data[j] = key]
  OBVIOUS
<1>8. Siblings(node, lev, rng, P, i, left, right, Current)
  OBVIOUS
<1> HIDE DEF P, mid, j
<1>9. /\ DOMAIN nd2 = DOMAIN node
      /\ \A n \in DOMAIN node : n # P /\ n # left /\ n # right => nd2[n] = node[n]
      /\ nd2[left] = x
      /\ nd2[right] = y
      /\ nd2[P] = [node[P] EXCEPT !.data = [@ EXCEPT ![j] = key]]
  BY ONLY <1>2, <1>3, <1>7, ThreeIndexes
<1>10. /\ nd2[P] \in NodeType /\ nd2[P].children = node[P].children
       /\ Len(nd2[P].data) = Len(node[P].data)
       /\ \A n \in 1 .. Len(node[P].data) : nd2[P].data[n] = IF n = j THEN key ELSE node[P].data[n]
  <2> DEFINE a == node[P]  b == nd2[P]
  <2>1. a \in NodeType /\ j \in 1 .. Len(a.data) /\ key \in Int
    BY <1>2, <1>4
  <2>2. b = [a EXCEPT !.data = [@ EXCEPT ![j] = key]]
    BY <1>9
  <2> HIDE DEF a, b
  <2>3. /\ b \in NodeType /\ b.children = a.children
        /\ Len(b.data) = Len(a.data)
        /\ \A n \in 1 .. Len(a.data) : b.data[n] = IF n = j THEN key ELSE a.data[n]
    BY ONLY <2>1, <2>2, KeyReplaced
  <2>. QED BY <2>3 DEF a, b
<1>11. Rebalanced(node, P, i, left, right, key, nd2)
  BY <1>9, <1>10 DEF Rebalanced, j
<1>12. lev[Current] # 1
  OBVIOUS
<1>13. /\ Merges(node[left], node[right], lev[Current], sep, mid)
       /\ Splits(mid, lev[Current], key, right, nd2[left], nd2[right])
  BY <1>5, <1>6, <1>9, <1>12 DEF Merges, Splits
<1>14. /\ Len(nd2[left].data) \in 1 .. Limit(build, lev[Current])
       /\ Len(nd2[right].data) \in 1 .. Limit(build, lev[Current])
  BY <1>9, <1>12 DEF Limit
<1>. QED BY ONLY <1>1, <1>8, <1>11, <1>13, <1>14, BalanceStep

(* An index node that lends, and one that does not.                        *)
LEMMA IndexLendable ==
  ASSUME NEW n, size(n) \in Nat, size(Current) \in Nat, build \in Builds,
         size(Current) < build.index_merge, size(n) <= build.index_split
  PROVE  /\ IndexCanLend(n) => /\ size(n) > 1 /\ size(n) - 1 \in 1 .. build.index_split
                               /\ size(Current) + 1 \in 1 .. build.index_split
         /\ ~IndexCanLend(n) => /\ size(n) + size(Current) + 1 \in 1 .. build.index_split
                                /\ size(Current) + size(n) + 1 \in 1 .. build.index_split
<1> DEFINE s == size(n)  c == size(Current)  im == build.index_merge  is == build.index_split
<1>1. s \in Nat /\ c \in Nat /\ im \in Nat \ {0} /\ is \in Nat /\ 2 * im <= is /\ c < im /\ s <= is
  BY BuildFacts
<1>2. IndexCanLend(n) <=> s > im /\ s + c + 1 >= 2 * im + 1
  BY DEF IndexCanLend, IndexMerge
<1> HIDE DEF s, c, im, is
<1>3. IndexCanLend(n) => s > 1 /\ s - 1 \in 1 .. is /\ c + 1 \in 1 .. is
  BY <1>1, <1>2
<1>4. ~IndexCanLend(n) => s + c + 1 \in 1 .. is /\ c + s + 1 \in 1 .. is
  BY <1>1, <1>2
<1>. QED BY <1>3, <1>4 DEF s, c, is

LEMMA IndexLentLeft ==
  ASSUME NEW lev, NEW rng, UnderflowBelow(lev, rng), lev[Current] > 1, HasLeft,
         IndexCanLend(Left), BorrowIndexLeft
  PROVE  \E lev2, rng2 :
            FlushOK(node', root, height, NoPath, NoRepair, stored, build, lev2, rng2)
<1> DEFINE b == node[Left]  c == node[Current]  i == child_idx - 1
           sep == node[Parent].data[i + 1]  key == Last(b.data)
           x == IndexNode(Front(b.data), Front(b.children))
           y == IndexNode(<<sep>> \o c.data, <<Last(b.children)>> \o c.children)
<1>1. Siblings(node, lev, rng, Parent, i, Left, Current, Current) /\ i + 1 = child_idx
  BY LeftSibling
<1>2. /\ Left \in DOMAIN node /\ Current \in DOMAIN node
      /\ Parent # Left /\ Parent # Current /\ Left # Current
      /\ b \in NodeType /\ c \in NodeType /\ sep \in Int
      /\ Len(b.children) = Len(b.data) + 1
  BY <1>1 DEF Siblings
<1>3. size(Left) \in 1 .. build.index_split /\ size(Left) \in Nat
  <2>1. lev[Current] # 1
    OBVIOUS
  <2>. QED BY <1>1, <1>2, <2>1, SiblingSize DEF Limit
<1>4. build \in Builds /\ size(Current) \in Nat /\ size(Current) < build.index_merge
  BY DEF UnderflowBelow
<1>5. /\ size(Left) > 1 /\ size(Left) - 1 \in 1 .. build.index_split
      /\ size(Current) + 1 \in 1 .. build.index_split
  <2>1. size(Left) <= build.index_split
    BY <1>3
  <2>. QED BY <1>3, <1>4, <2>1, IndexLendable
<1>6. node' = [node EXCEPT ![Left] = x, ![Current] = y, ![Parent].data[i + 1] = key]
  <2>1. node' = [node EXCEPT ![Left] = x,
                             ![Current] = IndexNode(<<sep>> \o @.data, <<Last(b.children)>> \o @.children),
                             ![Parent].data[i + 1] = key]
    BY <1>1 DEF BorrowIndexLeft
  <2>. QED BY <1>2, <2>1
<1>7. Len(b.data) = size(Left) /\ Len(c.data) = size(Current) /\ Len(b.data) > 0
  BY <1>5 DEF size
<1> HIDE DEF b, c, i, sep
<1>8. SplitsIndex(Joined(b, c, sep), key, x, y)
  BY <1>2, <1>7, TurnedRight
<1>9. Len(x.data) = Len(b.data) - 1 /\ Len(y.data) = Len(c.data) + 1 /\ key \in Int
  <2>1. b.data \in Seq(Int) /\ c.data \in Seq(Int)
    BY <1>2 DEF NodeType
  <2>2. Len(Front(b.data)) = Len(b.data) - 1 /\ key \in Int
    BY <1>7, <2>1, FrontFacts
  <2>3. Len(<<sep>> \o c.data) = Len(c.data) + 1
    BY <1>2, <2>1, Prepended
  <2>. QED BY <2>2, <2>3, IndexNodeFacts
<1>10. Len(x.data) \in 1 .. build.index_split /\ Len(y.data) \in 1 .. build.index_split
  BY <1>5, <1>7, <1>9
<1> HIDE DEF x, y, key
<1>11. SplitsIndex(Joined(node[Left], node[Current], node[Parent].data[i + 1]), key, x, y)
  BY <1>8 DEF b, c, sep
<1>. QED BY ONLY UnderflowBelow(lev, rng), lev[Current] > 1, <1>1, <1>6, <1>9, <1>10, <1>11,
                 IndexBalanced

LEMMA IndexLentRight ==
  ASSUME NEW lev, NEW rng, UnderflowBelow(lev, rng), lev[Current] > 1, HasRight,
         IndexCanLend(Right), BorrowIndexRight
  PROVE  \E lev2, rng2 :
            FlushOK(node', root, height, NoPath, NoRepair, stored, build, lev2, rng2)
<1> DEFINE b == node[Current]  c == node[Right]  i == child_idx
           sep == node[Parent].data[i + 1]  key == Head(c.data)
           x == IndexNode(Append(b.data, sep), Append(b.children, Head(c.children)))
           y == IndexNode(Tail(c.data), Tail(c.children))
<1>1. Siblings(node, lev, rng, Parent, i, Current, Right, Current)
  BY RightSibling
<1>2. /\ Right \in DOMAIN node /\ Current \in DOMAIN node
      /\ Parent # Right /\ Parent # Current /\ Right # Current
      /\ b \in NodeType /\ c \in NodeType /\ sep \in Int
      /\ Len(b.children) = Len(b.data) + 1 /\ Len(c.children) = Len(c.data) + 1
  BY <1>1 DEF Siblings
<1>3. size(Right) \in 1 .. build.index_split /\ size(Right) \in Nat
  <2>1. lev[Current] # 1
    OBVIOUS
  <2>. QED BY <1>1, <1>2, <2>1, SiblingSize DEF Limit
<1>4. build \in Builds /\ size(Current) \in Nat /\ size(Current) < build.index_merge
  BY DEF UnderflowBelow
<1>5. /\ size(Right) > 1 /\ size(Right) - 1 \in 1 .. build.index_split
      /\ size(Current) + 1 \in 1 .. build.index_split
  <2>1. size(Right) <= build.index_split
    BY <1>3
  <2>. QED BY <1>3, <1>4, <2>1, IndexLendable
<1>6. node' = [node EXCEPT ![Current] = x, ![Right] = y, ![Parent].data[i + 1] = key]
  <2>1. node' = [node EXCEPT ![Right] = IndexNode(Tail(@.data), Tail(@.children)),
                             ![Current] = IndexNode(Append(@.data, sep),
                                                    Append(@.children, Head(c.children))),
                             ![Parent].data[i + 1] = key]
    BY DEF BorrowIndexRight
  <2>2. node' = [node EXCEPT ![Right] = y, ![Current] = x, ![Parent].data[i + 1] = key]
    BY <1>2, <2>1
  <2> HIDE DEF x, y, key, i
  <2>. QED BY <1>2, <2>2
<1>7. Len(c.data) = size(Right) /\ Len(b.data) = size(Current) /\ Len(c.data) > 0
      /\ Len(c.children) > 0
  BY <1>2, <1>3, <1>5 DEF size
<1> HIDE DEF b, c, i, sep
<1>8. SplitsIndex(Joined(b, c, sep), key, x, y)
  BY <1>2, <1>7, TurnedLeft
<1>9. Len(x.data) = Len(b.data) + 1 /\ Len(y.data) = Len(c.data) - 1 /\ key \in Int
  <2>1. b.data \in Seq(Int) /\ c.data \in Seq(Int)
    BY <1>2 DEF NodeType
  <2>2. Len(Tail(c.data)) = Len(c.data) - 1 /\ key \in Int
    BY <1>7, <2>1, HeadFacts
  <2>3. Len(Append(b.data, sep)) = Len(b.data) + 1
    BY <1>2, <2>1, AppendProperties
  <2>. QED BY <2>2, <2>3, IndexNodeFacts
<1>10. Len(x.data) \in 1 .. build.index_split /\ Len(y.data) \in 1 .. build.index_split
  BY <1>5, <1>7, <1>9
<1> HIDE DEF x, y, key
<1>11. SplitsIndex(Joined(node[Current], node[Right], node[Parent].data[i + 1]), key, x, y)
  BY <1>8 DEF b, c, sep
<1>. QED BY ONLY UnderflowBelow(lev, rng), lev[Current] > 1, <1>1, <1>6, <1>9, <1>10, <1>11,
                 IndexBalanced

(* Two index nodes are merged.                                             *)
LEMMA IndexMerged ==
  ASSUME NEW lev, NEW rng, UnderflowBelow(lev, rng), lev[Current] > 1,
         NEW i, Siblings(node, lev, rng, Parent, i, Child(i), Child(i + 1), Current),
         size(Child(i)) + size(Child(i + 1)) + 1 \in 1 .. build.index_split,
         NEW pend2, NEW w2,
         Onward("underflow", Len(merge_index_with_right(i)[Parent].data) < build.index_merge,
                path, pending.level, pend2, w2)
  PROVE  \E lev2, rng2 :
            FlushOK(merge_index_with_right(i), root, height, w2, pend2, stored, build, lev2, rng2)
<1> DEFINE left == Child(i)  right == Child(i + 1)  sep == node[Parent].data[i + 1]
           a == Joined(node[left], node[right], sep)
           nd2 == merge_index_with_right(i)
<1>2. /\ left \in DOMAIN node /\ right \in DOMAIN node
      /\ Parent # left /\ Parent # right /\ left # right
      /\ node[left] \in NodeType /\ node[right] \in NodeType
      /\ i \in 0 .. Len(node[Parent].data) - 1 /\ sep \in Int
  BY DEF Siblings
<1>1. nd2 = DropChild(Without([node EXCEPT ![left] = a], right), Parent, i)
  BY <1>2 DEF merge_index_with_right, Joined
<1>3. /\ Parent \in DOMAIN node /\ node[Parent] \in NodeType
      /\ Len(node[Parent].children) = Len(node[Parent].data) + 1
  BY DEF UnderflowBelow, RepairBelow
<1>4. MergesIndex(node[left], node[right], sep, a) /\ AroundKey(a.data, node[left].data, sep, node[right].data)
  BY <1>2, JoinedFacts
<1> HIDE DEF a
<1>5. lev[Current] # 1
  OBVIOUS
<1>6. Merges(node[left], node[right], lev[Current], node[Parent].data[i + 1], a)
  BY <1>4, <1>5 DEF Merges
<1>7. Len(a.data) \in 1 .. Limit(build, lev[Current])
  BY <1>4, <1>5 DEF AroundKey, Limit, size
<1> HIDE DEF nd2
<1> HIDE DEF left, right
<1>8. Fused(node, Parent, i, left, right, a, nd2)
  BY ONLY <1>1, <1>2, <1>3, FusedFacts
<1>9. Siblings(node, lev, rng, Parent, i, left, right, Current)
  BY DEF left, right
<1>10. Onward("underflow", Len(nd2[Parent].data) < build.index_merge, path, pending.level, pend2, w2)
  BY DEF nd2
<1>11. /\ build \in Builds
       /\ RepairBelow(node, root, height, path, pending.level, stored, build, lev, rng,
                      Parent, child_idx, Current)
       /\ \A m \in DOMAIN node : m # Current => Fits(node, lev, build, m)
  BY DEF UnderflowBelow
<1>12. \E lev2, rng2 : FlushOK(nd2, root, height, w2, pend2, stored, build, lev2, rng2)
  BY ONLY <1>6, <1>7, <1>8, <1>9, <1>10, <1>11, MergeStep
<1>. QED BY <1>12 DEF nd2

(* An index node that has become too small.                                *)
LEMMA IndexUnderflow ==
  ASSUME IInv, handle_index_underflow
  PROVE  IInv'
<1>1. PICK lev, rng : FlushOK(node, root, height, path, pending, stored, build, lev, rng)
  BY DEF IInv
<1> DEFINE fromLeft == HasLeft /\ IndexCanLend(Left)
           fromRight == ~fromLeft /\ HasRight /\ IndexCanLend(Right)
<1>2. /\ pending.kind = "underflow" /\ pending.level > 1 /\ pending.level < height
      /\ root' = root /\ height' = height /\ stored' = stored /\ build' = build
      /\ \/ fromLeft /\ BorrowIndexLeft /\ Propagate("underflow", FALSE)
         \/ fromRight /\ BorrowIndexRight /\ Propagate("underflow", FALSE)
         \/ /\ ~fromLeft /\ ~fromRight
            /\ node' = merge_index_with_right(MergeIdx)
            /\ Propagate("underflow", Len(node'[Parent].data) < IndexMerge)
  BY DEF handle_index_underflow, Due, AtIndex
<1>3. build \in Builds /\ stored \subseteq Pairs
  BY DEF IInv
<1>4. UnderflowBelow(lev, rng)
  BY <1>1, <1>2, <1>3, BeforeUnderflow
<1>5. lev[Current] > 1 /\ lev[Current] # 1
  <2>1. lev[Current] \in Nat \ {0} /\ pending.level \in Nat /\ (lev[Current] = 1 <=> pending.level = height)
    BY <1>4 DEF UnderflowBelow, RepairBelow
  <2>2. pending.level # height
    BY <1>2, <2>1
  <2>. QED BY ONLY <2>1, <2>2
<1>6. \E lev2, rng2 : FlushOK(node', root, height, path', pending', stored, build, lev2, rng2)
  <2>1. CASE fromLeft /\ BorrowIndexLeft /\ Propagate("underflow", FALSE)
    <3>1. path' = NoPath /\ pending' = NoRepair
      BY <2>1 DEF Propagate
    <3>. QED BY <1>4, <1>5, <2>1, <3>1, IndexLentLeft
  <2>2. CASE fromRight /\ BorrowIndexRight /\ Propagate("underflow", FALSE)
    <3>1. path' = NoPath /\ pending' = NoRepair
      BY <2>2 DEF Propagate
    <3>. QED BY <1>4, <1>5, <2>2, <3>1, IndexLentRight
  <2>3. CASE /\ ~fromLeft /\ ~fromRight
             /\ node' = merge_index_with_right(MergeIdx)
             /\ Propagate("underflow", Len(node'[Parent].data) < IndexMerge)
    <3> DEFINE i == MergeIdx
    <3>1. /\ Siblings(node, lev, rng, Parent, i, Child(i), Child(i + 1), Current)
          /\ \/ HasRight /\ Child(i) = Current /\ Child(i + 1) = Right
             \/ HasLeft /\ Child(i) = Left /\ Child(i + 1) = Current
      BY <1>4, MergePair
    <3>2. size(Child(i)) + size(Child(i + 1)) + 1 \in 1 .. build.index_split
      <4>1. Child(i) # Child(i + 1)
        BY <3>1 DEF Siblings
      <4>2. size(Current) \in Nat /\ size(Current) < build.index_merge
        BY <1>4, <1>5 DEF UnderflowBelow
      <4>3. ASSUME NEW n, n \in {Child(i), Child(i + 1)}, n # Current, ~IndexCanLend(n)
            PROVE  /\ size(n) + size(Current) + 1 \in 1 .. build.index_split
                   /\ size(Current) + size(n) + 1 \in 1 .. build.index_split
        <5>1. size(n) \in Nat /\ size(n) \in 1 .. build.index_split
          BY <1>4, <1>5, <3>1, <4>3, SiblingSize DEF Limit
        <5>2. size(n) <= build.index_split
          BY <5>1
        <5>. QED BY <1>3, <4>2, <4>3, <5>1, <5>2, IndexLendable
      <4>4. CASE HasRight /\ Child(i) = Current /\ Child(i + 1) = Right
        <5>1. ~IndexCanLend(Right) /\ Right # Current
          BY <2>3, <4>1, <4>4
        <5>. QED BY <4>3, <4>4, <5>1
      <4>5. CASE HasLeft /\ Child(i) = Left /\ Child(i + 1) = Current
        <5>1. ~IndexCanLend(Left) /\ Left # Current
          BY <2>3, <4>1, <4>5
        <5>. QED BY <4>3, <4>5, <5>1
      <4>. QED BY <3>1, <4>4, <4>5
    <3>3. node' = merge_index_with_right(i)
      BY <2>3
    <3> HIDE DEF i
    <3>4. Onward("underflow", Len(merge_index_with_right(i)[Parent].data) < build.index_merge,
                 path, pending.level, pending', path')
      BY <2>3, <3>3 DEF Propagate, Onward, IndexMerge
    <3>5. \E lev2, rng2 : FlushOK(merge_index_with_right(i), root, height, path', pending',
                                  stored, build, lev2, rng2)
      BY ONLY <1>4, <1>5, <3>1, <3>2, <3>4, IndexMerged
    <3>. QED BY <3>3, <3>5
  <2>. QED BY <1>2, <2>1, <2>2, <2>3
<1>. QED BY <1>2, <1>3, <1>6 DEF IInv

-----------------------------------------------------------------------------
(***************************************************************************)
(* Descents.                                                               *)
(***************************************************************************)

(* The leaf is the last page of a path.                                    *)
LEMMA LeafOfPath ==
  ASSUME NEW w, NEW h, h \in Nat, w.pages \in [1 .. h -> Nat]
  PROVE  leaf_of(w) = w.pages[h]
<1> DEFINE s == w.pages
<1>1. s \in Seq(Nat) /\ DOMAIN s = 1 .. h
  <2>1. s \in [1 .. h -> Nat] /\ h \in Nat
    OBVIOUS
  <2> HIDE DEF s
  <2>2. s \in Seq(Nat)
    BY <2>1, SeqDef
  <2>. QED BY <2>1, <2>2
<1> HIDE DEF s
<1>2. DOMAIN s = 1 .. Len(s) /\ Len(s) \in Nat
  BY <1>1, LenProperties
<1>3. 1 .. Len(s) = 1 .. h
  BY <1>1, <1>2
<1>4. Len(s) = h
  <2>1. \A m, n \in Nat : m < n => n \in 1 .. n /\ n \notin 1 .. m
    OBVIOUS
  <2> DEFINE l == Len(s)
  <2>2. l \in Nat /\ 1 .. l = 1 .. h
    BY <1>2, <1>3
  <2> HIDE DEF l
  <2>3. ~(l < h) /\ ~(h < l)
    BY <2>1, <2>2
  <2>4. l = h
    BY <2>2, <2>3
  <2>. QED BY <2>4 DEF l
<1>. QED BY <1>4 DEF leaf_of, Last, s

(* The pages of a descent are those of a recursive definition, which has   *)
(* a solution at every height.                                             *)
DescentBy(f, h, p) ==
  f = [k \in 1 .. h |-> IF k = 1 THEN root
                        ELSE LET n == f[k - 1]
                             IN node[n].children[find_idx_in_index(n, p) + 1]]

LEMMA DescentSolution ==
  ASSUME NEW p, NEW h, h \in Nat
  PROVE  \E f : DescentBy(f, h, p)
<1> DEFINE G == {m \in Nat : \E f : DescentBy(f, m, p)}
<1>1. 0 \in G
  <2>1. DescentBy(<<>>, 0, p)
    BY DEF DescentBy
  <2>. QED BY <2>1
<1>2. ASSUME NEW m \in Nat, m \in G PROVE m + 1 \in G
  <2>1. PICK f : DescentBy(f, m, p)
    BY <1>2
  <2> DEFINE g == [k \in 1 .. m + 1 |-> IF k = 1 THEN root
                    ELSE LET n == f[k - 1]
                         IN node[n].children[find_idx_in_index(n, p) + 1]]
  <2> DEFINE old == [k \in 1 .. m |-> IF k = 1 THEN root
                      ELSE LET n == f[k - 1]
                           IN node[n].children[find_idx_in_index(n, p) + 1]]
  <2>2. \A k \in 1 .. m : g[k] = f[k]
    <3>1. f = old
      BY <2>1 DEF DescentBy
    <3>2. \A k \in 1 .. m : g[k] = old[k]
      OBVIOUS
    <3> HIDE DEF g, old
    <3>. QED BY <3>1, <3>2
  <2>3. \A k \in 1 .. m + 1 : k # 1 => g[k - 1] = f[k - 1]
    <3> HIDE DEF g
    <3>1. \A k \in 1 .. m + 1 : k # 1 => k - 1 \in 1 .. m
      OBVIOUS
    <3>. QED BY <2>2, <3>1
  <2>4. DescentBy(g, m + 1, p)
    BY <2>3 DEF DescentBy
  <2>5. m + 1 \in Nat
    OBVIOUS
  <2>. QED BY <2>4, <2>5
<1>3. Nat \subseteq G
  <2>. HIDE DEF G
  <2>. QED BY <1>1, <1>2, Induction
<1>. QED BY <1>3

LEMMA DescentFacts ==
  ASSUME NEW p, height \in Nat
  PROVE  /\ find_path(p) = [pages |-> find_path(p).pages, pos |-> find_path(p).pos,
                            after |-> find_path(p).after]
         /\ DOMAIN find_path(p).pages = 1 .. height
         /\ find_path(p).pages = [k \in 1 .. height |-> find_path(p).pages[k]]
         /\ DOMAIN find_path(p).pos = 1 .. height - 1
         /\ find_path(p).pos = [k \in 1 .. height - 1 |-> find_path(p).pos[k]]
         /\ find_path(p).after = {}
         /\ height > 0 => find_path(p).pages[1] = root
         /\ \A k \in 1 .. height - 1 :
               /\ find_path(p).pos[k] = find_idx_in_index(find_path(p).pages[k], p)
               /\ find_path(p).pages[k + 1] =
                     node[find_path(p).pages[k]].children[find_path(p).pos[k] + 1]
<1> DEFINE at == CHOOSE f : DescentBy(f, height, p)
           w == [pages |-> [k \in 1 .. height |-> at[k]],
                 pos |-> [k \in 1 .. height - 1 |-> find_idx_in_index(at[k], p)],
                 after |-> {}]
<1>1. \E f : DescentBy(f, height, p)
  BY DescentSolution
<1>2. DescentBy(at, height, p)
  BY <1>1, Zenon
<1>3. find_path(p) = w
  BY DEF find_path, DescentBy
<1> HIDE DEF at
<1>4. at = [k \in 1 .. height |-> at[k]] /\ (height > 0 => at[1] = root)
  BY <1>2 DEF DescentBy
<1>5. \A k \in 1 .. height - 1 : at[k + 1] = node[at[k]].children[find_idx_in_index(at[k], p) + 1]
  <2>1. ASSUME NEW k \in 1 .. height - 1
        PROVE  at[k + 1] = node[at[k]].children[find_idx_in_index(at[k], p) + 1]
    <3>1. PICK h : h = k + 1
      OBVIOUS
    <3>2. h \in 1 .. height /\ h # 1 /\ h - 1 = k
      BY <3>1
    <3>3. at[h] = node[at[h - 1]].children[find_idx_in_index(at[h - 1], p) + 1]
      BY <1>2, <3>2 DEF DescentBy
    <3>. QED BY <3>1, <3>2, <3>3
  <2>. QED BY <2>1
<1>6. /\ w.pages = [k \in 1 .. height |-> at[k]] /\ w.after = {}
      /\ w.pos = [k \in 1 .. height - 1 |-> find_idx_in_index(at[k], p)]
      /\ w = [pages |-> w.pages, pos |-> w.pos, after |-> w.after]
  OBVIOUS
<1> HIDE DEF w
<1>7. \A k \in 1 .. height - 1 : k \in 1 .. height /\ k + 1 \in 1 .. height
  OBVIOUS
<1>8. /\ w.pages = at
      /\ w.pages = [k \in 1 .. height |-> w.pages[k]]
      /\ w.pos = [k \in 1 .. height - 1 |-> w.pos[k]]
      /\ DOMAIN w.pages = 1 .. height /\ DOMAIN w.pos = 1 .. height - 1
      /\ \A k \in 1 .. height - 1 : w.pos[k] = find_idx_in_index(w.pages[k], p)
  BY <1>4, <1>6, <1>7
<1>9. \A k \in 1 .. height - 1 : w.pages[k + 1] = node[w.pages[k]].children[w.pos[k] + 1]
  <2>1. ASSUME NEW k \in 1 .. height - 1
        PROVE  w.pages[k + 1] = node[w.pages[k]].children[w.pos[k] + 1]
    <3>1. at[k + 1] = node[at[k]].children[find_idx_in_index(at[k], p) + 1]
      BY <1>5
    <3>2. w.pos[k] = find_idx_in_index(w.pages[k], p) /\ w.pages = at
      BY <1>8
    <3>. QED BY ONLY <3>1, <3>2
  <2>. QED BY <2>1
<1>10. height > 0 => w.pages[1] = root
  BY <1>4, <1>8
<1>. QED BY <1>3, <1>6, <1>8, <1>9, <1>10

(* A descent ends in the leaf whose range has the pair.                    *)
LEMMA Descent ==
  ASSUME NEW lev, NEW rng, NEW st, Shape(node, root, height, st, lev, rng), height > 0,
         NEW p \in Int
  PROVE  /\ PathOK(find_path(p), height, node, root, height, lev)
         /\ \A k \in 1 .. height : p \in rng[find_path(p).pages[k]]
<1> DEFINE w == find_path(p)
<1>1. /\ Cells(node, height, lev, rng) /\ NodesOK(node, st, lev, rng) /\ height \in Nat
      /\ root \in DOMAIN node /\ lev[root] = height /\ rng[root] = Int
  BY DEF Shape, Cells
<1>2. /\ w = [pages |-> w.pages, pos |-> w.pos, after |-> w.after]
      /\ w.pages = [k \in 1 .. height |-> w.pages[k]]
      /\ w.pos = [k \in 1 .. height - 1 |-> w.pos[k]]
      /\ w.pages[1] = root
      /\ \A k \in 1 .. height - 1 : /\ w.pos[k] = find_idx_in_index(w.pages[k], p)
                                    /\ w.pages[k + 1] = node[w.pages[k]].children[w.pos[k] + 1]
  BY <1>1, DescentFacts
<1> HIDE DEF w
<1> DEFINE Good(k) == /\ w.pages[k] \in DOMAIN node /\ lev[w.pages[k]] = height - k + 1
                      /\ p \in rng[w.pages[k]]
           G == {k \in 1 .. height : Good(k)}
<1>3. ASSUME NEW k \in 1 .. height - 1, Good(k)
      PROVE  w.pos[k] \in 0 .. Len(node[w.pages[k]].data) /\ Good(k + 1)
  <2> DEFINE n == w.pages[k]  i == w.pos[k]  c == w.pages[k + 1]
  <2>1. n \in DOMAIN node /\ lev[n] = height - k + 1 /\ p \in rng[n] /\ lev[n] > 1
        /\ height - (k + 1) + 1 = lev[n] - 1
    <3>1. \A h, m \in Int : h - (m + 1) + 1 = (h - m + 1) - 1
      OBVIOUS
    <3>2. height - k + 1 > 1
      BY <1>1
    <3>. QED BY <1>1, <1>3, <3>1, <3>2
  <2>2. Keys(node[n].data, rng[n])
    BY <1>1, <2>1 DEF NodesOK, NodeOK
  <2>3. i = find_idx_in_index(n, p) /\ c = node[n].children[i + 1]
    BY <1>2
  <2> HIDE DEF n, i, c
  <2>4. i \in 0 .. size(n) /\ InSlot(node[n].data, i, p)
    BY <2>2, <2>3, IndexSearch DEF Keys
  <2>5. i \in 0 .. Len(node[n].data)
    BY <2>4 DEF size
  <2>6. Below(DOMAIN node, lev, rng, node[n].children[i + 1], node[n].data, i, lev[n], rng[n])
    BY <1>1, <2>1, <2>5, ChildFacts
  <2>7. c \in DOMAIN node /\ lev[c] = lev[n] - 1 /\ p \in rng[c]
    BY <2>1, <2>3, <2>4, <2>6 DEF Below
  <2>8. Good(k + 1)
    BY <2>1, <2>7 DEF c
  <2>. QED BY <2>5, <2>8 DEF n, i
<1>4. 1 \in G
  BY <1>1, <1>2
<1>5. \A k \in 1 .. height - 1 : k \in G => k + 1 \in G
  <2>1. \A k \in 1 .. height - 1 : k + 1 \in 1 .. height
    BY <1>1
  <2> HIDE DEF Good
  <2>. QED BY <1>3, <2>1
<1>6. 1 .. height \subseteq G
  <2> HIDE DEF G
  <2>. QED BY <1>1, <1>4, <1>5, InductionUpTo
<1>7. \A k \in 1 .. height : Good(k)
  BY <1>6
<1>8. \A k \in 1 .. height - 1 : w.pos[k] \in 0 .. Len(node[w.pages[k]].data) /\ w.pos[k] \in Nat
  <2>1. \A k \in 1 .. height - 1 : k \in 1 .. height
    BY <1>1
  <2>2. \A k \in 1 .. height - 1 : w.pos[k] \in 0 .. Len(node[w.pages[k]].data)
    <3> HIDE DEF Good
    <3>. QED BY <1>3, <1>7, <2>1
  <2>. QED BY <2>2
<1>9. \A k \in 1 .. height : w.pages[k] \in Nat
  BY <1>1, <1>7 DEF Cells
<1>10. w.pages \in [1 .. height -> Nat] /\ w.pos \in [1 .. height - 1 -> Nat]
  BY <1>2, <1>8, <1>9
<1>11. height \in 1 .. height
  BY <1>1
<1>12. PathOK(w, height, node, root, height, lev)
  BY <1>2, <1>7, <1>8, <1>10, <1>11 DEF PathOK
<1>13. \A k \in 1 .. height : p \in rng[w.pages[k]]
  BY <1>7
<1>. QED BY <1>12, <1>13 DEF w

(* Functions that agree everywhere are the same.                           *)
LEMMA SameFunction ==
  ASSUME NEW A, NEW B, NEW f \in [A -> B], NEW g \in [A -> B], \A k \in A : f[k] = g[k]
  PROVE  f = g
<1>1. f = [k \in A |-> f[k]] /\ g = [k \in A |-> g[k]]
  OBVIOUS
<1>2. [k \in A |-> f[k]] = [k \in A |-> g[k]]
  OBVIOUS
<1>. QED BY ONLY <1>1, <1>2

(* A path to the leaf whose range has the pair is the one a descent takes. *)
LEMMA SamePath ==
  ASSUME NEW lev, NEW rng, NEW st, Shape(node, root, height, st, lev, rng), height > 0,
         NEW w, PathOK(w, height, node, root, height, lev), NEW p \in Int,
         p \in rng[w.pages[height]]
  PROVE  find_path(p).pages = w.pages /\ find_path(p).pos = w.pos
<1> DEFINE v == find_path(p)
<1>1. /\ Cells(node, height, lev, rng) /\ NodesOK(node, st, lev, rng) /\ height \in Nat
  BY DEF Shape, Cells
<1>2. /\ PathOK(v, height, node, root, height, lev)
      /\ \A k \in 1 .. height : p \in rng[v.pages[k]]
  BY Descent
<1> HIDE DEF v
<1> DEFINE G == {j \in Nat : j < height => p \in rng[w.pages[height - j]]}
<1>3. 0 \in G
  <2>1. height - 0 = height
    BY <1>1
  <2>. QED BY <2>1
<1>4. ASSUME NEW j \in Nat, j \in G PROVE j + 1 \in G
  <2>1. SUFFICES ASSUME j + 1 < height PROVE p \in rng[w.pages[height - (j + 1)]]
    OBVIOUS
  <2> DEFINE k == height - (j + 1)  n == w.pages[k]  i == w.pos[k]  c == w.pages[k + 1]
  <2>2. k \in 1 .. height - 1 /\ k + 1 = height - j /\ k \in 1 .. height /\ height - k + 1 > 1
        /\ j < height
    BY <1>1, <2>1
  <2>3. p \in rng[c]
    BY <1>4, <2>2
  <2> HIDE DEF k
  <2>4. /\ n \in DOMAIN node /\ lev[n] = height - k + 1 /\ i \in 0 .. Len(node[n].data)
        /\ c = node[n].children[i + 1]
    BY <2>2 DEF PathOK
  <2> HIDE DEF n, i, c
  <2>5. Below(DOMAIN node, lev, rng, node[n].children[i + 1], node[n].data, i, lev[n], rng[n])
    BY <1>1, <2>2, <2>4, ChildFacts
  <2>6. p \in rng[n]
    BY <2>3, <2>4, <2>5 DEF Below
  <2>. QED BY <2>6 DEF n, k
<1>5. Nat \subseteq G
  <2> HIDE DEF G
  <2>. QED BY <1>3, <1>4, Induction
<1>6. ASSUME NEW k \in 1 .. height PROVE p \in rng[w.pages[k]]
  <2>1. height - k \in Nat /\ height - k < height /\ height - (height - k) = k
    BY <1>1
  <2>2. height - k \in G
    BY <1>5, <2>1
  <2>. QED BY <2>1, <2>2
<1>7. ASSUME NEW k \in 1 .. height PROVE v.pages[k] = w.pages[k]
  <2>1. /\ v.pages[k] \in DOMAIN node /\ lev[v.pages[k]] = height - k + 1
        /\ w.pages[k] \in DOMAIN node /\ lev[w.pages[k]] = height - k + 1
    BY <1>2 DEF PathOK
  <2>2. p \in rng[v.pages[k]] /\ p \in rng[w.pages[k]]
    BY <1>2, <1>6
  <2>. QED BY <1>1, <2>1, <2>2, CellsDisjoint
<1>8. ASSUME NEW k \in 1 .. height - 1 PROVE v.pos[k] = w.pos[k]
  <2> DEFINE n == w.pages[k]  d == node[n].data  i == v.pos[k]  j == w.pos[k]
  <2>1. k \in 1 .. height /\ k + 1 \in 1 .. height /\ height - k + 1 > 1
    BY <1>1
  <2>2. v.pages[k] = n /\ v.pages[k + 1] = w.pages[k + 1] /\ p \in rng[n]
        /\ p \in rng[w.pages[k + 1]]
    BY <1>6, <1>7, <2>1
  <2>3. /\ n \in DOMAIN node /\ lev[n] = height - k + 1
        /\ i \in 0 .. Len(d) /\ j \in 0 .. Len(d)
        /\ v.pages[k + 1] = node[n].children[i + 1]
        /\ w.pages[k + 1] = node[n].children[j + 1]
    <3>1. /\ n \in DOMAIN node /\ lev[n] = height - k + 1 /\ j \in 0 .. Len(d)
          /\ w.pages[k + 1] = node[n].children[j + 1]
      BY <2>1 DEF PathOK
    <3>2. i \in 0 .. Len(node[v.pages[k]].data) /\ v.pages[k + 1] = node[v.pages[k]].children[i + 1]
      BY <1>2 DEF PathOK
    <3>. QED BY <2>2, <3>1, <3>2
  <2> HIDE DEF n, i, j
  <2>4. /\ Below(DOMAIN node, lev, rng, node[n].children[i + 1], d, i, lev[n], rng[n])
        /\ Below(DOMAIN node, lev, rng, node[n].children[j + 1], d, j, lev[n], rng[n])
    BY <1>1, <2>1, <2>3, ChildFacts
  <2>5. InSlot(d, i, p) /\ InSlot(d, j, p)
    BY <2>2, <2>3, <2>4 DEF Below
  <2>6. d \in Seq(Int) /\ IsAscending(d)
    BY <1>1, <2>3 DEF NodesOK, NodeOK, Keys
  <2>7. i = j
    BY <2>3, <2>5, <2>6, SlotUnique
  <2>. QED BY <2>7 DEF i, j
<1>9. /\ v.pages \in [1 .. height -> Nat] /\ w.pages \in [1 .. height -> Nat]
      /\ v.pos \in [1 .. height - 1 -> Nat] /\ w.pos \in [1 .. height - 1 -> Nat]
  BY <1>2 DEF PathOK
<1>10. v.pages = w.pages /\ v.pos = w.pos
  <2> DEFINE a == v.pages  b == w.pages  c == v.pos  e == w.pos
  <2>1. a \in [1 .. height -> Nat] /\ b \in [1 .. height -> Nat] /\ \A k \in 1 .. height : a[k] = b[k]
    BY <1>7, <1>9
  <2>2. /\ c \in [1 .. height - 1 -> Nat] /\ e \in [1 .. height - 1 -> Nat]
        /\ \A k \in 1 .. height - 1 : c[k] = e[k]
    BY <1>8, <1>9
  <2> DEFINE A == 1 .. height  C == 1 .. height - 1
  <2>3. /\ a \in [A -> Nat] /\ b \in [A -> Nat] /\ \A k \in A : a[k] = b[k]
        /\ c \in [C -> Nat] /\ e \in [C -> Nat] /\ \A k \in C : c[k] = e[k]
    BY <2>1, <2>2
  <2> HIDE DEF a, b, c, e, A, C
  <2>4. a = b
    BY ONLY <2>3, SameFunction
  <2>5. c = e
    BY ONLY <2>3, SameFunction
  <2>. QED BY <2>4, <2>5 DEF a, b, c, e
<1>. QED BY <1>10 DEF v

-----------------------------------------------------------------------------
(***************************************************************************)
(* An entry at its leaf.                                                   *)
(***************************************************************************)

AtLeafOf(lev, rng, w, n, p) ==
  /\ PathOK(w, height, node, root, height, lev)
  /\ n = w.pages[height] /\ n = leaf_of(w)
  /\ height \in Nat /\ height > 0
  /\ n \in DOMAIN node /\ lev[n] = 1 /\ p \in rng[n] /\ rng[n] \subseteq Int
  /\ node[n] \in NodeType /\ node[n].children = <<>>
  /\ Keys(node[n].data, rng[n]) /\ Holds(stored, node[n].data, rng[n])
  /\ \A m \in DOMAIN node : Fits(node, lev, build, m)

(* The path in work, when nothing is due.                                  *)
LEMMA KeptPath ==
  ASSUME NEW lev, NEW rng,
         FlushOK(node, root, height, path, pending, stored, build, lev, rng),
         pending = NoRepair, path # NoPath
  PROVE  PathOK(path, height, node, root, height, lev)
<1>1. Working(node, root, height, path, pending, build, lev)
  BY DEF FlushOK
<1>2. ~ PathOK(path, pending.level, node, root, height, lev)
        \/ ~ (pending = [kind |-> pending.kind, level |-> pending.level])
  BY DEF PathOK, NoRepair
<1>. QED BY <1>1, <1>2 DEF Working

(* What is known of the last page of a path.                               *)
LEMMA PathLeaf ==
  ASSUME NEW lev, NEW rng,
         FlushOK(node, root, height, path, pending, stored, build, lev, rng),
         pending = NoRepair, height > 0,
         NEW w, PathOK(w, height, node, root, height, lev), NEW p, p \in rng[w.pages[height]]
  PROVE  AtLeafOf(lev, rng, w, leaf_of(w), p)
<1> DEFINE n == w.pages[height]
<1>1. /\ Cells(node, height, lev, rng) /\ NodesOK(node, stored, lev, rng) /\ height \in Nat
      /\ \A m \in DOMAIN node : Fits(node, lev, build, m)
  BY DEF FlushOK, Shape, Cells
<1>2. height \in 1 .. height /\ height - height + 1 = 1
  BY <1>1
<1>3. n \in DOMAIN node /\ lev[n] = 1
  BY <1>2 DEF PathOK
<1>4. leaf_of(w) = n
  BY <1>1, LeafOfPath DEF PathOK
<1>5. node[n] \in NodeType /\ rng[n] \subseteq Int
  BY <1>1, <1>3, CellFacts
<1>6. /\ node[n].children = <<>>
      /\ Keys(node[n].data, rng[n]) /\ Holds(stored, node[n].data, rng[n])
  BY <1>1, <1>3 DEF NodesOK, NodeOK
<1>7. p \in rng[n]
  OBVIOUS
<1> HIDE DEF n
<1>8. n = w.pages[height]
  BY DEF n
<1>. QED BY <1>1, <1>3, <1>4, <1>5, <1>6, <1>7, <1>8 DEF AtLeafOf

(* The entry's pair is in the range of the leaf that its path leads to.    *)
LEMMA EntryFacts ==
  ASSUME NEW lev, NEW rng,
         FlushOK(node, root, height, path, pending, stored, build, lev, rng),
         NEW p \in Int, Reaches(p)
  PROVE  AtLeafOf(lev, rng, PathOf(p), leaf_of(PathOf(p)), p)
<1>1. pending = NoRepair /\ height > 0
  BY DEF Reaches
<1>2. Shape(node, root, height, stored, lev, rng)
  BY DEF FlushOK
<1>3. CASE path = NoPath
  <2>1. height \in 1 .. height
    <3>1. height \in Nat
      BY <1>2 DEF Shape, Cells
    <3>. QED BY <1>1, <3>1
  <2>2. /\ PathOK(find_path(p), height, node, root, height, lev)
        /\ p \in rng[find_path(p).pages[height]]
    BY <1>1, <1>2, <2>1, Descent
  <2>. QED BY <1>1, <1>3, <2>2, PathLeaf DEF PathOf
<1>4. CASE path # NoPath
  <2> DEFINE w == path  n == w.pages[height]  d == node[n].data
  <2>1. PathOK(w, height, node, root, height, lev)
    BY <1>1, <1>4, KeptPath
  <2>2. Cells(node, height, lev, rng) /\ NodesOK(node, stored, lev, rng) /\ height \in Nat
    BY <1>2 DEF Shape, Cells
  <2>3. height \in 1 .. height /\ height - height + 1 = 1
    BY <1>1, <2>2
  <2>4. n \in DOMAIN node /\ lev[n] = 1
    BY <2>1, <2>3 DEF PathOK
  <2>5. leaf_of(w) = n
    BY <2>1, <2>2, LeafOfPath DEF PathOK
  <2>6. d # <<>> /\ d[1] <= p /\ p <= Last(d)
    BY <1>4, <2>5 DEF Reaches, InLeaf
  <2>7. Keys(d, rng[n]) /\ IsRange(rng[n])
    BY <2>2, <2>4, CellFacts DEF NodesOK, NodeOK
  <2> HIDE DEF d, n
  <2>8. d \in Seq(Int) /\ Len(d) > 0 /\ Len(d) \in Nat
    <3>1. d \in Seq(Int)
      BY <2>7 DEF Keys
    <3>. QED BY <2>6, <3>1, LenProperties, EmptySeq
  <2>9. d[1] \in rng[n] /\ d[Len(d)] \in rng[n]
    BY <2>7, <2>8 DEF Keys
  <2>10. p <= d[Len(d)]
    BY <2>6 DEF Last
  <2>11. p \in rng[n]
    BY <2>6, <2>7, <2>9, <2>10 DEF IsRange
  <2>12. p \in rng[path.pages[height]]
    BY <2>11 DEF n
  <2>. QED BY <1>1, <1>4, <2>1, <2>12, PathLeaf DEF PathOf
<1>. QED BY <1>3, <1>4

(* What becomes of the path and of the size of the leaf.                   *)
EntryDone(w, sz, b, ht, pend2, w2) ==
  \/ /\ pend2 = NoRepair
     /\ w2 = NoPath \/ \E a : w2 = [w EXCEPT !.after = a]
     /\ sz \in 1 .. b.leaf_split
  \/ /\ pend2 = [kind |-> pend2.kind, level |-> ht] /\ w2 = w
     /\ DueSize(pend2.kind, sz, b, 1, ht)

(* An entry changes its leaf.                                              *)
LEMMA LeafEntry ==
  ASSUME NEW lev, NEW rng,
         FlushOK(node, root, height, path, pending, stored, build, lev, rng),
         NEW w, NEW n, NEW p, AtLeafOf(lev, rng, w, n, p),
         NEW nd2, NEW st2, LeafChanged(node, stored, rng, n, nd2, st2),
         NEW pend2, NEW w2, EntryDone(w, Len(nd2[n].data), build, height, pend2, w2)
  PROVE  FlushOK(nd2, root, height, w2, pend2, st2, build, lev, rng)
<1>1. /\ PathOK(w, height, node, root, height, lev) /\ n = w.pages[height]
      /\ n \in DOMAIN node /\ lev[n] = 1 /\ height \in Nat /\ height > 0
      /\ \A m \in DOMAIN node : Fits(node, lev, build, m)
  BY DEF AtLeafOf
<1>2. Shape(nd2, root, height, st2, lev, rng)
  BY <1>1, LeafTree DEF FlushOK
<1>3. DOMAIN nd2 = DOMAIN node /\ \A m \in DOMAIN node : m # n => nd2[m] = node[m]
  BY DEF LeafChanged
<1>4. PathOK(w, height, nd2, root, height, lev)
  <2>1. \A k \in 1 .. height - 1 : w.pages[k] \in DOMAIN node /\ w.pages[k] # n
    <3>1. ASSUME NEW k \in 1 .. height - 1 PROVE w.pages[k] \in DOMAIN node /\ w.pages[k] # n
      <4>1. k \in 1 .. height /\ height - k + 1 # 1
        BY <1>1
      <4>2. w.pages[k] \in DOMAIN node /\ lev[w.pages[k]] = height - k + 1
        BY <1>1, <4>1 DEF PathOK
      <4>. QED BY <1>1, <4>1, <4>2
    <3>. QED BY <3>1
  <2>2. \A k \in 1 .. height - 1 : nd2[w.pages[k]] = node[w.pages[k]]
    BY <1>3, <2>1
  <2>3. /\ height \in 1 .. height
        /\ w = [pages |-> w.pages, pos |-> w.pos, after |-> w.after]
        /\ w.pages \in [1 .. height -> Nat] /\ w.pos \in [1 .. height - 1 -> Nat]
        /\ w.pages[1] = root
    BY <1>1 DEF PathOK
  <2>4. ASSUME NEW k \in 1 .. height
        PROVE  w.pages[k] \in DOMAIN nd2 /\ lev[w.pages[k]] = height - k + 1
    BY <1>1, <1>3 DEF PathOK
  <2>5. ASSUME NEW k \in 1 .. height - 1
        PROVE  /\ w.pos[k] \in 0 .. Len(nd2[w.pages[k]].data)
               /\ w.pages[k + 1] = nd2[w.pages[k]].children[w.pos[k] + 1]
    <3>1. /\ w.pos[k] \in 0 .. Len(node[w.pages[k]].data)
          /\ w.pages[k + 1] = node[w.pages[k]].children[w.pos[k] + 1]
      BY <1>1 DEF PathOK
    <3>2. nd2[w.pages[k]] = node[w.pages[k]]
      BY <2>2
    <3>. QED BY <3>1, <3>2
  <2>. QED BY <2>3, <2>4, <2>5 DEF PathOK
<1>5. CASE /\ pend2 = NoRepair
           /\ w2 = NoPath \/ \E a : w2 = [w EXCEPT !.after = a]
           /\ Len(nd2[n].data) \in 1 .. build.leaf_split
  <2>1. w2 # NoPath => PathOK(w2, height, nd2, root, height, lev)
    <3>1. SUFFICES ASSUME NEW a, w2 = [w EXCEPT !.after = a]
                   PROVE  PathOK(w2, height, nd2, root, height, lev)
      BY <1>5
    <3>2. w = [pages |-> w.pages, pos |-> w.pos, after |-> w.after]
      BY <1>1 DEF PathOK
    <3>3. w2 = [pages |-> w.pages, pos |-> w.pos, after |-> a]
      BY <3>1, <3>2
    <3>4. /\ w2.pages = w.pages /\ w2.pos = w.pos /\ w2.after = a
          /\ w2 = [pages |-> w2.pages, pos |-> w2.pos, after |-> w2.after]
      BY <3>3
    <3>. QED BY <1>4, <3>4 DEF PathOK
  <2>2. Working(nd2, root, height, w2, pend2, build, lev)
    BY <1>5, <2>1 DEF Working
  <2>3. \A m \in DOMAIN nd2 : Fits(nd2, lev, build, m)
    BY <1>1, <1>3, <1>5 DEF Fits, Limit
  <2>. QED BY <1>2, <2>2, <2>3 DEF FlushOK
<1>6. CASE /\ pend2 = [kind |-> pend2.kind, level |-> height] /\ w2 = w
           /\ DueSize(pend2.kind, Len(nd2[n].data), build, 1, height)
  <2>1. pend2.level = height /\ pend2 # NoRepair
    <3>1. pend2.kind \in {"overflow", "underflow"}
      BY <1>6 DEF DueSize
    <3>. QED BY <1>6, <3>1 DEF NoRepair
  <2>2. Working(nd2, root, height, w2, pend2, build, lev)
    BY <1>1, <1>4, <1>6, <2>1 DEF Working
  <2>3. \A m \in DOMAIN nd2 : m = w2.pages[pend2.level] \/ Fits(nd2, lev, build, m)
    BY <1>1, <1>3, <1>6, <2>1 DEF Fits
  <2>. QED BY <1>2, <2>1, <2>2, <2>3 DEF FlushOK
<1>. QED BY <1>5, <1>6 DEF EntryDone

(* An entry that changes nothing.                                          *)
LEMMA EntryWithoutChange ==
  ASSUME IInv, NEW p \in Pairs, InsertPresent(p) \/ DeleteAbsent(p)
  PROVE  IInv'
<1>1. PICK lev, rng : FlushOK(node, root, height, path, pending, stored, build, lev, rng)
  BY DEF IInv
<1>2. build \in Builds /\ stored \subseteq Pairs /\ p \in Int
  BY BuildsAssumption DEF IInv
<1> DEFINE w == PathOf(p)  n == leaf_of(w)
<1>3. Reaches(p) /\ Settled(w, p, node[n].data)
      /\ UNCHANGED <<node, root, height, stored, build>>
  BY DEF InsertPresent, DeleteAbsent, NoChange
<1>4. AtLeafOf(lev, rng, w, n, p)
  BY <1>1, <1>2, <1>3, EntryFacts
<1> HIDE DEF w, n
<1>5. LeafChanged(node, stored, rng, n, node, stored)
  BY <1>4 DEF AtLeafOf, LeafChanged
<1>6. Len(node[n].data) \in 1 .. build.leaf_split
  BY <1>4 DEF AtLeafOf, Fits, Limit
<1>7. EntryDone(w, Len(node[n].data), build, height, pending', path')
  BY <1>3, <1>6 DEF Settled, EntryDone
<1>8. FlushOK(node, root, height, path', pending', stored, build, lev, rng)
  BY ONLY <1>1, <1>4, <1>5, <1>7, LeafEntry
<1>. QED BY <1>2, <1>3, <1>8 DEF IInv

(* A leaf gets other pairs.                                                *)
DataSet(nd2, nd, n, d2) == nd2 = [nd EXCEPT ![n].data = d2]

LEMMA LeafUpdated ==
  ASSUME NEW lev, NEW rng, NEW w, NEW n, NEW p, AtLeafOf(lev, rng, w, n, p),
         NEW d2, d2 \in Seq(Int), Keys(d2, rng[n]), NEW st2, Holds(st2, d2, rng[n]),
         \A q \in Int : q # p => (q \in st2 <=> q \in stored),
         NEW nd2, DataSet(nd2, node, n, d2)
  PROVE  LeafChanged(node, stored, rng, n, nd2, st2) /\ nd2[n].data = d2
<1>1. /\ n \in DOMAIN node /\ p \in rng[n]
      /\ node[n] \in NodeType /\ node[n].children = <<>>
  BY DEF AtLeafOf
<1>2. /\ DOMAIN nd2 = DOMAIN node /\ \A m \in DOMAIN node : m # n => nd2[m] = node[m]
      /\ nd2[n] = [node[n] EXCEPT !.data = d2]
  BY <1>1 DEF DataSet
<1>3. /\ nd2[n] \in NodeType /\ nd2[n].data = d2 /\ nd2[n].children = <<>>
      /\ nd2[n].sibling = node[n].sibling
  BY <1>1, <1>2 DEF NodeType
<1>4. \A q \in Int : q \notin rng[n] => (q \in st2 <=> q \in stored)
  BY <1>1
<1>. QED BY <1>2, <1>3, <1>4 DEF LeafChanged

(* Where an entry's pair is in the leaf, or would be.                      *)
LEMMA PlaceInLeaf ==
  ASSUME NEW lev, NEW rng, NEW w, NEW n, NEW p \in Int, AtLeafOf(lev, rng, w, n, p)
  PROVE  LET d == node[n].data  k == lower_bound_in_leaf(n, p)
         IN /\ d \in Seq(Int) /\ Len(d) \in Nat /\ k \in 0 .. Len(d)
            /\ k > 0 => d[k] < p
            /\ p \notin ToSet(d) => (k < Len(d) => p < d[k + 1])
            /\ p \in ToSet(d) => k + 1 \in 1 .. Len(d) /\ d[k + 1] = p
<1> DEFINE d == node[n].data  k == lower_bound_in_leaf(n, p)
<1>1. d \in Seq(Int) /\ IsAscending(d)
  BY DEF AtLeafOf, Keys
<1>2. Len(d) \in Nat /\ \A j \in 1 .. Len(d) : d[j] \in Int
  BY <1>1, LenProperties, ElementOfSeq
<1>3. k \in 0 .. Len(d) /\ (k > 0 => d[k] < p) /\ (k < Len(d) => p <= d[k + 1])
  BY <1>1, LeafSearch
<1>4. p \in ToSet(d) <=> \E j \in 1 .. Len(d) : d[j] = p
  BY <1>1, ToSetFacts
<1> HIDE DEF d, k
<1>5. p \notin ToSet(d) => (k < Len(d) => p < d[k + 1])
  <2>1. k < Len(d) => k + 1 \in 1 .. Len(d)
    BY <1>2, <1>3
  <2>. QED BY <1>2, <1>3, <1>4, <2>1
<1>6. ASSUME p \in ToSet(d) PROVE k + 1 \in 1 .. Len(d) /\ d[k + 1] = p
  <2>1. PICK j \in 1 .. Len(d) : d[j] = p
    BY <1>4, <1>6
  <2>2. ~ (j <= k)
    <3>1. SUFFICES ASSUME j <= k PROVE FALSE
      OBVIOUS
    <3>2. k \in 1 .. Len(d) /\ (j = k \/ j < k)
      BY <1>2, <1>3, <3>1
    <3>3. d[j] <= d[k]
      BY <1>1, <1>2, <3>2 DEF IsAscending
    <3>. QED BY <1>2, <1>3, <2>1, <3>2, <3>3
  <2>3. k + 1 \in 1 .. Len(d) /\ (k + 1 = j \/ k + 1 < j) /\ k < Len(d)
    BY <1>2, <1>3, <2>2
  <2>4. d[k + 1] <= d[j]
    BY <1>1, <1>2, <2>3 DEF IsAscending
  <2>. QED BY <1>2, <1>3, <2>1, <2>3, <2>4
<1>. QED BY <1>1, <1>2, <1>3, <1>5, <1>6 DEF d, k

LEMMA EntryInserts ==
  ASSUME IInv, NEW p \in Pairs, Insert(p)
  PROVE  IInv'
<1>1. PICK lev, rng : FlushOK(node, root, height, path, pending, stored, build, lev, rng)
  BY DEF IInv
<1>2. build \in Builds /\ stored \subseteq Pairs /\ p \in Int
  BY BuildsAssumption DEF IInv
<1> DEFINE w == PathOf(p)  n == leaf_of(w)  d == node[n].data  k == lower_bound_in_leaf(n, p)
           d2 == InsertAt(d, k + 1, p)
<1>3. /\ Reaches(p) /\ p \notin ToSet(d) /\ node' = [node EXCEPT ![n].data = d2]
      /\ IF Len(d2) > LeafSplit THEN Repair(w, "overflow", height) ELSE Settled(w, p, d2)
      /\ stored' = stored \cup {p} /\ UNCHANGED <<root, height, build>>
  BY DEF Insert
<1>4. AtLeafOf(lev, rng, w, n, p)
  BY <1>1, <1>2, <1>3, EntryFacts
<1> HIDE DEF w, n
<1>5. /\ d \in Seq(Int) /\ Len(d) \in Nat /\ k \in 0 .. Len(d)
      /\ k > 0 => d[k] < p
      /\ k < Len(d) => p < d[k + 1]
  BY <1>2, <1>3, <1>4, PlaceInLeaf
<1>6. /\ rng[n] \subseteq Int /\ Keys(d, rng[n]) /\ Holds(stored, d, rng[n]) /\ p \in rng[n]
      /\ Len(d) \in 1 .. build.leaf_split
  BY <1>4 DEF AtLeafOf, Fits, Limit
<1> HIDE DEF d, k
<1>7. d2 \in Seq(Int) /\ Len(d2) = Len(d) + 1 /\ Inserted(d, k + 1, p, d2)
  <2>1. k + 1 \in 1 .. Len(d) + 1
    BY <1>5
  <2>. QED BY <1>2, <1>5, <2>1, InsertedFacts
<1> HIDE DEF d2
<1>8. Keys(d2, rng[n]) /\ Holds(stored \cup {p}, d2, rng[n])
  BY <1>5, <1>6, <1>7, LeafInsert
<1>9. LeafChanged(node, stored, rng, n, node', stored') /\ node'[n].data = d2
  <2>1. \A q \in Int : q # p => (q \in stored' <=> q \in stored)
    BY <1>3
  <2>2. Holds(stored', d2, rng[n])
    BY <1>3, <1>8
  <2>3. DataSet(node', node, n, d2) /\ d2 \in Seq(Int) /\ Keys(d2, rng[n])
    BY <1>3, <1>7, <1>8 DEF DataSet
  <2>. QED BY ONLY <1>4, <2>1, <2>2, <2>3, LeafUpdated
<1>10. EntryDone(w, Len(d2), build, height, pending', path')
  <2>1. build.leaf_split \in Nat
    BY <1>2, BuildFacts
  <2>2. CASE Len(d2) > LeafSplit
    <3>1. Len(d2) = build.leaf_split + 1
      BY <1>5, <1>6, <1>7, <2>1, <2>2 DEF LeafSplit
    <3>2. pending' = [kind |-> "overflow", level |-> height] /\ path' = w
      BY <1>3, <2>2 DEF Repair
    <3>. QED BY <3>1, <3>2 DEF EntryDone, DueSize, Limit
  <2>3. CASE ~ (Len(d2) > LeafSplit)
    <3>1. Len(d2) \in 1 .. build.leaf_split
      BY <1>5, <1>6, <1>7, <2>1, <2>3 DEF LeafSplit
    <3>. QED BY <1>3, <2>3, <3>1 DEF Settled, EntryDone
  <2>. QED BY <2>2, <2>3
<1>11. EntryDone(w, Len(node'[n].data), build, height, pending', path')
  BY <1>9, <1>10
<1>12. FlushOK(node', root, height, path', pending', stored', build, lev, rng)
  BY ONLY <1>1, <1>4, <1>9, <1>11, LeafEntry
<1>. QED BY <1>2, <1>3, <1>12 DEF IInv

LEMMA EntryDeletes ==
  ASSUME IInv, NEW p \in Pairs, Delete(p)
  PROVE  IInv'
<1>1. PICK lev, rng : FlushOK(node, root, height, path, pending, stored, build, lev, rng)
  BY DEF IInv
<1>2. build \in Builds /\ stored \subseteq Pairs /\ p \in Int
  BY BuildsAssumption DEF IInv
<1> DEFINE w == PathOf(p)  n == leaf_of(w)  d == node[n].data  k == lower_bound_in_leaf(n, p)
           d2 == RemoveAt(d, k + 1)  least == IF height = 1 THEN 1 ELSE LeafMerge
<1>3. /\ Reaches(p) /\ p \in ToSet(d) /\ node' = [node EXCEPT ![n].data = d2]
      /\ IF Len(d2) < least THEN Repair(w, "underflow", height) ELSE Settled(w, p, d2)
      /\ stored' = stored \ {p} /\ UNCHANGED <<root, height, build>>
  BY DEF Delete
<1>4. AtLeafOf(lev, rng, w, n, p)
  BY <1>1, <1>2, <1>3, EntryFacts
<1> HIDE DEF w, n
<1>5. /\ d \in Seq(Int) /\ Len(d) \in Nat /\ k \in 0 .. Len(d)
      /\ k + 1 \in 1 .. Len(d) /\ d[k + 1] = p
  BY <1>2, <1>3, <1>4, PlaceInLeaf
<1>6. /\ rng[n] \subseteq Int /\ Keys(d, rng[n]) /\ Holds(stored, d, rng[n]) /\ p \in rng[n]
      /\ Len(d) \in 1 .. build.leaf_split
  BY <1>4 DEF AtLeafOf, Fits, Limit
<1> HIDE DEF d, k
<1>7. d2 \in Seq(Int) /\ Len(d2) = Len(d) - 1 /\ Inserted(d2, k + 1, p, d)
  <2> DEFINE h == k + 1
  <2> HIDE DEF h
  <2>1. h \in 1 .. Len(d) /\ d[h] = p
    BY <1>5 DEF h
  <2>2. RemoveAt(d, h) \in Seq(Int) /\ Len(RemoveAt(d, h)) = Len(d) - 1
        /\ Inserted(RemoveAt(d, h), h, d[h], d)
    BY ONLY <1>5, <2>1, RemovedFacts
  <2>. QED BY <2>1, <2>2 DEF h
<1> HIDE DEF d2
<1>8. Keys(d2, rng[n]) /\ Holds(stored \ {p}, d2, rng[n])
  <2>1. k \in 0 .. Len(d2)
    BY <1>5, <1>7
  <2>. QED BY <1>6, <1>7, <2>1, LeafRemove
<1>9. LeafChanged(node, stored, rng, n, node', stored') /\ node'[n].data = d2
  <2>1. \A q \in Int : q # p => (q \in stored' <=> q \in stored)
    BY <1>3
  <2>2. Holds(stored', d2, rng[n])
    BY <1>3, <1>8
  <2>3. DataSet(node', node, n, d2) /\ d2 \in Seq(Int) /\ Keys(d2, rng[n])
    BY <1>3, <1>7, <1>8 DEF DataSet
  <2>. QED BY ONLY <1>4, <2>1, <2>2, <2>3, LeafUpdated
<1>10. EntryDone(w, Len(d2), build, height, pending', path')
  <2>1. build.leaf_split \in Nat /\ build.leaf_merge \in Nat \ {0}
    BY <1>2, BuildFacts
  <2>2. least \in Nat \ {0} /\ least = Least(build, 1, height)
    BY <2>1 DEF Least, LeafMerge
  <2> HIDE DEF least
  <2>3. CASE Len(d2) < least
    <3>1. pending' = [kind |-> "underflow", level |-> height] /\ path' = w
      BY <1>3, <2>3 DEF Repair
    <3>. QED BY <2>2, <2>3, <3>1 DEF EntryDone, DueSize
  <2>4. CASE ~ (Len(d2) < least)
    <3>1. Len(d2) \in 1 .. build.leaf_split
      <4> DEFINE a == Len(d2)  b == Len(d)  c == build.leaf_split
      <4>1. /\ a = b - 1 /\ b \in 1 .. c /\ c \in Nat /\ least \in Nat \ {0}
            /\ ~ (a < least)
        BY <1>6, <1>7, <2>1, <2>2, <2>4
      <4> HIDE DEF a, b, c
      <4>2. a \in 1 .. c
        BY ONLY <4>1
      <4>. QED BY <4>2 DEF a, c
    <3>. QED BY <1>3, <2>4, <3>1 DEF Settled, EntryDone
  <2>. QED BY <2>3, <2>4
<1>11. EntryDone(w, Len(node'[n].data), build, height, pending', path')
  BY <1>9, <1>10
<1>12. FlushOK(node', root, height, path', pending', stored', build, lev, rng)
  BY ONLY <1>1, <1>4, <1>9, <1>11, LeafEntry
<1>. QED BY <1>2, <1>3, <1>12 DEF IInv

(* A tree of one leaf.                                                     *)
LEMMA SingleLeaf ==
  ASSUME NEW nd, NEW t, t \in Nat \ {0}, DOMAIN nd = {t}, NEW d, nd[t] = LeafNode(d, NoPage),
         NEW st, Keys(d, Int), Holds(st, d, Int)
  PROVE  \E lev, rng : Shape(nd, t, 1, st, lev, rng) /\ lev[t] = 1
<1> DEFINE lev == [n \in {t} |-> 1]  rng == [n \in {t} |-> Int]
<1>1. nd[t] \in NodeType /\ nd[t].data = d /\ nd[t].children = <<>> /\ nd[t].sibling = NoPage
  BY LeafNodeFacts DEF Keys
<1>2. IsRange(Int)
  <2>1. 0 \in Int
    OBVIOUS
  <2>. QED BY <2>1 DEF IsRange
<1>3. Cells(nd, 1, lev, rng)
  <2>1. IsFiniteSet(DOMAIN nd) /\ DOMAIN nd \subseteq Nat \ {0}
    BY FS_Singleton
  <2>2. \A n \in DOMAIN nd : nd[n] \in NodeType /\ lev[n] \in 1 .. 1 /\ IsRange(rng[n])
    BY <1>1, <1>2
  <2>3. \A k \in 1 .. 1 : \A p \in Int : \E n \in DOMAIN nd : lev[n] = k /\ p \in rng[n]
    OBVIOUS
  <2>4. \A m, n \in DOMAIN nd : m = n
    OBVIOUS
  <2> HIDE DEF lev, rng
  <2>. QED BY <2>1, <2>2, <2>3, <2>4 DEF Cells
<1>4. NodeOK(nd, st, lev, rng, t)
  <2>1. lev[t] = 1 /\ rng[t] = Int
    OBVIOUS
  <2> HIDE DEF lev, rng
  <2>2. NextOK(nd, lev, rng, t)
    BY <1>1, <2>1 DEF NextOK
  <2>. QED BY <1>1, <2>1, <2>2 DEF NodeOK
<1>5. NodesOK(nd, st, lev, rng)
  BY <1>4 DEF NodesOK
<1>6. t \in DOMAIN nd /\ lev[t] = 1 /\ rng[t] = Int
  OBVIOUS
<1> HIDE DEF lev, rng
<1>7. Shape(nd, t, 1, st, lev, rng)
  BY <1>3, <1>5, <1>6 DEF Shape
<1>. QED BY <1>6, <1>7

(* A tree with no path in work.                                            *)
LEMMA Idle ==
  ASSUME NEW nd, NEW rt, NEW ht, NEW st, NEW lev, NEW rng, NEW b,
         Shape(nd, rt, ht, st, lev, rng), \A n \in DOMAIN nd : Fits(nd, lev, b, n)
  PROVE  FlushOK(nd, rt, ht, NoPath, NoRepair, st, b, lev, rng)
BY DEF FlushOK, Working

(* Nothing is in work while the tree is empty.                             *)
LEMMA EmptyFacts ==
  ASSUME IInv, height = 0
  PROVE  /\ path = NoPath /\ pending = NoRepair /\ stored = {} /\ DOMAIN node = {}
         /\ root = NoPage
<1>1. PICK lev, rng : FlushOK(node, root, height, path, pending, stored, build, lev, rng)
  BY DEF IInv
<1>2. \A K : ~ PathOK(path, K, node, root, height, lev)
  BY DEF PathOK
<1>. QED BY <1>1, <1>2 DEF FlushOK, Working, Shape

(* The first pair of an empty tree.                                        *)
LEMMA EntryIntoEmpty ==
  ASSUME IInv, NEW p \in Pairs, InsertIntoEmpty(p)
  PROVE  IInv'
<1>1. /\ height = 0 /\ node' = With(node, NewPage(node), LeafNode(<<p>>, NoPage))
      /\ root' = NewPage(node) /\ height' = 1 /\ stored' = stored \cup {p}
      /\ UNCHANGED <<path, pending, build>>
  BY DEF InsertIntoEmpty
<1>2. /\ path = NoPath /\ pending = NoRepair /\ stored = {} /\ DOMAIN node = {}
  BY <1>1, EmptyFacts
<1>3. build \in Builds /\ p \in Int
  BY BuildsAssumption DEF IInv
<1> DEFINE t == NewPage(node)  d == <<p>>
<1>4. t \in Nat \ {0}
  BY <1>2, NewPageFacts, FS_EmptySet
<1> HIDE DEF t
<1>5. DOMAIN node' = {t} /\ node'[t] = LeafNode(d, NoPage)
  BY <1>1, <1>2 DEF With, t
<1>6. d \in Seq(Int) /\ Len(d) = 1 /\ d[1] = p
  BY <1>3
<1> HIDE DEF d
<1>7. Keys(d, Int)
  BY <1>3, <1>6 DEF Keys, IsAscending
<1>8. Holds({p}, d, Int)
  BY <1>6 DEF Holds
<1>9. PICK lev, rng : Shape(node', t, 1, {p}, lev, rng) /\ lev[t] = 1
  BY <1>4, <1>5, <1>7, <1>8, SingleLeaf
<1>10. \A n \in DOMAIN node' : Fits(node', lev, build, n)
  <2>1. build.leaf_split \in Nat \ {0}
    BY <1>3, BuildFacts
  <2>2. node'[t].data = d
    BY <1>5, LeafNodeFacts
  <2>3. Limit(build, lev[t]) = build.leaf_split
    BY <1>9 DEF Limit
  <2>4. 1 \in 1 .. Limit(build, lev[t])
    BY <2>1, <2>3
  <2>5. Len(node'[t].data) \in 1 .. Limit(build, lev[t])
    BY <1>6, <2>2, <2>4
  <2>. QED BY <1>5, <2>5 DEF Fits
<1>11. FlushOK(node', t, 1, NoPath, NoRepair, {p}, build, lev, rng)
  BY <1>9, <1>10, Idle
<1>12. /\ root' = t /\ height' = 1 /\ path' = NoPath /\ pending' = NoRepair /\ stored' = {p}
       /\ build' = build
  BY <1>1, <1>2 DEF t
<1>. QED BY <1>3, <1>11, <1>12 DEF IInv

(* The program begins with an empty tree.                                  *)
LEMMA InitIInv == Init => IInv
<1> SUFFICES ASSUME Init PROVE IInv
  OBVIOUS
<1>1. /\ node = <<>> /\ root = NoPage /\ height = 0 /\ path = NoPath /\ pending = NoRepair
      /\ stored = {} /\ build \in Builds
  BY DEF Init
<1>2. DOMAIN node = {}
  BY <1>1
<1>3. Shape(node, root, height, stored, <<>>, <<>>)
  BY <1>1, <1>2, EmptyTree
<1>4. FlushOK(node, root, height, path, pending, stored, build, <<>>, <<>>)
  BY <1>1, <1>2, <1>3, Idle
<1>. QED BY <1>1, <1>4 DEF IInv

-----------------------------------------------------------------------------
(***************************************************************************)
(* The pairs of a set in their order.                                      *)
(***************************************************************************)

(* Every finite set can be listed in order.                                *)
LEMMA Listed ==
  ASSUME NEW S, S \subseteq Int, IsFiniteSet(S)
  PROVE  \E s : Keys(s, Int) /\ Holds(S, s, Int)
<1> DEFINE G == {n \in Nat : \A T \in SUBSET Int : IsFiniteSet(T) /\ Cardinality(T) = n =>
                               \E s : Keys(s, Int) /\ Holds(T, s, Int)}
<1>1. 0 \in G
  <2>1. SUFFICES ASSUME NEW T \in SUBSET Int, IsFiniteSet(T), Cardinality(T) = 0
                 PROVE  \E s : Keys(s, Int) /\ Holds(T, s, Int)
    OBVIOUS
  <2>2. T = {}
    BY <2>1, FS_EmptySet
  <2> DEFINE s == <<>>
  <2>3. s \in Seq(Int) /\ Len(s) = 0 /\ 1 .. 0 = {}
    OBVIOUS
  <2> HIDE DEF s
  <2>4. Keys(s, Int) /\ Holds(T, s, Int)
    BY <2>2, <2>3 DEF Keys, IsAscending, Holds
  <2>. QED BY <2>4
<1>2. ASSUME NEW n \in Nat, n \in G PROVE n + 1 \in G
  <2>1. SUFFICES ASSUME NEW T \in SUBSET Int, IsFiniteSet(T), Cardinality(T) = n + 1
                 PROVE  \E s : Keys(s, Int) /\ Holds(T, s, Int)
    OBVIOUS
  <2>2. T # {}
    BY <2>1, FS_EmptySet
  <2>3. PICK p \in T : TRUE
    BY <2>2
  <2> DEFINE U == T \ {p}
  <2>4. U \in SUBSET Int /\ IsFiniteSet(U) /\ Cardinality(U) = n
    BY <2>1, <2>3, FS_RemoveElement
  <2>5. PICK s : Keys(s, Int) /\ Holds(U, s, Int)
    BY <1>2, <2>4
  <2>6. s \in Seq(Int) /\ Len(s) \in Nat /\ p \in Int
    BY <2>5, LenProperties DEF Keys
  <2>7. PICK k \in 0 .. Len(s) : InSlot(s, k, p)
    BY <2>6, SlotExists
  <2>8. (k > 0 => s[k] < p) /\ (k < Len(s) => p < s[k + 1])
    <3>1. ASSUME k > 0 PROVE s[k] < p
      <4>1. k \in 1 .. Len(s) /\ s[k] <= p
        BY <2>6, <2>7, <3>1 DEF InSlot
      <4>2. s[k] \in Int
        BY <2>6, <4>1, ElementOfSeq
      <4>3. s[k] \in U
        BY <2>5, <4>1, <4>2 DEF Holds
      <4>. QED BY <2>6, <4>1, <4>2, <4>3
    <3>. QED BY <2>7, <3>1 DEF InSlot
  <2> DEFINE s2 == InsertAt(s, k + 1, p)
  <2>9. s2 \in Seq(Int) /\ Inserted(s, k + 1, p, s2)
    <3>1. k + 1 \in 1 .. Len(s) + 1
      BY <2>6
    <3>. QED BY <2>6, <3>1, InsertedFacts
  <2> HIDE DEF s2, U
  <2>10. Keys(s2, Int) /\ Holds(U \cup {p}, s2, Int)
    BY <2>5, <2>6, <2>8, <2>9, LeafInsert
  <2>11. U \cup {p} = T
    BY DEF U
  <2>. QED BY <2>10, <2>11
<1>3. Nat \subseteq G
  <2>. HIDE DEF G
  <2>. QED BY <1>1, <1>2, Induction
<1>4. Cardinality(S) \in Nat
  BY FS_CardinalityType
<1>. QED BY <1>3, <1>4

(* The number of elements that are smaller than one of an ascending list.  *)
LEMMA RankInList ==
  ASSUME NEW S, S \subseteq Int, NEW s, Keys(s, Int), Holds(S, s, Int)
  PROVE  /\ \A i \in 1 .. Len(s) : Cardinality({q \in S : q < s[i]}) = i - 1
         /\ Cardinality(S) = Len(s) /\ IsFiniteSet(S)
<1>1. s \in Seq(Int) /\ Len(s) \in Nat /\ IsAscending(s) /\ \A i \in 1 .. Len(s) : s[i] \in Int
  BY LenProperties DEF Keys
<1>2. \A p \in Int : p \in S <=> \E j \in 1 .. Len(s) : s[j] = p
  BY DEF Holds
<1>3. \A i, j \in 1 .. Len(s) : s[i] < s[j] <=> i < j
  <2>1. ASSUME NEW i \in 1 .. Len(s), NEW j \in 1 .. Len(s) PROVE s[i] < s[j] <=> i < j
    <3>1. i < j \/ i = j \/ j < i
      OBVIOUS
    <3>2. (i < j => s[i] < s[j]) /\ (j < i => s[j] < s[i])
      BY <1>1 DEF IsAscending
    <3>. QED BY <1>1, <3>1, <3>2
  <2>. QED BY <2>1
<1>4. ASSUME NEW m \in 0 .. Len(s), NEW T, T \subseteq Int,
             \A p \in Int : p \in T <=> \E j \in 1 .. m : s[j] = p
      PROVE  Cardinality(T) = m /\ IsFiniteSet(T)
  <2> DEFINE f == [j \in 1 .. m |-> s[j]]
  <2>1. \A j \in 1 .. m : j \in 1 .. Len(s)
    BY <1>1
  <2>2. \A j \in 1 .. m : s[j] \in T
    BY <1>1, <1>4, <2>1
  <2>3. f \in [1 .. m -> T]
    BY <2>2
  <2>4. \A i, j \in 1 .. m : f[i] = f[j] => i = j
    <3>1. ASSUME NEW i \in 1 .. m, NEW j \in 1 .. m, s[i] = s[j] PROVE i = j
      <4>1. i \in 1 .. Len(s) /\ j \in 1 .. Len(s) /\ ~ (s[i] < s[j]) /\ ~ (s[j] < s[i])
        BY <1>1, <2>1, <3>1
      <4>2. ~ (i < j) /\ ~ (j < i)
        BY <1>3, <4>1
      <4>. QED BY <4>2
    <3>. QED BY <3>1
  <2>5. \A p \in T : \E j \in 1 .. m : f[j] = p
    BY <1>4
  <2>6. f \in Bijection(1 .. m, T)
    BY <2>3, <2>4, <2>5 DEF Bijection, Injection, Surjection, IsInjective
  <2>7. IsFiniteSet(1 .. m) /\ Cardinality(1 .. m) = m
    <3>1. 1 \in Int /\ m \in Int /\ (1 > m => m = 0) /\ m - 1 + 1 = m
      BY <1>1
    <3>. QED BY <3>1, FS_Interval
  <2>8. ExistsBijection(1 .. m, T)
    BY <2>6 DEF ExistsBijection
  <2>. QED BY <2>7, <2>8, FS_Bijection
<1>5. Cardinality(S) = Len(s) /\ IsFiniteSet(S)
  <2>1. Len(s) \in 0 .. Len(s)
    BY <1>1
  <2>. QED BY <1>2, <1>4, <2>1
<1>6. ASSUME NEW i \in 1 .. Len(s) PROVE Cardinality({q \in S : q < s[i]}) = i - 1
  <2> DEFINE T == {q \in S : q < s[i]}
  <2>1. i - 1 \in 0 .. Len(s) /\ T \subseteq Int
    <3>1. T \subseteq Int
      OBVIOUS
    <3> HIDE DEF T
    <3>2. \A n \in Nat : \A h \in 1 .. n : h - 1 \in 0 .. n
      OBVIOUS
    <3>3. i - 1 \in 0 .. Len(s)
      BY <1>1, <3>2
    <3>. QED BY <3>1, <3>3
  <2>2. \A p \in Int : p \in T <=> \E j \in 1 .. i - 1 : s[j] = p
    <3>1. \A j \in 1 .. Len(s) : j \in 1 .. i - 1 <=> j < i
      OBVIOUS
    <3>2. \A j \in 1 .. i - 1 : j \in 1 .. Len(s)
      BY <1>1
    <3>. QED BY <1>2, <1>3, <3>1, <3>2
  <2> HIDE DEF T
  <2>3. Cardinality(T) = i - 1
    BY <1>4, <2>1, <2>2
  <2>. QED BY <2>3 DEF T
<1>. QED BY <1>5, <1>6

(* That list is what Ascending is.                                         *)
LEMMA AscendingIs ==
  ASSUME NEW S, S \subseteq Int, NEW s, Keys(s, Int), Holds(S, s, Int)
  PROVE  Ascending(S) = s /\ Cardinality(S) = Len(s) /\ IsFiniteSet(S)
<1>1. s \in Seq(Int) /\ Len(s) \in Nat /\ \A i \in 1 .. Len(s) : s[i] \in Int
  BY LenProperties DEF Keys
<1>2. /\ \A i \in 1 .. Len(s) : Cardinality({q \in S : q < s[i]}) = i - 1
      /\ Cardinality(S) = Len(s) /\ IsFiniteSet(S)
  BY RankInList
<1>3. \A p \in Int : p \in S <=> \E j \in 1 .. Len(s) : s[j] = p
  BY DEF Holds
<1> DEFINE rank(p) == Cardinality({q \in S : q < p})
<1>4. ASSUME NEW i \in 1 .. Len(s)
      PROVE  (CHOOSE p \in S : rank(p) = i - 1) = s[i]
  <2>1. s[i] \in S /\ rank(s[i]) = i - 1
    BY <1>1, <1>2, <1>3
  <2>2. ASSUME NEW p \in S, rank(p) = i - 1 PROVE p = s[i]
    <3>1. PICK j \in 1 .. Len(s) : s[j] = p
      BY <1>3
    <3>2. rank(s[j]) = j - 1
      BY <1>2
    <3>3. i = j
      <4> HIDE DEF rank
      <4>. QED BY <1>1, <2>2, <3>1, <3>2
    <3>. QED BY <3>1, <3>3
  <2> HIDE DEF rank
  <2>. QED BY <2>1, <2>2
<1>5. s = [i \in 1 .. Len(s) |-> s[i]]
  BY <1>1, LenProperties
<1>6. Ascending(S) = [i \in 1 .. Len(s) |-> CHOOSE p \in S : rank(p) = i - 1]
  BY <1>2 DEF Ascending
<1> HIDE DEF rank
<1>7. Ascending(S) = [i \in 1 .. Len(s) |-> s[i]]
  BY <1>4, <1>6
<1>. QED BY <1>2, <1>5, <1>7

LEMMA AscendingFacts ==
  ASSUME NEW S, S \subseteq Int, IsFiniteSet(S)
  PROVE  /\ Keys(Ascending(S), Int) /\ Holds(S, Ascending(S), Int)
         /\ Len(Ascending(S)) = Cardinality(S)
<1>1. PICK s : Keys(s, Int) /\ Holds(S, s, Int)
  BY Listed
<1>2. Ascending(S) = s /\ Cardinality(S) = Len(s)
  BY <1>1, AscendingIs
<1>. QED BY <1>1, <1>2

-----------------------------------------------------------------------------
(***************************************************************************)
(* The bulk load: an ascending list is cut into pieces.                    *)
(***************************************************************************)

LEMMA TimesMonotone ==
  ASSUME NEW a \in Nat, NEW b \in Nat, NEW k \in Nat, a < b
  PROVE  a * k + k <= b * k /\ a * k \in Nat /\ b * k \in Nat
<1>1. PICK c \in Nat : b = a + 1 + c
  <2>1. b - a - 1 \in Nat /\ b = a + 1 + (b - a - 1)
    OBVIOUS
  <2>. QED BY <2>1
<1>2. \A x, y, z \in Nat : (x + 1 + z) * y = x * y + y + z * y /\ z * y \in Nat /\ x * y \in Nat
  OBVIOUS
<1>3. b * k = a * k + k + c * k /\ c * k \in Nat /\ a * k \in Nat
  BY <1>1, <1>2
<1> DEFINE x == a * k  y == c * k  z == b * k
<1>4. z = x + k + y /\ x \in Nat /\ y \in Nat
  BY <1>3
<1> HIDE DEF x, y, z
<1>5. x + k <= z /\ x \in Nat /\ z \in Nat
  BY <1>4
<1>. QED BY <1>5 DEF x, z

LEMMA Quotient ==
  ASSUME NEW n \in Nat, NEW k \in Nat \ {0}
  PROVE  /\ n \div k \in Nat /\ n % k \in 0 .. k - 1
         /\ n = (n \div k) * k + (n % k)
<1>1. n % k \in 0 .. k - 1
  OBVIOUS
<1>2. n = k * (n \div k) + (n % k)
  <2>1. \A a, b \in Int : b > 0 => a = b * (a \div b) + (a % b)
    OBVIOUS
  <2>2. n \in Int /\ k \in Int /\ k > 0
    OBVIOUS
  <2>. QED BY ONLY <2>1, <2>2
<1>3. n \div k \in Nat
  OBVIOUS
<1> DEFINE q == n \div k  r == n % k  N == (n \div k) * k
<1>4. N = q * k /\ \A x \in Nat : k * x = x * k
  OBVIOUS
<1>5. n = k * q + r /\ q \in Nat
  BY <1>2, <1>3
<1> HIDE DEF q, r, N
<1>6. n = N + r
  BY <1>4, <1>5
<1>. QED BY <1>1, <1>3, <1>6 DEF q, r, N

(* How many pieces of k there are.                                         *)
LEMMA RoundedUp ==
  ASSUME NEW n \in Nat \ {0}, NEW k \in Nat \ {0}, NEW m, m = (n + k - 1) \div k
  PROVE  m \in Nat \ {0} /\ (m - 1) * k < n /\ n <= m * k
<1>1. n + k - 1 \in Nat /\ k - 1 \in Nat
  OBVIOUS
<1> DEFINE r == (n + k - 1) % k
<1>2. m \in Nat /\ r \in 0 .. k - 1 /\ n + k - 1 = m * k + r
  BY <1>1, Quotient
<1> HIDE DEF r
<1>3. m # 0
  <2>1. SUFFICES ASSUME m = 0 PROVE FALSE
    OBVIOUS
  <2>2. m * k = 0
    BY <2>1
  <2>. QED BY <1>2, <2>2
<1>4. (m - 1) * k = m * k - k /\ m * k \in Int
  <2>1. \A x, y \in Int : (x - 1) * y = x * y - y /\ x * y \in Int
    OBVIOUS
  <2>. QED BY <1>2, <2>1
<1> DEFINE x == m * k
<1>5. (m - 1) * k = x - k /\ x \in Int /\ n + k - 1 = x + r
  BY <1>2, <1>4
<1> HIDE DEF x
<1>6. x - k < n /\ n <= x
  BY <1>2, <1>5
<1>. QED BY <1>2, <1>3, <1>5, <1>6 DEF x

(* The list s in m pieces c, each behind the first off[i] elements.        *)
Pieces(s, m, c, off) ==
  /\ m \in Nat \ {0}
  /\ \A i \in 1 .. m : /\ c[i] \in Seq(Int) /\ Len(c[i]) \in Nat \ {0}
                       /\ off[i] \in Nat /\ off[i] + Len(c[i]) <= Len(s)
                       /\ \A j \in 1 .. Len(c[i]) : c[i][j] = s[off[i] + j]
  /\ \A i, j \in 1 .. m : i < j => off[i] + Len(c[i]) <= off[j]
  /\ \A i \in 1 .. m - 1 : off[i + 1] = off[i] + Len(c[i])
  /\ \A x \in 1 .. Len(s) : \E i \in 1 .. m : \E j \in 1 .. Len(c[i]) : x = off[i] + j

LEMMA ChunkFacts ==
  ASSUME NEW s, s \in Seq(Int), Len(s) > 0, NEW k \in Nat \ {0}
  PROVE  \E m, off : /\ m = (Len(s) + k - 1) \div k
                     /\ Chunks(s, k) = [i \in 1 .. m |-> Chunks(s, k)[i]]
                     /\ Pieces(s, m, Chunks(s, k), off)
                     /\ \A i \in 1 .. m : Len(Chunks(s, k)[i]) \in 1 .. k
<1> DEFINE l == Len(s)  m == (l + k - 1) \div k  off == [i \in 1 .. m |-> (i - 1) * k]
           c == Chunks(s, k)
<1>1. l \in Nat \ {0}
  BY LenProperties
<1>2. m \in Nat \ {0} /\ (m - 1) * k < l /\ l <= m * k
  <2> HIDE DEF l
  <2>. QED BY <1>1, RoundedUp
<1>3. c = [i \in 1 .. m |-> SubSeq(s, (i - 1) * k + 1, Min({i * k, l}))]
  BY DEF Chunks
<1> HIDE DEF l, c, m
<1>4. \A i \in 1 .. m : /\ off[i] = (i - 1) * k /\ i * k = off[i] + k
                        /\ off[i] \in Nat /\ off[i] < l
                        /\ (i < m => off[i] + k < l)
                        /\ (i = m => l <= off[i] + k)
  <2>1. ASSUME NEW i \in 1 .. m
        PROVE  /\ i * k = (i - 1) * k + k /\ (i - 1) * k \in Nat /\ (i - 1) * k < l
               /\ (i < m => (i - 1) * k + k < l)
               /\ (i = m => l <= (i - 1) * k + k)
    <3>1. i - 1 \in Nat /\ m - 1 \in Nat
      BY <1>2
    <3>2. \A x, y \in Int : (x - 1) * y = x * y - y /\ x * y \in Int
      OBVIOUS
    <3>3. i * k = (i - 1) * k + k /\ (i - 1) * k \in Nat /\ i * k \in Int
      <4>1. (i - 1) * k = i * k - k /\ i * k \in Int
        BY <3>2
      <4>2. (i - 1) * k \in Nat
        <5>1. \A x, y \in Nat : x * y \in Nat
          OBVIOUS
        <5>. QED BY <3>1, <5>1
      <4> DEFINE x == i * k  y == (i - 1) * k
      <4>3. y = x - k /\ x \in Int /\ y \in Nat
        BY <4>1, <4>2
      <4> HIDE DEF x, y
      <4>4. x = y + k
        BY <4>3
      <4>. QED BY <4>3, <4>4 DEF x, y
    <3>4. CASE i = m
      BY <1>2, <3>3, <3>4
    <3>5. CASE i < m
      <4>1. i - 1 < m - 1
        BY <1>2, <3>5
      <4>2. (i - 1) * k + k <= (m - 1) * k /\ (m - 1) * k \in Nat
        BY <3>1, <4>1, TimesMonotone
      <4> DEFINE x == (i - 1) * k  z == (m - 1) * k
      <4>3. x + k <= z /\ z < l /\ x \in Nat /\ z \in Nat /\ i * k = x + k
        BY <1>2, <3>3, <4>2
      <4> HIDE DEF x, z
      <4>4. x < l /\ x + k < l
        BY <1>1, <4>3
      <4>. QED BY <3>3, <3>5, <4>4 DEF x
    <3>. QED BY <1>2, <3>4, <3>5
  <2>. QED BY <2>1
<1>5. \A i, j \in 1 .. m : i < j => off[i] + k <= off[j]
  <2>1. ASSUME NEW i \in 1 .. m, NEW j \in 1 .. m, i < j PROVE off[i] + k <= off[j]
    <3>1. i - 1 \in Nat /\ j - 1 \in Nat /\ i - 1 < j - 1
      BY <1>2, <2>1
    <3>. QED BY <1>4, <3>1, TimesMonotone
  <2>. QED BY <2>1
<1>6. ASSUME NEW i \in 1 .. m
      PROVE  /\ c[i] \in Seq(Int) /\ Len(c[i]) \in 1 .. k /\ off[i] + Len(c[i]) <= l
             /\ \A j \in 1 .. Len(c[i]) : c[i][j] = s[off[i] + j]
             /\ (i < m => Len(c[i]) = k) /\ (i = m => off[i] + Len(c[i]) = l)
  <2> DEFINE o == off[i]  e == Min({i * k, l})  h == o + 1
  <2>1. o \in Nat /\ o < l /\ (i < m => o + k < l) /\ (i = m => l <= o + k) /\ i * k = o + k
    BY <1>4
  <2>2. c[i] = SubSeq(s, h, e)
    BY <1>3, <1>4
  <2>3. e = IF o + k <= l THEN o + k ELSE l
    <3> HIDE DEF o
    <3>1. e = Min({o + k, l})
      BY <2>1
    <3>. QED BY <1>1, <2>1, <3>1 DEF Min
  <2> HIDE DEF o, e
  <2>4. h \in 1 .. l + 1 /\ e \in h - 1 .. l /\ e - h + 1 = e - o /\ e - o \in 1 .. k
    BY <1>1, <2>1, <2>3
  <2>5. (i < m => e - o = k) /\ (i = m => e = l) /\ o + (e - o) = e /\ e <= l
    BY <1>1, <1>2, <2>1, <2>3
  <2>6. \A j \in 1 .. e - o : h + j - 1 = o + j
    BY <2>1
  <2> HIDE DEF h
  <2>7. /\ c[i] \in Seq(Int) /\ Len(c[i]) = e - h + 1
        /\ \A j \in 1 .. e - h + 1 : c[i][j] = s[h + j - 1]
    BY <2>2, <2>4, SubSeqFacts DEF l
  <2>8. Len(c[i]) = e - o /\ \A j \in 1 .. e - o : c[i][j] = s[o + j]
    BY <2>4, <2>6, <2>7
  <2>. QED BY <2>4, <2>5, <2>7, <2>8 DEF o
<1>7. \A i, j \in 1 .. m : i < j => off[i] + Len(c[i]) <= off[j]
  <2>1. ASSUME NEW i \in 1 .. m, NEW j \in 1 .. m, i < j PROVE off[i] + Len(c[i]) <= off[j]
    <3>1. off[i] + k <= off[j] /\ off[i] \in Nat /\ off[j] \in Nat /\ Len(c[i]) \in 1 .. k
      BY <1>4, <1>5, <1>6, <2>1
    <3> DEFINE x == off[i]  y == off[j]  z == Len(c[i])
    <3>2. x + k <= y /\ x \in Nat /\ y \in Nat /\ z \in 1 .. k
      BY <3>1
    <3> HIDE DEF x, y, z
    <3>3. x + z <= y
      BY <3>2
    <3>. QED BY <3>3 DEF x, y, z
  <2>. QED BY <2>1
<1>8. \A i \in 1 .. m - 1 : off[i + 1] = off[i] + Len(c[i])
  <2>1. ASSUME NEW i \in 1 .. m - 1 PROVE off[i + 1] = off[i] + Len(c[i])
    <3>1. i \in 1 .. m /\ i + 1 \in 1 .. m /\ i < m /\ (i + 1) - 1 = i
      BY <1>2
    <3>2. off[i + 1] = ((i + 1) - 1) * k /\ i * k = off[i] + k
      BY <1>4, <3>1
    <3>. QED BY <1>6, <3>1, <3>2
  <2>. QED BY <2>1
<1>9. ASSUME NEW x \in 1 .. l PROVE \E i \in 1 .. m : \E j \in 1 .. Len(c[i]) : x = off[i] + j
  <2> DEFINE B == {i \in 1 .. m : off[i] < x}
  <2>1. B \subseteq Int /\ B # {} /\ \A i \in B : i <= m
    <3>1. 1 \in 1 .. m /\ off[1] = 0
      <4>1. 1 \in 1 .. m /\ (1 - 1) * k = 0
        BY <1>2
      <4>. QED BY <4>1
    <3>2. 1 \in B
      BY <3>1
    <3>3. m \in Int
      BY <1>2
    <3> HIDE DEF off
    <3>4. ASSUME NEW i \in B PROVE i \in Int /\ i <= m
      BY <3>3
    <3> HIDE DEF B
    <3>. QED BY <3>2, <3>4
  <2>2. PICK i \in B : \A h \in B : h <= i
    <3> HIDE DEF B
    <3>1. m \in Int
      BY <1>2
    <3>. QED BY <2>1, <3>1, GreatestNumber
  <2>3. i \in 1 .. m /\ off[i] < x /\ off[i] \in Nat
    BY <1>4
  <2>4. x <= off[i] + Len(c[i])
    <3>1. CASE i = m
      <4>1. off[i] + Len(c[i]) = l
        BY <1>6, <2>3, <3>1
      <4>2. x <= l
        OBVIOUS
      <4>. QED BY <4>1, <4>2
    <3>2. CASE i # m
      <4>1. i \in 1 .. m - 1 /\ i + 1 \in 1 .. m /\ ~ (i + 1 <= i)
        BY <1>2, <2>3, <3>2
      <4>2. i + 1 \notin B
        BY <2>2, <4>1
      <4> DEFINE a == off[i + 1]  b == off[i] + Len(c[i])
      <4>3. a \in Nat /\ ~ (a < x)
        BY <1>4, <4>1, <4>2
      <4>4. a = b
        BY <1>8, <4>1
      <4> HIDE DEF a, b
      <4>5. x <= b
        BY ONLY <4>3, <4>4, x \in 1 .. l, l \in Nat \ {0}, <1>1
      <4>. QED BY <4>5 DEF b
    <3>. QED BY <3>1, <3>2
  <2> HIDE DEF B
  <2> DEFINE a == off[i]  b == Len(c[i])
  <2>5. PICK j : j = x - a
    OBVIOUS
  <2>6. j \in 1 .. b /\ x = a + j
    <3>1. a \in Nat /\ a < x /\ x <= a + b
      BY <2>3, <2>4
    <3>2. b \in Nat
      BY <1>6, <2>3
    <3>3. x \in Int
      BY <1>1
    <3> HIDE DEF a, b
    <3>. QED BY ONLY <2>5, <3>1, <3>2, <3>3
  <2>. QED BY <2>3, <2>6
<1> HIDE DEF off
<1>10. \A i \in 1 .. m : Len(c[i]) \in Nat \ {0}
  BY <1>6
<1>11. Pieces(s, m, c, off)
  BY <1>2, <1>4, <1>6, <1>7, <1>8, <1>9, <1>10 DEF Pieces, l
<1>12. c = [i \in 1 .. m |-> c[i]]
  BY <1>3
<1>13. m = (Len(s) + k - 1) \div k
  BY DEF m, l
<1>. QED BY <1>6, <1>11, <1>12, <1>13 DEF c
=============================================================================
