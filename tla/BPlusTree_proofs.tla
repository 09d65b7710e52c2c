--------------------------- MODULE BPlusTree_proofs ---------------------------
(***************************************************************************)
(* What the steps of a flush preserve of the tree, for every tree, every   *)
(* set of pairs and every build.                                           *)
(***************************************************************************)
EXTENDS BPlusTree, FiniteSetTheorems, SequenceTheorems, WellFoundedInduction, TLAPS

-----------------------------------------------------------------------------
(***************************************************************************)
(* Induction, from the least element of a set of numbers.                  *)
(***************************************************************************)

(* A set of numbers that is not empty has a least one.                     *)
LEMMA LeastNumber ==
  ASSUME NEW B, B \subseteq Nat, B # {}
  PROVE  \E n \in B : \A k \in B : n <= k
<1> DEFINE T == {0 .. n : n \in B}
<1>1. IsWellFoundedOn(StrictSubsetOrdering(Nat), FiniteSubsetsOf(Nat))
  BY FS_StrictSubsetOrderingWellFounded
<1>2. T \subseteq FiniteSubsetsOf(Nat) /\ T # {}
  <2>1. \A n \in B : IsFiniteSet(0 .. n) /\ 0 .. n \subseteq Nat
    BY FS_Interval
  <2>. QED BY <2>1 DEF FiniteSubsetsOf
<1>3. PICK t \in T : \A u \in T : ~ (<<u, t>> \in StrictSubsetOrdering(Nat))
  <2>. HIDE DEF T
  <2>. QED BY <1>1, <1>2, WFMin
<1>4. PICK n \in B : t = 0 .. n
  OBVIOUS
<1>5. ASSUME NEW k \in B, k < n PROVE FALSE
  <2>1. 0 .. k \in T
    OBVIOUS
  <2>2. /\ 0 .. k \subseteq Nat /\ 0 .. n \subseteq Nat
        /\ 0 .. k \subseteq 0 .. n /\ 0 .. k # 0 .. n
    BY <1>5
  <2>3. <<0 .. k, t>> \in StrictSubsetOrdering(Nat)
    BY <1>4, <2>2 DEF StrictSubsetOrdering
  <2>. QED BY <1>3, <2>1, <2>3
<1>. QED BY <1>5

(* Induction over the numbers, for a set of them.                          *)
LEMMA Induction ==
  ASSUME NEW G, 0 \in G, \A n \in Nat : n \in G => n + 1 \in G
  PROVE  Nat \subseteq G
<1>1. SUFFICES ASSUME Nat \ G # {} PROVE FALSE
  OBVIOUS
<1>2. PICK n \in Nat \ G : \A k \in Nat \ G : n <= k
  BY <1>1, LeastNumber
<1>3. n - 1 \in Nat /\ n - 1 \notin Nat \ G
  BY <1>2
<1>. QED BY <1>3

(* Induction up to a bound, starting from one.                             *)
LEMMA InductionUpTo ==
  ASSUME NEW h \in Nat, NEW G, h > 0 => 1 \in G,
         \A k \in 1 .. h - 1 : k \in G => k + 1 \in G
  PROVE  1 .. h \subseteq G
<1> DEFINE H == {n \in Nat : n + 1 \in 1 .. h => n + 1 \in G}
<1>1. 0 \in H
  OBVIOUS
<1>2. ASSUME NEW n \in Nat, n \in H PROVE n + 1 \in H
  BY <1>2
<1>3. Nat \subseteq H
  <2>. HIDE DEF H
  <2>. QED BY <1>1, <1>2, Induction
<1>4. \A k \in 1 .. h : k - 1 \in Nat /\ (k - 1) + 1 = k
  OBVIOUS
<1>. QED BY <1>3, <1>4

(* A set of numbers that has an element and a bound has a greatest one.    *)
LEMMA GreatestNumber ==
  ASSUME NEW B, B \subseteq Int, NEW h \in Int, \A n \in B : n <= h, B # {}
  PROVE  \E n \in B : \A k \in B : k <= n
<1> DEFINE C == {h - n : n \in B}
<1>1. C \subseteq Nat /\ C # {}
  <2>1. \A n \in B : h - n \in Nat
    OBVIOUS
  <2>. QED BY <2>1
<1>2. PICK m \in C : \A k \in C : m <= k
  <2>. HIDE DEF C
  <2>. QED BY <1>1, LeastNumber
<1>3. PICK n \in B : m = h - n
  OBVIOUS
<1>4. \A k \in B : h - n <= h - k
  BY <1>2, <1>3
<1>. QED BY <1>4

-----------------------------------------------------------------------------
(***************************************************************************)
(* Sequences, element by element.                                          *)
(***************************************************************************)

(* What InsertAt holds at every position.                                  *)
LEMMA InsertAtFacts ==
  ASSUME NEW S, NEW s \in Seq(S), NEW i \in 1 .. Len(s) + 1, NEW e \in S
  PROVE  /\ InsertAt(s, i, e) \in Seq(S)
         /\ Len(InsertAt(s, i, e)) = Len(s) + 1
         /\ \A j \in 1 .. Len(s) + 1 :
              InsertAt(s, i, e)[j] = IF j < i THEN s[j] ELSE IF j = i THEN e ELSE s[j - 1]
<1> DEFINE a == SubSeq(s, 1, i - 1)  c == SubSeq(s, i, Len(s))
<1>1. Len(s) \in Nat /\ \A j \in 1 .. Len(s) : s[j] \in S
  BY LenProperties, ElementOfSeq
<1>2. a \in Seq(S) /\ Len(a) = i - 1 /\ \A j \in 1 .. i - 1 : a[j] = s[j]
  BY <1>1, SubSeqProperties
<1>3. c \in Seq(S) /\ Len(c) = Len(s) - i + 1 /\ \A j \in 1 .. Len(s) - i + 1 : c[j] = s[i + j - 1]
  BY <1>1, SubSeqProperties
<1>4. <<e>> \in Seq(S) /\ Len(<<e>>) = 1 /\ <<e>>[1] = e
  OBVIOUS
<1> DEFINE b == a \o <<e>>
<1>5. b \in Seq(S) /\ Len(b) = i /\ \A j \in 1 .. i : b[j] = IF j < i THEN s[j] ELSE e
  <2>. HIDE DEF a
  <2>1. /\ b \in Seq(S) /\ Len(b) = Len(a) + Len(<<e>>)
        /\ \A j \in 1 .. Len(a) + Len(<<e>>) :
             b[j] = IF j <= Len(a) THEN a[j] ELSE <<e>>[j - Len(a)]
    BY <1>2, <1>4, ConcatProperties
  <2>2. Len(b) = i
    BY <1>2, <1>4, <2>1
  <2>3. ASSUME NEW j \in 1 .. i PROVE b[j] = IF j < i THEN s[j] ELSE e
    <3>1. CASE j < i
      BY <1>2, <1>4, <2>1, <3>1
    <3>2. CASE j = i
      <4>1. b[j] = <<e>>[j - Len(a)] /\ j - Len(a) = 1
        BY <1>2, <1>4, <2>1, <3>2
      <4>. QED BY <1>4, <3>2, <4>1
    <3>3. j < i \/ j = i
      OBVIOUS
    <3>. QED BY <3>1, <3>2, <3>3, Zenon
  <2>. QED BY <2>1, <2>2, <2>3
<1>6. InsertAt(s, i, e) = b \o c
  BY DEF InsertAt
<1>. HIDE DEF a, b, c
<1>7. /\ b \o c \in Seq(S) /\ Len(b \o c) = Len(b) + Len(c)
      /\ \A j \in 1 .. Len(b) + Len(c) :
           (b \o c)[j] = IF j <= Len(b) THEN b[j] ELSE c[j - Len(b)]
  BY <1>3, <1>5, ConcatProperties
<1>8. ASSUME NEW j \in 1 .. Len(s) + 1
      PROVE  (b \o c)[j] = IF j < i THEN s[j] ELSE IF j = i THEN e ELSE s[j - 1]
  <2>1. CASE j <= i
    BY <1>1, <1>3, <1>5, <1>7, <2>1
  <2>2. CASE j > i
    <3>1. j - i \in 1 .. Len(s) - i + 1 /\ i + (j - i) - 1 = j - 1
      BY <1>1, <2>2
    <3>2. (b \o c)[j] = c[j - i]
      BY <1>1, <1>3, <1>5, <1>7, <2>2
    <3>. QED BY SMTT(30), <1>3, <2>2, <3>1, <3>2
  <2>3. j <= i \/ j > i
    BY <1>1
  <2>. QED BY <2>1, <2>2, <2>3, Zenon
<1>. QED BY <1>1, <1>3, <1>5, <1>6, <1>7, <1>8

(* What RemoveAt holds at every position.                                  *)
LEMMA RemoveAtFacts ==
  ASSUME NEW S, NEW s \in Seq(S), NEW i \in 1 .. Len(s)
  PROVE  /\ RemoveAt(s, i) \in Seq(S)
         /\ Len(RemoveAt(s, i)) = Len(s) - 1
         /\ \A j \in 1 .. Len(s) - 1 : RemoveAt(s, i)[j] = IF j < i THEN s[j] ELSE s[j + 1]
<1> DEFINE a == SubSeq(s, 1, i - 1)  c == SubSeq(s, i + 1, Len(s))
<1>1. Len(s) \in Nat /\ \A j \in 1 .. Len(s) : s[j] \in S
  BY LenProperties, ElementOfSeq
<1>2. a \in Seq(S) /\ Len(a) = i - 1 /\ \A j \in 1 .. i - 1 : a[j] = s[j]
  BY <1>1, SubSeqProperties
<1>3. c \in Seq(S) /\ Len(c) = Len(s) - i /\ \A j \in 1 .. Len(s) - i : c[j] = s[i + j]
  <2>1. /\ c \in Seq(S) /\ Len(c) = (IF i + 1 <= Len(s) THEN Len(s) - (i + 1) + 1 ELSE 0)
        /\ \A j \in 1 .. Len(s) - (i + 1) + 1 : c[j] = s[i + 1 + j - 1]
    BY <1>1, SubSeqProperties
  <2>. HIDE DEF c
  <2>. QED BY <1>1, <2>1
<1>4. RemoveAt(s, i) = a \o c
  BY DEF RemoveAt
<1>. HIDE DEF a, c
<1>5. /\ a \o c \in Seq(S) /\ Len(a \o c) = Len(a) + Len(c)
      /\ \A j \in 1 .. Len(a) + Len(c) :
           (a \o c)[j] = IF j <= Len(a) THEN a[j] ELSE c[j - Len(a)]
  BY <1>2, <1>3, ConcatProperties
<1>6. ASSUME NEW j \in 1 .. Len(s) - 1
      PROVE  (a \o c)[j] = IF j < i THEN s[j] ELSE s[j + 1]
  <2>1. CASE j < i
    BY <1>1, <1>2, <1>3, <1>5, <2>1
  <2>2. CASE j >= i
    <3>1. j - (i - 1) \in 1 .. Len(s) - i /\ i + (j - (i - 1)) = j + 1
      BY <1>1, <2>2
    <3>2. (a \o c)[j] = c[j - (i - 1)]
      BY <1>1, <1>2, <1>3, <1>5, <2>2
    <3>. QED BY <1>3, <2>2, <3>1, <3>2
  <2>3. j < i \/ j >= i
    BY <1>1
  <2>. QED BY <2>1, <2>2, <2>3, Zenon
<1>. QED BY <1>1, <1>2, <1>3, <1>4, <1>5, <1>6

(* What a piece of a sequence holds at every position.                     *)
LEMMA SubSeqFacts ==
  ASSUME NEW S, NEW s \in Seq(S), NEW m \in 1 .. Len(s) + 1, NEW n \in m - 1 .. Len(s)
  PROVE  /\ SubSeq(s, m, n) \in Seq(S)
         /\ Len(SubSeq(s, m, n)) = n - m + 1
         /\ \A j \in 1 .. n - m + 1 : SubSeq(s, m, n)[j] = s[m + j - 1]
<1>1. Len(s) \in Nat /\ \A j \in 1 .. Len(s) : s[j] \in S
  BY LenProperties, ElementOfSeq
<1>2. \A j \in m .. n : s[j] \in S
  BY <1>1
<1>3. /\ SubSeq(s, m, n) \in Seq(S)
      /\ Len(SubSeq(s, m, n)) = (IF m <= n THEN n - m + 1 ELSE 0)
      /\ \A j \in 1 .. n - m + 1 : SubSeq(s, m, n)[j] = s[m + j - 1]
  BY <1>1, <1>2, SubSeqProperties
<1>. QED BY <1>1, <1>3

(* The elements of a sequence.                                             *)
LEMMA ToSetFacts ==
  ASSUME NEW S, NEW s \in Seq(S), NEW e
  PROVE  e \in ToSet(s) <=> \E i \in 1 .. Len(s) : s[i] = e
BY LenProperties DEF ToSet

-----------------------------------------------------------------------------
(***************************************************************************)
(* Binary search.  Slot i of an ascending sequence d is where a pair       *)
(* belongs that has exactly i elements of d at most as great.              *)
(***************************************************************************)

IsAscending(s) == \A i, j \in 1 .. Len(s) : i < j => s[i] < s[j]

InSlot(d, i, p) == (i > 0 => d[i] <= p) /\ (i < Len(d) => p < d[i + 1])

(* Every pair has a slot.                                                  *)
LEMMA SlotExists ==
  ASSUME NEW s \in Seq(Int), NEW p \in Int
  PROVE  \E k \in 0 .. Len(s) : InSlot(s, k, p)
<1> DEFINE B == {k \in 0 .. Len(s) : k > 0 => s[k] <= p}
<1>1. Len(s) \in Nat /\ Len(s) \in Int /\ \A j \in 1 .. Len(s) : s[j] \in Int
  BY LenProperties, ElementOfSeq
<1>2. B \subseteq Int /\ B # {} /\ \A k \in B : k <= Len(s)
  <2>1. 0 \in B
    BY <1>1
  <2>. QED BY <1>1, <2>1
<1>3. PICK k \in B : \A j \in B : j <= k
  <2>. HIDE DEF B
  <2>. QED BY <1>1, <1>2, GreatestNumber, Zenon
<1>4. k \in 0 .. Len(s) /\ (k > 0 => s[k] <= p)
  OBVIOUS
<1>5. ASSUME k < Len(s) PROVE p < s[k + 1]
  <2>1. k + 1 \in 0 .. Len(s) /\ k + 1 \in 1 .. Len(s) /\ ~ (k + 1 <= k)
    BY <1>1, <1>4, <1>5
  <2>2. k + 1 \notin B
    BY <1>3, <2>1
  <2>. QED BY <1>1, <2>1, <2>2
<1>. QED BY <1>4, <1>5 DEF InSlot

(* It has only one.                                                        *)
LEMMA SlotUnique ==
  ASSUME NEW s \in Seq(Int), IsAscending(s), NEW p \in Int,
         NEW k \in 0 .. Len(s), InSlot(s, k, p), NEW j \in 0 .. Len(s), InSlot(s, j, p)
  PROVE  k = j
<1>1. Len(s) \in Nat /\ \A i \in 1 .. Len(s) : s[i] \in Int
  BY LenProperties, ElementOfSeq
<1>2. ASSUME NEW a \in 0 .. Len(s), NEW b \in 0 .. Len(s), a < b,
             InSlot(s, a, p), InSlot(s, b, p)
      PROVE  FALSE
  <2>1. p < s[a + 1] /\ s[b] <= p
    BY <1>1, <1>2 DEF InSlot
  <2>2. a + 1 \in 1 .. Len(s) /\ b \in 1 .. Len(s) /\ (a + 1 = b \/ a + 1 < b)
    BY <1>1, <1>2
  <2>3. s[a + 1] <= s[b]
    BY <1>1, <2>2 DEF IsAscending
  <2>. QED BY <1>1, <2>1, <2>2, <2>3
<1>. QED BY <1>1, <1>2

(* The number of elements at most as great as a pair is its slot.          *)
LEMMA SlotCount ==
  ASSUME NEW s \in Seq(Int), IsAscending(s), NEW p \in Int,
         NEW k \in 0 .. Len(s), InSlot(s, k, p)
  PROVE  Cardinality({i \in 1 .. Len(s) : s[i] <= p}) = k
<1>1. Len(s) \in Nat /\ \A i \in 1 .. Len(s) : s[i] \in Int
  BY LenProperties, ElementOfSeq
<1>2. ASSUME NEW i \in 1 .. Len(s) PROVE s[i] <= p <=> i \in 1 .. k
  <2>1. CASE i <= k
    <3>1. k \in 1 .. Len(s) /\ s[k] <= p /\ (i = k \/ i < k)
      BY <1>1, <2>1 DEF InSlot
    <3>2. s[i] <= s[k]
      BY <1>1, <3>1 DEF IsAscending
    <3>. QED BY <1>1, <2>1, <3>1, <3>2
  <2>2. CASE i > k
    <3>1. k + 1 \in 1 .. Len(s) /\ p < s[k + 1] /\ (i = k + 1 \/ k + 1 < i)
      BY <1>1, <2>2 DEF InSlot
    <3>2. s[k + 1] <= s[i]
      BY <1>1, <3>1 DEF IsAscending
    <3>. QED BY <1>1, <2>2, <3>1, <3>2
  <2>3. i <= k \/ i > k
    BY <1>1
  <2>. QED BY <2>1, <2>2, <2>3, Zenon
<1>3. {i \in 1 .. Len(s) : s[i] <= p} = 1 .. k
  BY <1>1, <1>2
<1>4. Cardinality(1 .. k) = k
  BY <1>1, FS_Interval
<1>. QED BY <1>3, <1>4, Zenon

(* What the search in an index node finds.                                 *)
LEMMA IndexSearch ==
  ASSUME NEW n, node[n].data \in Seq(Int), IsAscending(node[n].data), NEW p \in Int
  PROVE  /\ find_idx_in_index(n, p) \in 0 .. size(n)
         /\ InSlot(node[n].data, find_idx_in_index(n, p), p)
<1>1. PICK k \in 0 .. Len(node[n].data) : InSlot(node[n].data, k, p)
  BY SlotExists
<1>2. Cardinality({i \in 1 .. Len(node[n].data) : node[n].data[i] <= p}) = k
  BY <1>1, SlotCount
<1>. QED BY <1>1, <1>2 DEF find_idx_in_index, size

(* What the search in a leaf finds: where the pair is, or would be.        *)
LEMMA LeafSearch ==
  ASSUME NEW n, node[n].data \in Seq(Int), IsAscending(node[n].data), NEW p \in Int
  PROVE  LET d == node[n].data  k == lower_bound_in_leaf(n, p)
         IN /\ k \in 0 .. Len(d)
            /\ k > 0 => d[k] < p
            /\ k < Len(d) => p <= d[k + 1]
<1> DEFINE d == node[n].data
<1>1. Len(d) \in Nat /\ \A i \in 1 .. Len(d) : d[i] \in Int
  BY LenProperties, ElementOfSeq
<1>2. PICK k \in 0 .. Len(d) : InSlot(d, k, p - 1)
  BY SlotExists
<1>3. Cardinality({i \in 1 .. Len(d) : d[i] <= p - 1}) = k
  BY <1>2, SlotCount
<1>4. {i \in 1 .. Len(d) : d[i] <= p - 1} = {i \in 1 .. Len(d) : d[i] < p}
  BY <1>1
<1>5. lower_bound_in_leaf(n, p) = k
  BY <1>3, <1>4 DEF lower_bound_in_leaf, size
<1>. QED BY SMTT(30), <1>1, <1>2, <1>5 DEF InSlot

(* s2 is s with e put in at position i; s is s1, e and s2 in a row; s is   *)
(* s1 and s2 in a row.                                                     *)
Inserted(s, i, e, s2) ==
  /\ Len(s2) = Len(s) + 1
  /\ \A j \in 1 .. Len(s) + 1 :
       s2[j] = IF j < i THEN s[j] ELSE IF j = i THEN e ELSE s[j - 1]

CutAt(s, k, s1, s2) ==
  /\ Len(s1) = k - 1 /\ Len(s2) = Len(s) - k
  /\ \A j \in 1 .. k - 1 : s1[j] = s[j]
  /\ \A j \in 1 .. Len(s) - k : s2[j] = s[k + j]

InTwo(s, s1, s2) ==
  /\ Len(s) = Len(s1) + Len(s2)
  /\ \A j \in 1 .. Len(s1) : s1[j] = s[j]
  /\ \A j \in 1 .. Len(s2) : s2[j] = s[Len(s1) + j]

(* How the slots shift when a key is put in.                               *)
LEMMA SlotsInserted ==
  ASSUME NEW d \in Seq(Int), IsAscending(d), NEW d2 \in Seq(Int), NEW key \in Int,
         NEW i \in 0 .. Len(d), InSlot(d, i, key), Inserted(d, i + 1, key, d2),
         NEW p \in Int
  PROVE  /\ \A j \in 0 .. Len(d) : j < i => (InSlot(d2, j, p) <=> InSlot(d, j, p))
         /\ InSlot(d2, i, p) <=> InSlot(d, i, p) /\ p < key
         /\ InSlot(d2, i + 1, p) <=> InSlot(d, i, p) /\ key <= p
         /\ \A j \in 0 .. Len(d) : j > i => (InSlot(d2, j + 1, p) <=> InSlot(d, j, p))
<1>1. Len(d) \in Nat /\ Len(d2) = Len(d) + 1 /\ i \in Int
      /\ (\A j \in 1 .. Len(d) : d[j] \in Int) /\ (\A j \in 1 .. Len(d2) : d2[j] \in Int)
  <2>1. Len(d) \in Nat /\ Len(d2) = Len(d) + 1
    BY LenProperties DEF Inserted
  <2>. QED BY <2>1, ElementOfSeq
<1>2. \A j \in 1 .. Len(d) : j <= i => d2[j] = d[j]
  BY <1>1 DEF Inserted
<1>3. d2[i + 1] = key
  BY <1>1 DEF Inserted
<1>4. \A j \in 1 .. Len(d) : j > i => d2[j + 1] = d[j]
  BY SMTT(30), <1>1 DEF Inserted
<1>5. (i > 0 => d[i] <= key) /\ (i < Len(d) => key < d[i + 1])
  BY DEF InSlot
<1>6. ASSUME NEW j \in 0 .. Len(d), j < i
      PROVE  InSlot(d2, j, p) <=> InSlot(d, j, p)
  <2>1. j < Len(d) /\ j < Len(d2) /\ j + 1 \in 1 .. Len(d) /\ j + 1 <= i
    BY <1>1, <1>6
  <2>2. d2[j + 1] = d[j + 1]
    BY <1>2, <2>1
  <2>3. j > 0 => j \in 1 .. Len(d) /\ j <= i
    BY <1>1, <1>6
  <2>4. j > 0 => d2[j] = d[j]
    BY <1>2, <2>3
  <2>. QED BY <2>1, <2>2, <2>4 DEF InSlot
<1>7. InSlot(d2, i, p) <=> InSlot(d, i, p) /\ p < key
  BY <1>1, <1>2, <1>3, <1>5 DEF InSlot
<1>8. InSlot(d2, i + 1, p) <=> InSlot(d, i, p) /\ key <= p
  <2>1. i < Len(d) => i + 1 \in 1 .. Len(d) /\ i + 1 > i
    BY <1>1
  <2>2. i < Len(d) => d2[(i + 1) + 1] = d[i + 1] /\ d[i + 1] \in Int
    BY <1>1, <1>4, <2>1
  <2>3. i > 0 => d[i] \in Int
    BY <1>1
  <2>4. (i + 1 < Len(d2) <=> i < Len(d)) /\ i + 1 > 0
    BY <1>1
  <2>5. InSlot(d2, i + 1, p) <=> key <= p /\ (i < Len(d) => p < d[i + 1])
    BY <1>3, <2>2, <2>4 DEF InSlot
  <2>6. key <= p => (i > 0 => d[i] <= p)
    BY <1>5, <2>3
  <2>. QED BY <2>5, <2>6 DEF InSlot
<1>9. ASSUME NEW j \in 0 .. Len(d), j > i
      PROVE  InSlot(d2, j + 1, p) <=> InSlot(d, j, p)
  <2>1. /\ j \in 1 .. Len(d) /\ j > 0 /\ j + 1 > 0 /\ (j < Len(d) <=> j + 1 < Len(d2))
        /\ j < Len(d) => j + 1 \in 1 .. Len(d) /\ j + 1 > i
    BY SMTT(30), <1>1, <1>9
  <2>2. d2[j + 1] = d[j]
    BY <1>4, <1>9, <2>1
  <2>3. j < Len(d) => d2[(j + 1) + 1] = d[j + 1]
    BY <1>4, <2>1
  <2>. QED BY <2>1, <2>2, <2>3 DEF InSlot
<1>. QED BY <1>6, <1>7, <1>8, <1>9

(* The keys stay in order.                                                 *)
LEMMA AscendingInserted ==
  ASSUME NEW d \in Seq(Int), IsAscending(d), NEW d2 \in Seq(Int), NEW key \in Int,
         NEW i \in 0 .. Len(d), i > 0 => d[i] < key, i < Len(d) => key < d[i + 1],
         Inserted(d, i + 1, key, d2)
  PROVE  IsAscending(d2)
<1>1. Len(d) \in Nat /\ Len(d2) = Len(d) + 1 /\ i \in Int
      /\ (\A j \in 1 .. Len(d) : d[j] \in Int)
  <2>1. Len(d) \in Nat /\ Len(d2) = Len(d) + 1
    BY LenProperties DEF Inserted
  <2>. QED BY <2>1, ElementOfSeq
<1>2. \A j \in 1 .. Len(d) : j <= i => d2[j] = d[j]
  BY <1>1 DEF Inserted
<1>3. d2[i + 1] = key
  BY <1>1 DEF Inserted
<1>4. \A j \in 1 .. Len(d) : j > i => d2[j + 1] = d[j]
  BY SMTT(30), <1>1 DEF Inserted
<1>5. ASSUME NEW j \in 1 .. Len(d), j <= i PROVE d[j] < key
  <2>1. i \in 1 .. Len(d) /\ d[i] < key /\ (j = i \/ j < i)
    BY <1>1, <1>5
  <2>2. j < i => d[j] < d[i]
    BY <2>1 DEF IsAscending
  <2>3. d[j] \in Int /\ d[i] \in Int
    BY <1>1, <2>1
  <2>. QED BY <2>1, <2>2, <2>3
<1>6. ASSUME NEW j \in 1 .. Len(d), j > i PROVE key < d[j]
  <2>0. i \in Nat /\ j \in Nat /\ i < Len(d)
    BY <1>1, <1>6
  <2>1. i + 1 \in 1 .. Len(d) /\ key < d[i + 1] /\ (j = i + 1 \/ i + 1 < j)
    BY SMTT(30), <1>1, <1>6, <2>0
  <2>2. i + 1 < j => d[i + 1] < d[j]
    BY <2>1 DEF IsAscending
  <2>3. d[j] \in Int /\ d[i + 1] \in Int
    BY <1>1, <2>1
  <2>. QED BY <2>1, <2>2, <2>3
<1>7. ASSUME NEW a \in 1 .. Len(d2), NEW b \in 1 .. Len(d2), a < b
      PROVE  d2[a] < d2[b]
  <2>1. CASE b <= i
    <3>0. a \in Int /\ b \in Int /\ 1 <= a /\ 1 <= b /\ i <= Len(d)
      BY <1>1
    <3>9. i \in Int /\ Len(d) \in Int /\ a < b /\ b <= i
      BY <1>1, <1>7, <2>1
    <3>1. a \in 1 .. Len(d) /\ b \in 1 .. Len(d) /\ a <= i
      BY <3>0, <3>9
    <3>2. d2[a] = d[a] /\ d2[b] = d[b]
      BY <1>2, <2>1, <3>1
    <3>. QED BY <1>7, <3>1, <3>2 DEF IsAscending
  <2>2. CASE b = i + 1
    <3>1. d2[a] = d[a] /\ d2[b] = key /\ a \in 1 .. Len(d) /\ a <= i
      BY SMTT(30), <1>1, <1>2, <1>3, <1>7, <2>2
    <3>. QED BY <1>5, <3>1
  <2>3. CASE b > i + 1
    <3>1. b - 1 \in 1 .. Len(d) /\ b - 1 > i /\ (b - 1) + 1 = b
      BY <1>1, <2>3
    <3>2. d2[b] = d[b - 1]
      BY <1>4, <3>1
    <3>3. CASE a <= i
      <4>1. a \in 1 .. Len(d) /\ a < b - 1
        BY <1>1, <3>1, <3>3
      <4>2. d2[a] = d[a]
        BY <1>2, <3>3, <4>1
      <4>. QED BY <3>1, <3>2, <4>1, <4>2 DEF IsAscending
    <3>4. CASE a = i + 1
      BY <1>3, <1>6, <3>1, <3>2, <3>4
    <3>5. CASE a > i + 1
      <4>1. a - 1 \in 1 .. Len(d) /\ a - 1 > i /\ (a - 1) + 1 = a /\ a - 1 < b - 1
        BY <1>1, <1>7, <3>5
      <4>2. d2[a] = d[a - 1]
        BY <1>4, <4>1
      <4>. QED BY <3>1, <3>2, <4>1, <4>2 DEF IsAscending
    <3>. QED BY <1>1, <3>3, <3>4, <3>5
  <2>. QED BY <1>1, <2>1, <2>2, <2>3
<1>. QED BY <1>7 DEF IsAscending

(* And when one is taken out.                                              *)
LEMMA AscendingRemoved ==
  ASSUME NEW d \in Seq(Int), NEW d2 \in Seq(Int), IsAscending(d2), NEW key,
         NEW i \in 0 .. Len(d), Inserted(d, i + 1, key, d2)
  PROVE  /\ IsAscending(d)
         /\ i > 0 => d[i] < key
         /\ i < Len(d) => key < d[i + 1]
<1>1. Len(d) \in Nat /\ Len(d2) = Len(d) + 1 /\ i \in Int
  BY LenProperties DEF Inserted
<1>2. \A j \in 1 .. Len(d) : j <= i => d2[j] = d[j]
  BY <1>1 DEF Inserted
<1>3. d2[i + 1] = key
  BY <1>1 DEF Inserted
<1>4. \A j \in 1 .. Len(d) : j > i => d2[j + 1] = d[j]
  BY SMTT(30), <1>1 DEF Inserted
<1>5. \A a, b \in 1 .. Len(d) + 1 : a < b => d2[a] < d2[b]
  BY <1>1 DEF IsAscending
<1>6. ASSUME NEW a \in 1 .. Len(d), NEW b \in 1 .. Len(d), a < b
      PROVE  d[a] < d[b]
  <2>1. CASE b <= i
    BY <1>1, <1>2, <1>5, <1>6, <2>1
  <2>2. CASE a <= i /\ b > i
    <3>1. d2[a] = d[a] /\ d2[b + 1] = d[b] /\ a < b + 1
      BY <1>1, <1>2, <1>4, <1>6, <2>2
    <3>. QED BY <1>1, <1>5, <3>1
  <2>3. CASE a > i
    <3>1. /\ a + 1 < b + 1 /\ b > i
          /\ a + 1 \in 1 .. Len(d) + 1 /\ b + 1 \in 1 .. Len(d) + 1
      BY <1>1, <1>6, <2>3
    <3>2. d2[a + 1] = d[a] /\ d2[b + 1] = d[b]
      BY <1>4, <2>3, <3>1
    <3>3. d2[a + 1] < d2[b + 1]
      BY <1>5, <3>1
    <3>. QED BY <3>2, <3>3
  <2>. QED BY <1>1, <2>1, <2>2, <2>3
<1>7. i > 0 => d[i] < key
  <2>1. i > 0 => i \in 1 .. Len(d) /\ i + 1 \in 1 .. Len(d) + 1 /\ i \in 1 .. Len(d) + 1 /\ i < i + 1
    BY <1>1
  <2>. QED BY <1>1, <1>2, <1>3, <1>5, <2>1
<1>8. i < Len(d) => key < d[i + 1]
  <2>1. i < Len(d) => /\ i + 1 \in 1 .. Len(d) /\ i + 1 \in 1 .. Len(d) + 1
                      /\ i + 2 \in 1 .. Len(d) + 1 /\ i + 1 < i + 2 /\ (i + 1) + 1 = i + 2 /\ i + 1 > i
    BY <1>1
  <2>. QED BY <1>3, <1>4, <1>5, <2>1
<1>. QED BY <1>6, <1>7, <1>8 DEF IsAscending

(* The slots on the two sides of a key.                                    *)
LEMMA SlotsCut ==
  ASSUME NEW d \in Seq(Int), IsAscending(d), NEW k \in 1 .. Len(d),
         NEW d1, NEW d2, CutAt(d, k, d1, d2), NEW p \in Int
  PROVE  /\ \A i \in 0 .. k - 1 : InSlot(d, i, p) <=> InSlot(d1, i, p) /\ p < d[k]
         /\ \A i \in 0 .. Len(d) - k : InSlot(d, k + i, p) <=> InSlot(d2, i, p) /\ d[k] <= p
<1>1. Len(d) \in Nat /\ k \in Int /\ \A j \in 1 .. Len(d) : d[j] \in Int
  BY LenProperties, ElementOfSeq
<1>2. /\ Len(d1) = k - 1 /\ Len(d2) = Len(d) - k
      /\ \A j \in 1 .. k - 1 : d1[j] = d[j]
      /\ \A j \in 1 .. Len(d) - k : d2[j] = d[k + j]
  BY DEF CutAt
<1>3. ASSUME NEW i \in 0 .. k - 1
      PROVE  InSlot(d, i, p) <=> InSlot(d1, i, p) /\ p < d[k]
  <2>1. i < k - 1 => i + 1 \in 1 .. Len(d) /\ i + 1 < k /\ d[i + 1] < d[k] /\ d1[i + 1] = d[i + 1]
    BY <1>1, <1>2 DEF IsAscending
  <2>2. i > 0 => d1[i] = d[i]
    BY <1>1, <1>2
  <2>3. i < Len(d) /\ (i < Len(d1) <=> i < k - 1) /\ (i < k - 1 \/ i + 1 = k)
    BY <1>1, <1>2
  <2>4. CASE i < k - 1
    <3>1. d[i + 1] \in Int /\ d[k] \in Int /\ d[i + 1] < d[k]
      BY <1>1, <2>1, <2>4
    <3>. QED BY <2>1, <2>2, <2>3, <2>4, <3>1 DEF InSlot
  <2>5. CASE i + 1 = k
    BY <1>1, <2>2, <2>3, <2>5 DEF InSlot
  <2>. QED BY <2>3, <2>4, <2>5, Zenon
<1>4. ASSUME NEW i \in 0 .. Len(d) - k
      PROVE  InSlot(d, k + i, p) <=> InSlot(d2, i, p) /\ d[k] <= p
  <2>1. i > 0 => d2[i] = d[k + i] /\ k + i \in 1 .. Len(d) /\ d[k] < d[k + i]
    BY <1>1, <1>2 DEF IsAscending
  <2>2. i < Len(d2) => d2[i + 1] = d[(k + i) + 1]
    <3>1. i < Len(d2) => i + 1 \in 1 .. Len(d) - k /\ k + (i + 1) = (k + i) + 1
      BY <1>1, <1>2
    <3>. QED BY SMTT(30), <1>2, <3>1
  <2>3. k + i > 0 /\ (i < Len(d2) <=> k + i < Len(d)) /\ (i = 0 \/ i > 0)
    BY <1>1, <1>2
  <2>4. CASE i = 0
    BY <1>1, <2>2, <2>3, <2>4 DEF InSlot
  <2>5. CASE i > 0
    <3>1. d[k + i] \in Int /\ d[k] \in Int
      BY <1>1, <2>1, <2>5
    <3>. QED BY SMTT(30), <2>1, <2>2, <2>3, <2>5, <3>1 DEF InSlot
  <2>. QED BY <2>3, <2>4, <2>5, Zenon
<1>. QED BY <1>3, <1>4

(* The keys on the two sides of a key stay in order.                       *)
LEMMA AscendingCut ==
  ASSUME NEW d \in Seq(Int), IsAscending(d), NEW k \in 1 .. Len(d),
         NEW d1, NEW d2, CutAt(d, k, d1, d2)
  PROVE  IsAscending(d1) /\ IsAscending(d2)
<1>1. Len(d) \in Nat /\ k \in Int
  BY LenProperties
<1>2. /\ Len(d1) = k - 1 /\ Len(d2) = Len(d) - k
      /\ \A j \in 1 .. k - 1 : d1[j] = d[j]
      /\ \A j \in 1 .. Len(d) - k : d2[j] = d[k + j]
  BY DEF CutAt
<1>3. ASSUME NEW a \in 1 .. k - 1, NEW b \in 1 .. k - 1, a < b
      PROVE  d1[a] < d1[b]
  <2>1. a \in 1 .. Len(d) /\ b \in 1 .. Len(d)
    BY <1>1
  <2>2. d[a] < d[b]
    BY <1>3, <2>1 DEF IsAscending
  <2>. QED BY <1>2, <2>2
<1>4. ASSUME NEW a \in 1 .. Len(d) - k, NEW b \in 1 .. Len(d) - k, a < b
      PROVE  d2[a] < d2[b]
  <2>1. k + a \in 1 .. Len(d) /\ k + b \in 1 .. Len(d) /\ k + a < k + b
    BY <1>1, <1>4
  <2>2. d[k + a] < d[k + b]
    BY <2>1 DEF IsAscending
  <2>. QED BY <1>2, <2>2
<1>5. IsAscending(d1)
  BY <1>2, <1>3 DEF IsAscending
<1>6. IsAscending(d2)
  BY <1>2, <1>4 DEF IsAscending
<1>. QED BY <1>5, <1>6

(* And form one order with a key between them.                             *)
LEMMA AscendingJoined ==
  ASSUME NEW d \in Seq(Int), NEW k \in 1 .. Len(d), NEW d1, NEW d2, CutAt(d, k, d1, d2),
         IsAscending(d1), IsAscending(d2),
         \A j \in 1 .. Len(d1) : d1[j] < d[k],
         \A j \in 1 .. Len(d2) : d[k] < d2[j]
  PROVE  IsAscending(d)
<1>1. Len(d) \in Nat /\ k \in Int
  BY LenProperties
<1>2. /\ Len(d1) = k - 1 /\ Len(d2) = Len(d) - k
      /\ \A j \in 1 .. k - 1 : d1[j] = d[j]
      /\ \A j \in 1 .. Len(d) - k : d2[j] = d[k + j]
  BY DEF CutAt
<1>3. ASSUME NEW a \in 1 .. Len(d), NEW b \in 1 .. Len(d), a < b PROVE d[a] < d[b]
  <2>0. a \in Int /\ b \in Int /\ 1 <= a /\ b <= Len(d)
    BY <1>1
  <2>1. CASE b < k
    <3>1. a \in 1 .. k - 1 /\ b \in 1 .. k - 1
      BY <1>1, <1>3, <2>0, <2>1
    <3>2. d1[a] < d1[b]
      BY <1>2, <1>3, <3>1 DEF IsAscending
    <3>. QED BY <1>2, <3>1, <3>2
  <2>2. CASE b = k
    <3>1. a \in 1 .. k - 1
      BY <1>1, <1>3, <2>0, <2>2
    <3>2. d1[a] < d[k]
      BY <1>2, <3>1
    <3>. QED BY <1>2, <2>2, <3>1, <3>2
  <2>3. CASE a < k /\ b > k
    <3>1. a \in 1 .. k - 1 /\ b - k \in 1 .. Len(d) - k /\ k + (b - k) = b
      BY <1>1, <1>3, <2>0, <2>3
    <3>2. d1[a] < d[k] /\ d[k] < d2[b - k]
      BY <1>2, <3>1
    <3>3. d1[a] = d[a] /\ d2[b - k] = d[b]
      BY <1>2, <3>1
    <3>4. a \in 1 .. Len(d) /\ b \in 1 .. Len(d) /\ k \in 1 .. Len(d)
      OBVIOUS
    <3>5. d[a] \in Int /\ d[b] \in Int /\ d[k] \in Int
      BY <3>4, ElementOfSeq
    <3>. QED BY <3>2, <3>3, <3>5
  <2>4. CASE a = k
    <3>1. b - k \in 1 .. Len(d) - k /\ k + (b - k) = b
      BY <1>1, <1>3, <2>0, <2>4
    <3>2. d[k] < d2[b - k]
      BY <1>2, <3>1
    <3>. QED BY <1>2, <2>4, <3>1, <3>2
  <2>5. CASE a > k
    <3>1. /\ a - k \in 1 .. Len(d) - k /\ b - k \in 1 .. Len(d) - k
          /\ k + (a - k) = a /\ k + (b - k) = b /\ a - k < b - k
      BY <1>1, <1>3, <2>0, <2>5
    <3>2. d2[a - k] < d2[b - k]
      BY <1>2, <3>1 DEF IsAscending
    <3>. QED BY <1>2, <3>1, <3>2
  <2>6. b < k \/ b = k \/ (a < k /\ b > k) \/ a = k \/ a > k
    BY <1>1, <1>3, <2>0
  <2>. QED BY <2>1, <2>2, <2>3, <2>4, <2>5, <2>6, Zenon
<1>. QED BY <1>3 DEF IsAscending

-----------------------------------------------------------------------------
(***************************************************************************)
(* An index node and the pages below it.  Every page has a level, counted  *)
(* from the leaves, and a range: the pairs whose descent goes through it.  *)
(* A node with keys d and children c at level l, with the range R, hands   *)
(* to each child the pairs of R in its slot.                               *)
(***************************************************************************)

Keys(d, R) == d \in Seq(Int) /\ IsAscending(d) /\ \A i \in 1 .. Len(d) : d[i] \in R

Below(pages, lev, rng, n, d, i, l, R) ==
  /\ n \in pages
  /\ lev[n] = l - 1
  /\ \A p \in Int : p \in rng[n] <=> p \in R /\ InSlot(d, i, p)

Fan(pages, lev, rng, d, c, l, R) ==
  /\ c \in Seq(Nat)
  /\ Len(c) = Len(d) + 1
  /\ \A i \in 0 .. Len(d) : Below(pages, lev, rng, c[i + 1], d, i, l, R)

(* R1 is the part of R below the key and R2 the part from it on.           *)
Halves(R, key, R1, R2) ==
  /\ R1 \subseteq Int /\ R2 \subseteq Int
  /\ \A p \in Int : p \in R1 <=> p \in R /\ p < key
  /\ \A p \in Int : p \in R2 <=> p \in R /\ key <= p

(* A node cut at one of its keys.                                          *)
LEMMA FanCut ==
  ASSUME NEW pages, NEW lev, NEW rng, NEW d, NEW c, NEW l, NEW R,
         Keys(d, R), Fan(pages, lev, rng, d, c, l, R),
         NEW k, NEW d1, NEW d2, CutAt(d, k, d1, d2), k \in 1 .. Len(d),
         d1 \in Seq(Int), d2 \in Seq(Int),
         NEW c1, NEW c2, InTwo(c, c1, c2), c1 \in Seq(Nat), c2 \in Seq(Nat), Len(c1) = k,
         NEW key, NEW R1, NEW R2, Halves(R, key, R1, R2), key = d[k]
  PROVE  /\ Keys(d1, R1) /\ Fan(pages, lev, rng, d1, c1, l, R1)
         /\ Keys(d2, R2) /\ Fan(pages, lev, rng, d2, c2, l, R2)
<1> USE DEF Halves
<1>1. d \in Seq(Int) /\ IsAscending(d) /\ Len(d) \in Nat /\ k \in Int
  BY LenProperties DEF Keys
<1>2. \A j \in 1 .. Len(d) : d[j] \in Int /\ d[j] \in R
  BY <1>1, ElementOfSeq DEF Keys
<1>3. /\ Len(d1) = k - 1 /\ Len(d2) = Len(d) - k
      /\ \A j \in 1 .. k - 1 : d1[j] = d[j]
      /\ \A j \in 1 .. Len(d) - k : d2[j] = d[k + j]
  BY DEF CutAt
<1>4. /\ Len(c) = Len(d) + 1 /\ Len(c1) = k /\ Len(c2) = Len(d) + 1 - k
      /\ \A j \in 1 .. k : c1[j] = c[j]
      /\ \A j \in 1 .. Len(d) + 1 - k : c2[j] = c[k + j]
  <2>1. /\ Len(c) = Len(d) + 1 /\ Len(c) = k + Len(c2)
        /\ \A j \in 1 .. k : c1[j] = c[j]
        /\ \A j \in 1 .. Len(c2) : c2[j] = c[k + j]
    BY DEF InTwo, Fan
  <2>2. Len(c2) \in Nat
    BY LenProperties
  <2>3. Len(c2) = Len(d) + 1 - k
    <3>1. k + Len(c2) = Len(d) + 1
      BY <2>1, Zenon
    <3>. QED BY <1>1, <2>2, <3>1
  <2>. QED BY <2>1, <2>3
<1>5. IsAscending(d1) /\ IsAscending(d2)
  BY <1>1, AscendingCut
<1>6. ASSUME NEW j \in 1 .. k - 1 PROVE d1[j] \in R1
  <2>1. j \in 1 .. Len(d) /\ j < k
    BY <1>1
  <2>2. d[j] < d[k]
    BY <1>1, <2>1 DEF IsAscending
  <2>3. d1[j] = d[j] /\ d[j] \in Int /\ d[j] \in R
    BY <1>2, <1>3, <2>1
  <2>. QED BY <2>2, <2>3
<1>7. ASSUME NEW j \in 1 .. Len(d) - k PROVE d2[j] \in R2
  <2>1. k + j \in 1 .. Len(d) /\ k < k + j
    BY <1>1
  <2>2. d[k] < d[k + j]
    BY <1>1, <2>1 DEF IsAscending
  <2>3. d2[j] = d[k + j] /\ d[k + j] \in Int /\ d[k + j] \in R /\ d[k] \in Int
    BY <1>2, <1>3, <2>1
  <2>. QED BY <2>2, <2>3
<1>8. Keys(d1, R1)
  BY <1>3, <1>5, <1>6 DEF Keys
<1>9. Keys(d2, R2)
  BY <1>3, <1>5, <1>7 DEF Keys
<1>10. \A i \in 0 .. Len(d) : Below(pages, lev, rng, c[i + 1], d, i, l, R)
  BY DEF Fan
<1>11. \A p \in Int : /\ \A i \in 0 .. k - 1 : InSlot(d, i, p) <=> InSlot(d1, i, p) /\ p < d[k]
                      /\ \A i \in 0 .. Len(d) - k :
                           InSlot(d, k + i, p) <=> InSlot(d2, i, p) /\ d[k] <= p
  BY <1>1, SlotsCut
<1>12. ASSUME NEW i \in 0 .. k - 1
       PROVE  Below(pages, lev, rng, c1[i + 1], d1, i, l, R1)
  <2>1. i \in 0 .. Len(d) /\ i + 1 \in 1 .. k
    BY <1>1
  <2>2. c1[i + 1] = c[i + 1]
    BY <1>4, <2>1
  <2>3. Below(pages, lev, rng, c1[i + 1], d, i, l, R)
    BY <1>10, <2>1, <2>2
  <2>4. \A p \in Int : p \in R /\ InSlot(d, i, p) <=> p \in R1 /\ InSlot(d1, i, p)
    BY <1>11
  <2>. QED BY <2>3, <2>4 DEF Below
<1>13. ASSUME NEW i \in 0 .. Len(d) - k
       PROVE  Below(pages, lev, rng, c2[i + 1], d2, i, l, R2)
  <2>1. k + i \in 0 .. Len(d) /\ i + 1 \in 1 .. Len(d) + 1 - k /\ k + (i + 1) = (k + i) + 1
    BY <1>1
  <2>2. c2[i + 1] = c[(k + i) + 1]
    BY <1>4, <2>1
  <2>3. Below(pages, lev, rng, c2[i + 1], d, k + i, l, R)
    BY <1>10, <2>1, <2>2
  <2>4. \A p \in Int : p \in R /\ InSlot(d, k + i, p) <=> p \in R2 /\ InSlot(d2, i, p)
    BY <1>11
  <2>. QED BY <2>3, <2>4 DEF Below
<1>14. Fan(pages, lev, rng, d1, c1, l, R1)
  <2>1. Len(c1) = Len(d1) + 1
    BY <1>1, <1>3, <1>4
  <2>. QED BY <1>3, <1>12, <2>1 DEF Fan
<1>15. Fan(pages, lev, rng, d2, c2, l, R2)
  <2>1. Len(c2) = Len(d2) + 1
    BY <1>1, <1>3, <1>4
  <2>. QED BY <1>3, <1>13, <2>1 DEF Fan
<1>. QED BY <1>8, <1>9, <1>14, <1>15

(* Two nodes joined around a key.                                          *)
LEMMA FanJoin ==
  ASSUME NEW pages, NEW lev, NEW rng, NEW d \in Seq(Int), NEW c \in Seq(Nat), NEW l,
         NEW d1, NEW c1, NEW R1, Keys(d1, R1), Fan(pages, lev, rng, d1, c1, l, R1),
         NEW d2, NEW c2, NEW R2, Keys(d2, R2), Fan(pages, lev, rng, d2, c2, l, R2),
         NEW k \in 1 .. Len(d), CutAt(d, k, d1, d2), InTwo(c, c1, c2),
         NEW key, NEW R, key \in R, Halves(R, key, R1, R2),
         \A j \in 1 .. Len(d2) : key < d2[j], key = d[k]
  PROVE  Keys(d, R) /\ Fan(pages, lev, rng, d, c, l, R)
<1>. /\ \A p \in Int : p \in R1 => p < d[k]
     /\ \A p \in Int : p \in R2 => d[k] <= p
     /\ \A p \in Int : p \in R <=> p \in R1 \/ p \in R2
  <2>1. d[k] \in Int
    BY ElementOfSeq
  <2>. QED BY <2>1 DEF Halves
<1>1. Len(d) \in Nat /\ k \in Int /\ d[k] \in Int
  BY LenProperties, ElementOfSeq
<1>2. /\ Len(d1) = k - 1 /\ Len(d2) = Len(d) - k
      /\ \A j \in 1 .. k - 1 : d1[j] = d[j]
      /\ \A j \in 1 .. Len(d) - k : d2[j] = d[k + j]
  BY DEF CutAt
<1>3. /\ Len(c1) = k /\ Len(c2) = Len(d) + 1 - k
      /\ \A j \in 1 .. k : c1[j] = c[j]
      /\ \A j \in 1 .. Len(d) + 1 - k : c2[j] = c[k + j]
      /\ Len(c) = Len(d) + 1
  <2>1. Len(c1) = Len(d1) + 1 /\ Len(c2) = Len(d2) + 1
    BY DEF Fan
  <2>2. Len(c1) = k /\ Len(c2) = Len(d) + 1 - k
    BY <1>1, <1>2, <2>1
  <2>3. /\ Len(c) = Len(c1) + Len(c2)
        /\ \A j \in 1 .. Len(c1) : c1[j] = c[j]
        /\ \A j \in 1 .. Len(c2) : c2[j] = c[Len(c1) + j]
    BY DEF InTwo
  <2>4. Len(c) = Len(d) + 1
    BY <1>1, <2>2, <2>3
  <2>. QED BY <2>2, <2>3, <2>4, Zenon
<1>4. \A j \in 1 .. Len(d1) : d1[j] \in Int /\ d1[j] \in R1
  BY ElementOfSeq DEF Keys
<1>5. \A j \in 1 .. Len(d2) : d2[j] \in Int /\ d2[j] \in R2
  BY ElementOfSeq DEF Keys
<1>6. IsAscending(d)
  <2>1. \A j \in 1 .. Len(d1) : d1[j] < d[k]
    BY <1>4
  <2>. QED BY <2>1, AscendingJoined DEF Keys
<1>7. ASSUME NEW j \in 1 .. Len(d) PROVE d[j] \in R
  <2>1. CASE j < k
    <3>1. j \in 1 .. k - 1
      BY <1>1, <2>1
    <3>. QED BY <1>2, <1>4, <3>1
  <2>2. CASE j > k
    <3>1. j - k \in 1 .. Len(d) - k /\ k + (j - k) = j
      BY <1>1, <2>2
    <3>. QED BY <1>2, <1>5, <3>1
  <2>3. j < k \/ j = k \/ j > k
    BY <1>1
  <2>. QED BY <2>1, <2>2, <2>3
<1>8. Keys(d, R)
  BY <1>6, <1>7 DEF Keys
<1>9. \A p \in Int : /\ \A i \in 0 .. k - 1 : InSlot(d, i, p) <=> InSlot(d1, i, p) /\ p < d[k]
                     /\ \A i \in 0 .. Len(d) - k :
                          InSlot(d, k + i, p) <=> InSlot(d2, i, p) /\ d[k] <= p
  BY <1>6, SlotsCut
<1>10. \A p \in Int : /\ p \in R1 <=> p \in R /\ p < d[k]
                      /\ p \in R2 <=> p \in R /\ d[k] <= p
  BY <1>1
<1>11. ASSUME NEW i \in 0 .. k - 1
       PROVE  Below(pages, lev, rng, c[i + 1], d, i, l, R)
  <2>1. i \in 0 .. Len(d1) /\ i + 1 \in 1 .. k
    BY <1>1, <1>2
  <2>2. c1[i + 1] = c[i + 1]
    BY <1>3, <2>1
  <2>3. Below(pages, lev, rng, c[i + 1], d1, i, l, R1)
    BY <2>1, <2>2 DEF Fan
  <2>4. \A p \in Int : p \in R /\ InSlot(d, i, p) <=> p \in R1 /\ InSlot(d1, i, p)
    BY <1>9, <1>10
  <2>. QED BY <2>3, <2>4 DEF Below
<1>12. ASSUME NEW i \in 0 .. Len(d) - k
       PROVE  Below(pages, lev, rng, c[(k + i) + 1], d, k + i, l, R)
  <2>1. i \in 0 .. Len(d2) /\ i + 1 \in 1 .. Len(d) + 1 - k /\ k + (i + 1) = (k + i) + 1
    BY <1>1, <1>2
  <2>2. c2[i + 1] = c[(k + i) + 1]
    BY <1>3, <2>1
  <2>3. Below(pages, lev, rng, c[(k + i) + 1], d2, i, l, R2)
    BY <2>1, <2>2 DEF Fan
  <2>4. \A p \in Int : p \in R /\ InSlot(d, k + i, p) <=> p \in R2 /\ InSlot(d2, i, p)
    BY <1>9, <1>10
  <2>. QED BY <2>3, <2>4 DEF Below
<1>13. ASSUME NEW i \in 0 .. Len(d)
       PROVE  Below(pages, lev, rng, c[i + 1], d, i, l, R)
  <2>1. CASE i < k
    <3>1. i \in 0 .. k - 1
      BY <1>1, <2>1
    <3>. QED BY <1>11, <3>1
  <2>2. CASE i >= k
    <3>1. i - k \in 0 .. Len(d) - k /\ k + (i - k) = i
      BY <1>1, <2>2
    <3>2. Below(pages, lev, rng, c[(k + (i - k)) + 1], d, k + (i - k), l, R)
      BY <1>12, <3>1
    <3>. QED BY <3>1, <3>2
  <2>3. i < k \/ i >= k
    BY <1>1
  <2>. QED BY <2>1, <2>2, <2>3
<1>. QED BY <1>3, <1>8, <1>13 DEF Fan

(* A child comes in beside another one, which hands over the upper part of *)
(* its range.                                                              *)
ChildIn(lev, rng, pages2, lev2, rng2, d, c, i, key, new, d2, c2, l) ==
  /\ i \in 0 .. Len(d) /\ key \in Int
  /\ d2 \in Seq(Int) /\ Inserted(d, i + 1, key, d2)
  /\ c2 \in Seq(Nat) /\ Inserted(c, i + 2, new, c2)
  /\ \A j \in 0 .. Len(d) : j # i =>
        /\ c[j + 1] \in pages2 /\ lev2[c[j + 1]] = lev[c[j + 1]]
        /\ rng2[c[j + 1]] = rng[c[j + 1]]
  /\ c[i + 1] \in pages2 /\ lev2[c[i + 1]] = l - 1
  /\ new \in pages2 /\ lev2[new] = l - 1
  /\ Halves(rng[c[i + 1]], key, rng2[c[i + 1]], rng2[new])

LEMMA FanInsert ==
  ASSUME NEW pages, NEW lev, NEW rng, NEW d, NEW c, NEW l, NEW R,
         Keys(d, R), Fan(pages, lev, rng, d, c, l, R),
         NEW pages2, NEW lev2, NEW rng2, NEW i, NEW key, NEW new, NEW d2, NEW c2,
         ChildIn(lev, rng, pages2, lev2, rng2, d, c, i, key, new, d2, c2, l),
         key \in R, InSlot(d, i, key), i > 0 => d[i] < key
  PROVE  Keys(d2, R) /\ Fan(pages2, lev2, rng2, d2, c2, l, R)
<1>. /\ i \in 0 .. Len(d) /\ key \in Int
     /\ d2 \in Seq(Int) /\ Inserted(d, i + 1, key, d2)
     /\ c2 \in Seq(Nat) /\ Inserted(c, i + 2, new, c2)
     /\ \A j \in 0 .. Len(d) : j # i =>
           /\ c[j + 1] \in pages2 /\ lev2[c[j + 1]] = lev[c[j + 1]]
           /\ rng2[c[j + 1]] = rng[c[j + 1]]
     /\ c[i + 1] \in pages2 /\ lev2[c[i + 1]] = l - 1
     /\ new \in pages2 /\ lev2[new] = l - 1
     /\ \A p \in Int : p \in rng2[c[i + 1]] <=> p \in rng[c[i + 1]] /\ p < key
     /\ \A p \in Int : p \in rng2[new] <=> p \in rng[c[i + 1]] /\ key <= p
  BY DEF ChildIn, Halves
<1>1. d \in Seq(Int) /\ IsAscending(d) /\ Len(d) \in Nat /\ i \in Int
  BY LenProperties DEF Keys
<1>2. Len(d2) = Len(d) + 1 /\ Len(c2) = Len(d) + 2 /\ Len(c) = Len(d) + 1
  <2>1. Len(d2) = Len(d) + 1 /\ Len(c2) = Len(c) + 1 /\ Len(c) = Len(d) + 1
    BY DEF Inserted, Fan
  <2>. QED BY <1>1, <2>1
<1>3. IsAscending(d2)
  <2>1. i < Len(d) => key < d[i + 1]
    BY DEF InSlot
  <2>. QED BY <1>1, <2>1, AscendingInserted
<1>4. ASSUME NEW j \in 1 .. Len(d2) PROVE d2[j] \in R
  <2>1. j \in 1 .. Len(d) + 1
    BY <1>2
  <2>2. d2[j] = IF j < i + 1 THEN d[j] ELSE IF j = i + 1 THEN key ELSE d[j - 1]
    BY <2>1 DEF Inserted
  <2>3. \A m \in 1 .. Len(d) : d[m] \in R
    BY DEF Keys
  <2>4. (j < i + 1 => j \in 1 .. Len(d)) /\ (j > i + 1 => j - 1 \in 1 .. Len(d))
    BY <1>1, <2>1
  <2>5. j < i + 1 \/ j = i + 1 \/ j > i + 1
    BY <1>1
  <2>6. CASE j < i + 1
    BY <2>2, <2>3, <2>4, <2>6
  <2>7. CASE j = i + 1
    BY <1>1, <2>2, <2>7
  <2>8. CASE j > i + 1
    <3>1. d2[j] = d[j - 1]
      BY <1>1, <2>2, <2>8
    <3>. QED BY <2>3, <2>4, <2>8, <3>1
  <2>. QED BY <2>5, <2>6, <2>7, <2>8, Zenon
<1>5. Keys(d2, R)
  BY <1>3, <1>4 DEF Keys
<1>6. \A p \in Int :
         /\ \A j \in 0 .. Len(d) : j < i => (InSlot(d2, j, p) <=> InSlot(d, j, p))
         /\ InSlot(d2, i, p) <=> InSlot(d, i, p) /\ p < key
         /\ InSlot(d2, i + 1, p) <=> InSlot(d, i, p) /\ key <= p
         /\ \A j \in 0 .. Len(d) : j > i => (InSlot(d2, j + 1, p) <=> InSlot(d, j, p))
  BY <1>1, SlotsInserted
<1>7. \A j \in 0 .. Len(d) : Below(pages, lev, rng, c[j + 1], d, j, l, R)
  BY DEF Fan
<1>8. \A j \in 1 .. Len(d) + 2 : c2[j] = IF j < i + 2 THEN c[j] ELSE IF j = i + 2 THEN new ELSE c[j - 1]
  <2>1. \A j \in 1 .. Len(c) + 1 : c2[j] = IF j < i + 2 THEN c[j] ELSE IF j = i + 2 THEN new ELSE c[j - 1]
    BY DEF Inserted
  <2>2. Len(c) + 1 = Len(d) + 2
    BY <1>1, <1>2
  <2>. QED BY <2>1, <2>2, Zenon
<1>9. ASSUME NEW j \in 0 .. Len(d), j < i
      PROVE  Below(pages2, lev2, rng2, c2[j + 1], d2, j, l, R)
  <2>1. j + 1 \in 1 .. Len(d) + 2 /\ j + 1 < i + 2 /\ j # i
    BY <1>1, <1>9
  <2>2. c2[j + 1] = c[j + 1]
    BY <1>8, <2>1
  <2>3. Below(pages, lev, rng, c[j + 1], d, j, l, R)
    BY <1>7
  <2>4. \A p \in Int : InSlot(d2, j, p) <=> InSlot(d, j, p)
    BY <1>6, <1>9
  <2>5. /\ c[j + 1] \in pages2 /\ lev2[c[j + 1]] = lev[c[j + 1]]
        /\ rng2[c[j + 1]] = rng[c[j + 1]]
    BY <2>1
  <2>. QED BY <2>2, <2>3, <2>4, <2>5 DEF Below
<1>10. Below(pages2, lev2, rng2, c2[i + 1], d2, i, l, R)
  <2>1. i + 1 \in 1 .. Len(d) + 2 /\ i + 1 < i + 2
    BY <1>1
  <2>2. c2[i + 1] = c[i + 1]
    BY <1>8, <2>1
  <2>3. Below(pages, lev, rng, c[i + 1], d, i, l, R)
    BY <1>7
  <2>. QED BY <1>6, <2>2, <2>3 DEF Below
<1>11. Below(pages2, lev2, rng2, c2[(i + 1) + 1], d2, i + 1, l, R)
  <2>1. (i + 1) + 1 \in 1 .. Len(d) + 2 /\ (i + 1) + 1 = i + 2 /\ ~ (i + 2 < i + 2)
    BY <1>1
  <2>2. c2[(i + 1) + 1] = new
    BY <1>8, <2>1
  <2>3. Below(pages, lev, rng, c[i + 1], d, i, l, R)
    BY <1>7
  <2>. QED BY <1>6, <2>2, <2>3 DEF Below
<1>12. ASSUME NEW j \in 0 .. Len(d), j > i
       PROVE  Below(pages2, lev2, rng2, c2[(j + 1) + 1], d2, j + 1, l, R)
  <2>1. /\ (j + 1) + 1 \in 1 .. Len(d) + 2 /\ ~ ((j + 1) + 1 < i + 2) /\ (j + 1) + 1 # i + 2
        /\ ((j + 1) + 1) - 1 = j + 1 /\ j # i
    BY <1>1, <1>12
  <2>2. c2[(j + 1) + 1] = c[j + 1]
    BY <1>8, <2>1
  <2>3. Below(pages, lev, rng, c[j + 1], d, j, l, R)
    BY <1>7
  <2>4. \A p \in Int : InSlot(d2, j + 1, p) <=> InSlot(d, j, p)
    BY <1>6, <1>12
  <2>. QED BY <2>1, <2>2, <2>3, <2>4 DEF Below
<1>13. ASSUME NEW j \in 0 .. Len(d2)
       PROVE  Below(pages2, lev2, rng2, c2[j + 1], d2, j, l, R)
  <2>0. j \in Nat /\ j <= Len(d) + 1 /\ i \in Nat /\ Len(d) \in Nat
    <3>1. j \in 0 .. Len(d) + 1
      BY <1>2
    <3>. QED BY <1>1, <3>1
  <2>1. CASE j < i
    <3>1. j \in 0 .. Len(d)
      BY <1>1, <2>1
    <3>. QED BY <1>9, <2>1, <3>1
  <2>2. CASE j = i
    BY <1>10, <2>2
  <2>3. CASE j = i + 1
    BY <1>11, <2>3
  <2>4. CASE j > i + 1
    <3>1. j - 1 \in 0 .. Len(d) /\ j - 1 > i /\ (j - 1) + 1 = j
      BY ONLY <2>0, <2>4
    <3>2. Below(pages2, lev2, rng2, c2[((j - 1) + 1) + 1], d2, (j - 1) + 1, l, R)
      BY <1>12, <3>1
    <3>. QED BY <3>1, <3>2
  <2>5. j < i \/ j = i \/ j = i + 1 \/ j > i + 1
    BY <2>0
  <2>. QED BY <2>1, <2>2, <2>3, <2>4, <2>5, Zenon
<1>14. Len(c2) = Len(d2) + 1
  BY <1>1, <1>2
<1>. QED BY <1>5, <1>13, <1>14 DEF Fan

(* Two neighbours among the children become one, on the page of the left   *)
(* one.                                                                    *)
ChildOut(lev, rng, pages2, lev2, rng2, d2, c2, i, key, right, d, c, l) ==
  /\ i \in 0 .. Len(d)
  /\ d \in Seq(Int) /\ Inserted(d, i + 1, key, d2)
  /\ c \in Seq(Nat) /\ Inserted(c, i + 2, right, c2)
  /\ Len(c) = Len(d) + 1
  /\ \A j \in 0 .. Len(d2) : j # i /\ j # i + 1 =>
        /\ c2[j + 1] \in pages2 /\ lev2[c2[j + 1]] = lev[c2[j + 1]]
        /\ rng2[c2[j + 1]] = rng[c2[j + 1]]
  /\ c2[i + 1] \in pages2 /\ lev2[c2[i + 1]] = l - 1
  /\ \A p \in Int : p \in rng2[c2[i + 1]] <=> p \in rng[c2[i + 1]] \/ p \in rng[right]

LEMMA FanRemove ==
  ASSUME NEW pages, NEW lev, NEW rng, NEW d2, NEW c2, NEW l, NEW R,
         Keys(d2, R), Fan(pages, lev, rng, d2, c2, l, R),
         NEW pages2, NEW lev2, NEW rng2, NEW i, NEW key, NEW right, NEW d, NEW c,
         ChildOut(lev, rng, pages2, lev2, rng2, d2, c2, i, key, right, d, c, l)
  PROVE  Keys(d, R) /\ Fan(pages2, lev2, rng2, d, c, l, R)
<1>. /\ i \in 0 .. Len(d)
     /\ d \in Seq(Int) /\ Inserted(d, i + 1, key, d2)
     /\ c \in Seq(Nat) /\ Inserted(c, i + 2, right, c2)
     /\ Len(c) = Len(d) + 1
     /\ \A j \in 0 .. Len(d2) : j # i /\ j # i + 1 =>
           /\ c2[j + 1] \in pages2 /\ lev2[c2[j + 1]] = lev[c2[j + 1]]
           /\ rng2[c2[j + 1]] = rng[c2[j + 1]]
     /\ c2[i + 1] \in pages2 /\ lev2[c2[i + 1]] = l - 1
     /\ \A p \in Int : p \in rng2[c2[i + 1]] <=> p \in rng[c2[i + 1]] \/ p \in rng[right]
  BY DEF ChildOut
<1>1. Len(d) \in Nat /\ Len(d2) = Len(d) + 1 /\ i \in Nat /\ i <= Len(d)
  BY LenProperties DEF Inserted
<1>2. d2 \in Seq(Int) /\ IsAscending(d2) /\ \A j \in 1 .. Len(d2) : d2[j] \in R
  BY DEF Keys
<1>3. \A j \in 1 .. Len(d) + 1 :
        d2[j] = IF j < i + 1 THEN d[j] ELSE IF j = i + 1 THEN key ELSE d[j - 1]
  BY DEF Inserted
<1>4. key = d2[i + 1] /\ key \in Int /\ key \in R
  <2>1. i + 1 \in 1 .. Len(d2) /\ i + 1 \in 1 .. Len(d) + 1
    BY <1>1
  <2>2. key = d2[i + 1]
    BY <1>1, <1>3, <2>1
  <2>. QED BY <1>2, <2>1, <2>2, ElementOfSeq
<1>5. IsAscending(d) /\ (i > 0 => d[i] < key) /\ (i < Len(d) => key < d[i + 1])
  BY <1>2, AscendingRemoved
<1>6. ASSUME NEW j \in 1 .. Len(d) PROVE d[j] \in R
  <2>1. CASE j < i + 1
    <3>1. j \in 1 .. Len(d2) /\ j \in 1 .. Len(d) + 1
      BY <1>1
    <3>2. d2[j] = d[j]
      BY <1>3, <2>1, <3>1
    <3>. QED BY <1>2, <3>1, <3>2
  <2>2. CASE j >= i + 1
    <3>1. /\ j + 1 \in 1 .. Len(d2) /\ j + 1 \in 1 .. Len(d) + 1
          /\ ~ (j + 1 < i + 1) /\ j + 1 # i + 1 /\ (j + 1) - 1 = j
      BY <1>1, <2>2
    <3>2. d2[j + 1] = d[(j + 1) - 1]
      BY <1>3, <3>1, Zenon
    <3>. QED BY <1>2, <3>1, <3>2
  <2>3. j < i + 1 \/ j >= i + 1
    BY <1>1
  <2>. QED BY <2>1, <2>2, <2>3, Zenon
<1>7. Keys(d, R)
  BY <1>5, <1>6 DEF Keys
<1>8. InSlot(d, i, key)
  <2>1. i > 0 => d[i] <= key
    <3>1. i > 0 => d[i] \in Int
      BY <1>1, ElementOfSeq
    <3>. QED BY SMTT(30), <1>4, <1>5, <3>1
  <2>. QED BY <1>5, <2>1 DEF InSlot
<1>9. \A p \in Int :
         /\ \A j \in 0 .. Len(d) : j < i => (InSlot(d2, j, p) <=> InSlot(d, j, p))
         /\ InSlot(d2, i, p) <=> InSlot(d, i, p) /\ p < key
         /\ InSlot(d2, i + 1, p) <=> InSlot(d, i, p) /\ key <= p
         /\ \A j \in 0 .. Len(d) : j > i => (InSlot(d2, j + 1, p) <=> InSlot(d, j, p))
  <2>1. /\ d \in Seq(Int) /\ IsAscending(d) /\ d2 \in Seq(Int) /\ key \in Int
        /\ i \in 0 .. Len(d) /\ InSlot(d, i, key) /\ Inserted(d, i + 1, key, d2)
    BY <1>2, <1>4, <1>5, <1>8, Zenon
  <2>. QED BY ONLY <2>1, SlotsInserted
<1>10. \A j \in 0 .. Len(d2) : Below(pages, lev, rng, c2[j + 1], d2, j, l, R)
  BY DEF Fan
<1>11. \A j \in 1 .. Len(d) + 2 :
         c2[j] = IF j < i + 2 THEN c[j] ELSE IF j = i + 2 THEN right ELSE c[j - 1]
  <2>1. \A j \in 1 .. Len(c) + 1 :
          c2[j] = IF j < i + 2 THEN c[j] ELSE IF j = i + 2 THEN right ELSE c[j - 1]
    BY DEF Inserted
  <2>2. Len(c) + 1 = Len(d) + 2
    BY <1>1
  <2>. QED BY <2>1, <2>2, Zenon
<1>12. ASSUME NEW j \in 0 .. Len(d), j < i
       PROVE  Below(pages2, lev2, rng2, c[j + 1], d, j, l, R)
  <2>0. j \in Nat /\ j < i
    BY <1>12
  <2>1. j + 1 \in 1 .. Len(d) + 2 /\ j + 1 < i + 2 /\ j # i /\ j # i + 1 /\ j \in 0 .. Len(d2)
    BY SMTT(30), <1>1, <2>0
  <2>2. c2[j + 1] = c[j + 1]
    BY <1>11, <2>1
  <2>3. Below(pages, lev, rng, c2[j + 1], d2, j, l, R)
    BY <1>10, <2>1
  <2>4. \A p \in Int : InSlot(d2, j, p) <=> InSlot(d, j, p)
    BY <1>9, <1>12
  <2>5. /\ c2[j + 1] \in pages2 /\ lev2[c2[j + 1]] = lev[c2[j + 1]]
        /\ rng2[c2[j + 1]] = rng[c2[j + 1]]
    BY <2>1
  <2>. QED BY <2>2, <2>3, <2>4, <2>5 DEF Below
<1>13. Below(pages2, lev2, rng2, c[i + 1], d, i, l, R)
  <2>1. /\ i + 1 \in 1 .. Len(d) + 2 /\ i + 1 < i + 2 /\ i \in 0 .. Len(d2)
        /\ i + 1 \in 0 .. Len(d2) /\ (i + 1) + 1 \in 1 .. Len(d) + 2
        /\ (i + 1) + 1 = i + 2 /\ ~ (i + 2 < i + 2)
    BY <1>1
  <2>2. c2[i + 1] = c[i + 1]
    BY <1>11, <2>1
  <2>3. c2[(i + 1) + 1] = right
    BY <1>11, <2>1
  <2>4. Below(pages, lev, rng, c2[i + 1], d2, i, l, R)
    BY <1>10, <2>1
  <2>5. Below(pages, lev, rng, right, d2, i + 1, l, R)
    BY <1>10, <2>1, <2>3
  <2>6. \A p \in Int : InSlot(d, i, p) <=> InSlot(d2, i, p) \/ InSlot(d2, i + 1, p)
    BY <1>4, <1>9
  <2>. QED BY <2>2, <2>4, <2>5, <2>6 DEF Below
<1>14. ASSUME NEW j \in 0 .. Len(d), j > i
       PROVE  Below(pages2, lev2, rng2, c[j + 1], d, j, l, R)
  <2>1. /\ (j + 1) + 1 \in 1 .. Len(d) + 2 /\ ~ ((j + 1) + 1 < i + 2) /\ (j + 1) + 1 # i + 2
        /\ ((j + 1) + 1) - 1 = j + 1 /\ j + 1 # i /\ j + 1 # i + 1 /\ j + 1 \in 0 .. Len(d2)
    BY <1>1, <1>14
  <2>2. c2[(j + 1) + 1] = c[j + 1]
    <3>1. c2[(j + 1) + 1] = c[((j + 1) + 1) - 1]
      BY <1>11, <2>1, Zenon
    <3>. QED BY <2>1, <3>1
  <2>3. Below(pages, lev, rng, c2[(j + 1) + 1], d2, j + 1, l, R)
    BY <1>10, <2>1
  <2>4. \A p \in Int : InSlot(d2, j + 1, p) <=> InSlot(d, j, p)
    BY <1>9, <1>14
  <2>5. /\ c2[(j + 1) + 1] \in pages2 /\ lev2[c2[(j + 1) + 1]] = lev[c2[(j + 1) + 1]]
        /\ rng2[c2[(j + 1) + 1]] = rng[c2[(j + 1) + 1]]
    BY <2>1
  <2>. QED BY <2>2, <2>3, <2>4, <2>5 DEF Below
<1>15. ASSUME NEW j \in 0 .. Len(d)
       PROVE  Below(pages2, lev2, rng2, c[j + 1], d, j, l, R)
  <2>1. j < i \/ j = i \/ j > i
    BY <1>1
  <2>. QED BY <1>12, <1>13, <1>14, <2>1
<1>. QED BY <1>7, <1>15 DEF Fan

-----------------------------------------------------------------------------
(***************************************************************************)
(* A leaf with the range R holds the stored pairs of its range.            *)
(***************************************************************************)

Holds(st, d, R) == \A p \in R : p \in st <=> \E j \in 1 .. Len(d) : d[j] = p

(* A leaf cut before one of its pairs.                                     *)
LEMMA LeafCut ==
  ASSUME NEW st, NEW d, NEW R, R \subseteq Int, Keys(d, R), Holds(st, d, R),
         NEW d1 \in Seq(Int), NEW d2 \in Seq(Int), InTwo(d, d1, d2),
         Len(d1) < Len(d),
         NEW key, NEW R1, NEW R2, Halves(R, key, R1, R2), key = d[Len(d1) + 1]
  PROVE  /\ Keys(d1, R1) /\ Holds(st, d1, R1)
         /\ Keys(d2, R2) /\ Holds(st, d2, R2)
<1> USE DEF Halves
<1> DEFINE k == Len(d1)
<1>1. d \in Seq(Int) /\ Len(d) \in Nat /\ k \in Nat /\ k + 1 <= Len(d)
  <2>1. d \in Seq(Int) /\ Len(d) \in Nat /\ k \in Nat
    BY LenProperties DEF Keys
  <2>. QED BY <2>1
<1>2. \A j \in 1 .. Len(d) : d[j] \in Int /\ d[j] \in R
  BY <1>1, ElementOfSeq DEF Keys
<1>3. \A a, b \in 1 .. Len(d) : a < b => d[a] < d[b]
  BY DEF Keys, IsAscending
<1>4. Len(d2) = Len(d) - k
  <2>1. Len(d) = k + Len(d2) /\ Len(d2) \in Nat
    BY LenProperties DEF InTwo
  <2>. QED BY <1>1, <2>1
<1>5. /\ \A j \in 1 .. k : d1[j] = d[j]
      /\ \A j \in 1 .. Len(d) - k : d2[j] = d[k + j]
  <2>1. /\ \A j \in 1 .. k : d1[j] = d[j]
        /\ \A j \in 1 .. Len(d2) : d2[j] = d[k + j]
    BY DEF InTwo
  <2>. QED BY <1>4, <2>1
<1>6. k + 1 \in 1 .. Len(d)
  BY <1>1
<1>7. key \in Int /\ key \in R
  BY <1>2, <1>6
<1>. HIDE DEF k
<1>8. ASSUME NEW j \in 1 .. k PROVE j \in 1 .. Len(d) /\ d1[j] = d[j] /\ d[j] < key
  <2>1. j \in 1 .. Len(d) /\ j < k + 1
    BY <1>1
  <2>2. d[j] < d[k + 1]
    BY <1>3, <1>6, <2>1
  <2>. QED BY <1>5, <2>1, <2>2 DEF k
<1>9. ASSUME NEW j \in 1 .. Len(d) - k
      PROVE  k + j \in 1 .. Len(d) /\ d2[j] = d[k + j] /\ key <= d[k + j]
  <2>1. k + j \in 1 .. Len(d) /\ (k + j = k + 1 \/ k + 1 < k + j)
    BY <1>1
  <2>2. k + 1 < k + j => d[k + 1] < d[k + j]
    BY <1>3, <1>6, <2>1
  <2>3. d[k + 1] = key /\ d[k + j] \in Int
    BY <1>2, <2>1 DEF k
  <2>4. key <= d[k + j]
    BY <1>7, <2>1, <2>2, <2>3
  <2>. QED BY <1>5, <2>1, <2>4
<1>10. ASSUME NEW j \in 1 .. Len(d)
       PROVE  \/ j \in 1 .. k
              \/ j - k \in 1 .. Len(d) - k /\ k + (j - k) = j
  BY <1>1
<1>11. Keys(d1, R1)
  <2>1. \A a, b \in 1 .. k : a < b => d1[a] < d1[b]
    BY <1>3, <1>8
  <2>2. \A j \in 1 .. k : d1[j] \in R1
    BY <1>2, <1>8
  <2>. QED BY <2>1, <2>2 DEF Keys, IsAscending, k
<1>12. Keys(d2, R2)
  <2>1. ASSUME NEW a \in 1 .. Len(d) - k, NEW b \in 1 .. Len(d) - k, a < b PROVE d2[a] < d2[b]
    <3>1. k + a < k + b
      BY <1>1, <2>1
    <3>. QED BY <1>3, <1>9, <3>1
  <2>2. \A j \in 1 .. Len(d) - k : d2[j] \in R2
    BY <1>2, <1>9
  <2>. QED BY <1>4, <2>1, <2>2 DEF Keys, IsAscending
<1>13. Holds(st, d1, R1)
  <2>1. ASSUME NEW p \in R1 PROVE p \in st <=> \E j \in 1 .. k : d1[j] = p
    <3>1. p \in Int /\ p \in R /\ p < key
      OBVIOUS
    <3>2. p \in st <=> \E j \in 1 .. Len(d) : d[j] = p
      BY <3>1 DEF Holds
    <3>3. ASSUME NEW j \in 1 .. Len(d), d[j] = p PROVE j \in 1 .. k
      <4>1. CASE j - k \in 1 .. Len(d) - k /\ k + (j - k) = j
        <5>1. key <= d[j]
          BY <1>9, <4>1
        <5>. QED BY <1>7, <3>1, <3>3, <5>1
      <4>. QED BY <1>10, <4>1
    <3>. QED BY <1>8, <3>2, <3>3
  <2>. QED BY <2>1 DEF Holds, k
<1>14. Holds(st, d2, R2)
  <2>1. ASSUME NEW p \in R2 PROVE p \in st <=> \E j \in 1 .. Len(d) - k : d2[j] = p
    <3>1. p \in Int /\ p \in R /\ key <= p
      OBVIOUS
    <3>2. p \in st <=> \E j \in 1 .. Len(d) : d[j] = p
      BY <3>1 DEF Holds
    <3>3. ASSUME NEW j \in 1 .. Len(d), d[j] = p
          PROVE  j - k \in 1 .. Len(d) - k /\ k + (j - k) = j
      <4>1. CASE j \in 1 .. k
        <5>1. d[j] < key
          BY <1>8, <4>1
        <5>. QED BY <1>7, <3>1, <3>3, <5>1
      <4>. QED BY <1>10, <4>1
    <3>. QED BY <1>9, <3>2, <3>3
  <2>. QED BY <1>4, <2>1 DEF Holds
<1>. QED BY <1>7, <1>11, <1>12, <1>13, <1>14

(* Two neighbours joined.                                                  *)
LEMMA LeafJoin ==
  ASSUME NEW st, NEW d \in Seq(Int),
         NEW d1, NEW R1, Keys(d1, R1), Holds(st, d1, R1),
         NEW d2, NEW R2, Keys(d2, R2), Holds(st, d2, R2),
         InTwo(d, d1, d2),
         NEW R, R \subseteq Int, NEW key \in Int, Halves(R, key, R1, R2)
  PROVE  Keys(d, R) /\ Holds(st, d, R)
<1>. /\ R1 \subseteq Int /\ R2 \subseteq Int
     /\ \A p \in R1, q \in R2 : p < q
     /\ \A p \in Int : p \in R <=> p \in R1 \/ p \in R2
  <2>1. \A p \in R1 : p \in Int /\ p < key
    BY DEF Halves
  <2>2. \A p \in R2 : p \in Int /\ key <= p
    BY DEF Halves
  <2>3. \A p \in Int : p < key \/ key <= p
    OBVIOUS
  <2>. QED BY <2>1, <2>2, <2>3 DEF Halves
<1> DEFINE k == Len(d1)  m == Len(d2)
<1>1. k \in Nat /\ m \in Nat /\ Len(d) = k + m
  <2>1. k \in Nat /\ m \in Nat
    BY LenProperties DEF Keys
  <2>. QED BY <2>1 DEF InTwo
<1>2. ASSUME NEW j \in 1 .. k PROVE d1[j] = d[j] /\ d[j] \in R1
  BY DEF InTwo, Keys
<1>3. ASSUME NEW j \in 1 .. m PROVE d2[j] = d[k + j] /\ d[k + j] \in R2
  BY DEF InTwo, Keys
<1>4. /\ \A a, b \in 1 .. k : a < b => d1[a] < d1[b]
      /\ \A a, b \in 1 .. m : a < b => d2[a] < d2[b]
  BY DEF Keys, IsAscending
<1>. HIDE DEF k, m
<1>5. ASSUME NEW j \in 1 .. Len(d)
      PROVE  j \in 1 .. k \/ (j - k \in 1 .. m /\ k + (j - k) = j)
  BY <1>1
<1>6. ASSUME NEW a \in 1 .. Len(d), NEW b \in 1 .. Len(d), a < b PROVE d[a] < d[b]
  <2>1. CASE a \in 1 .. k /\ b \in 1 .. k
    BY <1>2, <1>4, <1>6, <2>1
  <2>2. CASE a \in 1 .. k /\ b - k \in 1 .. m /\ k + (b - k) = b
    BY <1>2, <1>3, <2>2
  <2>3. CASE a - k \in 1 .. m /\ k + (a - k) = a /\ b - k \in 1 .. m /\ k + (b - k) = b
    <3>1. a - k < b - k
      BY <1>1, <1>6
    <3>2. d2[a - k] < d2[b - k]
      BY <1>4, <2>3, <3>1
    <3>. QED BY <1>3, <2>3, <3>2
  <2>4. CASE a - k \in 1 .. m /\ b \in 1 .. k
    <3>1. k < a /\ b <= k
      BY <1>1, <2>4
    <3>. QED BY <1>1, <1>6, <3>1
  <2>. QED BY <1>5, <2>1, <2>2, <2>3, <2>4
<1>7. ASSUME NEW j \in 1 .. Len(d) PROVE d[j] \in R
  BY <1>2, <1>3, <1>5
<1>8. ASSUME NEW p \in R PROVE p \in st <=> \E j \in 1 .. Len(d) : d[j] = p
  <2>1. CASE p \in R1
    <3>1. p \in st <=> \E j \in 1 .. k : d1[j] = p
      BY <2>1 DEF Holds, k
    <3>2. ASSUME NEW j \in 1 .. Len(d), d[j] = p PROVE j \in 1 .. k
      <4>1. CASE j - k \in 1 .. m /\ k + (j - k) = j
        <5>1. d[j] \in R2
          BY <1>3, <4>1
        <5>2. d[j] < d[j]
          BY <2>1, <3>2, <5>1
        <5>. QED BY <2>1, <3>2, <5>2
      <4>. QED BY <1>5, <4>1
    <3>3. \A j \in 1 .. k : j \in 1 .. Len(d)
      BY <1>1
    <3>. QED BY <1>2, <3>1, <3>2, <3>3
  <2>2. CASE p \in R2
    <3>1. p \in st <=> \E j \in 1 .. m : d2[j] = p
      BY <2>2 DEF Holds, m
    <3>2. ASSUME NEW j \in 1 .. Len(d), d[j] = p PROVE j - k \in 1 .. m /\ k + (j - k) = j
      <4>1. CASE j \in 1 .. k
        <5>1. d[j] \in R1
          BY <1>2, <4>1
        <5>2. d[j] < d[j]
          BY <2>2, <3>2, <5>1
        <5>. QED BY <2>2, <3>2, <5>2
      <4>. QED BY <1>5, <4>1
    <3>3. \A j \in 1 .. m : k + j \in 1 .. Len(d)
      BY <1>1
    <3>. QED BY <1>3, <3>1, <3>2, <3>3
  <2>. QED BY <2>1, <2>2
<1>. QED BY <1>6, <1>7, <1>8 DEF Keys, IsAscending, Holds

(* A pair comes into a leaf.                                               *)
LEMMA LeafInsert ==
  ASSUME NEW st, NEW d, NEW R, R \subseteq Int, Keys(d, R), Holds(st, d, R),
         NEW p \in R, NEW k \in 0 .. Len(d), k > 0 => d[k] < p, k < Len(d) => p < d[k + 1],
         NEW d2 \in Seq(Int), Inserted(d, k + 1, p, d2)
  PROVE  Keys(d2, R) /\ Holds(st \cup {p}, d2, R)
<1>1. d \in Seq(Int) /\ IsAscending(d) /\ Len(d) \in Nat /\ k \in Nat /\ k <= Len(d) /\ p \in Int
  <2>1. d \in Seq(Int) /\ IsAscending(d) /\ Len(d) \in Nat
    BY LenProperties DEF Keys
  <2>. QED BY <2>1
<1>2. IsAscending(d2)
  BY <1>1, AscendingInserted
<1>3. Len(d2) = Len(d) + 1
      /\ \A j \in 1 .. Len(d) + 1 : d2[j] = IF j < k + 1 THEN d[j] ELSE IF j = k + 1 THEN p ELSE d[j - 1]
  BY DEF Inserted
<1>4. ASSUME NEW j \in 1 .. Len(d) + 1
      PROVE  d2[j] = p \/ \E i \in 1 .. Len(d) : d2[j] = d[i]
  <2>1. (j < k + 1 => j \in 1 .. Len(d)) /\ (j > k + 1 => j - 1 \in 1 .. Len(d))
        /\ (j < k + 1 \/ j = k + 1 \/ j > k + 1)
    BY <1>1
  <2>2. CASE j < k + 1
    BY <1>3, <2>1, <2>2
  <2>3. CASE j = k + 1
    <3>1. ~ (j < k + 1)
      BY <1>1, <2>3
    <3>. QED BY <1>3, <2>3, <3>1
  <2>4. CASE j > k + 1
    <3>1. ~ (j < k + 1) /\ j # k + 1
      BY <1>1, <2>4
    <3>2. d2[j] = d[j - 1]
      BY <1>3, <3>1, Zenon
    <3>. QED BY <2>1, <2>4, <3>2
  <2>. QED BY <2>1, <2>2, <2>3, <2>4, Zenon
<1>5. ASSUME NEW i \in 1 .. Len(d) PROVE \E j \in 1 .. Len(d) + 1 : d2[j] = d[i]
  <2>1. CASE i < k + 1
    <3>1. i \in 1 .. Len(d) + 1
      BY <1>1
    <3>. QED BY <1>3, <2>1, <3>1
  <2>2. CASE i >= k + 1
    <3>1. i + 1 \in 1 .. Len(d) + 1 /\ ~ (i + 1 < k + 1) /\ i + 1 # k + 1 /\ (i + 1) - 1 = i
      BY <1>1, <2>2
    <3>2. d2[i + 1] = d[(i + 1) - 1]
      BY <1>3, <3>1, Zenon
    <3>. QED BY <3>1, <3>2
  <2>3. i < k + 1 \/ i >= k + 1
    BY <1>1
  <2>. QED BY <2>1, <2>2, <2>3, Zenon
<1>6. \E j \in 1 .. Len(d) + 1 : d2[j] = p
  <2>1. k + 1 \in 1 .. Len(d) + 1 /\ ~ (k + 1 < k + 1)
    BY <1>1
  <2>2. d2[k + 1] = p
    BY <1>3, <2>1
  <2>. QED BY <2>1, <2>2
<1>7. \A i \in 1 .. Len(d) : d[i] \in R
  BY DEF Keys
<1>8. Keys(d2, R)
  <2>1. \A j \in 1 .. Len(d2) : d2[j] \in R
    BY <1>3, <1>4, <1>7, Zenon
  <2>. QED BY <1>2, <2>1 DEF Keys
<1>9. ASSUME NEW q \in R PROVE q \in st \cup {p} <=> \E j \in 1 .. Len(d2) : d2[j] = q
  <2>1. q \in st <=> \E j \in 1 .. Len(d) : d[j] = q
    BY DEF Holds
  <2>. QED BY <1>3, <1>4, <1>5, <1>6, <2>1
<1>. QED BY <1>8, <1>9 DEF Holds

(* A pair is taken out of a leaf.                                          *)
LEMMA LeafRemove ==
  ASSUME NEW st, NEW d2, NEW R, R \subseteq Int, Keys(d2, R), Holds(st, d2, R),
         NEW d \in Seq(Int), NEW k \in 0 .. Len(d), NEW p, Inserted(d, k + 1, p, d2)
  PROVE  Keys(d, R) /\ Holds(st \ {p}, d, R)
<1>1. d2 \in Seq(Int) /\ IsAscending(d2) /\ Len(d) \in Nat /\ k \in Nat /\ k <= Len(d)
  <2>1. d2 \in Seq(Int) /\ IsAscending(d2) /\ Len(d) \in Nat
    BY LenProperties DEF Keys
  <2>. QED BY <2>1
<1>2. IsAscending(d)
  BY <1>1, AscendingRemoved
<1>3. Len(d2) = Len(d) + 1
      /\ \A j \in 1 .. Len(d) + 1 : d2[j] = IF j < k + 1 THEN d[j] ELSE IF j = k + 1 THEN p ELSE d[j - 1]
  BY DEF Inserted
<1>4. k + 1 \in 1 .. Len(d) + 1 /\ d2[k + 1] = p
  <2>1. k + 1 \in 1 .. Len(d) + 1 /\ ~ (k + 1 < k + 1)
    BY <1>1
  <2>. QED BY <1>3, <2>1
<1>5. ASSUME NEW i \in 1 .. Len(d)
      PROVE  \E j \in 1 .. Len(d) + 1 : j # k + 1 /\ d2[j] = d[i]
  <2>1. CASE i < k + 1
    <3>1. i \in 1 .. Len(d) + 1 /\ i # k + 1
      BY <1>1, <2>1
    <3>. QED BY <1>3, <2>1, <3>1
  <2>2. CASE i >= k + 1
    <3>1. i + 1 \in 1 .. Len(d) + 1 /\ ~ (i + 1 < k + 1) /\ i + 1 # k + 1 /\ (i + 1) - 1 = i
      BY <1>1, <2>2
    <3>2. d2[i + 1] = d[(i + 1) - 1]
      BY <1>3, <3>1, Zenon
    <3>. QED BY <3>1, <3>2
  <2>3. i < k + 1 \/ i >= k + 1
    BY <1>1
  <2>. QED BY <2>1, <2>2, <2>3, Zenon
<1>6. ASSUME NEW j \in 1 .. Len(d) + 1, j # k + 1
      PROVE  \E i \in 1 .. Len(d) : d2[j] = d[i]
  <2>1. (j < k + 1 => j \in 1 .. Len(d)) /\ (j > k + 1 => j - 1 \in 1 .. Len(d))
        /\ (j < k + 1 \/ j > k + 1)
    BY <1>1, <1>6
  <2>2. CASE j < k + 1
    BY <1>3, <2>1, <2>2
  <2>4. CASE j > k + 1
    <3>1. ~ (j < k + 1) /\ j # k + 1
      BY <1>1, <2>4
    <3>2. d2[j] = d[j - 1]
      BY <1>3, <3>1, Zenon
    <3>. QED BY <2>1, <2>4, <3>2
  <2>. QED BY <2>1, <2>2, <2>4, Zenon
<1>7. \A j \in 1 .. Len(d) + 1 : d2[j] \in R /\ d2[j] \in Int
  BY <1>3 DEF Keys
<1>8. \A j \in 1 .. Len(d) + 1 : d2[j] = p => j = k + 1
  <2>1. ASSUME NEW j \in 1 .. Len(d) + 1, j # k + 1 PROVE d2[j] # p
    <3>1. j < k + 1 \/ k + 1 < j
      BY <1>1, <2>1
    <3>2. d2[j] < d2[k + 1] \/ d2[k + 1] < d2[j]
      BY <1>1, <1>3, <1>4, <3>1 DEF IsAscending
    <3>. QED BY <1>4, <1>7, <3>2
  <2>. QED BY <2>1
<1>9. Keys(d, R)
  <2>1. \A j \in 1 .. Len(d) : d[j] \in R
    BY <1>5, <1>7
  <2>. QED BY <1>2, <2>1 DEF Keys
<1>10. ASSUME NEW q \in R PROVE q \in st \ {p} <=> \E i \in 1 .. Len(d) : d[i] = q
  <2>1. q \in st <=> \E j \in 1 .. Len(d) + 1 : d2[j] = q
    BY <1>3 DEF Holds
  <2>. QED BY <1>4, <1>5, <1>6, <1>8, <2>1
<1>. QED BY <1>9, <1>10 DEF Holds

-----------------------------------------------------------------------------
(***************************************************************************)
(* The tree.  Every page in use has a level and a range.  The pages of a   *)
(* level share out all pairs among them; a leaf holds the stored pairs of  *)
(* its range and is chained to the leaf of the range after it; an index    *)
(* node hands out its range to its children.                               *)
(***************************************************************************)

NodeType == [data : Seq(Int), children : Seq(Nat), sibling : Nat \cup {NoPage}]

IsRange(R) ==
  /\ R \subseteq Int /\ R # {}
  /\ \A p, q \in R : \A x \in Int : p <= x /\ x <= q => x \in R

Cells(nd, ht, lev, rng) ==
  /\ ht \in Nat
  /\ IsFiniteSet(DOMAIN nd) /\ DOMAIN nd \subseteq Nat \ {0}
  /\ \A n \in DOMAIN nd : nd[n] \in NodeType /\ lev[n] \in 1 .. ht /\ IsRange(rng[n])
  /\ \A m, n \in DOMAIN nd : \A p \in Int :
       lev[m] = lev[n] /\ p \in rng[m] /\ p \in rng[n] => m = n
  /\ \A k \in 1 .. ht : \A p \in Int : \E n \in DOMAIN nd : lev[n] = k /\ p \in rng[n]

NextOK(nd, lev, rng, n) ==
  IF nd[n].sibling = NoPage
  THEN \A p \in rng[n] : \A x \in Int : p <= x => x \in rng[n]
  ELSE /\ nd[n].sibling \in DOMAIN nd
       /\ lev[nd[n].sibling] = 1
       /\ \E b \in Int : b \in rng[nd[n].sibling] /\ b \notin rng[n] /\ b - 1 \in rng[n]

NodeOK(nd, st, lev, rng, n) ==
  /\ Keys(nd[n].data, rng[n])
  /\ lev[n] = 1 =>
       nd[n].children = <<>> /\ Holds(st, nd[n].data, rng[n]) /\ NextOK(nd, lev, rng, n)
  /\ lev[n] > 1 =>
       Fan(DOMAIN nd, lev, rng, nd[n].data, nd[n].children, lev[n], rng[n])

NodesOK(nd, st, lev, rng) == \A n \in DOMAIN nd : NodeOK(nd, st, lev, rng, n)

Children(nd, n) == {nd[n].children[i] : i \in 1 .. Len(nd[n].children)}

(* What Cells says of one page.                                            *)
LEMMA CellFacts ==
  ASSUME NEW nd, NEW ht, NEW lev, NEW rng, Cells(nd, ht, lev, rng), NEW n \in DOMAIN nd
  PROVE  /\ nd[n] \in NodeType
         /\ nd[n].data \in Seq(Int) /\ nd[n].children \in Seq(Nat)
         /\ nd[n].sibling \in Nat \cup {NoPage}
         /\ lev[n] \in Nat /\ lev[n] \in Int /\ 1 <= lev[n] /\ lev[n] <= ht /\ ht \in Nat
         /\ rng[n] \subseteq Int /\ IsRange(rng[n])
         /\ \E p \in Int : p \in rng[n]
         /\ n \in Nat \ {0}
<1>1. nd[n] \in NodeType /\ lev[n] \in 1 .. ht /\ IsRange(rng[n]) /\ ht \in Nat /\ n \in Nat \ {0}
  BY DEF Cells
<1>2. rng[n] \subseteq Int /\ \E p \in Int : p \in rng[n]
  BY <1>1 DEF IsRange
<1>3. lev[n] \in Nat /\ lev[n] \in Int /\ 1 <= lev[n] /\ lev[n] <= ht
  BY <1>1
<1>. QED BY <1>1, <1>2, <1>3 DEF NodeType

(* No pair is in the ranges of two pages of one level.                     *)
LEMMA CellsDisjoint ==
  ASSUME NEW nd, NEW ht, NEW lev, NEW rng, Cells(nd, ht, lev, rng),
         NEW m \in DOMAIN nd, NEW n \in DOMAIN nd, lev[m] = lev[n],
         NEW p, p \in rng[m], p \in rng[n]
  PROVE  m = n
<1>1. p \in Int
  BY CellFacts
<1>. QED BY <1>1 DEF Cells

(* Where the children of a node are, and how they are numbered.            *)
LEMMA ChildFacts ==
  ASSUME NEW nd, NEW ht, NEW lev, NEW rng, NEW st,
         Cells(nd, ht, lev, rng), NodesOK(nd, st, lev, rng),
         NEW n \in DOMAIN nd, lev[n] > 1
  PROVE  /\ nd[n].data \in Seq(Int) /\ Len(nd[n].data) \in Nat
         /\ Len(nd[n].children) = Len(nd[n].data) + 1
         /\ \A i \in 0 .. Len(nd[n].data) :
              Below(DOMAIN nd, lev, rng, nd[n].children[i + 1], nd[n].data, i, lev[n], rng[n])
         /\ \A c \in Children(nd, n) :
              /\ c \in DOMAIN nd /\ lev[c] = lev[n] - 1
              /\ \A p \in rng[c] : p \in rng[n]
              /\ \E i \in 0 .. Len(nd[n].data) : c = nd[n].children[i + 1]
<1>1. NodeOK(nd, st, lev, rng, n)
  BY DEF NodesOK
<1>2. Fan(DOMAIN nd, lev, rng, nd[n].data, nd[n].children, lev[n], rng[n])
  BY <1>1 DEF NodeOK
<1>3. nd[n].data \in Seq(Int) /\ Len(nd[n].data) \in Nat
  BY <1>1, LenProperties DEF NodeOK, Keys
<1>4. /\ Len(nd[n].children) = Len(nd[n].data) + 1
      /\ \A i \in 0 .. Len(nd[n].data) :
           Below(DOMAIN nd, lev, rng, nd[n].children[i + 1], nd[n].data, i, lev[n], rng[n])
  BY <1>2 DEF Fan
<1>5. ASSUME NEW c \in Children(nd, n)
      PROVE  /\ c \in DOMAIN nd /\ lev[c] = lev[n] - 1
             /\ \A p \in rng[c] : p \in rng[n]
             /\ \E i \in 0 .. Len(nd[n].data) : c = nd[n].children[i + 1]
  <2>1. PICK j \in 1 .. Len(nd[n].children) : c = nd[n].children[j]
    BY DEF Children
  <2>2. j - 1 \in 0 .. Len(nd[n].data) /\ (j - 1) + 1 = j
    BY <1>3, <1>4
  <2>3. Below(DOMAIN nd, lev, rng, c, nd[n].data, j - 1, lev[n], rng[n])
    BY <1>4, <2>1, <2>2
  <2>4. c \in DOMAIN nd /\ lev[c] = lev[n] - 1 /\ \A p \in Int : p \in rng[c] => p \in rng[n]
    BY <2>3 DEF Below
  <2>5. rng[c] \subseteq Int
    BY <2>4 DEF Cells, IsRange
  <2>. QED BY <2>1, <2>2, <2>4, <2>5
<1>. QED BY <1>3, <1>4, <1>5

(* The page below a slot is a child.                                       *)
LEMMA ChildOfSlot ==
  ASSUME NEW nd, NEW n, Len(nd[n].data) \in Nat,
         Len(nd[n].children) = Len(nd[n].data) + 1,
         NEW i \in 0 .. Len(nd[n].data)
  PROVE  nd[n].children[i + 1] \in Children(nd, n)
<1>1. i + 1 \in 1 .. Len(nd[n].children)
  OBVIOUS
<1>. QED BY <1>1 DEF Children

(* No page hangs below two nodes.                                          *)
LEMMA ParentUnique ==
  ASSUME NEW nd, NEW ht, NEW lev, NEW rng, NEW st,
         Cells(nd, ht, lev, rng), NodesOK(nd, st, lev, rng),
         NEW m \in DOMAIN nd, NEW n \in DOMAIN nd, lev[m] > 1, lev[n] > 1,
         NEW c, c \in Children(nd, m), c \in Children(nd, n)
  PROVE  m = n
<1>1. c \in DOMAIN nd /\ lev[c] = lev[m] - 1 /\ \A p \in rng[c] : p \in rng[m]
  BY ChildFacts
<1>2. lev[c] = lev[n] - 1 /\ \A p \in rng[c] : p \in rng[n]
  BY ChildFacts
<1>3. lev[m] \in Int /\ lev[n] \in Int
  BY CellFacts
<1>4. lev[m] = lev[n]
  BY <1>1, <1>2, <1>3
<1>5. PICK p \in Int : p \in rng[c]
  BY <1>1, CellFacts
<1>. QED BY <1>1, <1>2, <1>4, <1>5 DEF Cells

(* The part of a node that does not see a change: the children and the     *)
(* sibling have their ranges still.                                        *)
LEMMA NodeKept ==
  ASSUME NEW nd, NEW nd2, NEW st, NEW lev, NEW rng, NEW lev2, NEW rng2, NEW n,
         NodeOK(nd, st, lev, rng, n), lev[n] \in Nat \ {0},
         nd2[n] = nd[n], lev2[n] = lev[n], rng2[n] = rng[n],
         lev[n] > 1 => \A c \in Children(nd, n) :
                         c \in DOMAIN nd2 /\ lev2[c] = lev[c] /\ rng2[c] = rng[c],
         lev[n] > 1 => Len(nd[n].data) \in Nat,
         lev[n] = 1 => NextOK(nd2, lev2, rng2, n)
  PROVE  NodeOK(nd2, st, lev2, rng2, n)
<1>1. CASE lev[n] = 1
  BY <1>1 DEF NodeOK
<1>2. CASE lev[n] > 1
  <2>1. Fan(DOMAIN nd, lev, rng, nd[n].data, nd[n].children, lev[n], rng[n])
    BY <1>2 DEF NodeOK
  <2>2. ASSUME NEW i \in 0 .. Len(nd[n].data)
        PROVE  Below(DOMAIN nd2, lev2, rng2, nd[n].children[i + 1], nd[n].data, i, lev[n], rng[n])
    <3>1. Below(DOMAIN nd, lev, rng, nd[n].children[i + 1], nd[n].data, i, lev[n], rng[n])
      BY <2>1 DEF Fan
    <3>2. nd[n].children[i + 1] \in Children(nd, n)
      BY <1>2, <2>1, ChildOfSlot DEF Fan
    <3>. QED BY <1>2, <3>1, <3>2 DEF Below
  <2>3. Fan(DOMAIN nd2, lev2, rng2, nd[n].data, nd[n].children, lev[n], rng[n])
    BY <2>1, <2>2 DEF Fan
  <2>. QED BY <1>2, <2>3 DEF NodeOK
<1>. QED BY <1>1, <1>2

(* The pages A that hang below P are replaced by B, which share out the    *)
(* same range, and a leaf whose chain leads into A finds the page there.   *)
Relinked(nd, lev, rng, P, A, nd2, lev2, rng2, B) ==
  /\ A \subseteq Children(nd, P)
  /\ IsFiniteSet(B) /\ B \subseteq Nat \ {0}
  /\ DOMAIN nd2 = (DOMAIN nd \ A) \cup B
  /\ \A n \in DOMAIN nd \ A :
        n \notin B /\ lev2[n] = lev[n] /\ rng2[n] = rng[n] /\ (n # P => nd2[n] = nd[n])
  /\ nd2[P] \in NodeType
  /\ \A b \in B : nd2[b] \in NodeType /\ lev2[b] = lev[P] - 1 /\ IsRange(rng2[b])
  /\ \A b, c \in B : \A p \in Int : p \in rng2[b] /\ p \in rng2[c] => b = c
  /\ \A p \in Int : (\E a \in A : p \in rng[a]) <=> (\E b \in B : p \in rng2[b])
  /\ lev[P] = 2 =>
       \A a \in A : \A n \in DOMAIN nd \ A : \A x \in Int :
          lev[n] = 1 /\ x \in rng[a] /\ x - 1 \in rng[n] => a \in B /\ x \in rng2[a]

(* The rest of the tree stays as it is.                                    *)
LEMMA Relink ==
  ASSUME NEW nd, NEW ht, NEW lev, NEW rng, NEW st,
         Cells(nd, ht, lev, rng), NodesOK(nd, st, lev, rng),
         NEW P \in DOMAIN nd, lev[P] > 1,
         NEW A, NEW nd2, NEW lev2, NEW rng2, NEW B,
         Relinked(nd, lev, rng, P, A, nd2, lev2, rng2, B)
  PROVE  /\ Cells(nd2, ht, lev2, rng2)
         /\ P \notin A /\ P \notin B
         /\ \A n \in DOMAIN nd \ A : n # P => NodeOK(nd2, st, lev2, rng2, n)
<1> USE DEF Relinked
<1> DEFINE Rest == DOMAIN nd \ A
<1>1. \A a \in A : a \in DOMAIN nd /\ lev[a] = lev[P] - 1
  BY ChildFacts
<1>2. lev[P] \in Int /\ lev[P] <= ht /\ ht \in Nat
  BY CellFacts
<1>3. P \notin A
  BY <1>1, <1>2
<1>4. P \notin B
  BY <1>3
<1>5. ASSUME NEW n \in DOMAIN nd2
      PROVE  nd2[n] \in NodeType /\ lev2[n] \in 1 .. ht /\ IsRange(rng2[n])
  <2>1. CASE n \in Rest
    BY <2>1 DEF Cells
  <2>2. CASE n \in B
    <3>1. lev[P] - 1 \in 1 .. ht
      BY <1>2
    <3>. QED BY <2>2, <3>1
  <2>. QED BY <2>1, <2>2
<1>6. IsFiniteSet(DOMAIN nd2) /\ DOMAIN nd2 \subseteq Nat \ {0}
  <2>1. IsFiniteSet(DOMAIN nd) /\ DOMAIN nd \subseteq Nat \ {0}
    BY DEF Cells
  <2>2. IsFiniteSet(Rest)
    BY <2>1, FS_Difference
  <2>3. IsFiniteSet(Rest \cup B)
    BY <2>2, FS_Union
  <2>. QED BY <2>1, <2>3
<1>7. ASSUME NEW m \in Rest, NEW b \in B, NEW p \in Int,
             lev2[m] = lev2[b], p \in rng2[m], p \in rng2[b]
      PROVE  FALSE
  <2>1. PICK a \in A : p \in rng[a]
    BY <1>7
  <2>2. a \in DOMAIN nd /\ m \in DOMAIN nd /\ lev[a] = lev[m] /\ p \in rng[m]
    BY <1>1, <1>7
  <2>3. a = m
    BY <2>1, <2>2 DEF Cells
  <2>. QED BY <2>3
<1>8. ASSUME NEW m \in DOMAIN nd2, NEW n \in DOMAIN nd2, NEW p \in Int,
             lev2[m] = lev2[n], p \in rng2[m], p \in rng2[n]
      PROVE  m = n
  <2>1. CASE m \in Rest /\ n \in Rest
    <3>1. m \in DOMAIN nd /\ n \in DOMAIN nd /\ lev[m] = lev[n] /\ p \in rng[m] /\ p \in rng[n]
      BY <1>8, <2>1
    <3>. QED BY <3>1 DEF Cells
  <2>2. CASE m \in B /\ n \in B
    BY <1>8, <2>2
  <2>3. CASE m \in Rest /\ n \in B
    BY <1>7, <1>8, <2>3
  <2>4. CASE m \in B /\ n \in Rest
    BY <1>7, <1>8, <2>4
  <2>. QED BY <2>1, <2>2, <2>3, <2>4
<1>9. ASSUME NEW k \in 1 .. ht, NEW p \in Int
      PROVE  \E n \in DOMAIN nd2 : lev2[n] = k /\ p \in rng2[n]
  <2>1. PICK n \in DOMAIN nd : lev[n] = k /\ p \in rng[n]
    BY DEF Cells
  <2>2. CASE n \in A
    <3>1. PICK b \in B : p \in rng2[b]
      BY <2>1, <2>2
    <3>2. lev2[b] = k
      BY <1>1, <2>1, <2>2
    <3>. QED BY <3>1, <3>2
  <2>3. CASE n \in Rest
    BY <2>1, <2>3
  <2>. QED BY <2>2, <2>3
<1>10. Cells(nd2, ht, lev2, rng2)
  BY <1>2, <1>5, <1>6, <1>8, <1>9 DEF Cells
<1>11. ASSUME NEW n \in Rest, n # P
       PROVE  NodeOK(nd2, st, lev2, rng2, n)
  <2>1. NodeOK(nd, st, lev, rng, n) /\ lev[n] \in Nat \ {0}
    BY CellFacts DEF NodesOK
  <2>2. nd2[n] = nd[n] /\ lev2[n] = lev[n] /\ rng2[n] = rng[n]
    BY <1>11
  <2>3. ASSUME lev[n] > 1, NEW c \in Children(nd, n)
        PROVE  c \in DOMAIN nd2 /\ lev2[c] = lev[c] /\ rng2[c] = rng[c]
    <3>1. c \notin A
      <4>1. c \in A => c \in Children(nd, P)
        OBVIOUS
      <4>. QED BY <1>11, <2>3, <4>1, ParentUnique
    <3>2. c \in Rest
      BY <2>3, <3>1, ChildFacts
    <3>. QED BY <3>2
  <2>4. lev[n] > 1 => Len(nd[n].data) \in Nat
    BY ChildFacts
  <2>5. ASSUME lev[n] = 1 PROVE NextOK(nd2, lev2, rng2, n)
    <3>1. NextOK(nd, lev, rng, n)
      BY <2>1, <2>5 DEF NodeOK
    <3>2. CASE nd[n].sibling = NoPage
      BY <2>2, <3>1, <3>2 DEF NextOK
    <3>3. CASE nd[n].sibling # NoPage
      <4> DEFINE s == nd[n].sibling
      <4>1. s \in DOMAIN nd /\ lev[s] = 1
        BY <3>1, <3>3 DEF NextOK
      <4>2. PICK x \in Int : x \in rng[s] /\ x \notin rng[n] /\ x - 1 \in rng[n]
        BY <3>1, <3>3 DEF NextOK
      <4>3. CASE s \in A
        <5>1. lev[P] = 2
          BY <1>1, <1>2, <4>1, <4>3
        <5>2. s \in B /\ x \in rng2[s]
          BY <2>5, <4>2, <4>3, <5>1
        <5>3. s \in DOMAIN nd2 /\ lev2[s] = 1
          <6>1. s \in DOMAIN nd2 /\ lev2[s] = lev[P] - 1
            BY <5>2
          <6>. QED BY <5>1, <6>1
        <5>. QED BY <2>2, <3>3, <4>2, <5>2, <5>3 DEF NextOK
      <4>4. CASE s \in Rest
        <5>1. s \in DOMAIN nd2 /\ lev2[s] = 1 /\ rng2[s] = rng[s]
          BY <4>1, <4>4
        <5>. QED BY <2>2, <3>3, <4>2, <5>1 DEF NextOK
      <4>. QED BY <4>1, <4>3, <4>4
    <3>. QED BY <3>2, <3>3
  <2>. QED BY <2>1, <2>2, <2>3, <2>4, <2>5, NodeKept
<1>. QED BY <1>3, <1>4, <1>10, <1>11

-----------------------------------------------------------------------------
(***************************************************************************)
(* Two neighbours below one node, and the key between them.                *)
(***************************************************************************)

(* left and right are the children of P on the two sides of its key sep.   *)
Neighbours(nd, P, i, left, sep, right) ==
  /\ i \in 0 .. Len(nd[P].data) - 1
  /\ sep = nd[P].data[i + 1]
  /\ left = nd[P].children[i + 1]
  /\ right = nd[P].children[i + 2]

(* How their ranges lie.                                                   *)
Adjacent(nd, lev, rng, P, left, sep, right) ==
  /\ left \in Children(nd, P) /\ right \in Children(nd, P) /\ left # right
  /\ left \in DOMAIN nd /\ right \in DOMAIN nd
  /\ lev[left] = lev[P] - 1 /\ lev[right] = lev[P] - 1
  /\ sep \in Int /\ sep \in rng[right]
  /\ \A p \in rng[left] : p < sep
  /\ \A p \in rng[right] : sep <= p
  /\ IsRange(rng[left]) /\ IsRange(rng[right]) /\ IsRange(rng[left] \cup rng[right])

LEMMA NeighbourRanges ==
  ASSUME NEW nd, NEW ht, NEW lev, NEW rng, NEW st,
         Cells(nd, ht, lev, rng), NodesOK(nd, st, lev, rng),
         NEW P \in DOMAIN nd, lev[P] > 1,
         NEW i, NEW left, NEW sep, NEW right, Neighbours(nd, P, i, left, sep, right)
  PROVE  Adjacent(nd, lev, rng, P, left, sep, right)
<1> DEFINE d == nd[P].data
<1>1. /\ d \in Seq(Int) /\ Len(d) \in Nat /\ Len(nd[P].children) = Len(d) + 1
      /\ \A j \in 0 .. Len(d) :
           Below(DOMAIN nd, lev, rng, nd[P].children[j + 1], d, j, lev[P], rng[P])
  BY ChildFacts
<1>2. \A j \in 1 .. Len(d) : d[j] \in Int /\ d[j] \in rng[P]
  <2>1. Keys(d, rng[P])
    BY DEF NodesOK, NodeOK
  <2>. QED BY <2>1, ElementOfSeq DEF Keys
<1>3. IsRange(rng[P]) /\ lev[P] \in Int
  BY CellFacts
<1>4. /\ i \in Nat /\ i < Len(d) /\ sep = d[i + 1]
      /\ left = nd[P].children[i + 1] /\ right = nd[P].children[i + 2]
  BY <1>1 DEF Neighbours
<1>5. /\ i \in 0 .. Len(d) /\ i + 1 \in 0 .. Len(d) /\ i + 1 \in 1 .. Len(d)
      /\ (i + 1) + 1 = i + 2
      /\ (i > 0 => i \in 1 .. Len(d))
      /\ (i + 1 < Len(d) => i + 2 \in 1 .. Len(d))
  BY <1>1, <1>4
<1>6. Below(DOMAIN nd, lev, rng, left, d, i, lev[P], rng[P])
  BY <1>1, <1>4, <1>5
<1>7. Below(DOMAIN nd, lev, rng, right, d, i + 1, lev[P], rng[P])
  BY <1>1, <1>4, <1>5
<1>8. sep \in Int /\ sep = d[i + 1] /\ sep \in rng[P]
  BY <1>2, <1>4, <1>5
<1>9. left \in Children(nd, P) /\ right \in Children(nd, P)
  <2>1. left \in Children(nd, P)
    BY <1>1, <1>4, <1>5, ChildOfSlot
  <2>2. nd[P].children[(i + 1) + 1] \in Children(nd, P)
    BY <1>1, <1>5, ChildOfSlot
  <2>. QED BY <1>4, <1>5, <2>1, <2>2
<1>10. /\ left \in DOMAIN nd /\ right \in DOMAIN nd
       /\ lev[left] = lev[P] - 1 /\ lev[right] = lev[P] - 1
  BY <1>6, <1>7 DEF Below
<1>11. IsRange(rng[left]) /\ IsRange(rng[right]) /\ rng[left] \subseteq Int /\ rng[right] \subseteq Int
  BY <1>10, CellFacts
<1>12. \A p \in Int : p \in rng[left]
                        <=> p \in rng[P] /\ (i > 0 => d[i] <= p) /\ p < sep
  BY <1>4, <1>6, <1>8 DEF Below, InSlot
<1>13. \A p \in Int : p \in rng[right]
                        <=> p \in rng[P] /\ sep <= p /\ (i + 1 < Len(d) => p < d[i + 2])
  <2>1. \A p \in Int : InSlot(d, i + 1, p) <=> sep <= p /\ (i + 1 < Len(d) => p < d[i + 2])
    BY <1>4, <1>5, <1>8 DEF InSlot
  <2>. QED BY <1>7, <2>1 DEF Below
<1>14. (i > 0 => d[i] \in Int /\ d[i] < sep) /\ (i + 1 < Len(d) => d[i + 2] \in Int /\ sep < d[i + 2])
  <2>1. IsAscending(d)
    BY DEF NodesOK, NodeOK, Keys
  <2>2. (i > 0 => i < i + 1) /\ i + 1 < i + 2
    BY <1>4
  <2>. QED BY <1>2, <1>5, <1>8, <2>1, <2>2 DEF IsAscending
<1>15. sep \in rng[right]
  BY <1>8, <1>13, <1>14
<1>16. \A p \in rng[left] : p < sep
  BY <1>11, <1>12
<1>17. \A p \in rng[right] : sep <= p
  BY <1>11, <1>13
<1>18. \A p \in Int : p \in rng[left] \cup rng[right]
                        <=> /\ p \in rng[P]
                            /\ (i > 0 => d[i] <= p)
                            /\ (i + 1 < Len(d) => p < d[i + 2])
  <2>1. ASSUME NEW p \in Int PROVE p < sep => (i + 1 < Len(d) => p < d[i + 2])
    BY <1>8, <1>14
  <2>2. ASSUME NEW p \in Int PROVE sep <= p => (i > 0 => d[i] <= p)
    BY <1>8, <1>14
  <2>3. \A p \in Int : p < sep \/ sep <= p
    BY <1>8
  <2>. QED BY <1>12, <1>13, <2>1, <2>2, <2>3
<1>19. ASSUME NEW p \in rng[left] \cup rng[right], NEW q \in rng[left] \cup rng[right],
              NEW x \in Int, p <= x, x <= q
       PROVE  x \in rng[left] \cup rng[right]
  <2>1. p \in Int /\ q \in Int
    BY <1>11
  <2>2. p \in rng[P] /\ q \in rng[P] /\ (i > 0 => d[i] <= p) /\ (i + 1 < Len(d) => q < d[i + 2])
    BY <1>18, <2>1
  <2>3. x \in rng[P]
    BY <1>3, <1>19, <2>2 DEF IsRange
  <2>4. (i > 0 => d[i] <= x) /\ (i + 1 < Len(d) => x < d[i + 2])
    BY <1>14, <1>19, <2>1, <2>2
  <2>. QED BY <1>18, <2>3, <2>4
<1>20. IsRange(rng[left] \cup rng[right])
  BY <1>11, <1>19 DEF IsRange
<1>21. left # right
  BY <1>8, <1>15, <1>16
<1>. QED BY <1>8, <1>9, <1>10, <1>11, <1>15, <1>16, <1>17, <1>20, <1>21 DEF Adjacent

(* What is left of a range on one side of a cut is a range.                *)
LEMMA RangeCut ==
  ASSUME NEW R, IsRange(R), NEW key \in Int, NEW R1, NEW R2, Halves(R, key, R1, R2),
         \E p \in R : p < key, \E p \in R : key <= p
  PROVE  /\ IsRange(R1) /\ IsRange(R2)
         /\ \A p \in R1, q \in R2 : p < q
         /\ \A p \in Int : p \in R <=> p \in R1 \/ p \in R2
         /\ key \in R2 /\ key \notin R1 /\ key - 1 \in R1
<1> USE DEF Halves
<1>1. R \subseteq Int /\ \A p, q \in R : \A x \in Int : p <= x /\ x <= q => x \in R
  BY DEF IsRange
<1>2. PICK a \in R : a < key
  OBVIOUS
<1>3. PICK b \in R : key <= b
  OBVIOUS
<1>4. a \in Int /\ b \in Int /\ a <= key - 1 /\ key - 1 <= b /\ a <= key /\ key - 1 \in Int
  BY <1>1, <1>2, <1>3
<1>5. key \in R /\ key - 1 \in R /\ key - 1 < key /\ ~ (key < key)
  BY <1>1, <1>3, <1>4
<1>6. key \in R2 /\ key \notin R1 /\ key - 1 \in R1
  BY <1>4, <1>5
<1>7. IsRange(R1)
  <2>1. ASSUME NEW p \in R1, NEW q \in R1, NEW x \in Int, p <= x, x <= q PROVE x \in R1
    <3>1. p \in R /\ q \in R /\ q < key /\ p \in Int /\ q \in Int
      OBVIOUS
    <3>2. x \in R /\ x < key
      BY <1>1, <2>1, <3>1
    <3>. QED BY <3>2
  <2>. QED BY <1>6, <2>1 DEF IsRange
<1>8. IsRange(R2)
  <2>1. ASSUME NEW p \in R2, NEW q \in R2, NEW x \in Int, p <= x, x <= q PROVE x \in R2
    <3>1. p \in R /\ q \in R /\ key <= p /\ p \in Int /\ q \in Int
      OBVIOUS
    <3>2. x \in R /\ key <= x
      BY <1>1, <2>1, <3>1
    <3>. QED BY <3>2
  <2>. QED BY <1>6, <2>1 DEF IsRange
<1>9. ASSUME NEW p \in R1, NEW q \in R2 PROVE p < q
  <2>1. p \in Int /\ q \in Int /\ p < key /\ key <= q
    OBVIOUS
  <2>. QED BY <2>1
<1>10. ASSUME NEW p \in Int PROVE p \in R <=> p \in R1 \/ p \in R2
  <2>1. p < key \/ key <= p
    OBVIOUS
  <2>. QED BY <2>1
<1>. QED BY <1>6, <1>7, <1>8, <1>9, <1>10

-----------------------------------------------------------------------------
(***************************************************************************)
(* The chain of leaves.  s follows the range R: it is the leaf of the next *)
(* pair, or R has no end.                                                  *)
(***************************************************************************)

Follows(pages, lev, rng, s, R) ==
  IF s = NoPage
  THEN \A p \in R : \A x \in Int : p <= x => x \in R
  ELSE /\ s \in pages
       /\ lev[s] = 1
       /\ \E b \in Int : b \in rng[s] /\ b \notin R /\ b - 1 \in R

(* What follows a range follows its upper part.                            *)
LEMMA FollowsCut ==
  ASSUME NEW pages, NEW lev, NEW rng, NEW s, NEW R, IsRange(R),
         Follows(pages, lev, rng, s, R),
         NEW key \in R, NEW R1, NEW R2, Halves(R, key, R1, R2),
         NEW pages2, NEW lev2, NEW rng2,
         s # NoPage /\ (\E b \in rng[s] : b \in Int /\ b \notin R)
           => s \in pages2 /\ lev2[s] = lev[s] /\ rng2[s] = rng[s]
  PROVE  Follows(pages2, lev2, rng2, s, R2)
<1> USE DEF Halves
<1>1. R \subseteq Int /\ \A p, q \in R : \A x \in Int : p <= x /\ x <= q => x \in R
  BY DEF IsRange
<1>2. key \in Int
  BY <1>1
<1>3. CASE s = NoPage
  <2>1. \A p \in R : \A x \in Int : p <= x => x \in R
    BY <1>3 DEF Follows
  <2>2. ASSUME NEW p \in R2, NEW x \in Int, p <= x PROVE x \in R2
    <3>1. p \in Int /\ p \in R /\ key <= p
      OBVIOUS
    <3>2. key <= x
      BY <1>2, <2>2, <3>1
    <3>. QED BY <2>1, <2>2, <3>1, <3>2
  <2>. QED BY <1>3, <2>2 DEF Follows
<1>4. CASE s # NoPage
  <2>1. s \in pages /\ lev[s] = 1
    BY <1>4 DEF Follows
  <2>2. PICK b \in Int : b \in rng[s] /\ b \notin R /\ b - 1 \in R
    BY <1>4 DEF Follows
  <2>3. s \in pages2 /\ lev2[s] = 1 /\ rng2[s] = rng[s]
    BY <1>4, <2>1, <2>2
  <2>4. key <= b - 1
    <3>1. ASSUME ~ (key <= b - 1) PROVE FALSE
      <4>1. b - 1 <= b /\ b <= key
        BY <1>2, <3>1
      <4>. QED BY <1>1, <2>2, <4>1
    <3>. QED BY <3>1
  <2>5. b \in rng2[s] /\ b \notin R2 /\ b - 1 \in R2
    BY <2>2, <2>3, <2>4
  <2>. QED BY <1>4, <2>3, <2>5 DEF Follows
<1>. QED BY <1>3, <1>4

(* What follows the upper of two adjacent ranges follows both.             *)
LEMMA FollowsJoin ==
  ASSUME NEW pages, NEW lev, NEW rng, NEW s, NEW R1, NEW R2, IsRange(R1), IsRange(R2),
         Follows(pages, lev, rng, s, R2),
         NEW R, IsRange(R), NEW key \in Int, Halves(R, key, R1, R2)
  PROVE  Follows(pages, lev, rng, s, R)
<1>. /\ \A p \in R1, q \in R2 : p < q
     /\ \A p \in Int : p \in R <=> p \in R1 \/ p \in R2
  <2>1. \A p \in R1 : p \in Int /\ p < key
    BY DEF Halves
  <2>2. \A p \in R2 : p \in Int /\ key <= p
    BY DEF Halves
  <2>3. \A p \in Int : p < key \/ key <= p
    OBVIOUS
  <2>. QED BY <2>1, <2>2, <2>3 DEF Halves
<1>1. /\ R \subseteq Int /\ R1 \subseteq Int /\ R2 \subseteq Int
      /\ \A p, q \in R : \A x \in Int : p <= x /\ x <= q => x \in R
  BY DEF IsRange
<1>2. PICK q \in R2 : q \in Int
  BY DEF IsRange
<1>3. CASE s = NoPage
  <2>1. \A p \in R2 : \A x \in Int : p <= x => x \in R2
    BY <1>3 DEF Follows
  <2>2. ASSUME NEW p \in R, NEW x \in Int, p <= x PROVE x \in R
    <3>1. CASE q <= x
      BY <1>2, <2>1, <3>1
    <3>2. CASE x <= q
      <4>1. q \in R
        BY <1>2
      <4>. QED BY <1>1, <2>2, <3>2, <4>1
    <3>. QED BY <1>2, <3>1, <3>2
  <2>. QED BY <1>3, <2>2 DEF Follows
<1>4. CASE s # NoPage
  <2>1. s \in pages /\ lev[s] = 1
    BY <1>4 DEF Follows
  <2>2. PICK b \in Int : b \in rng[s] /\ b \notin R2 /\ b - 1 \in R2
    BY <1>4 DEF Follows
  <2>3. b \notin R1
    <3>1. ASSUME b \in R1 PROVE FALSE
      <4>1. b < b - 1
        BY <2>2, <3>1
      <4>. QED BY <2>2, <4>1
    <3>. QED BY <3>1
  <2>4. b \notin R /\ b - 1 \in R
    BY <2>2, <2>3
  <2>. QED BY <1>4, <2>1, <2>2, <2>4 DEF Follows
<1>. QED BY <1>3, <1>4

(* A position names its child alone.                                       *)
LEMMA ChildPosition ==
  ASSUME NEW nd, NEW ht, NEW lev, NEW rng, NEW st,
         Cells(nd, ht, lev, rng), NodesOK(nd, st, lev, rng),
         NEW n \in DOMAIN nd, lev[n] > 1,
         NEW i \in 0 .. Len(nd[n].data), NEW j \in 0 .. Len(nd[n].data),
         nd[n].children[i + 1] = nd[n].children[j + 1]
  PROVE  i = j
<1> DEFINE d == nd[n].data  c == nd[n].children[i + 1]
<1>1. /\ Below(DOMAIN nd, lev, rng, c, d, i, lev[n], rng[n])
      /\ Below(DOMAIN nd, lev, rng, c, d, j, lev[n], rng[n])
  BY ChildFacts
<1>2. d \in Seq(Int) /\ IsAscending(d)
  BY DEF NodesOK, NodeOK, Keys
<1>3. c \in DOMAIN nd
  BY <1>1 DEF Below
<1>4. PICK p \in Int : p \in rng[c]
  BY <1>3, CellFacts
<1>5. InSlot(d, i, p) /\ InSlot(d, j, p)
  BY <1>1, <1>4 DEF Below
<1>. QED BY <1>2, <1>5, SlotUnique

(* A node does not see what happens away from its children.                *)
LEMMA FanKept ==
  ASSUME NEW pages, NEW lev, NEW rng, NEW d, NEW c, NEW l, NEW R,
         Fan(pages, lev, rng, d, c, l, R),
         NEW pages2, NEW lev2, NEW rng2,
         \A n \in pages : lev[n] = l - 1 =>
            n \in pages2 /\ lev2[n] = lev[n] /\ rng2[n] = rng[n]
  PROVE  Fan(pages2, lev2, rng2, d, c, l, R)
<1>1. ASSUME NEW i \in 0 .. Len(d)
      PROVE  Below(pages2, lev2, rng2, c[i + 1], d, i, l, R)
  <2>1. Below(pages, lev, rng, c[i + 1], d, i, l, R)
    BY DEF Fan
  <2>. QED BY <2>1 DEF Below
<1>. QED BY <1>1 DEF Fan

-----------------------------------------------------------------------------
(***************************************************************************)
(* A node is cut in two: a moves into b and c, which is on a page of its   *)
(* own.                                                                    *)
(***************************************************************************)

SplitsLeaf(a, key, page, b, c) ==
  /\ b \in NodeType /\ c \in NodeType
  /\ b.children = <<>> /\ c.children = <<>>
  /\ InTwo(a.data, b.data, c.data)
  /\ 0 < Len(b.data) /\ Len(b.data) < Len(a.data)
  /\ key = a.data[Len(b.data) + 1]
  /\ b.sibling = page /\ c.sibling = a.sibling

SplitsIndex(a, key, b, c) ==
  /\ b \in NodeType /\ c \in NodeType
  /\ Len(b.data) < Len(a.data)
  /\ CutAt(a.data, Len(b.data) + 1, b.data, c.data)
  /\ key = a.data[Len(b.data) + 1]
  /\ InTwo(a.children, b.children, c.children)
  /\ Len(b.children) = Len(b.data) + 1

Splits(a, l, key, page, b, c) ==
  /\ l = 1 => SplitsLeaf(a, key, page, b, c)
  /\ l > 1 => SplitsIndex(a, key, b, c)

(* The key is one the node's range has pairs on both sides of.             *)
LEMMA SplitKey ==
  ASSUME NEW nd, NEW ht, NEW lev, NEW rng, NEW st,
         Cells(nd, ht, lev, rng), NodesOK(nd, st, lev, rng),
         NEW old \in DOMAIN nd, NEW key, NEW new, NEW b, NEW c,
         Splits(nd[old], lev[old], key, new, b, c)
  PROVE  key \in rng[old] /\ key \in Int /\ \E p \in rng[old] : p < key
<1> DEFINE d == nd[old].data
<1>1. /\ d \in Seq(Int) /\ IsAscending(d) /\ Len(d) \in Nat
      /\ \A j \in 1 .. Len(d) : d[j] \in rng[old] /\ d[j] \in Int
  <2>1. Keys(d, rng[old])
    BY DEF NodesOK, NodeOK
  <2>. QED BY <2>1, ElementOfSeq, LenProperties DEF Keys
<1>2. lev[old] \in Nat /\ 1 <= lev[old]
  BY CellFacts
<1>3. CASE lev[old] = 1
  <2>1. b.data \in Seq(Int) /\ 0 < Len(b.data) /\ Len(b.data) < Len(d) /\ key = d[Len(b.data) + 1]
    BY <1>3 DEF Splits, SplitsLeaf, NodeType
  <2>2. Len(b.data) + 1 \in 1 .. Len(d) /\ 1 \in 1 .. Len(d) /\ 1 < Len(b.data) + 1
    BY SMTT(30), <1>1, <2>1, LenProperties
  <2>3. d[1] < key
    BY <1>1, <2>1, <2>2 DEF IsAscending
  <2>. QED BY <1>1, <2>1, <2>2, <2>3
<1>4. CASE lev[old] > 1
  <2>1. b.data \in Seq(Int) /\ Len(b.data) < Len(d) /\ key = d[Len(b.data) + 1]
    BY <1>4 DEF Splits, SplitsIndex, NodeType
  <2>2. /\ Len(b.data) + 1 \in 1 .. Len(d) /\ Len(b.data) \in 0 .. Len(d)
    BY <1>1, <2>1, LenProperties
  <2> DEFINE e == nd[old].children[Len(b.data) + 1]
  <2>3. Below(DOMAIN nd, lev, rng, e, d, Len(b.data), lev[old], rng[old])
    BY <1>4, <2>2, ChildFacts
  <2>4. PICK p \in Int : p \in rng[e]
    BY <2>3, CellFacts DEF Below
  <2>5. p \in rng[old] /\ p < key
    BY <2>1, <2>3, <2>4 DEF Below, InSlot
  <2>. QED BY <1>1, <2>1, <2>2, <2>5
<1>. QED BY <1>2, <1>3, <1>4

(* The node old, the child of P at the position i, is split.               *)
SplitBelow(nd, lev, P, i, old, key, new, nd2) ==
  /\ P \in DOMAIN nd /\ lev[P] > 1
  /\ i \in 0 .. Len(nd[P].data) /\ old = nd[P].children[i + 1]
  /\ new \in Nat \ {0} /\ new \notin DOMAIN nd
  /\ DOMAIN nd2 = DOMAIN nd \cup {new}
  /\ \A n \in DOMAIN nd : n # P /\ n # old => nd2[n] = nd[n]
  /\ Splits(nd[old], lev[old], key, new, nd2[old], nd2[new])
  /\ nd2[P] \in NodeType
  /\ Inserted(nd[P].data, i + 1, key, nd2[P].data)
  /\ Inserted(nd[P].children, i + 2, new, nd2[P].children)

(* It leaves a tree.                                                       *)
LEMMA SplitTree ==
  ASSUME NEW nd, NEW ht, NEW lev, NEW rng, NEW st,
         Cells(nd, ht, lev, rng), NodesOK(nd, st, lev, rng),
         NEW P, NEW i, NEW old, NEW key, NEW new, NEW nd2,
         SplitBelow(nd, lev, P, i, old, key, new, nd2)
  PROVE  \E lev2, rng2 :
           /\ Cells(nd2, ht, lev2, rng2) /\ NodesOK(nd2, st, lev2, rng2)
           /\ lev2[new] = lev[old]
           /\ \A n \in DOMAIN nd : lev2[n] = lev[n] /\ (n # old => rng2[n] = rng[n])
<1>. /\ P \in DOMAIN nd /\ lev[P] > 1
     /\ i \in 0 .. Len(nd[P].data) /\ old = nd[P].children[i + 1]
     /\ new \in Nat \ {0} /\ new \notin DOMAIN nd
     /\ DOMAIN nd2 = DOMAIN nd \cup {new}
     /\ \A n \in DOMAIN nd : n # P /\ n # old => nd2[n] = nd[n]
     /\ Splits(nd[old], lev[old], key, new, nd2[old], nd2[new])
     /\ nd2[P] \in NodeType
     /\ Inserted(nd[P].data, i + 1, key, nd2[P].data)
     /\ Inserted(nd[P].children, i + 2, new, nd2[P].children)
  BY DEF SplitBelow
<1> DEFINE d == nd[P].data  R == rng[old]
           R1 == {p \in Int : p \in R /\ p < key}
           R2 == {p \in Int : p \in R /\ key <= p}
           lev2 == [n \in DOMAIN nd2 |-> IF n = new THEN lev[old] ELSE lev[n]]
           rng2 == [n \in DOMAIN nd2 |->
                      IF n = new THEN R2 ELSE IF n = old THEN R1 ELSE rng[n]]
<1>1. /\ Below(DOMAIN nd, lev, rng, old, d, i, lev[P], rng[P])
      /\ old \in Children(nd, P) /\ Len(nd[P].children) = Len(d) + 1
      /\ d \in Seq(Int) /\ Len(d) \in Nat
  BY ChildFacts, ChildOfSlot
<1>2. old \in DOMAIN nd /\ lev[old] = lev[P] - 1 /\ old # new /\ P # new
  BY <1>1 DEF Below
<1>3. lev[P] \in Int /\ lev[old] \in Int /\ 1 <= lev[old] /\ IsRange(R)
  BY <1>2, CellFacts
<1>4. old # P
  BY <1>2, <1>3
<1>5. key \in R /\ key \in Int /\ \E p \in R : p < key
  BY <1>2, SplitKey
<1>6. /\ lev2[new] = lev[old] /\ rng2[new] = R2
      /\ lev2[old] = lev[old] /\ rng2[old] = R1
      /\ \A n \in DOMAIN nd : lev2[n] = lev[n] /\ (n # old => rng2[n] = rng[n])
  BY <1>2
<1>7. Halves(R, key, R1, R2)
  BY DEF Halves
<1> HIDE DEF lev2, rng2, R1, R2
<1>8. /\ IsRange(R1) /\ IsRange(R2)
      /\ \A p \in R1, q \in R2 : p < q
      /\ \A p \in Int : p \in R <=> p \in R1 \/ p \in R2
      /\ key \in R2 /\ key \notin R1 /\ key - 1 \in R1
  <2>1. \E p \in R : key <= p
    BY <1>5
  <2>2. IsRange(R) /\ key \in Int /\ (\E p \in R : p < key) /\ (\E p \in R : key <= p)
    BY <1>3, <1>5, <2>1
  <2>. QED BY ONLY <1>7, <2>2, RangeCut
<1>9. nd2[old] \in NodeType /\ nd2[new] \in NodeType
  <2>1. lev[old] = 1 \/ lev[old] > 1
    BY <1>3
  <2>2. CASE lev[old] = 1
    <3>1. SplitsLeaf(nd[old], key, new, nd2[old], nd2[new])
      BY <2>2 DEF Splits
    <3>. QED BY ONLY <3>1 DEF SplitsLeaf
  <2>3. CASE lev[old] > 1
    <3>1. SplitsIndex(nd[old], key, nd2[old], nd2[new])
      BY <2>3 DEF Splits
    <3>. QED BY ONLY <3>1 DEF SplitsIndex
  <2>. QED BY <2>1, <2>2, <2>3
<1>10. ASSUME NEW n \in DOMAIN nd, lev[n] = 1, lev[old] = 1, n # old,
              NEW x \in Int, x \in R, x - 1 \in rng[n]
       PROVE  x \in R1
  <2>1. x - 1 \notin R
    <3>1. ASSUME x - 1 \in R PROVE FALSE
      <4>1. n = old
        BY <1>2, <1>10, <3>1, CellsDisjoint
      <4>. QED BY <1>10, <4>1
    <3>. QED BY <3>1
  <2>2. x < key
    <3>1. ASSUME key <= x PROVE FALSE
      <4>1. CASE key = x
        <5>1. x - 1 \in R
          BY <1>8, <4>1
        <5>. QED BY <2>1, <5>1
      <4>2. CASE key <= x - 1
        <5>1. x - 1 <= x /\ x - 1 \in Int
          OBVIOUS
        <5>2. x - 1 \in R
          BY <1>3, <1>5, <1>10, <4>2, <5>1 DEF IsRange
        <5>. QED BY <2>1, <5>2
      <4>. QED BY <1>5, <3>1, <4>1, <4>2
    <3>. QED BY <1>5, <3>1
  <2>. QED BY <1>7, <1>10, <2>2 DEF Halves
<1>11. /\ Cells(nd2, ht, lev2, rng2)
       /\ \A n \in DOMAIN nd \ {old} : n # P => NodeOK(nd2, st, lev2, rng2, n)
  <2> DEFINE A == {old}  B == {old, new}
  <2>1. A \subseteq Children(nd, P)
    BY <1>1
  <2>2. IsFiniteSet(B) /\ B \subseteq Nat \ {0}
    <3>1. old \in Nat \ {0}
      BY <1>2, CellFacts
    <3>2. IsFiniteSet({old} \cup {new})
      BY FS_Singleton, FS_Union
    <3>3. {old} \cup {new} = {old, new}
      OBVIOUS
    <3>. QED BY <3>1, <3>2, <3>3
  <2>3. DOMAIN nd2 = (DOMAIN nd \ A) \cup B
    BY <1>2
  <2>4. \A n \in DOMAIN nd \ A :
          n \notin B /\ lev2[n] = lev[n] /\ rng2[n] = rng[n] /\ (n # P => nd2[n] = nd[n])
    BY <1>6
  <2>5. \A b \in B : nd2[b] \in NodeType /\ lev2[b] = lev[P] - 1 /\ IsRange(rng2[b])
    BY <1>2, <1>6, <1>8, <1>9
  <2>6. \A b, c \in B : \A p \in Int : p \in rng2[b] /\ p \in rng2[c] => b = c
    <3>1. \A p \in Int : ~ (p \in R1 /\ p \in R2)
      BY <1>5, <1>7 DEF Halves
    <3>. QED BY <1>6, <3>1
  <2>7. \A p \in Int : (\E a \in A : p \in rng[a]) <=> (\E b \in B : p \in rng2[b])
    BY <1>6, <1>8
  <2>8. lev[P] = 2 =>
          \A a \in A : \A n \in DOMAIN nd \ A : \A x \in Int :
             lev[n] = 1 /\ x \in rng[a] /\ x - 1 \in rng[n] => a \in B /\ x \in rng2[a]
    <3>1. lev[P] = 2 => lev[old] = 1
      BY <1>2
    <3>. QED BY <1>6, <1>10, <3>1
  <2> HIDE DEF A, B
  <2>9. Relinked(nd, lev, rng, P, A, nd2, lev2, rng2, B)
    BY <2>1, <2>2, <2>3, <2>4, <2>5, <2>6, <2>7, <2>8 DEF Relinked
  <2>10. Cells(nd2, ht, lev2, rng2)
         /\ \A n \in DOMAIN nd \ A : n # P => NodeOK(nd2, st, lev2, rng2, n)
    BY <2>9, Relink
  <2>. QED BY <2>10 DEF A
<1>12. NodeOK(nd2, st, lev2, rng2, P)
  <2>1. Keys(d, rng[P]) /\ Fan(DOMAIN nd, lev, rng, d, nd[P].children, lev[P], rng[P])
    BY DEF NodesOK, NodeOK
  <2>2. key \in rng[P] /\ InSlot(d, i, key)
    BY <1>1, <1>5 DEF Below
  <2>3. i > 0 => d[i] < key
    <3>1. InSlot(d, i, key - 1) /\ key - 1 \in Int
      BY <1>1, <1>5, <1>8 DEF Below
    <3>2. ASSUME i > 0 PROVE d[i] \in Int /\ d[i] <= key - 1
      <4>1. i \in 1 .. Len(d)
        BY <1>1, <3>2
      <4>. QED BY <1>1, <3>1, <3>2, <4>1, ElementOfSeq DEF InSlot
    <3>. QED BY <1>5, <3>2
  <2>4. nd2[P].data \in Seq(Int) /\ nd2[P].children \in Seq(Nat)
    BY DEF NodeType
  <2>5. \A j \in 0 .. Len(d) : j # i =>
          /\ nd[P].children[j + 1] \in DOMAIN nd2
          /\ lev2[nd[P].children[j + 1]] = lev[nd[P].children[j + 1]]
          /\ rng2[nd[P].children[j + 1]] = rng[nd[P].children[j + 1]]
    <3>1. ASSUME NEW j \in 0 .. Len(d), j # i PROVE nd[P].children[j + 1] \in DOMAIN nd \ {old}
      <4>1. nd[P].children[j + 1] \in DOMAIN nd
        BY ChildFacts DEF Below
      <4>. QED BY <3>1, <4>1, ChildPosition
    <3>. QED BY <1>6, <3>1
  <2>6. /\ old \in DOMAIN nd2 /\ lev2[old] = lev[P] - 1
        /\ new \in DOMAIN nd2 /\ lev2[new] = lev[P] - 1
    BY <1>2, <1>6
  <2>7. Halves(rng[old], key, rng2[old], rng2[new])
    BY <1>6, <1>7
  <2>8. ChildIn(lev, rng, DOMAIN nd2, lev2, rng2, d, nd[P].children, i, key, new,
                nd2[P].data, nd2[P].children, lev[P])
    BY <1>5, <2>4, <2>5, <2>6, <2>7 DEF ChildIn
  <2>9. Keys(nd2[P].data, rng[P])
        /\ Fan(DOMAIN nd2, lev2, rng2, nd2[P].data, nd2[P].children, lev[P], rng[P])
    BY <2>1, <2>2, <2>3, <2>8, FanInsert
  <2>10. lev2[P] = lev[P] /\ rng2[P] = rng[P]
    BY <1>4, <1>6
  <2>. QED BY <1>3, <2>9, <2>10 DEF NodeOK
<1>13. CASE lev[old] = 1
  <2>1. SplitsLeaf(nd[old], key, new, nd2[old], nd2[new])
    BY <1>13 DEF Splits
  <2>2. Keys(nd[old].data, R) /\ Holds(st, nd[old].data, R) /\ NextOK(nd, lev, rng, old)
    BY <1>2, <1>13 DEF NodesOK, NodeOK
  <2>3. nd2[old].data \in Seq(Int) /\ nd2[new].data \in Seq(Int) /\ R \subseteq Int
    BY <1>3, <1>9 DEF NodeType, IsRange
  <2>4. /\ InTwo(nd[old].data, nd2[old].data, nd2[new].data)
        /\ Len(nd2[old].data) < Len(nd[old].data)
        /\ key = nd[old].data[Len(nd2[old].data) + 1]
        /\ nd2[old].children = <<>> /\ nd2[new].children = <<>>
        /\ nd2[old].sibling = new /\ nd2[new].sibling = nd[old].sibling
    BY <2>1 DEF SplitsLeaf
  <2>5. /\ Keys(nd2[old].data, R1) /\ Holds(st, nd2[old].data, R1)
        /\ Keys(nd2[new].data, R2) /\ Holds(st, nd2[new].data, R2)
    BY ONLY <1>7, <2>2, <2>3, <2>4, LeafCut
  <2>6. NextOK(nd2, lev2, rng2, old)
    <3>1. new # NoPage /\ new \in DOMAIN nd2 /\ lev2[new] = 1
      BY <1>6, <1>13, BuildsAssumption
    <3>. QED BY <1>5, <1>6, <1>8, <2>4, <3>1 DEF NextOK
  <2>7. NextOK(nd2, lev2, rng2, new)
    <3> DEFINE s == nd[old].sibling
    <3>1. Follows(DOMAIN nd, lev, rng, s, R)
      BY <2>2 DEF NextOK, Follows
    <3>2. s # NoPage /\ (\E b \in rng[s] : b \in Int /\ b \notin R)
            => s \in DOMAIN nd2 /\ lev2[s] = lev[s] /\ rng2[s] = rng[s]
      <4>1. s # NoPage => s \in DOMAIN nd
        BY <2>2 DEF NextOK
      <4>. QED BY <1>6, <4>1
    <3>3. Follows(DOMAIN nd2, lev2, rng2, s, R2)
      BY ONLY <1>3, <1>5, <1>7, <3>1, <3>2, FollowsCut
    <3>. QED BY <1>6, <2>4, <3>3 DEF NextOK, Follows
  <2>8. NodeOK(nd2, st, lev2, rng2, old) /\ NodeOK(nd2, st, lev2, rng2, new)
    <3>1. lev2[old] = 1 /\ lev2[new] = 1 /\ ~ (1 > 1)
      BY <1>6, <1>13
    <3>. QED BY <1>6, <2>4, <2>5, <2>6, <2>7, <3>1 DEF NodeOK
  <2>9. NodesOK(nd2, st, lev2, rng2)
    BY <1>11, <1>12, <2>8 DEF NodesOK
  <2>. QED BY <1>6, <1>11, <2>9
<1>14. CASE lev[old] > 1
  <2>1. SplitsIndex(nd[old], key, nd2[old], nd2[new])
    BY <1>14 DEF Splits
  <2>2. Keys(nd[old].data, R)
        /\ Fan(DOMAIN nd, lev, rng, nd[old].data, nd[old].children, lev[old], R)
    BY <1>2, <1>14 DEF NodesOK, NodeOK
  <2>3. Fan(DOMAIN nd2, lev2, rng2, nd[old].data, nd[old].children, lev[old], R)
    <3>1. ASSUME NEW n \in DOMAIN nd, lev[n] = lev[old] - 1
          PROVE  n \in DOMAIN nd2 /\ lev2[n] = lev[n] /\ rng2[n] = rng[n]
      BY <1>3, <1>6, <3>1
    <3>. QED BY ONLY <2>2, <3>1, FanKept
  <2>4. /\ nd2[old].data \in Seq(Int) /\ nd2[new].data \in Seq(Int)
        /\ nd2[old].children \in Seq(Nat) /\ nd2[new].children \in Seq(Nat)
    BY <1>9 DEF NodeType
  <2> DEFINE k == Len(nd2[old].data) + 1
  <2>5. /\ Len(nd2[old].data) < Len(nd[old].data)
        /\ CutAt(nd[old].data, k, nd2[old].data, nd2[new].data)
        /\ key = nd[old].data[k]
        /\ InTwo(nd[old].children, nd2[old].children, nd2[new].children)
        /\ Len(nd2[old].children) = k
    BY <2>1 DEF SplitsIndex
  <2>6. k \in 1 .. Len(nd[old].data)
    <3>1. nd[old].data \in Seq(Int)
      BY <2>2 DEF Keys
    <3>2. Len(nd[old].data) \in Nat /\ Len(nd2[old].data) \in Nat
      BY <2>4, <3>1, LenProperties
    <3>3. Len(nd2[old].data) < Len(nd[old].data)
      BY <2>5
    <3>. QED BY ONLY <3>2, <3>3 DEF k
  <2> HIDE DEF k
  <2>7. /\ Keys(nd2[old].data, R1)
        /\ Fan(DOMAIN nd2, lev2, rng2, nd2[old].data, nd2[old].children, lev[old], R1)
        /\ Keys(nd2[new].data, R2)
        /\ Fan(DOMAIN nd2, lev2, rng2, nd2[new].data, nd2[new].children, lev[old], R2)
    <3> DEFINE d0 == nd[old].data  d1 == nd2[old].data  d2 == nd2[new].data
               c0 == nd[old].children  c1 == nd2[old].children  c2 == nd2[new].children
               pp == DOMAIN nd2  ll == lev[old]
    <3>1. Keys(d0, R) /\ Fan(pp, lev2, rng2, d0, c0, ll, R)
      BY <2>2, <2>3
    <3>2. /\ CutAt(d0, k, d1, d2) /\ k \in 1 .. Len(d0) /\ Halves(R, key, R1, R2) /\ key = d0[k]
          /\ InTwo(c0, c1, c2) /\ Len(c1) = k
      BY <2>5, <2>6, <1>7
    <3>3. d1 \in Seq(Int) /\ d2 \in Seq(Int) /\ c1 \in Seq(Nat) /\ c2 \in Seq(Nat)
      BY <2>4
    <3> HIDE DEF R, d0, d1, d2, c0, c1, c2, pp, ll
    <3>4. /\ Keys(d1, R1) /\ Fan(pp, lev2, rng2, d1, c1, ll, R1)
          /\ Keys(d2, R2) /\ Fan(pp, lev2, rng2, d2, c2, ll, R2)
      BY ONLY <3>1, <3>2, <3>3, FanCut
    <3>. QED BY <3>4 DEF d1, c1, d2, c2, pp, ll
  <2>8. NodeOK(nd2, st, lev2, rng2, old) /\ NodeOK(nd2, st, lev2, rng2, new)
    <3>1. lev2[old] = lev[old] /\ lev2[new] = lev[old] /\ rng2[old] = R1 /\ rng2[new] = R2
      BY <1>6
    <3>2. ~ (lev[old] = 1)
      BY <1>14
    <3>. QED BY ONLY <2>7, <3>1, <3>2 DEF NodeOK
  <2>9. NodesOK(nd2, st, lev2, rng2)
    BY <1>11, <1>12, <2>8 DEF NodesOK
  <2>. QED BY <1>6, <1>11, <2>9
<1>. QED BY <1>3, <1>13, <1>14

-----------------------------------------------------------------------------
(***************************************************************************)
(* Two neighbours b and c become one node a.                               *)
(***************************************************************************)

MergesLeaf(b, c, a) ==
  /\ a \in NodeType /\ a.children = <<>>
  /\ InTwo(a.data, b.data, c.data)
  /\ a.sibling = c.sibling

MergesIndex(b, c, key, a) ==
  /\ a \in NodeType
  /\ Len(a.data) = Len(b.data) + Len(c.data) + 1
  /\ CutAt(a.data, Len(b.data) + 1, b.data, c.data)
  /\ key = a.data[Len(b.data) + 1]
  /\ InTwo(a.children, b.children, c.children)

Merges(b, c, l, key, a) ==
  /\ l = 1 => MergesLeaf(b, c, a)
  /\ l > 1 => MergesIndex(b, c, key, a)

(* Every key of an index node has pairs of its range below it.             *)
LEMMA BelowEveryKey ==
  ASSUME NEW nd, NEW ht, NEW lev, NEW rng, NEW st,
         Cells(nd, ht, lev, rng), NodesOK(nd, st, lev, rng),
         NEW n \in DOMAIN nd, lev[n] > 1, NEW j \in 1 .. Len(nd[n].data)
  PROVE  \E p \in rng[n] : p < nd[n].data[j]
<1> DEFINE d == nd[n].data  c == nd[n].children[j]
<1>1. /\ Len(d) \in Nat
      /\ \A m \in 0 .. Len(d) :
           Below(DOMAIN nd, lev, rng, nd[n].children[m + 1], d, m, lev[n], rng[n])
  BY ChildFacts
<1>2. j - 1 \in 0 .. Len(d) /\ (j - 1) + 1 = j /\ j - 1 < Len(d)
  BY <1>1
<1>3. Below(DOMAIN nd, lev, rng, c, d, j - 1, lev[n], rng[n])
  BY <1>1, <1>2
<1>4. PICK p \in Int : p \in rng[c]
  BY <1>3, CellFacts DEF Below
<1>. QED BY <1>2, <1>3, <1>4 DEF Below, InSlot

(* The neighbours left and right below P are merged on the page of left.   *)
MergedBelow(nd, lev, P, i, left, sep, right, nd2) ==
  /\ P \in DOMAIN nd /\ lev[P] > 1 /\ Neighbours(nd, P, i, left, sep, right)
  /\ DOMAIN nd2 = DOMAIN nd \ {right}
  /\ \A n \in DOMAIN nd : n # P /\ n # left /\ n # right => nd2[n] = nd[n]
  /\ Merges(nd[left], nd[right], lev[left], sep, nd2[left])
  /\ nd2[P] \in NodeType
  /\ Inserted(nd2[P].data, i + 1, sep, nd[P].data)
  /\ Inserted(nd2[P].children, i + 2, right, nd[P].children)

(* That leaves a tree.                                                     *)
LEMMA MergeTree ==
  ASSUME NEW nd, NEW ht, NEW lev, NEW rng, NEW st,
         Cells(nd, ht, lev, rng), NodesOK(nd, st, lev, rng),
         NEW P, NEW i, NEW left, NEW sep, NEW right, NEW nd2,
         MergedBelow(nd, lev, P, i, left, sep, right, nd2)
  PROVE  \E lev2, rng2 :
           /\ Cells(nd2, ht, lev2, rng2) /\ NodesOK(nd2, st, lev2, rng2)
           /\ \A n \in DOMAIN nd2 : lev2[n] = lev[n] /\ (n # left => rng2[n] = rng[n])
<1>. /\ P \in DOMAIN nd /\ lev[P] > 1 /\ Neighbours(nd, P, i, left, sep, right)
     /\ DOMAIN nd2 = DOMAIN nd \ {right}
     /\ \A n \in DOMAIN nd : n # P /\ n # left /\ n # right => nd2[n] = nd[n]
     /\ Merges(nd[left], nd[right], lev[left], sep, nd2[left])
     /\ nd2[P] \in NodeType
     /\ Inserted(nd2[P].data, i + 1, sep, nd[P].data)
     /\ Inserted(nd2[P].children, i + 2, right, nd[P].children)
  BY DEF MergedBelow
<1> DEFINE d == nd[P].data
           R == rng[left] \cup rng[right]
           lev2 == [n \in DOMAIN nd2 |-> lev[n]]
           rng2 == [n \in DOMAIN nd2 |-> IF n = left THEN R ELSE rng[n]]
<1>1. /\ left \in Children(nd, P) /\ right \in Children(nd, P) /\ left # right
      /\ left \in DOMAIN nd /\ right \in DOMAIN nd
      /\ lev[left] = lev[P] - 1 /\ lev[right] = lev[P] - 1
      /\ sep \in Int /\ sep \in rng[right]
      /\ \A p \in rng[left] : p < sep
      /\ \A p \in rng[right] : sep <= p
      /\ IsRange(rng[left]) /\ IsRange(rng[right]) /\ IsRange(R)
  <2>1. Adjacent(nd, lev, rng, P, left, sep, right)
    BY NeighbourRanges
  <2>. QED BY <2>1 DEF Adjacent
<1>2. lev[P] \in Int /\ lev[left] \in Int /\ 1 <= lev[left]
  BY <1>1, CellFacts
<1>3. P # left /\ P # right
  BY <1>1, <1>2
<1>4. Halves(R, sep, rng[left], rng[right])
  <2>1. rng[left] \subseteq Int /\ rng[right] \subseteq Int
    BY <1>1 DEF IsRange
  <2>2. \A p \in Int : ~ (p < sep /\ sep <= p)
    BY <1>1
  <2>. QED BY <1>1, <2>1, <2>2 DEF Halves
<1>5. /\ left \in DOMAIN nd2 /\ lev2[left] = lev[left] /\ rng2[left] = R
      /\ P \in DOMAIN nd2 /\ lev2[P] = lev[P] /\ rng2[P] = rng[P]
      /\ \A n \in DOMAIN nd2 : lev2[n] = lev[n] /\ (n # left => rng2[n] = rng[n])
  BY <1>1, <1>3
<1> HIDE DEF lev2, rng2
<1>6. nd2[left] \in NodeType
  <2>1. lev[left] = 1 \/ lev[left] > 1
    BY <1>2
  <2>. QED BY <2>1 DEF Merges, MergesLeaf, MergesIndex
<1>7. ASSUME NEW n \in DOMAIN nd \ {left, right}, lev[n] = 1, lev[left] = 1,
             NEW x \in Int, x \in rng[right], x - 1 \in rng[n]
      PROVE  FALSE
  <2>1. PICK y \in rng[left] : y \in Int
    BY <1>1 DEF IsRange
  <2>2. y <= x - 1 /\ x - 1 <= x /\ x - 1 \in Int
    <3>1. y < sep /\ sep <= x
      BY <1>1, <1>7, <2>1
    <3>. QED BY <1>1, <2>1, <3>1
  <2>3. x - 1 \in R
    BY <1>1, <1>7, <2>1, <2>2 DEF IsRange
  <2>4. lev[right] = lev[n] /\ n \in DOMAIN nd
    BY <1>1, <1>7
  <2>5. CASE x - 1 \in rng[left]
    <3>1. n = left
      BY <1>1, <1>7, <2>4, <2>5, CellsDisjoint
    <3>. QED BY <3>1
  <2>6. CASE x - 1 \in rng[right]
    <3>1. n = right
      BY <1>1, <1>7, <2>4, <2>6, CellsDisjoint
    <3>. QED BY <3>1
  <2>. QED BY <2>3, <2>5, <2>6
<1>8. /\ Cells(nd2, ht, lev2, rng2)
      /\ \A n \in DOMAIN nd \ {left, right} : n # P => NodeOK(nd2, st, lev2, rng2, n)
  <2> DEFINE A == {left, right}  B == {left}
  <2>1. A \subseteq Children(nd, P)
    BY <1>1
  <2>2. IsFiniteSet(B) /\ B \subseteq Nat \ {0}
    <3>1. left \in Nat \ {0}
      BY <1>1, CellFacts
    <3>. QED BY <3>1, FS_Singleton
  <2>3. DOMAIN nd2 = (DOMAIN nd \ A) \cup B
    BY <1>1
  <2>4. \A n \in DOMAIN nd \ A :
          n \notin B /\ lev2[n] = lev[n] /\ rng2[n] = rng[n] /\ (n # P => nd2[n] = nd[n])
    BY <1>5
  <2>5. \A b \in B : nd2[b] \in NodeType /\ lev2[b] = lev[P] - 1 /\ IsRange(rng2[b])
    BY <1>1, <1>5, <1>6
  <2>6. \A b, c \in B : \A p \in Int : p \in rng2[b] /\ p \in rng2[c] => b = c
    OBVIOUS
  <2>7. \A p \in Int : (\E a \in A : p \in rng[a]) <=> (\E b \in B : p \in rng2[b])
    BY <1>5
  <2>8. lev[P] = 2 =>
          \A a \in A : \A n \in DOMAIN nd \ A : \A x \in Int :
             lev[n] = 1 /\ x \in rng[a] /\ x - 1 \in rng[n] => a \in B /\ x \in rng2[a]
    <3>1. lev[P] = 2 => lev[left] = 1
      BY <1>1
    <3>. QED BY <1>5, <1>7, <3>1
  <2> HIDE DEF A, B
  <2>9. Relinked(nd, lev, rng, P, A, nd2, lev2, rng2, B)
    BY <2>1, <2>2, <2>3, <2>4, <2>5, <2>6, <2>7, <2>8 DEF Relinked
  <2>10. Cells(nd2, ht, lev2, rng2)
         /\ \A n \in DOMAIN nd \ A : n # P => NodeOK(nd2, st, lev2, rng2, n)
    BY <2>9, Relink
  <2>. QED BY <2>10 DEF A
<1>9. NodeOK(nd2, st, lev2, rng2, P)
  <2>1. Keys(d, rng[P]) /\ Fan(DOMAIN nd, lev, rng, d, nd[P].children, lev[P], rng[P])
    BY DEF NodesOK, NodeOK
  <2>2. nd2[P].data \in Seq(Int) /\ nd2[P].children \in Seq(Nat)
    BY DEF NodeType
  <2>3. /\ Len(nd2[P].children) = Len(nd2[P].data) + 1
        /\ i \in 0 .. Len(nd2[P].data) /\ i \in 0 .. Len(d) /\ i + 1 \in 0 .. Len(d)
    <3>1. /\ Len(d) \in Nat /\ Len(nd2[P].data) \in Nat /\ Len(nd2[P].children) \in Nat
          /\ Len(nd[P].children) = Len(d) + 1
      BY <2>1, <2>2, LenProperties DEF Keys, Fan
    <3>2. Len(d) = Len(nd2[P].data) + 1 /\ Len(nd[P].children) = Len(nd2[P].children) + 1
      BY DEF Inserted
    <3>3. i \in 0 .. Len(d) - 1
      BY DEF Neighbours
    <3>. QED BY ONLY <3>1, <3>2, <3>3
  <2>4. ASSUME NEW j \in 0 .. Len(d), j # i, j # i + 1
        PROVE  /\ nd[P].children[j + 1] \in DOMAIN nd2
               /\ lev2[nd[P].children[j + 1]] = lev[nd[P].children[j + 1]]
               /\ rng2[nd[P].children[j + 1]] = rng[nd[P].children[j + 1]]
    <3>1. nd[P].children[j + 1] \in DOMAIN nd
      BY ChildFacts DEF Below
    <3>2. nd[P].children[j + 1] # left
      BY <2>3, <2>4, ChildPosition DEF Neighbours
    <3>3. nd[P].children[j + 1] # right
      <4>1. right = nd[P].children[(i + 1) + 1]
        BY <2>3 DEF Neighbours
      <4>. QED BY <2>3, <2>4, <4>1, ChildPosition
    <3>. QED BY <1>5, <3>1, <3>2, <3>3
  <2>5. left = nd[P].children[i + 1]
    BY DEF Neighbours
  <2>6. ChildOut(lev, rng, DOMAIN nd2, lev2, rng2, d, nd[P].children, i, sep, right,
                 nd2[P].data, nd2[P].children, lev[P])
    BY <1>1, <1>5, <2>2, <2>3, <2>4, <2>5 DEF ChildOut
  <2>7. Keys(nd2[P].data, rng[P])
        /\ Fan(DOMAIN nd2, lev2, rng2, nd2[P].data, nd2[P].children, lev[P], rng[P])
    BY <2>1, <2>6, FanRemove
  <2>. QED BY <1>2, <1>5, <2>7 DEF NodeOK
<1>10. NodeOK(nd, st, lev, rng, left) /\ NodeOK(nd, st, lev, rng, right)
  BY <1>1 DEF NodesOK
<1>11. CASE lev[left] = 1
  <2>1. MergesLeaf(nd[left], nd[right], nd2[left])
    BY <1>11 DEF Merges
  <2>2. /\ Keys(nd[left].data, rng[left]) /\ Holds(st, nd[left].data, rng[left])
        /\ Keys(nd[right].data, rng[right]) /\ Holds(st, nd[right].data, rng[right])
        /\ NextOK(nd, lev, rng, right)
    BY <1>1, <1>10, <1>11 DEF NodeOK
  <2>3. InTwo(nd2[left].data, nd[left].data, nd[right].data)
        /\ nd2[left].children = <<>> /\ nd2[left].sibling = nd[right].sibling
    BY <2>1 DEF MergesLeaf
  <2>4. nd2[left].data \in Seq(Int) /\ R \subseteq Int
    BY <1>1, <1>6 DEF NodeType, IsRange
  <2>5. Keys(nd2[left].data, R) /\ Holds(st, nd2[left].data, R)
    BY ONLY <1>1, <1>4, <2>2, <2>3, <2>4, LeafJoin
  <2>6. NextOK(nd2, lev2, rng2, left)
    <3> DEFINE s == nd[right].sibling
    <3>1. Follows(DOMAIN nd, lev, rng, s, rng[right])
      BY <2>2 DEF NextOK, Follows
    <3>2. Follows(DOMAIN nd, lev, rng, s, R)
      BY ONLY <1>1, <1>4, <3>1, FollowsJoin
    <3>3. CASE s = NoPage
      BY <1>5, <2>3, <3>2, <3>3 DEF NextOK, Follows
    <3>4. CASE s # NoPage
      <4>1. PICK b \in Int : b \in rng[s] /\ b \notin R /\ b - 1 \in R
        BY <3>2, <3>4 DEF Follows
      <4>2. s \in DOMAIN nd /\ lev[s] = 1
        BY <3>2, <3>4 DEF Follows
      <4>3. s # left /\ s # right
        BY <4>1
      <4>4. s \in DOMAIN nd2 /\ lev2[s] = 1 /\ rng2[s] = rng[s]
        BY <1>5, <4>2, <4>3
      <4>. QED BY <1>5, <2>3, <3>4, <4>1, <4>4 DEF NextOK
    <3>. QED BY <3>3, <3>4
  <2>7. NodeOK(nd2, st, lev2, rng2, left)
    <3>1. lev2[left] = 1 /\ ~ (1 > 1)
      BY <1>5, <1>11
    <3>. QED BY <1>5, <2>3, <2>5, <2>6, <3>1 DEF NodeOK
  <2>8. NodesOK(nd2, st, lev2, rng2)
    BY <1>8, <1>9, <2>7 DEF NodesOK
  <2>. QED BY <1>5, <1>8, <2>8
<1>12. CASE lev[left] > 1
  <2>1. MergesIndex(nd[left], nd[right], sep, nd2[left])
    BY <1>12 DEF Merges
  <2> DEFINE d0 == nd2[left].data  d1 == nd[left].data  d2 == nd[right].data
             c0 == nd2[left].children  c1 == nd[left].children  c2 == nd[right].children
             pp == DOMAIN nd2  ll == lev[left]  k == Len(nd[left].data) + 1
             R1 == rng[left]  R2 == rng[right]
  <2>2. /\ Keys(d1, R1) /\ Fan(DOMAIN nd, lev, rng, d1, c1, ll, R1)
        /\ Keys(d2, R2) /\ Fan(DOMAIN nd, lev, rng, d2, c2, ll, R2)
    BY <1>1, <1>10, <1>12 DEF NodeOK
  <2>3. ASSUME NEW n \in DOMAIN nd, lev[n] = ll - 1
        PROVE  n \in pp /\ lev2[n] = lev[n] /\ rng2[n] = rng[n]
    <3>1. n # left /\ n # right
      BY <1>1, <1>2, <2>3
    <3>. QED BY <1>5, <3>1
  <2>4. /\ Fan(pp, lev2, rng2, d1, c1, ll, R1)
        /\ Fan(pp, lev2, rng2, d2, c2, ll, R2)
    BY ONLY <2>2, <2>3, FanKept
  <2>5. d0 \in Seq(Int) /\ c0 \in Seq(Nat)
    BY <1>6 DEF NodeType
  <2>6. /\ CutAt(d0, k, d1, d2) /\ InTwo(c0, c1, c2) /\ sep = d0[k]
        /\ Len(d0) = Len(d1) + Len(d2) + 1
    BY <2>1 DEF MergesIndex
  <2>7. k \in 1 .. Len(d0)
    <3>1. ASSUME NEW a \in Nat, NEW b \in Nat, NEW c, c = (a + b) + 1
          PROVE  a + 1 \in 1 .. c
      BY <3>1
    <3>2. Len(d1) \in Nat /\ Len(d2) \in Nat
      BY <2>2, LenProperties DEF Keys
    <3>3. Len(d0) = (Len(d1) + Len(d2)) + 1
      BY <2>6
    <3> HIDE DEF d0, d1, d2
    <3>4. Len(d1) + 1 \in 1 .. Len(d0)
      BY ONLY <3>1, <3>2, <3>3
    <3>. QED BY <3>4 DEF d0, d1
  <2>8. \A j \in 1 .. Len(d2) : sep < d2[j]
    <3>1. ASSUME NEW j \in 1 .. Len(d2) PROVE sep < d2[j]
      <4>1. PICK p \in R2 : p < d2[j]
        BY <1>1, <1>12, BelowEveryKey
      <4>2. d2[j] \in Int
        BY <2>2, ElementOfSeq DEF Keys
      <4>3. p \in Int /\ sep <= p
        BY <1>1, <4>1 DEF IsRange
      <4>. QED BY <1>1, <4>1, <4>2, <4>3
    <3>. QED BY <3>1
  <2>9. sep \in R /\ Halves(R, sep, R1, R2)
    BY <1>1, <1>4
  <2> HIDE DEF d0, d1, d2, c0, c1, c2, pp, ll, k, R, R1, R2
  <2>10. Keys(d0, R) /\ Fan(pp, lev2, rng2, d0, c0, ll, R)
    BY ONLY <2>2, <2>4, <2>5, <2>6, <2>7, <2>8, <2>9, FanJoin
  <2>11. NodeOK(nd2, st, lev2, rng2, left)
    <3>1. ~ (lev2[left] = 1)
      BY <1>2, <1>5, <1>12
    <3>. QED BY <1>5, <2>10, <3>1 DEF NodeOK, d0, c0, pp, ll
  <2>12. NodesOK(nd2, st, lev2, rng2)
    BY <1>8, <1>9, <2>11 DEF NodesOK
  <2>. QED BY <1>5, <1>8, <2>12
<1>. QED BY <1>2, <1>11, <1>12

(* An element taken out and one put in at its place.                       *)
LEMMA Reinserted ==
  ASSUME NEW S, NEW s \in Seq(S), NEW i \in 1 .. Len(s), NEW e,
         NEW s2, Len(s2) = Len(s), \A j \in 1 .. Len(s) : s2[j] = IF j = i THEN e ELSE s[j]
  PROVE  Inserted(RemoveAt(s, i), i, e, s2)
<1> DEFINE r == RemoveAt(s, i)
<1>1. /\ Len(r) = Len(s) - 1
      /\ \A j \in 1 .. Len(s) - 1 : r[j] = IF j < i THEN s[j] ELSE s[j + 1]
  BY RemoveAtFacts
<1>2. Len(s) \in Nat /\ i \in Nat /\ 1 <= i /\ i <= Len(s)
  BY LenProperties
<1> HIDE DEF r
<1>3. ASSUME NEW j \in 1 .. Len(r) + 1
      PROVE  s2[j] = IF j < i THEN r[j] ELSE IF j = i THEN e ELSE r[j - 1]
  <2>1. j \in 1 .. Len(s)
    BY <1>1, <1>2
  <2>2. CASE j < i
    <3>1. j \in 1 .. Len(s) - 1
      BY <1>2, <2>1, <2>2
    <3>. QED BY <1>1, <1>2, <2>1, <2>2, <3>1
  <2>3. CASE j = i
    BY <1>2, <2>1, <2>3
  <2>4. CASE j > i
    <3>1. j - 1 \in 1 .. Len(s) - 1 /\ ~ (j - 1 < i) /\ (j - 1) + 1 = j /\ ~ (j < i) /\ j # i
      BY <1>2, <2>1, <2>4
    <3>2. r[j - 1] = s[(j - 1) + 1]
      BY <1>1, <3>1, Zenon
    <3>. QED BY <2>1, <3>1, <3>2
  <2>. QED BY <1>2, <2>1, <2>2, <2>3, <2>4
<1>4. Len(s2) = Len(r) + 1
  BY <1>1, <1>2
<1>. QED BY <1>3, <1>4 DEF Inserted, r

(* What two neighbours hold is shared out anew between them: they merge,   *)
(* and the node mid that results is split at another key.                  *)
BalancedBelow(nd, lev, P, i, left, sep, right, mid, key, nd2) ==
  /\ P \in DOMAIN nd /\ lev[P] > 1 /\ Neighbours(nd, P, i, left, sep, right)
  /\ DOMAIN nd2 = DOMAIN nd
  /\ \A n \in DOMAIN nd : n # P /\ n # left /\ n # right => nd2[n] = nd[n]
  /\ Merges(nd[left], nd[right], lev[left], sep, mid)
  /\ Splits(mid, lev[left], key, right, nd2[left], nd2[right])
  /\ nd2[P] \in NodeType /\ nd2[P].children = nd[P].children
  /\ Len(nd2[P].data) = Len(nd[P].data)
  /\ \A j \in 1 .. Len(nd[P].data) :
        nd2[P].data[j] = IF j = i + 1 THEN key ELSE nd[P].data[j]

LEMMA BalanceTree ==
  ASSUME NEW nd, NEW ht, NEW lev, NEW rng, NEW st,
         Cells(nd, ht, lev, rng), NodesOK(nd, st, lev, rng),
         NEW P, NEW i, NEW left, NEW sep, NEW right, NEW mid, NEW key, NEW nd2,
         BalancedBelow(nd, lev, P, i, left, sep, right, mid, key, nd2)
  PROVE  \E lev2, rng2 :
           /\ Cells(nd2, ht, lev2, rng2) /\ NodesOK(nd2, st, lev2, rng2)
           /\ \A n \in DOMAIN nd : lev2[n] = lev[n]
<1>. /\ P \in DOMAIN nd /\ lev[P] > 1 /\ Neighbours(nd, P, i, left, sep, right)
     /\ DOMAIN nd2 = DOMAIN nd
     /\ \A n \in DOMAIN nd : n # P /\ n # left /\ n # right => nd2[n] = nd[n]
     /\ Merges(nd[left], nd[right], lev[left], sep, mid)
     /\ Splits(mid, lev[left], key, right, nd2[left], nd2[right])
     /\ nd2[P] \in NodeType /\ nd2[P].children = nd[P].children
     /\ Len(nd2[P].data) = Len(nd[P].data)
     /\ \A j \in 1 .. Len(nd[P].data) :
           nd2[P].data[j] = IF j = i + 1 THEN key ELSE nd[P].data[j]
  BY DEF BalancedBelow
<1> DEFINE d == nd[P].data  c == nd[P].children
           joint == [data |-> RemoveAt(d, i + 1), children |-> RemoveAt(c, i + 2),
                     sibling |-> nd[P].sibling]
           nd1 == [n \in DOMAIN nd \ {right} |->
                     IF n = left THEN mid ELSE IF n = P THEN joint ELSE nd[n]]
<1>1. Adjacent(nd, lev, rng, P, left, sep, right)
  BY NeighbourRanges
<1>2. /\ left \in DOMAIN nd /\ right \in DOMAIN nd /\ left # right
      /\ lev[left] = lev[P] - 1 /\ lev[right] = lev[P] - 1
  BY <1>1 DEF Adjacent
<1>3. P # left /\ P # right /\ lev[P] \in Int
  <2>1. lev[P] \in Int
    BY CellFacts
  <2>. QED BY <1>2, <2>1
<1>4. /\ d \in Seq(Int) /\ c \in Seq(Nat) /\ Len(d) \in Nat /\ Len(c) = Len(d) + 1
      /\ nd[P].sibling \in Nat \cup {NoPage}
  <2>1. d \in Seq(Int) /\ c \in Seq(Nat) /\ nd[P].sibling \in Nat \cup {NoPage}
    BY CellFacts
  <2>. QED BY <2>1, ChildFacts
<1>5. i \in 0 .. Len(d) - 1 /\ sep = d[i + 1] /\ left = c[i + 1] /\ right = c[i + 2]
  BY DEF Neighbours
<1>6. PICK m : m = i + 1
  OBVIOUS
<1>7. m \in 1 .. Len(d) /\ m + 1 \in 1 .. Len(c) /\ i + 2 = m + 1 /\ m \in Nat
  BY <1>4, <1>5, <1>6
<1>8. /\ RemoveAt(d, m) \in Seq(Int) /\ Len(RemoveAt(d, m)) = Len(d) - 1
      /\ RemoveAt(c, m + 1) \in Seq(Nat) /\ Len(RemoveAt(c, m + 1)) = Len(c) - 1
      /\ \A j \in 1 .. Len(c) - 1 : RemoveAt(c, m + 1)[j] = IF j < m + 1 THEN c[j] ELSE c[j + 1]
  <2>1. RemoveAt(d, m) \in Seq(Int) /\ Len(RemoveAt(d, m)) = Len(d) - 1
    BY ZenonT(30), <1>4, <1>7, RemoveAtFacts
  <2>2. /\ RemoveAt(c, m + 1) \in Seq(Nat) /\ Len(RemoveAt(c, m + 1)) = Len(c) - 1
        /\ \A j \in 1 .. Len(c) - 1 : RemoveAt(c, m + 1)[j] = IF j < m + 1 THEN c[j] ELSE c[j + 1]
    <3>1. PICK m1 : m1 = m + 1
      OBVIOUS
    <3>2. m1 \in 1 .. Len(c)
      BY <1>7, <3>1
    <3> HIDE DEF c
    <3>3. /\ RemoveAt(c, m1) \in Seq(Nat) /\ Len(RemoveAt(c, m1)) = Len(c) - 1
          /\ \A j \in 1 .. Len(c) - 1 : RemoveAt(c, m1)[j] = IF j < m1 THEN c[j] ELSE c[j + 1]
      BY ONLY <1>4, <3>2, RemoveAtFacts
    <3>. QED BY <3>1, <3>3
  <2>. QED BY <2>1, <2>2
<1>9. Inserted(RemoveAt(d, m), m, sep, d)
  <2>1. d[m] = sep
    BY <1>5, <1>6
  <2>2. \A j \in 1 .. Len(d) : d[j] = IF j = m THEN sep ELSE d[j]
    BY <2>1
  <2>. QED BY <1>4, <1>7, <2>2, Reinserted
<1>10. Inserted(RemoveAt(d, m), m, key, nd2[P].data)
  <2>1. \A j \in 1 .. Len(d) : nd2[P].data[j] = IF j = m THEN key ELSE d[j]
    BY <1>6
  <2>. QED BY <1>4, <1>7, <2>1, Reinserted
<1>11. Inserted(RemoveAt(c, m + 1), m + 1, right, c)
  <2>1. c[m + 1] = right
    BY <1>5, <1>7
  <2>2. \A j \in 1 .. Len(c) : c[j] = IF j = m + 1 THEN right ELSE c[j]
    BY <2>1
  <2>. QED BY <1>4, <1>7, <2>2, Reinserted
<1>12. /\ joint \in NodeType
       /\ joint.data = RemoveAt(d, m) /\ joint.children = RemoveAt(c, m + 1)
  BY <1>4, <1>6, <1>7, <1>8 DEF NodeType
<1> HIDE DEF joint
<1>13. /\ DOMAIN nd1 = DOMAIN nd \ {right}
       /\ nd1[left] = mid /\ nd1[P] = joint
       /\ \A n \in DOMAIN nd : n # P /\ n # left /\ n # right => nd1[n] = nd[n]
  BY <1>2, <1>3
<1> HIDE DEF nd1
<1>14. PICK lev1, rng1 :
         /\ Cells(nd1, ht, lev1, rng1) /\ NodesOK(nd1, st, lev1, rng1)
         /\ \A n \in DOMAIN nd1 : lev1[n] = lev[n] /\ (n # left => rng1[n] = rng[n])
  <2>1. nd1[P] \in NodeType
    BY <1>12, <1>13
  <2>2. Inserted(nd1[P].data, i + 1, sep, nd[P].data)
    BY <1>6, <1>9, <1>12, <1>13
  <2>3. Inserted(nd1[P].children, i + 2, right, nd[P].children)
    BY <1>7, <1>11, <1>12, <1>13
  <2>4. Merges(nd[left], nd[right], lev[left], sep, nd1[left])
    BY <1>13
  <2>5. MergedBelow(nd, lev, P, i, left, sep, right, nd1)
    BY <1>13, <2>1, <2>2, <2>3, <2>4 DEF MergedBelow
  <2>. QED BY <2>5, MergeTree
<1>15. P \in DOMAIN nd1 /\ left \in DOMAIN nd1 /\ lev1[P] = lev[P] /\ lev1[left] = lev[left]
  BY <1>2, <1>3, <1>13, <1>14
<1>16. PICK lev2, rng2 :
         /\ Cells(nd2, ht, lev2, rng2) /\ NodesOK(nd2, st, lev2, rng2)
         /\ lev2[right] = lev1[left]
         /\ \A n \in DOMAIN nd1 : lev2[n] = lev1[n] /\ (n # left => rng2[n] = rng1[n])
  <2>1. i \in 0 .. Len(nd1[P].data)
    BY <1>4, <1>5, <1>8, <1>12, <1>13
  <2>2. left = nd1[P].children[i + 1]
    <3>1. m \in 1 .. Len(c) - 1 /\ m < m + 1
      BY <1>4, <1>7
    <3>2. RemoveAt(c, m + 1)[m] = c[m]
      BY <1>8, <3>1
    <3>. QED BY <1>5, <1>6, <1>12, <1>13, <3>2
  <2>3. right \in Nat \ {0} /\ right \notin DOMAIN nd1 /\ DOMAIN nd2 = DOMAIN nd1 \cup {right}
    <3>1. right \in Nat \ {0}
      BY <1>2, CellFacts
    <3>. QED BY <1>2, <1>13, <3>1
  <2>4. \A n \in DOMAIN nd1 : n # P /\ n # left => nd2[n] = nd1[n]
    BY <1>13
  <2>5. Splits(nd1[left], lev1[left], key, right, nd2[left], nd2[right])
    BY <1>13, <1>15
  <2>6. Inserted(nd1[P].data, i + 1, key, nd2[P].data)
    BY <1>6, <1>10, <1>12, <1>13
  <2>7. Inserted(nd1[P].children, i + 2, right, nd2[P].children)
    BY <1>7, <1>11, <1>12, <1>13
  <2>8. lev1[P] > 1
    BY <1>15
  <2>9. SplitBelow(nd1, lev1, P, i, left, key, right, nd2)
    BY <1>15, <2>1, <2>2, <2>3, <2>4, <2>5, <2>6, <2>7, <2>8 DEF SplitBelow
  <2>. QED BY <1>14, <2>9, SplitTree
<1>17. ASSUME NEW n \in DOMAIN nd PROVE lev2[n] = lev[n]
  <2>1. CASE n = right
    BY <1>2, <1>15, <1>16, <2>1
  <2>2. CASE n # right
    BY <1>13, <1>14, <1>16, <2>2
  <2>. QED BY <2>1, <2>2
<1>. QED BY <1>16, <1>17

-----------------------------------------------------------------------------
(***************************************************************************)
(* The whole tree: the root's range is everything.                         *)
(***************************************************************************)

Shape(nd, rt, ht, st, lev, rng) ==
  /\ Cells(nd, ht, lev, rng)
  /\ NodesOK(nd, st, lev, rng)
  /\ ht = 0 => rt = NoPage /\ st = {} /\ DOMAIN nd = {}
  /\ ht > 0 => rt \in DOMAIN nd /\ lev[rt] = ht /\ rng[rt] = Int

(* A leaf changes, and the stored pairs of its range with it.              *)
LeafChanged(nd, st, rng, n, nd2, st2) ==
  /\ DOMAIN nd2 = DOMAIN nd
  /\ \A m \in DOMAIN nd : m # n => nd2[m] = nd[m]
  /\ nd2[n] \in NodeType /\ nd2[n].children = <<>> /\ nd2[n].sibling = nd[n].sibling
  /\ Keys(nd2[n].data, rng[n]) /\ Holds(st2, nd2[n].data, rng[n])
  /\ \A p \in Int : p \notin rng[n] => (p \in st2 <=> p \in st)

LEMMA LeafTree ==
  ASSUME NEW nd, NEW rt, NEW ht, NEW st, NEW lev, NEW rng, Shape(nd, rt, ht, st, lev, rng),
         NEW n \in DOMAIN nd, lev[n] = 1,
         NEW nd2, NEW st2, LeafChanged(nd, st, rng, n, nd2, st2)
  PROVE  Shape(nd2, rt, ht, st2, lev, rng)
<1>1. Cells(nd, ht, lev, rng) /\ NodesOK(nd, st, lev, rng)
  BY DEF Shape
<1>2. /\ DOMAIN nd2 = DOMAIN nd
      /\ \A m \in DOMAIN nd : m # n => nd2[m] = nd[m]
      /\ nd2[n] \in NodeType /\ nd2[n].children = <<>> /\ nd2[n].sibling = nd[n].sibling
      /\ Keys(nd2[n].data, rng[n]) /\ Holds(st2, nd2[n].data, rng[n])
      /\ \A p \in Int : p \notin rng[n] => (p \in st2 <=> p \in st)
  BY DEF LeafChanged
<1>3. Cells(nd2, ht, lev, rng)
  <2>1. \A m \in DOMAIN nd2 : nd2[m] \in NodeType
    BY <1>1, <1>2 DEF Cells
  <2>. QED BY <1>1, <1>2, <2>1 DEF Cells
<1>4. ASSUME NEW m \in DOMAIN nd, m # n PROVE NodeOK(nd2, st2, lev, rng, m)
  <2>1. NodeOK(nd, st, lev, rng, m) /\ nd2[m] = nd[m]
    BY <1>1, <1>2, <1>4 DEF NodesOK
  <2>2. Fan(DOMAIN nd, lev, rng, nd[m].data, nd[m].children, lev[m], rng[m])
          <=> Fan(DOMAIN nd2, lev, rng, nd2[m].data, nd2[m].children, lev[m], rng[m])
    BY <1>2, <2>1
  <2>3. NextOK(nd, lev, rng, m) <=> NextOK(nd2, lev, rng, m)
    BY <1>2, <2>1 DEF NextOK
  <2>4. ASSUME lev[m] = 1, Holds(st, nd[m].data, rng[m]) PROVE Holds(st2, nd2[m].data, rng[m])
    <3>1. ASSUME NEW p \in rng[m] PROVE p \in st2 <=> p \in st
      <4>1. p \in Int
        BY <1>1, CellFacts
      <4>2. p \notin rng[n]
        <5>1. p \in rng[n] => m = n
          BY <1>1, <2>4, CellsDisjoint
        <5>. QED BY <1>4, <5>1
      <4>. QED BY <1>2, <4>1, <4>2
    <3>. QED BY <2>1, <2>4, <3>1 DEF Holds
  <2>. QED BY <2>1, <2>2, <2>3, <2>4 DEF NodeOK
<1>5. NodeOK(nd2, st2, lev, rng, n)
  <2>1. NextOK(nd, lev, rng, n)
    BY <1>1 DEF NodesOK, NodeOK
  <2>2. NextOK(nd2, lev, rng, n)
    BY <1>2, <2>1 DEF NextOK
  <2>3. ~ (lev[n] > 1)
    OBVIOUS
  <2>. QED BY <1>2, <2>2, <2>3 DEF NodeOK
<1>6. NodesOK(nd2, st2, lev, rng)
  BY <1>2, <1>4, <1>5 DEF NodesOK
<1>7. ht > 0 /\ ht # 0
  BY <1>1, CellFacts
<1>. QED BY <1>2, <1>3, <1>6, <1>7 DEF Shape

(* A new root above the old one.                                           *)
Grown(nd, rt, top, nd2) ==
  /\ top \in Nat \ {0} /\ top \notin DOMAIN nd
  /\ DOMAIN nd2 = DOMAIN nd \cup {top}
  /\ \A n \in DOMAIN nd : nd2[n] = nd[n]
  /\ nd2[top] = IndexNode(<<>>, <<rt>>)

LEMMA GrowTree ==
  ASSUME NEW nd, NEW rt, NEW ht, NEW st, NEW lev, NEW rng, Shape(nd, rt, ht, st, lev, rng),
         ht > 0, NEW top, NEW nd2, Grown(nd, rt, top, nd2)
  PROVE  \E lev2, rng2 : /\ Shape(nd2, top, ht + 1, st, lev2, rng2)
                         /\ \A n \in DOMAIN nd : lev2[n] = lev[n]
<1>. /\ top \in Nat \ {0} /\ top \notin DOMAIN nd
     /\ DOMAIN nd2 = DOMAIN nd \cup {top}
     /\ \A n \in DOMAIN nd : nd2[n] = nd[n]
     /\ nd2[top] = IndexNode(<<>>, <<rt>>)
  BY DEF Grown
<1> DEFINE lev2 == [n \in DOMAIN nd2 |-> IF n = top THEN ht + 1 ELSE lev[n]]
           rng2 == [n \in DOMAIN nd2 |-> IF n = top THEN Int ELSE rng[n]]
<1>1. Cells(nd, ht, lev, rng) /\ NodesOK(nd, st, lev, rng) /\ ht \in Nat
  BY DEF Shape, Cells
<1>2. rt \in DOMAIN nd /\ lev[rt] = ht /\ rng[rt] = Int /\ rt \in Nat
  <2>1. rt \in DOMAIN nd /\ lev[rt] = ht /\ rng[rt] = Int
    BY DEF Shape
  <2>. QED BY <1>1, <2>1, CellFacts
<1>3. /\ lev2[top] = ht + 1 /\ rng2[top] = Int /\ top \in DOMAIN nd2
      /\ \A n \in DOMAIN nd : n \in DOMAIN nd2 /\ lev2[n] = lev[n] /\ rng2[n] = rng[n] /\ n # top
  OBVIOUS
<1> HIDE DEF lev2, rng2
<1>4. nd2[top] \in NodeType /\ nd2[top].data = <<>> /\ nd2[top].children = <<rt>>
  BY <1>2 DEF IndexNode, NodeType
<1>5. \A n \in DOMAIN nd : lev[n] \in Nat /\ 1 <= lev[n] /\ lev[n] <= ht
  BY <1>1, CellFacts
<1>6. Cells(nd2, ht + 1, lev2, rng2)
  <2>1. IsFiniteSet(DOMAIN nd2) /\ DOMAIN nd2 \subseteq Nat \ {0}
    <3>1. IsFiniteSet(DOMAIN nd) /\ DOMAIN nd \subseteq Nat \ {0}
      BY <1>1 DEF Cells
    <3>2. IsFiniteSet(DOMAIN nd \cup {top})
      BY <3>1, FS_Singleton, FS_Union
    <3>. QED BY <3>1, <3>2
  <2>2. ASSUME NEW n \in DOMAIN nd2
        PROVE  nd2[n] \in NodeType /\ lev2[n] \in 1 .. ht + 1 /\ IsRange(rng2[n])
    <3>1. CASE n = top
      <4>1. IsRange(Int)
        BY DEF IsRange
      <4>. QED BY <1>1, <1>3, <1>4, <3>1, <4>1
    <3>2. CASE n \in DOMAIN nd
      <4>1. nd[n] \in NodeType /\ IsRange(rng[n])
        BY <1>1, <3>2, CellFacts
      <4>2. lev[n] \in 1 .. ht + 1
        BY <1>1, <1>5, <3>2
      <4>. QED BY <1>3, <3>2, <4>1, <4>2
    <3>. QED BY <3>1, <3>2
  <2>3. ASSUME NEW m \in DOMAIN nd2, NEW n \in DOMAIN nd2, NEW p \in Int,
               lev2[m] = lev2[n], p \in rng2[m], p \in rng2[n]
        PROVE  m = n
    <3>1. CASE m \in DOMAIN nd /\ n \in DOMAIN nd
      <4>1. lev[m] = lev[n] /\ p \in rng[m] /\ p \in rng[n]
        BY <1>3, <2>3, <3>1
      <4>. QED BY <1>1, <3>1, <4>1, CellsDisjoint
    <3>2. CASE m = top /\ n # top
      BY <1>1, <1>3, <1>5, <2>3, <3>2
    <3>3. CASE m # top /\ n = top
      BY <1>1, <1>3, <1>5, <2>3, <3>3
    <3>. QED BY <3>1, <3>2, <3>3
  <2>4. ASSUME NEW k \in 1 .. ht + 1, NEW p \in Int
        PROVE  \E n \in DOMAIN nd2 : lev2[n] = k /\ p \in rng2[n]
    <3>1. CASE k = ht + 1
      BY <1>3, <3>1
    <3>2. CASE k \in 1 .. ht
      <4>1. \E n \in DOMAIN nd : lev[n] = k /\ p \in rng[n]
        BY <1>1, <3>2 DEF Cells
      <4>. QED BY <1>3, <4>1
    <3>. QED BY <1>1, <3>1, <3>2
  <2>5. ht + 1 \in Nat
    BY <1>1
  <2>. QED BY ONLY <2>1, <2>2, <2>3, <2>4, <2>5 DEF Cells
<1>7. ASSUME NEW n \in DOMAIN nd PROVE NodeOK(nd2, st, lev2, rng2, n)
  <2>1. NodeOK(nd, st, lev, rng, n) /\ lev[n] \in Nat \ {0}
    BY <1>1, <1>5 DEF NodesOK
  <2>2. \A c \in DOMAIN nd : c \in DOMAIN nd2 /\ lev2[c] = lev[c] /\ rng2[c] = rng[c]
    BY <1>3
  <2>3. lev[n] > 1 => \A c \in Children(nd, n) :
                         c \in DOMAIN nd2 /\ lev2[c] = lev[c] /\ rng2[c] = rng[c]
    BY <1>1, <2>2, ChildFacts
  <2>4. lev[n] > 1 => Len(nd[n].data) \in Nat
    BY <1>1, ChildFacts
  <2>5. ASSUME lev[n] = 1 PROVE NextOK(nd2, lev2, rng2, n)
    <3>1. NextOK(nd, lev, rng, n)
      BY <2>1, <2>5 DEF NodeOK
    <3>. QED BY <2>2, <3>1 DEF NextOK
  <2>. QED BY <2>1, <2>2, <2>3, <2>4, <2>5, NodeKept
<1>8. NodeOK(nd2, st, lev2, rng2, top)
  <2>1. Len(<<>>) = 0 /\ <<>> \in Seq(Int)
    OBVIOUS
  <2>2. Keys(<<>>, Int)
    BY <2>1 DEF Keys, IsAscending
  <2>3. Below(DOMAIN nd2, lev2, rng2, rt, <<>>, 0, ht + 1, Int)
    <3>1. \A p \in Int : InSlot(<<>>, 0, p)
      BY <2>1 DEF InSlot
    <3>2. rt \in DOMAIN nd2 /\ lev2[rt] = (ht + 1) - 1 /\ rng2[rt] = Int
      BY <1>1, <1>2, <1>3
    <3>. QED BY <3>1, <3>2 DEF Below
  <2>4. Fan(DOMAIN nd2, lev2, rng2, <<>>, <<rt>>, ht + 1, Int)
    <3>1. <<rt>> \in Seq(Nat) /\ Len(<<rt>>) = 1 /\ <<rt>>[1] = rt
      BY <1>2
    <3>2. ASSUME NEW i \in 0 .. Len(<<>>)
          PROVE  Below(DOMAIN nd2, lev2, rng2, <<rt>>[i + 1], <<>>, i, ht + 1, Int)
      <4>1. i = 0 /\ i + 1 = 1
        BY <2>1
      <4>. QED BY <2>3, <3>1, <4>1
    <3>3. Len(<<rt>>) = Len(<<>>) + 1
      BY <2>1, <3>1
    <3>. QED BY ONLY <3>1, <3>2, <3>3 DEF Fan
  <2>5. lev2[top] # 1
    BY <1>1, <1>3
  <2>. QED BY <1>3, <1>4, <2>2, <2>4, <2>5 DEF NodeOK
<1>9. NodesOK(nd2, st, lev2, rng2)
  BY <1>7, <1>8 DEF NodesOK
<1>10. Shape(nd2, top, ht + 1, st, lev2, rng2)
  BY <1>1, <1>3, <1>6, <1>9 DEF Shape
<1>. QED BY <1>3, <1>10

(* A root with a single child gives way to it.                             *)
Shrunk(nd, rt, nd2) ==
  DOMAIN nd2 = DOMAIN nd \ {rt} /\ \A n \in DOMAIN nd2 : nd2[n] = nd[n]

LEMMA ShrinkTree ==
  ASSUME NEW nd, NEW rt, NEW ht, NEW st, NEW lev, NEW rng, Shape(nd, rt, ht, st, lev, rng),
         ht > 1, Len(nd[rt].data) = 0, NEW nd2, Shrunk(nd, rt, nd2)
  PROVE  Shape(nd2, nd[rt].children[1], ht - 1, st, lev, rng)
<1>. DOMAIN nd2 = DOMAIN nd \ {rt} /\ \A n \in DOMAIN nd2 : nd2[n] = nd[n]
  BY DEF Shrunk
<1> DEFINE c == nd[rt].children[1]
<1>1. Cells(nd, ht, lev, rng) /\ NodesOK(nd, st, lev, rng) /\ ht \in Nat
  BY DEF Shape, Cells
<1>2. rt \in DOMAIN nd /\ lev[rt] = ht /\ rng[rt] = Int
  BY <1>1 DEF Shape
<1>3. \A n \in DOMAIN nd : lev[n] \in Nat /\ 1 <= lev[n] /\ lev[n] <= ht
  BY <1>1, CellFacts
<1>4. ASSUME NEW n \in DOMAIN nd, lev[n] = ht PROVE n = rt
  <2>1. PICK p \in Int : p \in rng[n]
    BY <1>1, CellFacts
  <2>. QED BY <1>1, <1>2, <1>4, <2>1, CellsDisjoint
<1>5. \A n \in DOMAIN nd2 : n \in DOMAIN nd /\ lev[n] \in 1 .. ht - 1
  <2>1. ASSUME NEW n \in DOMAIN nd2 PROVE n \in DOMAIN nd /\ lev[n] \in 1 .. ht - 1
    <3>1. n \in DOMAIN nd /\ lev[n] # ht
      BY <1>4
    <3>. QED BY <1>1, <1>3, <3>1
  <2>. QED BY <2>1
<1>6. /\ c \in DOMAIN nd2 /\ lev[c] = ht - 1 /\ rng[c] = Int
  <2>1. Below(DOMAIN nd, lev, rng, nd[rt].children[0 + 1], nd[rt].data, 0, ht, Int)
    <3>1. 0 \in 0 .. Len(nd[rt].data) /\ lev[rt] > 1
      BY <1>2
    <3>. QED BY <1>1, <1>2, <3>1, ChildFacts
  <2>2. c \in DOMAIN nd /\ lev[c] = ht - 1 /\ \A p \in Int : p \in rng[c] <=> InSlot(nd[rt].data, 0, p)
    BY <2>1 DEF Below
  <2>3. \A p \in Int : InSlot(nd[rt].data, 0, p)
    BY DEF InSlot
  <2>4. rng[c] \subseteq Int
    BY <1>1, <2>2, CellFacts
  <2>5. c # rt
    BY <1>1, <1>2, <2>2
  <2>. QED BY <2>2, <2>3, <2>4, <2>5
<1>7. Cells(nd2, ht - 1, lev, rng)
  <2>1. IsFiniteSet(DOMAIN nd2) /\ DOMAIN nd2 \subseteq Nat \ {0}
    <3>1. IsFiniteSet(DOMAIN nd) /\ DOMAIN nd \subseteq Nat \ {0}
      BY <1>1 DEF Cells
    <3>2. IsFiniteSet(DOMAIN nd \ {rt})
      BY ONLY <3>1, FS_Difference
    <3>. QED BY <3>1, <3>2
  <2>2. \A n \in DOMAIN nd2 : nd2[n] \in NodeType /\ IsRange(rng[n])
    BY <1>1, <1>5, CellFacts
  <2>3. ASSUME NEW k \in 1 .. ht - 1, NEW p \in Int
        PROVE  \E n \in DOMAIN nd2 : lev[n] = k /\ p \in rng[n]
    <3>1. k \in 1 .. ht /\ k # ht
      BY <1>1
    <3>2. PICK n \in DOMAIN nd : lev[n] = k /\ p \in rng[n]
      BY <1>1, <3>1 DEF Cells
    <3>3. n # rt
      BY <1>2, <3>1, <3>2
    <3>. QED BY <3>2, <3>3
  <2>4. \A m, n \in DOMAIN nd2 : \A p \in Int :
          lev[m] = lev[n] /\ p \in rng[m] /\ p \in rng[n] => m = n
    BY <1>1, <1>5, CellsDisjoint
  <2>5. ht - 1 \in Nat
    BY <1>1
  <2>. QED BY <1>5, <2>1, <2>2, <2>3, <2>4, <2>5 DEF Cells
<1>8. ASSUME NEW n \in DOMAIN nd2 PROVE NodeOK(nd2, st, lev, rng, n)
  <2>1. NodeOK(nd, st, lev, rng, n) /\ lev[n] \in Nat \ {0} /\ nd2[n] = nd[n] /\ n \in DOMAIN nd
    BY <1>1, <1>3, <1>5 DEF NodesOK
  <2>2. ASSUME lev[n] > 1, NEW d \in Children(nd, n) PROVE d \in DOMAIN nd2
    <3>1. d \in DOMAIN nd /\ lev[d] = lev[n] - 1
      BY <1>1, <2>1, <2>2, ChildFacts
    <3>2. lev[d] # ht
      BY <1>1, <1>3, <2>1, <3>1
    <3>. QED BY <1>2, <3>1, <3>2
  <2>3. lev[n] > 1 => Len(nd[n].data) \in Nat
    BY <1>1, <2>1, ChildFacts
  <2>4. ASSUME lev[n] = 1 PROVE NextOK(nd2, lev, rng, n)
    <3>1. NextOK(nd, lev, rng, n)
      BY <2>1, <2>4 DEF NodeOK
    <3>2. \A s \in DOMAIN nd : lev[s] = 1 => s \in DOMAIN nd2
      BY <1>2
    <3>. QED BY <2>1, <3>1, <3>2 DEF NextOK
  <2>. QED BY <2>1, <2>2, <2>3, <2>4, NodeKept
<1>9. NodesOK(nd2, st, lev, rng)
  BY <1>8 DEF NodesOK
<1>10. ht - 1 > 0 /\ ht - 1 # 0
  BY <1>1
<1>. QED BY <1>6, <1>7, <1>9, <1>10 DEF Shape
=============================================================================
