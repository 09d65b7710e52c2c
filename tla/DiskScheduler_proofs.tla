------------------------- MODULE DiskScheduler_proofs -------------------------
(***************************************************************************)
(* Every request of the disk scheduler is on its way once: EachRequestOnce *)
(* for rings of any size and counters of any width.                        *)
(***************************************************************************)
EXTENDS DiskScheduler, FiniteSetTheorems, FunctionTheorems, TLAPS

-------------------------------------------------------------------------------
(***************************************************************************)
(* Remainders.                                                             *)
(***************************************************************************)
Congruent(x, y, n) == \E k \in Int : x = k * n + y

LEMMA AtLeast ==
  \A n \in Nat \ {0}, d \in Int : (d >= 1 => n * d >= n) /\ (d <= -1 => n * d <= -n)
  OBVIOUS

LEMMA DivMod ==
  ASSUME NEW n \in Nat, n > 0, NEW x \in Int
  PROVE  x \div n \in Int /\ x % n \in 0 .. n - 1 /\ x = (x \div n) * n + (x % n)
<1>1. x = (x \div n)*n + (x % n)
 BY Z3
<1>2. x \div n \in Int /\ x % n \in 0 .. n - 1
 OBVIOUS
<1> QED
  BY <1>1, <1>2

LEMMA ModIs == 
  ASSUME NEW n \in Nat, n > 0, NEW q \in Int, NEW r \in 0 .. n - 1
  PROVE (q * n + r) % n = r
<1> PICK x : x = q * n + r
  OBVIOUS
<1>0. x \in Int
  OBVIOUS
<1> PICK p \in Int : p = x \div n
  BY <1>0, DivMod
<1> PICK s : s = x % n
  OBVIOUS
<1>1. x = p * n + s /\ s \in 0 .. n - 1
  BY <1>0, DivMod
<1>3. n * (q - p) = s - r
  BY <1>1
<1>4. q - p = 0
  <2>1. q - p \in Int /\ s - r < n /\ s - r > -n
    BY <1>1
  <2> QED
   BY <1>3, <2>1, AtLeast
<1>5. QED BY <1>1, <1>4

(* One turn of a counter of width w.                                       *)
LEMMA OneTurn ==
  ASSUME NEW w \in Nat, w > 0, NEW x \in Int
  PROVE  /\ x \in 0 .. w - 1 => x % w = x
         /\ x \in w .. 2 * w - 1 => x % w = x - w
         /\ x \in - w .. -1 => x % w = x + w
<1>1. \A q \in Int, r \in 0 .. w - 1 : (q * w + r) % w = r
  BY ModIs
<1>2. ASSUME x \in 0 .. w - 1 PROVE x % w = x
  <2>1. 0 \in Int /\ x = 0 * w + x
    BY <1>2
  <2> QED
    BY <1>1, <1>2, <2>1
<1>3. ASSUME x \in w .. 2 * w - 1 PROVE x % w = x - w
  <2> PICK r : r = x - w
    OBVIOUS
  <2>1. 1 \in Int /\ r \in 0 .. w - 1 /\ x = 1 * w + r
    BY <1>3
  <2> QED
    BY <1>1, <2>1
<1>4. ASSUME x \in - w .. -1 PROVE x % w = x + w
  <2> PICK r : r = x + w
    OBVIOUS
  <2>1. -1 \in Int /\ r \in 0 .. w - 1 /\ x = (-1) * w + r
    BY <1>4
  <2> QED
    BY <1>1, <2>1
<1>5 QED BY <1>2, <1>3, <1>4

LEMMA CongruentIs ==
  ASSUME NEW n \in Nat, n > 0
  PROVE  /\ \A x, y \in Int : Congruent(x, y, n) => Congruent(y, x, n)
         /\ \A x, y, z \in Int : Congruent(x, y, n) /\ Congruent(y, z, n) => Congruent(x, z, n)
         /\ \A x \in Int : Congruent(x, x % n, n)
         /\ \A x, y \in Int : Congruent(x, y, n) /\ x - y < n /\ y - x < n => x = y
<1>1. ASSUME NEW x \in Int, NEW y \in Int, Congruent(x, y, n)
      PROVE  Congruent(y, x, n)
  <2>1. PICK k \in Int : x = k * n + y
    BY <1>1 DEF Congruent
  <2>2. y = (-k) * n + x
    BY <2>1, Z3
  <2>3. QED
    BY <2>2 DEF Congruent
<1>2. ASSUME NEW x \in Int, NEW y \in Int, NEW z \in Int, Congruent(x, y, n), Congruent(y, z, n)
      PROVE  Congruent(x, z, n)
  <2>1. PICK k \in Int : x = k * n + y
    BY <1>2 DEF Congruent
  <2>2. PICK l \in Int : y = l * n + z
    BY <1>2 DEF Congruent
  <2>3. x = (k + l) * n + z
    BY <2>1, <2>2, Z3
  <2>4. k + l \in Int
    OBVIOUS
  <2>5. QED
    BY <2>3, <2>4 DEF Congruent
<1>3. ASSUME NEW x \in Int
      PROVE  Congruent(x, x % n, n)
  BY DivMod DEF Congruent
<1>4. ASSUME NEW x \in Int, NEW y \in Int, Congruent(x, y, n), x - y < n, y - x < n
      PROVE  x = y
  <2>1. PICK k \in Int : x = k * n + y
    BY <1>4 DEF Congruent
  <2>2. n * k = x - y
    BY <2>1
  <2>3. k = 0
    BY <1>4, <2>2, AtLeast
  <2>4. QED
    BY <2>2, <2>3
<1>5. QED
  BY <1>1, <1>2, <1>3, <1>4

(* Two of n successive positions, counted modulo w and then modulo n, are  *)
(* different places of a ring of n, also where the counter wraps.          *)
LEMMA PlacesDiffer ==
  ASSUME NEW w \in Nat, w > 0, NEW n \in Nat, n > 0, w % n = 0, NEW h \in Int,
         NEW i \in 0 .. n - 1, NEW j \in 0 .. n - 1,
         ((h + i) % w) % n = ((h + j) % w) % n
  PROVE  i = j
<1> PICK m \in Int : w = m * n
  <2>1. w \div n \in Int /\ w = (w \div n) * n + (w % n)
    BY DivMod
  <2>2. PICK q \in Int : w = q * n + (w % n)
    BY <2>1, Zenon
  <2>3. w = q * n
    BY <2>2
  <2>4. QED
    BY <2>3
<1>1. ASSUME NEW x \in Int PROVE Congruent(x, (x % w) % n, n)
  <2>1. PICK k \in Int : x = k * w + (x % w)
    BY DivMod
  <2>4. PICK y \in Int : y = x % w
    BY DivMod
  <2>2. x = (k * m) * n + y
    <3>1. k * w = (k * m) * n
      BY w = m * n, Z3
    <3>2. x = k * w + y
      BY <2>1, <2>4
    <3>3. QED
      BY <3>1, <3>2, Zenon
  <2>3. k * m \in Int
    OBVIOUS
  <2>5. Congruent(x, y, n)
    BY <2>2, <2>3 DEF Congruent
  <2>6. Congruent(y, y % n, n) /\ y % n \in Int
    <3>1. y % n \in Int
      BY DivMod
    <3>2. Congruent(y, y % n, n)
      BY CongruentIs
    <3>3. QED
      BY <3>1, <3>2
  <2> QED
    BY <2>4, <2>5, <2>6, CongruentIs
<1> PICK a \in Int : a = h + i
  OBVIOUS
<1> PICK b \in Int : b = h + j
  OBVIOUS
<1> PICK y \in Int : y = (a % w) % n
  <2>1. PICK c \in Int : c = a % w
    BY DivMod
  <2>2. c % n \in Int
    BY <2>1, DivMod
  <2>3. QED
    BY <2>1, <2>2
<1>2. y = (b % w) % n
  <2>1. (a % w) % n = (b % w) % n
    OBVIOUS
  <2>2. QED
    BY <2>1
<1>3. Congruent(a, y, n) /\ Congruent(b, y, n)
  <2>1. Congruent(a, (a % w) % n, n)
    BY <1>1
  <2>2. Congruent(b, (b % w) % n, n)
    BY <1>1
  <2>3. QED
    BY <1>2, <2>1, <2>2, Zenon
<1>4. Congruent(a, b, n)
  BY <1>3, CongruentIs
<1>5. a - b < n /\ b - a < n
  OBVIOUS
<1>6. a = b
  BY <1>4, <1>5, CongruentIs
<1>7. QED
  BY <1>6

-------------------------------------------------------------------------------
(***************************************************************************)
(* The counters of the rings, and what a ring holds.                       *)
(***************************************************************************)
Counters == 0 .. Wrap - 1

RingSizes == {Entries, CqEntries}

LEMMA CounterArithmetic ==
  ASSUME NEW h \in Counters
  PROVE  /\ Plus(h, 0) = h /\ Minus(h, h) = 0
         /\ \A i \in Nat : Plus(h, i) \in Counters
         /\ \A t \in Counters : Minus(t, h) \in Counters /\ t = Plus(h, Minus(t, h))
         /\ \A i, j \in Counters : i + j \in Counters => Plus(Plus(h, i), j) = Plus(h, i + j)
         /\ \A i, k \in Counters : i <= k => Minus(Plus(h, k), Plus(h, i)) = k - i
<1>1. Wrap \in Nat /\ Wrap > 0 /\ Counters = 0 .. Wrap - 1 /\ 0 \in Counters
  BY RingAssumption DEF Counters
<1>2. ASSUME NEW x \in Int
      PROVE  /\ x % Wrap \in Counters
             /\ x \in 0 .. Wrap - 1 => x % Wrap = x
             /\ x \in Wrap .. 2 * Wrap - 1 => x % Wrap = x - Wrap
             /\ x \in -Wrap .. -1 => x % Wrap = x + Wrap
  <2>1. x % Wrap \in 0 .. Wrap - 1
    BY <1>1, DivMod
  <2>2. QED
    BY <1>1, <2>1, OneTurn
<1>3. ASSUME NEW i \in Nat
      PROVE  Plus(h, i) \in Counters
  <2>1. h + i \in Int
    BY <1>1
  <2>2. (h + i) % Wrap \in Counters
    BY <1>2, <2>1
  <2>3. QED
    BY <2>2 DEF Plus
<1>4. ASSUME NEW g \in Counters, NEW i \in Counters
      PROVE  Plus(g, i) = IF g + i < Wrap THEN g + i ELSE g + i - Wrap
  <2> PICK x \in Int : x = g + i
    BY <1>1
  <2>1. x \in 0 .. Wrap - 1 \/ x \in Wrap .. 2 * Wrap - 1
    BY <1>1
  <2>2. x % Wrap = IF x < Wrap THEN x ELSE x - Wrap
    BY <1>1, <1>2, <2>1
  <2>3. Plus(g, i) = x % Wrap
    BY Zenon DEF Plus
  <2>4. g + i < Wrap <=> x < Wrap
    BY <1>1
  <2>5. QED
    BY <1>1, <2>2, <2>3, <2>4
<1>5. ASSUME NEW g \in Counters, NEW i \in Counters
      PROVE  Minus(g, i) = IF g >= i THEN g - i ELSE g - i + Wrap
  <2> PICK x \in Int : x = g - i
    BY <1>1
  <2>1. x \in 0 .. Wrap - 1 \/ x \in -Wrap .. -1
    BY <1>1
  <2>2. x % Wrap = IF x >= 0 THEN x ELSE x + Wrap
    BY <1>1, <1>2, <2>1
  <2>3. Minus(g, i) = x % Wrap
    BY Zenon DEF Minus
  <2>4. g >= i <=> x >= 0
    BY <1>1
  <2>5. QED
    BY <2>2, <2>3, <2>4
<1>6. ASSUME NEW t \in Counters
      PROVE  Minus(t, h) \in Counters /\ t = Plus(h, Minus(t, h))
  <2> PICK d : d = Minus(t, h)
    OBVIOUS
  <2>1. d = IF t >= h THEN t - h ELSE t - h + Wrap
    BY <1>5
  <2>2. d \in Counters
    BY <1>1, <2>1
  <2>3. Plus(h, d) = IF h + d < Wrap THEN h + d ELSE h + d - Wrap
    BY <1>4, <2>2
  <2>4. t = Plus(h, d)
    BY <1>1, <2>1, <2>3
  <2>5. QED
    BY <2>2, <2>4
<1>7. ASSUME NEW i \in Counters, NEW j \in Counters, i + j \in Counters
      PROVE  Plus(Plus(h, i), j) = Plus(h, i + j)
  <2> PICK g \in Counters : g = Plus(h, i)
    BY <1>1, <1>3
  <2>1. g = (IF h + i < Wrap THEN h + i ELSE h + i - Wrap) /\ Plus(g, j) = (IF g + j < Wrap THEN g + j ELSE g + j - Wrap)
    BY <1>4
  <2>2. Plus(h, i + j) = (IF h + (i + j) < Wrap THEN h + (i + j) ELSE h + (i + j) - Wrap)
    BY <1>4, <1>7
  <2>3. QED
    BY <1>1, <1>7, <2>1, <2>2
<1>8. ASSUME NEW i \in Counters, NEW k \in Counters, i <= k
      PROVE  Minus(Plus(h, k), Plus(h, i)) = k - i
  <2> PICK g, e \in Counters : g = Plus(h, i) /\ e = Plus(h, k)
    BY <1>1, <1>3
  <2>1. g = (IF h + i < Wrap THEN h + i ELSE h + i - Wrap) /\ e = (IF h + k < Wrap THEN h + k ELSE h + k - Wrap)
    BY <1>4
  <2>2. Minus(e, g) = IF e >= g THEN e - g ELSE e - g + Wrap
    BY <1>5
  <2>3. QED
    BY <1>1, <1>8, <2>1, <2>2
<1>9. Plus(h, 0) = h /\ Minus(h, h) = 0
  BY <1>1, <1>4, <1>5
<1>10. QED
  BY <1>3, <1>6, <1>7, <1>8, <1>9

LEMMA SizeFacts ==
  ASSUME NEW n \in RingSizes
  PROVE  /\ n \in Nat /\ n > 0 /\ n \in Counters /\ 0 .. n \subseteq Counters
         /\ Wrap \in Nat /\ Wrap > 0 /\ Wrap % n = 0
<1>1. Wrap \in Nat /\ Wrap > 0
  BY RingAssumption
<1>2. n \in Nat /\ n > 0 /\ n < Wrap
  BY RingAssumption DEF RingSizes
<1>3. Wrap % n = 0
  BY RingAssumption, Zenon DEF RingSizes
<1>4. QED
  BY <1>1, <1>2, <1>3 DEF Counters

(* The place of the i-th entry after counter h.                            *)
LEMMA Places ==
  ASSUME NEW n \in RingSizes, NEW h \in Counters
  PROVE  /\ \A i \in Nat : Plus(h, i) % n \in 0 .. n - 1
         /\ \A i, j \in 0 .. n - 1 : Plus(h, i) % n = Plus(h, j) % n => i = j
<1>1. n \in Nat /\ n > 0 /\ Wrap \in Nat /\ Wrap > 0 /\ Wrap % n = 0
  BY SizeFacts
<1>2. h \in Int
  BY <1>1 DEF Counters
<1>3. ASSUME NEW i \in Nat
      PROVE  Plus(h, i) % n \in 0 .. n - 1
  <2> PICK g \in Int : g = Plus(h, i)
    BY <1>1, CounterArithmetic DEF Counters
  <2>1. g % n \in 0 .. n - 1
    BY <1>1, DivMod
  <2>2. QED
    BY <2>1
<1>4. ASSUME NEW i \in 0 .. n - 1, NEW j \in 0 .. n - 1, Plus(h, i) % n = Plus(h, j) % n
      PROVE  i = j
  <2>1. ((h + i) % Wrap) % n = ((h + j) % Wrap) % n
    BY <1>4, Zenon DEF Plus
  <2>2. QED
    BY <1>1, <1>2, <2>1, PlacesDiffer
<1>5. QED
  BY <1>3, <1>4

(* The entries for r among the k that follow counter h.                    *)
Held(slots, n, h, k, r) == {i \in 0 .. k - 1 : slots[Plus(h, i) % n] = r}

LEMMA HeldFinite ==
  ASSUME NEW slots, NEW n, NEW h, NEW k \in Nat, NEW r
  PROVE  /\ IsFiniteSet(Held(slots, n, h, k, r))
         /\ Cardinality(Held(slots, n, h, k, r)) \in Nat
<1>1. IsFiniteSet(0 .. k - 1)
  BY FS_Interval
<1>2. Held(slots, n, h, k, r) \subseteq 0 .. k - 1
  BY DEF Held
<1>3. IsFiniteSet(Held(slots, n, h, k, r))
  BY <1>1, <1>2, FS_Subset
<1>4. QED
  BY <1>3, FS_CardinalityType

LEMMA HeldNone ==
  ASSUME NEW slots, NEW n, NEW h, NEW r
  PROVE  Cardinality(Held(slots, n, h, 0, r)) = 0
<1>1. Held(slots, n, h, 0, r) = {}
  BY DEF Held
<1>2. QED
  BY <1>1, FS_EmptySet

LEMMA HeldFirst ==
  ASSUME NEW slots, NEW n, NEW h \in Counters, NEW r
  PROVE  Cardinality(Held(slots, n, h, 1, r)) = IF slots[h % n] = r THEN 1 ELSE 0
<1>1. Plus(h, 0) = h
  BY CounterArithmetic
<1>2. 0 .. 1 - 1 = {0}
  OBVIOUS
<1>3. Held(slots, n, h, 1, r) = IF slots[h % n] = r THEN {0} ELSE {}
  BY <1>1, <1>2 DEF Held
<1>4. Cardinality({0}) = 1
  BY FS_Singleton
<1>5. QED
  BY <1>3, <1>4, FS_EmptySet

(* One more entry, in the place after the k there are.                     *)
LEMMA HeldAdded ==
  ASSUME NEW n \in RingSizes, NEW slots, NEW filled, NEW h \in Counters,
         NEW k \in 0 .. n - 1, NEW q, NEW r,
         NEW place, place = Plus(h, k) % n,
         filled[place] = q, \A i \in 0 .. n - 1 : i # place => filled[i] = slots[i]
  PROVE  Cardinality(Held(filled, n, h, k + 1, r))
           = Cardinality(Held(slots, n, h, k, r)) + (IF r = q THEN 1 ELSE 0)
<1>1. n \in Nat /\ n > 0
  BY SizeFacts
<1> PICK at : at = [i \in 0 .. k |-> Plus(h, i) % n]
  OBVIOUS
<1>2. \A i \in 0 .. k : at[i] \in 0 .. n - 1
  BY <1>1, Places
<1>3. \A i \in 0 .. k - 1 : at[i] # at[k]
  <2>1. \A i, j \in 0 .. n - 1 : Plus(h, i) % n = Plus(h, j) % n => i = j
    BY Places
  <2>2. QED
    BY <1>1, <2>1
<1>4. filled[at[k]] = q /\ \A i \in 0 .. n - 1 : i # at[k] => filled[i] = slots[i]
  BY <1>1
<1>5. k \notin 0 .. k - 1 /\ \A i : i \in 0 .. k <=> i \in 0 .. k - 1 \/ i = k
  BY <1>1
<1> PICK Before : Before = Held(slots, n, h, k, r)
  OBVIOUS
<1> PICK After : After = Held(filled, n, h, k + 1, r)
  OBVIOUS
<1>6. \A i : i \in Before <=> i \in 0 .. k - 1 /\ slots[at[i]] = r
  BY <1>1 DEF Held
<1>7. \A i : i \in After <=> i \in 0 .. k /\ filled[at[i]] = r
  BY <1>1 DEF Held
<1>8. filled[at[k]] = q /\ \A i \in 0 .. k - 1 : filled[at[i]] = slots[at[i]]
  BY <1>2, <1>3, <1>4
<1>9. CASE r = q
  <2>1. After = Before \cup {k}
    <3>1. ASSUME NEW i
          PROVE  i \in After <=> i \in Before \/ i = k
      <4>1. CASE i = k
        BY <1>5, <1>7, <1>8, <1>9, <4>1, Zenon
      <4>2. CASE i # k
        <5>1. i \in 0 .. k <=> i \in 0 .. k - 1
          BY <1>5, <4>2, Zenon
        <5>2. i \in 0 .. k - 1 => filled[at[i]] = slots[at[i]]
          BY <1>8, Zenon
        <5>3. QED
          BY <1>6, <1>7, <4>2, <5>1, <5>2, Zenon
      <4>3. QED
        BY <4>1, <4>2
    <3>2. QED
      BY <3>1, Zenon
  <2>2. k \notin Before
    BY <1>6, <1>5, Zenon
  <2>3. IsFiniteSet(Before)
    BY <1>1, HeldFinite
  <2>4. Cardinality(After) = Cardinality(Before) + 1
    BY <2>1, <2>2, <2>3, FS_AddElement
  <2>5. QED
    BY <1>9, <2>4, Zenon
<1>10. CASE r # q
  <2>1. After = Before
    <3>1. ASSUME NEW i
          PROVE  i \in After <=> i \in Before
      <4>1. CASE i = k
        BY <1>5, <1>6, <1>7, <1>8, <1>10, <4>1, Zenon
      <4>2. CASE i # k
        <5>1. i \in 0 .. k <=> i \in 0 .. k - 1
          BY <1>5, <4>2, Zenon
        <5>2. i \in 0 .. k - 1 => filled[at[i]] = slots[at[i]]
          BY <1>8, Zenon
        <5>3. QED
          BY <1>6, <1>7, <5>1, <5>2, Zenon
      <4>3. QED
        BY <4>1, <4>2
    <3>2. QED
      BY <3>1, Zenon
  <2>2. QED
    BY <1>1, <1>10, <2>1, HeldFinite
<1>11. QED
  BY <1>9, <1>10

(* The first m entries and those that follow them.                         *)
LEMMA HeldApart ==
  ASSUME NEW n \in RingSizes, NEW slots, NEW h \in Counters, NEW k \in 0 .. n,
         NEW m \in 0 .. k, NEW r
  PROVE  Cardinality(Held(slots, n, h, k, r))
           = Cardinality(Held(slots, n, h, m, r)) + Cardinality(Held(slots, n, Plus(h, m), k - m, r))
<1>1. n \in Nat /\ n > 0 /\ 0 .. n \subseteq Counters
  BY SizeFacts
<1> PICK First : First = Held(slots, n, h, m, r)
  OBVIOUS
<1> PICK Rest : Rest = Held(slots, n, Plus(h, m), k - m, r)
  OBVIOUS
<1> DEFINE moved == [i \in Rest |-> m + i]
           Last == {i \in m .. k - 1 : slots[Plus(h, i) % n] = r}
<1>2. \A i \in 0 .. k - m - 1 : Plus(Plus(h, m), i) = Plus(h, m + i)
  <2>1. ASSUME NEW i \in 0 .. k - m - 1
        PROVE  Plus(Plus(h, m), i) = Plus(h, m + i)
    <3>1. m \in Counters /\ i \in Counters /\ m + i \in Counters
      BY <1>1
    <3>2. QED
      BY <3>1, CounterArithmetic
  <2>2. QED
    BY <2>1
<1>3. Rest = {i \in 0 .. k - m - 1 : slots[Plus(h, m + i) % n] = r}
  BY <1>2 DEF Held
<1>4. IsFiniteSet(First) /\ IsFiniteSet(Rest)
  BY <1>1, HeldFinite
<1>5. moved \in Bijection(Rest, Last)
  <2>1. \A i \in Rest : i \in Int /\ m + i \in Last
    BY <1>1, <1>3
  <2>2. \A i \in Rest, j \in Rest : m + i = m + j => i = j
    BY <1>1, <2>1
  <2>3. \A j \in Last : j - m \in Rest /\ m + (j - m) = j
    <3>1. ASSUME NEW j \in Last
          PROVE  j - m \in Rest /\ m + (j - m) = j
      <4> PICK i : i = j - m
        OBVIOUS
      <4>1. i \in 0 .. k - m - 1 /\ j = m + i
        BY <1>1
      <4>2. QED
        BY <1>3, <4>1
    <3>2. QED
      BY <3>1
  <2>4. moved \in [Rest -> Last]
    BY <2>1
  <2>5. \A i, j \in Rest : i # j => moved[i] # moved[j]
    BY <2>2
  <2>6. \A j \in Last : \E i \in Rest : moved[i] = j
    BY <2>3
  <2>7. QED
    BY <2>4, <2>5, <2>6, Fun_IsBij
<1>6. IsFiniteSet(Last) /\ Cardinality(Last) = Cardinality(Rest)
  <2>1. ExistsBijection(Rest, Last)
    BY <1>5, Zenon DEF ExistsBijection
  <2>2. QED
    BY <1>4, <2>1, FS_Bijection
<1>7. Held(slots, n, h, k, r) = First \cup Last /\ First \cap Last = {}
  BY <1>1 DEF Held
<1>8. Cardinality(First \cup Last) = Cardinality(First) + Cardinality(Last) - Cardinality({})
  BY <1>4, <1>6, <1>7, FS_Union
<1>9. Cardinality(First) \in Nat /\ Cardinality(Last) \in Nat /\ Cardinality({}) = 0
  BY <1>4, <1>6, FS_CardinalityType, FS_EmptySet
<1>10. QED
  BY <1>6, <1>7, <1>8, <1>9

-------------------------------------------------------------------------------
(***************************************************************************)
(* The inductive invariant.                                                *)
(***************************************************************************)

(* The submission ring: never more entries than places, what is published  *)
(* begins at the head and ends before what is handed out, and a published  *)
(* index names its own entry.                                              *)
SqOk(ring) ==
  /\ ring \in [head : Counters, tail : Counters, tail_cached : Counters,
               sqes : [0 .. Entries - 1 -> Requests \cup {null}],
               array : [0 .. Entries - 1 -> 0 .. Entries - 1]]
  /\ Minus(ring.tail, ring.head) <= Untaken(ring) /\ Untaken(ring) <= Entries
  /\ \A i \in 0 .. Minus(ring.tail, ring.head) - 1 :
       ring.array[Plus(ring.head, i) % Entries] = Plus(ring.head, i) % Entries

Queued(ring, r) == Cardinality(Held(ring.sqes, Entries, ring.head, Untaken(ring), r))

(* The completion ring while poll p goes on: what it has reaped lies       *)
(* between the head and the tail, and what is left to reap are requests.   *)
Posted(ring) == Minus(ring.tail, ring.head)
Reaped(p) == IF p.pc = "out" THEN 0 ELSE IF p.pc = "reaping" THEN p.count ELSE p.count + 1

CqOk(ring, p) ==
  /\ ring \in [head : Counters, tail : Counters, cqes : [0 .. CqEntries - 1 -> Requests \cup {null}]]
  /\ p \in [pc : {"out", "reaping", "resumed"}, head : Counters, count : Nat]
  /\ p.pc # "out" => p.head = Plus(ring.head, p.count)
  /\ Reaped(p) <= Posted(ring) /\ Posted(ring) <= CqEntries
  /\ \A i \in Reaped(p) .. Posted(ring) - 1 : ring.cqes[Plus(ring.head, i) % CqEntries] \in Requests

ToReap(ring, p, r) ==
  Cardinality(Held(ring.cqes, CqEntries, Plus(ring.head, Reaped(p)), Posted(ring) - Reaped(p), r))

OneEach ==
  \A r \in Requests :
    Queued(sq, r) + in_kernel[r] + ToReap(cq, poll, r) = IF r \in waiting THEN 1 ELSE 0

CountIsExact ==
  unfinished_requests_count = Cardinality(waiting) + (IF poll.pc = "resumed" THEN 1 ELSE 0)

RingInv ==
  /\ SqOk(sq)
  /\ CqOk(cq, poll)
  /\ in_kernel \in [Requests -> Nat]
  /\ waiting \subseteq Requests /\ IsFiniteSet(waiting)
  /\ OneEach
  /\ CountIsExact

-------------------------------------------------------------------------------
(***************************************************************************)
(* The submission ring.                                                    *)
(***************************************************************************)

(* Counters between head h and tail t, and the one after the tail.         *)
LEMMA Distances ==
  ASSUME NEW h \in Counters, NEW t \in Counters
  PROVE  /\ Minus(t, h) \in Counters /\ Minus(t, h) \in Nat
         /\ \A i \in 0 .. Minus(t, h) :
              i \in Counters /\ Plus(h, i) \in Counters /\ Minus(t, Plus(h, i)) = Minus(t, h) - i
         /\ Minus(t, h) + 1 \in Counters =>
              /\ Plus(t, 1) \in Counters
              /\ Minus(Plus(t, 1), h) = Minus(t, h) + 1
<1>1. Counters \subseteq Nat /\ \A d \in Counters : 0 .. d \subseteq Counters
  BY RingAssumption DEF Counters
<1> PICK d : d = Minus(t, h)
  OBVIOUS
<1>2. d \in Counters /\ t = Plus(h, d)
  BY CounterArithmetic
<1>3. ASSUME NEW i \in 0 .. d
      PROVE  i \in Counters /\ Plus(h, i) \in Counters /\ Minus(t, Plus(h, i)) = d - i
  <2>1. i \in Counters /\ i \in Nat /\ i <= d
    BY <1>1, <1>2
  <2>2. Plus(h, i) \in Counters
    BY <2>1, CounterArithmetic
  <2>3. Minus(Plus(h, d), Plus(h, i)) = d - i
    BY <1>2, <2>1, CounterArithmetic
  <2>4. QED
    BY <1>2, <2>1, <2>2, <2>3
<1>4. ASSUME d + 1 \in Counters
      PROVE  Plus(t, 1) \in Counters /\ Minus(Plus(t, 1), h) = d + 1
  <2>1. 1 \in Counters /\ 0 \in Counters /\ d + 1 >= 0
    BY <1>1, <1>2, <1>4
  <2>2. Plus(Plus(h, d), 1) = Plus(h, d + 1)
    BY <1>2, <1>4, <2>1, CounterArithmetic
  <2>3. Plus(h, 0) = h
    BY CounterArithmetic
  <2> PICK e \in Counters : e = d + 1
    BY <1>4
  <2>4. Minus(Plus(h, e), Plus(h, 0)) = e - 0
    <3>1. \A i, k \in Counters : i <= k => Minus(Plus(h, k), Plus(h, i)) = k - i
      BY CounterArithmetic
    <3>2. 0 <= e
      BY <1>1
    <3>3. QED
      BY <2>1, <3>1, <3>2
  <2>5. e - 0 = e
    BY <1>1
  <2>6. Minus(Plus(t, 1), h) = d + 1
    BY <1>2, <2>2, <2>3, <2>4, <2>5, Zenon
  <2>7. Plus(t, 1) \in Counters
    BY CounterArithmetic
  <2>8. QED
    BY <2>6, <2>7
<1>5. QED
  BY <1>1, <1>2, <1>3, <1>4

LEMMA QueuedAreSubmissions ==
  ASSUME SqOk(sq), NEW r
  PROVE  SubmissionsOf(r) = Held(sq.sqes, Entries, sq.head, Untaken(sq), r)
<1> DEFINE place(i) == Plus(sq.head, i) % Entries
<1>1. \A i \in 0 .. Minus(sq.tail, sq.head) - 1 : sq.array[place(i)] = place(i)
  BY DEF SqOk
<1>2. Minus(sq.tail, sq.head) \in Nat /\ Untaken(sq) \in Nat
  BY Distances DEF SqOk, Untaken
<1>3. ASSUME NEW i \in 0 .. Untaken(sq) - 1
      PROVE  (IF i < Minus(sq.tail, sq.head) THEN NextEntry(sq, i) ELSE sq.sqes[Plus(sq.head, i) % Entries])
               = sq.sqes[place(i)]
  <2>1. CASE i < Minus(sq.tail, sq.head)
    <3>1. i \in 0 .. Minus(sq.tail, sq.head) - 1
      BY <1>2, <2>1
    <3>2. sq.array[place(i)] = place(i)
      BY <1>1, <3>1
    <3>3. NextEntry(sq, i) = sq.sqes[place(i)]
      BY <3>2, Zenon DEF NextEntry
    <3>4. QED
      BY <2>1, <3>3, Zenon
  <2>2. CASE ~(i < Minus(sq.tail, sq.head))
    BY <2>2, Zenon
  <2>3. QED
    BY <2>1, <2>2
<1>4. \A i : i \in SubmissionsOf(r) <=> i \in Held(sq.sqes, Entries, sq.head, Untaken(sq), r)
  BY <1>3, Zenon DEF SubmissionsOf, Held
<1>5. QED
  BY <1>4, Zenon DEF SubmissionsOf, Held

LEMMA FilledOk ==
  ASSUME NEW ring, SqOk(ring), HasRoom(ring), NEW q \in Requests
  PROVE  /\ SqOk(Filled(ring, q))
         /\ \A r : Queued(Filled(ring, q), r) = Queued(ring, r) + (IF r = q THEN 1 ELSE 0)
<1> PICK h \in Counters : h = ring.head
  BY DEF SqOk
<1> PICK c \in Counters : c = ring.tail_cached
  BY DEF SqOk
<1> PICK u : u = Untaken(ring)
  OBVIOUS
<1>1. Entries \in RingSizes /\ Entries \in Nat /\ 0 .. Entries \subseteq Counters
  BY SizeFacts DEF RingSizes
<1>2. u = Minus(c, h) /\ u \in 0 .. Entries - 1 /\ u + 1 \in Counters
  BY <1>1, Distances DEF Untaken, HasRoom
<1>3. c = Plus(h, u)
  <2>1. c = Plus(h, Minus(c, h))
    BY CounterArithmetic
  <2>2. QED
    BY <1>2, <2>1, Zenon
<1>4. Plus(c, 1) \in Counters /\ Minus(Plus(c, 1), h) = u + 1
  BY <1>2, Distances
<1> PICK place : place = c % Entries
  OBVIOUS
<1>5. place = Plus(h, u) % Entries /\ place \in 0 .. Entries - 1
  <2>1. Plus(h, u) % Entries \in 0 .. Entries - 1
    <3>1. \A i \in Nat : Plus(h, i) % Entries \in 0 .. Entries - 1
      BY <1>1, Places, Zenon
    <3>2. u \in Nat
      BY <1>1, <1>2
    <3>3. QED
      BY <3>1, <3>2, Zenon
  <2>2. place = Plus(h, u) % Entries
    BY <1>3, Zenon
  <2>3. QED
    BY <2>1, <2>2, Zenon
<1>6. Filled(ring, q) = [ring EXCEPT !.sqes[place] = q, !.tail_cached = Plus(c, 1)]
  BY DEF Filled
<1> PICK filled : filled = Filled(ring, q)
  OBVIOUS
<1>7. /\ filled.head = h /\ filled.tail = ring.tail /\ filled.tail_cached = Plus(c, 1)
      /\ filled.array = ring.array /\ filled.sqes = [ring.sqes EXCEPT ![place] = q]
      /\ filled \in [head : Counters, tail : Counters, tail_cached : Counters,
                     sqes : [0 .. Entries - 1 -> Requests \cup {null}],
                     array : [0 .. Entries - 1 -> 0 .. Entries - 1]]
  <2>1. ring \in [head : Counters, tail : Counters, tail_cached : Counters,
                  sqes : [0 .. Entries - 1 -> Requests \cup {null}],
                  array : [0 .. Entries - 1 -> 0 .. Entries - 1]]
    BY DEF SqOk
  <2>2. [ring.sqes EXCEPT ![place] = q] \in [0 .. Entries - 1 -> Requests \cup {null}]
    BY <2>1
  <2>3. QED
    BY <1>4, <1>6, <2>1, <2>2
<1>8. Untaken(filled) = u + 1
  BY <1>4, <1>7 DEF Untaken
<1>9. SqOk(filled)
  <2>1. Minus(ring.tail, h) <= u /\ Minus(ring.tail, h) \in Nat
    BY Distances DEF SqOk
  <2>2. Minus(filled.tail, filled.head) <= Untaken(filled) /\ Untaken(filled) <= Entries
    BY <1>1, <1>2, <1>7, <1>8, <2>1
  <2>3. \A i \in 0 .. Minus(filled.tail, filled.head) - 1 :
          filled.array[Plus(filled.head, i) % Entries] = Plus(filled.head, i) % Entries
    BY <1>7 DEF SqOk
  <2>4. QED
    BY <1>7, <2>2, <2>3 DEF SqOk
<1>10. ASSUME NEW r
       PROVE  Queued(filled, r) = Queued(ring, r) + (IF r = q THEN 1 ELSE 0)
  <2> PICK slots : slots = ring.sqes
    OBVIOUS
  <2> PICK grown : grown = filled.sqes
    OBVIOUS
  <2>1. DOMAIN slots = 0 .. Entries - 1
    BY DEF SqOk
  <2>2. grown[place] = q /\ \A i \in 0 .. Entries - 1 : i # place => grown[i] = slots[i]
    BY <1>5, <1>7, <2>1
  <2>3. Entries \in RingSizes /\ u \in 0 .. Entries - 1
    BY <1>1, <1>2
  <2>4. Cardinality(Held(grown, Entries, h, u + 1, r))
          = Cardinality(Held(slots, Entries, h, u, r)) + (IF r = q THEN 1 ELSE 0)
    <3>1. place = Plus(h, u) % Entries
      BY <1>5
    <3>2. QED
      BY <2>2, <2>3, <3>1, HeldAdded
  <2>5. QED
    BY <1>7, <1>8, <2>4 DEF Queued
<1>11. QED
  BY <1>9, <1>10

(* What io_uring_submit makes of the ring when the kernel takes n entries: *)
(* the ring is well formed, and each entry is in it or with the kernel.    *)
LEMMA SubmittedOk ==
  ASSUME SqOk(sq), NEW n \in Takes
  PROVE  /\ SqOk(Submitted(n)) /\ n \in Nat
         /\ \A r : Queued(sq, r)
                     = Queued(Submitted(n), r)
                       + Cardinality({i \in 0 .. n - 1 : NextEntry(Published(sq), i) = r})
<1> PICK h \in Counters : h = sq.head
  BY DEF SqOk
<1> PICK t \in Counters : t = sq.tail
  BY DEF SqOk
<1> PICK c \in Counters : c = sq.tail_cached
  BY DEF SqOk
<1> PICK u : u = Minus(c, h)
  OBVIOUS
<1> PICK p : p = Minus(t, h)
  OBVIOUS
<1> PICK ready : ready = Minus(c, t)
  OBVIOUS
<1> PICK place : place = [i \in Nat |-> Plus(h, i) % Entries]
  OBVIOUS
<1>1. Entries \in RingSizes /\ Entries \in Nat /\ 0 .. Entries \subseteq Counters
  BY SizeFacts DEF RingSizes
<1>2. u = Untaken(sq) /\ ready = io_uring_sq_ready
  BY DEF Untaken, io_uring_sq_ready
<1>3. p \in Nat /\ u \in Nat /\ p <= u /\ u <= Entries /\ t = Plus(h, p) /\ c = Plus(h, u)
  <2>1. p \in Nat /\ u \in Nat
    BY Distances
  <2>2. p <= u /\ u <= Entries
    BY <1>2 DEF SqOk
  <2>3. t = Plus(h, Minus(t, h)) /\ c = Plus(h, Minus(c, h))
    BY CounterArithmetic
  <2>4. QED
    BY <2>1, <2>2, <2>3
<1>4. \A i \in 0 .. u : /\ i \in Nat /\ i \in Counters
                        /\ Plus(h, i) \in Counters /\ Minus(c, Plus(h, i)) = u - i
  BY Distances
<1>5. ready = u - p
  BY <1>3, <1>4
<1>6. n \in 0 .. u /\ n \in Nat /\ n <= ready
  BY <1>2, <1>3, <1>5 DEF Takes
<1>7. \A i, j \in Nat : i + j <= u => Plus(Plus(h, i), j) = Plus(h, i + j)
  <2>1. ASSUME NEW i \in Nat, NEW j \in Nat, i + j <= u
        PROVE  Plus(Plus(h, i), j) = Plus(h, i + j)
    <3>1. i \in Counters /\ j \in Counters /\ i + j \in Counters
      BY <1>1, <1>3, <2>1
    <3>2. \A a, b \in Counters : a + b \in Counters => Plus(Plus(h, a), b) = Plus(h, a + b)
      BY CounterArithmetic, Zenon
    <3>3. QED
      BY <3>1, <3>2, Zenon
  <2>2. QED
    BY <2>1
<1>8. \A i \in Nat : place[i] = Plus(h, i) % Entries /\ place[i] \in 0 .. Entries - 1
  BY <1>1, Places
<1> PICK shown : shown = Published(sq)
  OBVIOUS
<1> PICK new : new = {Plus(t, i) % Entries : i \in 0 .. ready - 1}
  OBVIOUS
<1>9. shown = [sq EXCEPT !.array = [i \in DOMAIN @ |-> IF i \in new THEN i ELSE @[i]], !.tail = c]
  BY <1>2, Zenon DEF Published
<1>10. /\ shown.head = h /\ shown.tail = c /\ shown.tail_cached = c /\ shown.sqes = sq.sqes
       /\ shown.array = [i \in 0 .. Entries - 1 |-> IF i \in new THEN i ELSE sq.array[i]]
       /\ DOMAIN shown = {"head", "tail", "tail_cached", "sqes", "array"}
       /\ shown \in [head : Counters, tail : Counters, tail_cached : Counters,
                     sqes : [0 .. Entries - 1 -> Requests \cup {null}],
                     array : [0 .. Entries - 1 -> 0 .. Entries - 1]]
  <2>1. sq \in [head : Counters, tail : Counters, tail_cached : Counters,
                sqes : [0 .. Entries - 1 -> Requests \cup {null}],
                array : [0 .. Entries - 1 -> 0 .. Entries - 1]]
    BY DEF SqOk
  <2> PICK array : array = [i \in 0 .. Entries - 1 |-> IF i \in new THEN i ELSE sq.array[i]]
    OBVIOUS
  <2>2. array \in [0 .. Entries - 1 -> 0 .. Entries - 1]
    BY <2>1
  <2>3. shown = [sq EXCEPT !.array = array, !.tail = c]
    BY <1>9, <2>1
  <2>4. QED
    BY <2>1, <2>2, <2>3
<1>11. \A i \in 0 .. u - 1 : shown.array[place[i]] = place[i]
  <2>1. ASSUME NEW i \in 0 .. u - 1, i < p
        PROVE  sq.array[place[i]] = place[i]
    <3>1. i \in 0 .. p - 1 /\ i \in Nat
      BY <1>3, <2>1
    <3>2. sq.array[Plus(h, i) % Entries] = Plus(h, i) % Entries
      BY <3>1 DEF SqOk
    <3>3. QED
      BY <1>8, <3>1, <3>2, Zenon
  <2>2. ASSUME NEW i \in 0 .. u - 1, ~(i < p)
        PROVE  place[i] \in new
    <3> PICK j \in Nat : i = p + j /\ j \in 0 .. ready - 1
      <4>1. i - p \in Nat /\ i = p + (i - p) /\ i - p \in 0 .. ready - 1
        BY <1>3, <1>5, <2>2
      <4>2. QED
        BY <4>1
    <3>1. Plus(t, j) = Plus(h, i)
      BY <1>3, <1>7
    <3>2. i \in Nat
      BY <1>3
    <3>3. place[i] = Plus(t, j) % Entries
      BY <1>8, <3>1, <3>2, Zenon
    <3>4. QED
      BY <3>3
  <2>3. ASSUME NEW i \in 0 .. u - 1
        PROVE  shown.array[place[i]] = place[i]
    <3>1. i \in Nat
      BY <1>3
    <3>2. place[i] \in 0 .. Entries - 1
      BY <1>8, <3>1, Zenon
    <3>3. shown.array[place[i]] = IF place[i] \in new THEN place[i] ELSE sq.array[place[i]]
      BY <1>10, <3>2
    <3>4. QED
      BY <2>1, <2>2, <3>3, Zenon
  <2>4. QED
    BY <2>3
<1>12. \A i \in 0 .. u - 1 : NextEntry(shown, i) = sq.sqes[place[i]]
  <2>1. \A i \in 0 .. u - 1 : i \in Nat
    BY <1>3
  <2>2. ASSUME NEW i \in 0 .. u - 1
        PROVE  NextEntry(shown, i) = sq.sqes[place[i]]
    <3>1. NextEntry(shown, i) = sq.sqes[shown.array[Plus(h, i) % Entries]]
      BY <1>10, Zenon DEF NextEntry
    <3>2. place[i] = Plus(h, i) % Entries
      BY <1>8, <2>1, Zenon
    <3>3. shown.array[place[i]] = place[i]
      BY <1>11, Zenon
    <3>4. QED
      BY <3>1, <3>2, <3>3
  <2>3. QED
    BY <2>2, Zenon
<1> PICK left : left = Submitted(n)
  OBVIOUS
<1>13. /\ left.head = Plus(h, n) /\ left.tail = c /\ left.tail_cached = c
       /\ left.sqes = sq.sqes /\ left.array = shown.array
       /\ left \in [head : Counters, tail : Counters, tail_cached : Counters,
                    sqes : [0 .. Entries - 1 -> Requests \cup {null}],
                    array : [0 .. Entries - 1 -> 0 .. Entries - 1]]
  <2>1. left = [shown EXCEPT !.head = Plus(h, n)]
    BY <1>10 DEF Submitted
  <2>2. Plus(h, n) \in Counters
    BY <1>4, <1>6
  <2>3. QED
    BY <1>10, <2>1, <2>2
<1>14. Untaken(left) = u - n /\ Minus(left.tail, left.head) = u - n
  BY <1>4, <1>6, <1>13 DEF Untaken
<1>15. SqOk(left)
  <2>1. ASSUME NEW i \in 0 .. (u - n) - 1
        PROVE  left.array[Plus(Plus(h, n), i) % Entries] = Plus(Plus(h, n), i) % Entries
    <3> PICK j : j = n + i
      OBVIOUS
    <3>1. j \in 0 .. u - 1 /\ j \in Nat /\ i \in Nat /\ n + i <= u
      BY <1>3, <1>6
    <3>2. Plus(Plus(h, n), i) = Plus(h, j)
      BY <1>6, <1>7, <3>1
    <3>3. place[j] = Plus(Plus(h, n), i) % Entries
      BY <1>8, <3>1, <3>2, Zenon
    <3>4. QED
      BY <1>11, <1>13, <3>1, <3>3, Zenon
  <2>2. u - n <= Entries /\ u - n <= u - n
    BY <1>1, <1>3, <1>6
  <2>3. QED
    BY <1>13, <1>14, <2>1, <2>2 DEF SqOk
<1>16. ASSUME NEW r
       PROVE  Queued(sq, r) = Queued(left, r) + Cardinality({i \in 0 .. n - 1 : NextEntry(shown, i) = r})
  <2> PICK slots : slots = sq.sqes
    OBVIOUS
  <2>1. Cardinality(Held(slots, Entries, h, u, r))
          = Cardinality(Held(slots, Entries, h, n, r)) + Cardinality(Held(slots, Entries, Plus(h, n), u - n, r))
    <3>1. u \in 0 .. Entries /\ n \in 0 .. u
      BY <1>1, <1>3, <1>6
    <3>2. QED
      BY <1>1, <3>1, HeldApart
  <2>2. Queued(sq, r) = Cardinality(Held(slots, Entries, h, u, r))
    BY <1>2 DEF Queued
  <2>3. Queued(left, r) = Cardinality(Held(slots, Entries, Plus(h, n), u - n, r))
    BY <1>13, <1>14 DEF Queued
  <2>4. Held(slots, Entries, h, n, r) = {i \in 0 .. n - 1 : NextEntry(shown, i) = r}
    <3>1. ASSUME NEW i \in 0 .. n - 1
          PROVE  NextEntry(shown, i) = slots[Plus(h, i) % Entries]
      <4>1. i \in 0 .. u - 1 /\ i \in Nat
        BY <1>3, <1>6
      <4>2. QED
        BY <1>8, <1>12, <4>1, Zenon
    <3>2. QED
      BY <3>1 DEF Held
  <2>5. Cardinality(Held(slots, Entries, h, n, r)) \in Nat
        /\ Cardinality(Held(slots, Entries, Plus(h, n), u - n, r)) \in Nat
    <3>1. n \in Nat /\ u - n \in Nat
      BY <1>3, <1>6
    <3>2. QED
      BY <3>1, HeldFinite
  <2>6. QED
    BY <2>1, <2>2, <2>3, <2>4, <2>5
<1>17. QED
  BY <1>6, <1>15, <1>16

-------------------------------------------------------------------------------
(***************************************************************************)
(* The completion ring.                                                    *)
(***************************************************************************)

(* Where the reaping stands.                                               *)
LEMMA Reaping ==
  ASSUME NEW ring, NEW p, CqOk(ring, p)
  PROVE  /\ CqEntries \in RingSizes /\ CqEntries \in Nat /\ CqEntries \in Counters
         /\ Reaped(p) \in Nat /\ Posted(ring) \in Nat
         /\ Reaped(p) \in 0 .. Posted(ring) /\ Reaped(p) \in Counters
         /\ Plus(ring.head, Reaped(p)) \in Counters
         /\ ring.tail = Plus(ring.head, Posted(ring))
         /\ Minus(ring.tail, Plus(ring.head, Reaped(p))) = Posted(ring) - Reaped(p)
<1> PICK h \in Counters : h = ring.head
  BY DEF CqOk
<1> PICK t \in Counters : t = ring.tail
  BY DEF CqOk
<1> PICK m : m = Posted(ring)
  OBVIOUS
<1> PICK k : k = Reaped(p)
  OBVIOUS
<1>1. m = Minus(t, h)
  BY DEF Posted
<1>2. CqEntries \in RingSizes /\ CqEntries \in Nat /\ CqEntries \in Counters
  BY SizeFacts DEF RingSizes
<1>3. k \in Nat /\ k <= m
  BY DEF CqOk, Reaped
<1>4. m \in Nat /\ \A i \in 0 .. m : /\ i \in Counters /\ Plus(h, i) \in Counters
                                     /\ Minus(t, Plus(h, i)) = m - i
  BY <1>1, Distances
<1>5. t = Plus(h, m)
  <2>1. t = Plus(h, Minus(t, h))
    BY CounterArithmetic
  <2>2. QED
    BY <1>1, <2>1, Zenon
<1>6. k \in 0 .. m
  BY <1>3, <1>4
<1>7. QED
  BY <1>2, <1>3, <1>4, <1>5, <1>6

LEMMA ToReapIsNat ==
  ASSUME NEW ring, NEW p, CqOk(ring, p), NEW r
  PROVE  ToReap(ring, p, r) \in Nat
<1>1. Posted(ring) - Reaped(p) \in Nat
  BY Reaping
<1>2. QED
  BY <1>1, HeldFinite DEF ToReap

(* The kernel posts one completion more.                                   *)
LEMMA PostedOk ==
  ASSUME NEW ring, NEW p, CqOk(ring, p), Minus(ring.tail, ring.head) < CqEntries, NEW q \in Requests
  PROVE  \A grown :
           grown = [ring EXCEPT !.cqes[ring.tail % CqEntries] = q, !.tail = Plus(@, 1)]
             => /\ CqOk(grown, p)
                /\ \A r : ToReap(grown, p, r) = ToReap(ring, p, r) + (IF r = q THEN 1 ELSE 0)
<1>1. SUFFICES ASSUME NEW grown,
                      grown = [ring EXCEPT !.cqes[ring.tail % CqEntries] = q, !.tail = Plus(@, 1)]
               PROVE  /\ CqOk(grown, p)
                      /\ \A r : ToReap(grown, p, r) = ToReap(ring, p, r) + (IF r = q THEN 1 ELSE 0)
  OBVIOUS
<1> PICK h \in Counters : h = ring.head
  BY DEF CqOk
<1> PICK t \in Counters : t = ring.tail
  BY DEF CqOk
<1> PICK m : m = Posted(ring)
  OBVIOUS
<1> PICK k : k = Reaped(p)
  OBVIOUS
<1> PICK g : g = Plus(h, k)
  OBVIOUS
<1> PICK place : place = t % CqEntries
  OBVIOUS
<1>2. /\ CqEntries \in RingSizes /\ CqEntries \in Nat
      /\ k \in Nat /\ m \in Nat /\ k <= m /\ m < CqEntries
      /\ m = Minus(t, h) /\ t = Plus(h, m) /\ g \in Counters /\ Minus(t, g) = m - k
  BY Reaping DEF Posted
<1>3. m + 1 \in Counters /\ Plus(t, 1) \in Counters /\ Minus(Plus(t, 1), h) = m + 1
  <2>1. 0 .. CqEntries \subseteq Counters
    BY <1>2, SizeFacts
  <2>2. m + 1 \in Counters
    BY <1>2, <2>1
  <2>3. Minus(t, h) + 1 \in Counters =>
          Plus(t, 1) \in Counters /\ Minus(Plus(t, 1), h) = Minus(t, h) + 1
    BY Distances, Zenon
  <2>4. Minus(t, h) = m
    BY <1>2
  <2>5. QED
    BY <2>2, <2>3, <2>4, Zenon
<1>4. t = Plus(g, m - k)
  <2>1. t = Plus(g, Minus(t, g))
    BY <1>2, CounterArithmetic
  <2>2. QED
    BY <1>2, <2>1, Zenon
<1>5. place \in 0 .. CqEntries - 1
  <2>1. \A i \in Nat : Plus(h, i) % CqEntries \in 0 .. CqEntries - 1
    BY <1>2, Places, Zenon
  <2>2. QED
    BY <1>2, <2>1, Zenon
<1>6. ring \in [head : Counters, tail : Counters, cqes : [0 .. CqEntries - 1 -> Requests \cup {null}]]
  BY DEF CqOk
<1> PICK slots : slots = ring.cqes
  OBVIOUS
<1> PICK filled : filled = grown.cqes
  OBVIOUS
<1>7. grown = [ring EXCEPT !.cqes = [slots EXCEPT ![place] = q], !.tail = Plus(t, 1)]
  BY <1>1, <1>6
<1>8. /\ filled[place] = q /\ \A i \in 0 .. CqEntries - 1 : i # place => filled[i] = slots[i]
      /\ grown.head = h /\ grown.tail = Plus(t, 1)
      /\ grown \in [head : Counters, tail : Counters, cqes : [0 .. CqEntries - 1 -> Requests \cup {null}]]
  <2>1. slots \in [0 .. CqEntries - 1 -> Requests \cup {null}]
    BY <1>6
  <2>2. [slots EXCEPT ![place] = q] \in [0 .. CqEntries - 1 -> Requests \cup {null}]
    BY <2>1
  <2>3. filled = [slots EXCEPT ![place] = q] /\ grown.head = h /\ grown.tail = Plus(t, 1)
    BY <1>6, <1>7
  <2>4. grown \in [head : Counters, tail : Counters, cqes : [0 .. CqEntries - 1 -> Requests \cup {null}]]
    BY <1>3, <1>6, <1>7, <2>2
  <2>5. QED
    BY <1>5, <2>1, <2>3, <2>4
<1>9. Posted(grown) = m + 1
  BY <1>3, <1>8 DEF Posted
<1>10. \A i \in k .. m : filled[Plus(h, i) % CqEntries] \in Requests
  <2>1. ASSUME NEW i \in k .. m
        PROVE  filled[Plus(h, i) % CqEntries] \in Requests
    <3> PICK at : at = Plus(h, i) % CqEntries
      OBVIOUS
    <3>1. i \in Nat
      BY <1>2
    <3>2. at \in 0 .. CqEntries - 1
      BY <1>2, <3>1, Places
    <3>3. CASE i = m
      BY <1>2, <1>8, <3>3
    <3>4. CASE i # m
      <4>1. i \in k .. m - 1
        BY <1>2, <3>1, <3>4
      <4>2. slots[at] \in Requests
        BY <4>1 DEF CqOk
      <4>3. QED
        BY <1>8, <3>2, <4>2
    <3>5. QED
      BY <3>3, <3>4
  <2>2. QED
    BY <2>1
<1>11. CqOk(grown, p)
  <2>1. (m + 1) - 1 = m /\ k <= m + 1 /\ m + 1 <= CqEntries
    BY <1>2
  <2>2. /\ p \in [pc : {"out", "reaping", "resumed"}, head : Counters, count : Nat]
        /\ p.pc # "out" => p.head = Plus(h, p.count)
    BY DEF CqOk
  <2>3. \A i \in k .. Posted(grown) - 1 : grown.cqes[Plus(grown.head, i) % CqEntries] \in Requests
    <3>1. Posted(grown) - 1 = m
      BY <1>9, <2>1, Zenon
    <3>2. QED
      BY <1>8, <1>10, <3>1, Zenon
  <2>4. QED
    BY <1>8, <1>9, <2>1, <2>2, <2>3 DEF CqOk
<1>12. ASSUME NEW r, NEW e \in 0 .. CqEntries - 1, place = Plus(g, e) % CqEntries
       PROVE  Cardinality(Held(filled, CqEntries, g, e + 1, r))
                = Cardinality(Held(slots, CqEntries, g, e, r)) + (IF r = q THEN 1 ELSE 0)
  <2>1. filled[place] = q /\ \A i \in 0 .. CqEntries - 1 : i # place => filled[i] = slots[i]
    BY <1>8
  <2>2. CqEntries \in RingSizes /\ g \in Counters
    BY <1>2
  <2>3. QED
    BY <1>12, <2>1, <2>2, HeldAdded
<1>13. ASSUME NEW r
       PROVE  ToReap(grown, p, r) = ToReap(ring, p, r) + (IF r = q THEN 1 ELSE 0)
  <2> PICK d : d = m - k
    OBVIOUS
  <2>1. d \in 0 .. CqEntries - 1 /\ (m + 1) - k = d + 1
    BY <1>2
  <2>2. /\ place = Plus(g, d) % CqEntries
        /\ filled[place] = q /\ \A i \in 0 .. CqEntries - 1 : i # place => filled[i] = slots[i]
    BY <1>4, <1>8, Zenon
  <2>3. Cardinality(Held(filled, CqEntries, g, d + 1, r))
          = Cardinality(Held(slots, CqEntries, g, d, r)) + (IF r = q THEN 1 ELSE 0)
    BY <1>12, <2>1, <2>2, Zenon
  <2>4. QED
    BY <1>8, <1>9, <2>1, <2>3 DEF ToReap
<1>14. QED
  BY <1>11, <1>13

(* handle_completions() starts where the head is.                          *)
LEMMA BegunOk ==
  ASSUME NEW ring, NEW p, CqOk(ring, p), p.pc = "out",
         NEW q, q = [pc |-> "reaping", head |-> ring.head, count |-> 0]
  PROVE  CqOk(ring, q) /\ \A r : ToReap(ring, q, r) = ToReap(ring, p, r)
<1>1. Reaped(q) = 0 /\ Reaped(p) = 0
  BY DEF Reaped
<1>2. ring.head \in Counters /\ ring.head = Plus(ring.head, 0)
  BY CounterArithmetic DEF CqOk
<1>3. q \in [pc : {"out", "reaping", "resumed"}, head : Counters, count : Nat]
      /\ q.head = Plus(ring.head, q.count)
  BY <1>2
<1>4. CqOk(ring, q)
  BY <1>1, <1>3 DEF CqOk
<1>5. QED
  BY <1>1, <1>4 DEF ToReap

(* The entry at hand is a request, and is left to reap no more.            *)
LEMMA ResumedOk ==
  ASSUME NEW ring, NEW p, CqOk(ring, p), p.pc = "reaping", p.head # ring.tail,
         NEW q, q = [p EXCEPT !.pc = "resumed"]
  PROVE  /\ CqOk(ring, q)
         /\ ring.cqes[p.head % CqEntries] \in Requests
         /\ \A r : ToReap(ring, p, r)
                     = ToReap(ring, q, r) + (IF r = ring.cqes[p.head % CqEntries] THEN 1 ELSE 0)
<1> PICK h \in Counters : h = ring.head
  BY DEF CqOk
<1> PICK m : m = Posted(ring)
  OBVIOUS
<1> PICK k : k = Reaped(p)
  OBVIOUS
<1> PICK g : g = Plus(h, k)
  OBVIOUS
<1>1. /\ CqEntries \in RingSizes /\ CqEntries \in Nat
      /\ k \in Nat /\ m \in Nat /\ k <= m /\ m <= CqEntries /\ k \in Counters /\ m \in Counters
      /\ ring.tail = Plus(h, m) /\ g \in Counters
  <2>1. m <= CqEntries /\ 0 .. CqEntries \subseteq Counters
    BY Reaping, SizeFacts DEF CqOk
  <2>2. QED
    BY <2>1, Reaping
<1>2. k = p.count /\ p.head = g /\ p \in [pc : {"out", "reaping", "resumed"}, head : Counters, count : Nat]
  BY DEF CqOk, Reaped
<1>3. k < m
  <2>1. k # m
    BY <1>1, <1>2, Zenon
  <2>2. QED
    BY <1>1, <2>1
<1>4. q.pc = "resumed" /\ q.head = g /\ q.count = k /\ Reaped(q) = k + 1
      /\ q \in [pc : {"out", "reaping", "resumed"}, head : Counters, count : Nat]
  BY <1>2 DEF Reaped
<1>5. CqOk(ring, q)
  <2>1. \A i \in k + 1 .. m - 1 : i \in k .. m - 1
    BY <1>1
  <2>2. \A i \in k + 1 .. m - 1 : ring.cqes[Plus(h, i) % CqEntries] \in Requests
    BY <2>1 DEF CqOk
  <2>3. k + 1 <= m /\ m <= CqEntries
    BY <1>1, <1>3
  <2>4. QED
    BY <1>4, <2>2, <2>3 DEF CqOk
<1>6. ring.cqes[g % CqEntries] \in Requests
  <2>1. k \in k .. m - 1
    BY <1>1, <1>3
  <2>2. QED
    BY <2>1 DEF CqOk
<1>7. ASSUME NEW r
      PROVE  ToReap(ring, p, r)
               = ToReap(ring, q, r) + (IF r = ring.cqes[g % CqEntries] THEN 1 ELSE 0)
  <2> PICK slots : slots = ring.cqes
    OBVIOUS
  <2> PICK d : d = m - k
    OBVIOUS
  <2>1. d \in 0 .. CqEntries /\ 1 \in 0 .. d /\ m - (k + 1) = d - 1 /\ d - 1 \in Nat
    BY <1>1, <1>3
  <2>2. Cardinality(Held(slots, CqEntries, g, d, r))
          = Cardinality(Held(slots, CqEntries, g, 1, r))
            + Cardinality(Held(slots, CqEntries, Plus(g, 1), d - 1, r))
    BY <1>1, <2>1, HeldApart
  <2>3. Cardinality(Held(slots, CqEntries, g, 1, r)) = IF slots[g % CqEntries] = r THEN 1 ELSE 0
    BY <1>1, HeldFirst
  <2>4. Plus(g, 1) = Plus(h, k + 1)
    <3>1. 1 \in Counters /\ k + 1 \in Counters
      <4>1. 0 .. CqEntries \subseteq Counters
        BY <1>1, SizeFacts
      <4>2. QED
        BY <1>1, <1>3, <4>1
    <3>2. \A i, j \in Counters : i + j \in Counters => Plus(Plus(h, i), j) = Plus(h, i + j)
      BY CounterArithmetic, Zenon
    <3>3. QED
      BY <1>1, <3>1, <3>2, Zenon
  <2>5. Cardinality(Held(slots, CqEntries, Plus(g, 1), d - 1, r)) \in Nat
    BY <2>1, HeldFinite
  <2>6. ToReap(ring, p, r) = Cardinality(Held(slots, CqEntries, g, d, r))
    BY Zenon DEF ToReap
  <2>7. ToReap(ring, q, r) = Cardinality(Held(slots, CqEntries, Plus(g, 1), d - 1, r))
    BY <1>4, <2>1, <2>4, Zenon DEF ToReap
  <2>8. QED
    BY <2>2, <2>3, <2>5, <2>6, <2>7
<1>8. QED
  BY <1>2, <1>5, <1>6, <1>7

(* The entry at hand has been dealt with.                                  *)
LEMMA ReturnedOk ==
  ASSUME NEW ring, NEW p, CqOk(ring, p), p.pc = "resumed",
         NEW q, q = [pc |-> "reaping", head |-> Plus(p.head, 1), count |-> p.count + 1]
  PROVE  CqOk(ring, q) /\ \A r : ToReap(ring, q, r) = ToReap(ring, p, r)
<1> PICK h \in Counters : h = ring.head
  BY DEF CqOk
<1> PICK k \in Nat : k = p.count
  BY DEF CqOk
<1>1. p.head = Plus(h, k) /\ Reaped(p) = k + 1 /\ Reaped(q) = k + 1
  BY DEF CqOk, Reaped
<1>2. k \in Counters /\ 1 \in Counters /\ k + 1 \in Counters
  <2>1. k + 1 \in 0 .. CqEntries /\ 0 .. CqEntries \subseteq Counters /\ CqEntries \in Nat /\ CqEntries > 0
    BY <1>1, Reaping, SizeFacts DEF CqOk
  <2>2. k \in 0 .. CqEntries /\ 1 \in 0 .. CqEntries
    BY <2>1
  <2>3. QED
    BY <2>1, <2>2
<1>3. Plus(p.head, 1) = Plus(h, k + 1) /\ Plus(p.head, 1) \in Counters
  <2>1. \A i, j \in Counters : i + j \in Counters => Plus(Plus(h, i), j) = Plus(h, i + j)
    BY CounterArithmetic, Zenon
  <2>2. \A i \in Nat : Plus(h, i) \in Counters
    BY CounterArithmetic, Zenon
  <2>3. k + 1 \in Nat
    OBVIOUS
  <2>4. Plus(h, k + 1) \in Counters
    BY <2>2, <2>3, Zenon
  <2>5. Plus(Plus(h, k), 1) = Plus(h, k + 1)
    BY <1>2, <2>1, Zenon
  <2>6. QED
    BY <1>1, <2>4, <2>5, Zenon
<1>4. /\ q.pc = "reaping" /\ q.head = Plus(h, q.count)
      /\ q \in [pc : {"out", "reaping", "resumed"}, head : Counters, count : Nat]
  BY <1>3
<1>5. CqOk(ring, q)
  BY <1>1, <1>4 DEF CqOk
<1>6. \A r : ToReap(ring, q, r) = ToReap(ring, p, r)
  BY <1>1, Zenon DEF ToReap
<1>7. QED
  BY <1>5, <1>6

(* The entries read are given back: none is left in the ring.              *)
LEMMA EndedOk ==
  ASSUME NEW ring, NEW p, CqOk(ring, p), p.pc = "reaping", p.head = ring.tail,
         NEW given, given = [ring EXCEPT !.head = Plus(@, p.count)]
  PROVE  /\ CqOk(given, OutOfPoll)
         /\ \A r : ToReap(ring, p, r) = 0 /\ ToReap(given, OutOfPoll, r) = 0
<1> PICK h \in Counters : h = ring.head
  BY DEF CqOk
<1> PICK t \in Counters : t = ring.tail
  BY DEF CqOk
<1> PICK k \in Nat : k = p.count
  BY DEF CqOk
<1>1. Reaped(p) = k /\ Plus(h, k) = t
  BY DEF CqOk, Reaped
<1>2. Minus(t, t) = 0
  BY CounterArithmetic
<1>3. Posted(ring) - k = 0
  <2>1. Minus(t, Plus(h, k)) = Posted(ring) - k
    BY <1>1, Reaping, Zenon
  <2>2. QED
    BY <1>1, <1>2, <2>1, Zenon
<1>4. given.head = t /\ given.tail = t
      /\ given \in [head : Counters, tail : Counters, cqes : [0 .. CqEntries - 1 -> Requests \cup {null}]]
  BY <1>1 DEF CqOk
<1>5. Posted(given) = 0
  BY <1>2, <1>4, Zenon DEF Posted
<1>6. /\ OutOfPoll.pc = "out" /\ Reaped(OutOfPoll) = 0
      /\ OutOfPoll \in [pc : {"out", "reaping", "resumed"}, head : Counters, count : Nat]
  BY RingAssumption DEF OutOfPoll, Reaped, Counters
<1>7. CqOk(given, OutOfPoll)
  <2>1. 0 <= CqEntries /\ 0 .. 0 - 1 = {}
    BY RingAssumption
  <2>2. QED
    BY <1>4, <1>5, <1>6, <2>1 DEF CqOk
<1>8. ASSUME NEW r
      PROVE  ToReap(ring, p, r) = 0 /\ ToReap(given, OutOfPoll, r) = 0
  <2>1. ToReap(ring, p, r) = 0
    BY <1>1, <1>3, HeldNone DEF ToReap
  <2>2. Posted(given) - Reaped(OutOfPoll) = 0
    BY <1>5, <1>6
  <2>3. ToReap(given, OutOfPoll, r) = 0
    BY <2>2, HeldNone DEF ToReap
  <2>4. QED
    BY <2>1, <2>3
<1>9. QED
  BY <1>7, <1>8

LEMMA ToReapAreCompletions ==
  ASSUME CqOk(cq, poll), NEW r
  PROVE  Cardinality(CompletionsOf(r)) = ToReap(cq, poll, r)
<1> PICK h \in Counters : h = cq.head
  BY DEF CqOk
<1> PICK k : k = Reaped(poll)
  OBVIOUS
<1>1. poll.pc \in {"out", "reaping", "resumed"} /\ poll.count \in Nat
  BY DEF CqOk
<1>2. NextToReap = Plus(h, k)
  <2>1. CASE poll.pc = "out"
    <3>1. Plus(h, 0) = h
      BY CounterArithmetic
    <3>2. QED
      BY <2>1, <3>1 DEF NextToReap, Reaped
  <2>2. CASE poll.pc = "reaping"
    BY <2>2 DEF NextToReap, Reaped, CqOk
  <2>3. CASE poll.pc = "resumed"
    <3> PICK p : p = [pc |-> "reaping", head |-> Plus(poll.head, 1), count |-> poll.count + 1]
      OBVIOUS
    <3>1. CqOk(cq, p)
      BY <2>3, ReturnedOk
    <3>2. p.pc = "reaping" /\ p.head = Plus(poll.head, 1) /\ p.count = poll.count + 1
      OBVIOUS
    <3>3. p.head = Plus(h, p.count)
      BY <3>1, <3>2 DEF CqOk
    <3>4. NextToReap = p.head /\ k = p.count
      BY <2>3, <3>2 DEF NextToReap, Reaped
    <3>5. QED
      BY <3>3, <3>4
  <2>4. QED
    BY <1>1, <2>1, <2>2, <2>3
<1>3. Minus(cq.tail, NextToReap) = Posted(cq) - k
  BY <1>2, Reaping, Zenon
<1>4. CompletionsOf(r) = Held(cq.cqes, CqEntries, Plus(h, k), Posted(cq) - k, r)
  BY <1>2, <1>3, Zenon DEF CompletionsOf, Held
<1>5. QED
  BY <1>4, Zenon DEF ToReap

-------------------------------------------------------------------------------
(***************************************************************************)
(* The steps.                                                              *)
(***************************************************************************)
LEMMA RingInvMeans ==
  RingInv => EachRequestOnce
<1> SUFFICES ASSUME RingInv PROVE EachRequestOnce
  OBVIOUS
<1>1. ASSUME NEW r \in Requests
      PROVE  Cardinality(SubmissionsOf(r)) + in_kernel[r] + Cardinality(CompletionsOf(r))
               = IF r \in waiting THEN 1 ELSE 0
  <2>1. Cardinality(SubmissionsOf(r)) = Queued(sq, r)
    BY QueuedAreSubmissions, Zenon DEF RingInv, Queued
  <2>2. Cardinality(CompletionsOf(r)) = ToReap(cq, poll, r)
    BY ToReapAreCompletions DEF RingInv
  <2>3. QED
    BY <2>1, <2>2, Zenon DEF RingInv, OneEach
<1>2. QED
  BY <1>1 DEF EachRequestOnce, RingInv, CountIsExact

LEMMA NothingQueued ==
  /\ SqOk(NewSq) /\ CqOk(NewCq, OutOfPoll)
  /\ \A r : Queued(NewSq, r) = 0 /\ ToReap(NewCq, OutOfPoll, r) = 0
<1>1. 0 \in Counters /\ Entries \in Nat \ {0} /\ CqEntries \in Nat \ {0}
  BY RingAssumption DEF Counters
<1>2. Minus(0, 0) = 0
  BY <1>1, CounterArithmetic
<1>3. NewSq \in [head : Counters, tail : Counters, tail_cached : Counters,
                 sqes : [0 .. Entries - 1 -> Requests \cup {null}],
                 array : [0 .. Entries - 1 -> 0 .. Entries - 1]]
  BY <1>1 DEF NewSq
<1>4. NewSq.head = 0 /\ NewSq.tail = 0 /\ NewSq.tail_cached = 0 /\ Untaken(NewSq) = 0
  BY <1>2 DEF NewSq, Untaken
<1>5. SqOk(NewSq)
  BY <1>1, <1>2, <1>3, <1>4 DEF SqOk
<1>6. /\ NewCq \in [head : Counters, tail : Counters, cqes : [0 .. CqEntries - 1 -> Requests \cup {null}]]
      /\ Posted(NewCq) = 0
  BY <1>1, <1>2 DEF NewCq, Posted
<1>7. /\ OutOfPoll.pc = "out" /\ Reaped(OutOfPoll) = 0
      /\ OutOfPoll \in [pc : {"out", "reaping", "resumed"}, head : Counters, count : Nat]
  BY <1>1 DEF OutOfPoll, Reaped
<1>8. CqOk(NewCq, OutOfPoll)
  BY <1>1, <1>6, <1>7 DEF CqOk
<1>9. \A r : Queued(NewSq, r) = 0
  BY <1>4, HeldNone DEF Queued
<1>10. \A r : ToReap(NewCq, OutOfPoll, r) = 0
  <2>1. Posted(NewCq) - Reaped(OutOfPoll) = 0
    BY <1>6, <1>7
  <2>2. QED
    BY <2>1, HeldNone DEF ToReap
<1>11. QED
  BY <1>5, <1>8, <1>9, <1>10

(* Entries the kernel takes are with the kernel instead of in the ring.    *)
LEMMA TakenOk ==
  ASSUME SqOk(sq), in_kernel \in [Requests -> Nat], NEW n \in Takes, KernelTakes(n)
  PROVE  /\ SqOk(Submitted(n)) /\ in_kernel' \in [Requests -> Nat]
         /\ \A r \in Requests : /\ Queued(Submitted(n), r) \in Nat
                                /\ Queued(Submitted(n), r) + in_kernel'[r] = Queued(sq, r) + in_kernel[r]
<1>1. SqOk(Submitted(n)) /\ n \in Nat
  BY SubmittedOk
<1>2. ASSUME NEW r
      PROVE  Cardinality({i \in 0 .. n - 1 : NextEntry(Published(sq), i) = r}) \in Nat
  <2>1. IsFiniteSet(0 .. n - 1) /\ {i \in 0 .. n - 1 : NextEntry(Published(sq), i) = r} \subseteq 0 .. n - 1
    BY <1>1, FS_Interval
  <2>2. QED
    BY <2>1, FS_Subset, FS_CardinalityType
<1>3. in_kernel' \in [Requests -> Nat]
  <2>1. ASSUME NEW r \in Requests
        PROVE  in_kernel[r] + Cardinality({i \in 0 .. n - 1 : NextEntry(Published(sq), i) = r}) \in Nat
    <3> PICK taken \in Nat : taken = Cardinality({i \in 0 .. n - 1 : NextEntry(Published(sq), i) = r})
      BY <1>2
    <3>1. in_kernel[r] + taken \in Nat
      OBVIOUS
    <3>2. QED
      BY <3>1
  <2>2. QED
    BY <2>1, Zenon DEF KernelTakes
<1>4. ASSUME NEW r \in Requests
      PROVE  /\ Queued(Submitted(n), r) \in Nat
             /\ Queued(Submitted(n), r) + in_kernel'[r] = Queued(sq, r) + in_kernel[r]
  <2> PICK taken \in Nat : taken = Cardinality({i \in 0 .. n - 1 : NextEntry(Published(sq), i) = r})
    BY <1>2
  <2>1. Queued(sq, r) = Queued(Submitted(n), r) + taken
    BY SubmittedOk
  <2>2. in_kernel'[r] = in_kernel[r] + taken
    BY DEF KernelTakes
  <2>3. Untaken(Submitted(n)) \in Nat
    BY <1>1, Distances DEF SqOk, Untaken
  <2>4. Queued(Submitted(n), r) \in Nat
    BY <2>3, HeldFinite DEF Queued
  <2>5. in_kernel[r] \in Nat
    OBVIOUS
  <2>6. QED
    BY <2>1, <2>2, <2>4, <2>5
<1>5. QED
  BY <1>1, <1>3, <1>4

LEMMA QueuedIsNat ==
  ASSUME NEW ring, SqOk(ring), NEW r
  PROVE  Queued(ring, r) \in Nat
<1>1. Untaken(ring) \in Nat
  BY Distances DEF SqOk, Untaken
<1>2. QED
  BY <1>1, HeldFinite DEF Queued

(* A request nobody waits for is entered into a ring with room.            *)
LEMMA EnqueueOk ==
  ASSUME RingInv, NEW q \in Requests, q \notin waiting, NEW ring, SqOk(ring), HasRoom(ring),
         in_kernel' \in [Requests -> Nat],
         \A r \in Requests : Queued(ring, r) + in_kernel'[r] = Queued(sq, r) + in_kernel[r],
         Enqueue(ring, q), UNCHANGED <<cq, poll>>
  PROVE  RingInv'
<1>1. /\ sq' = Filled(ring, q) /\ waiting' = waiting \cup {q} /\ cq' = cq /\ poll' = poll
      /\ unfinished_requests_count' = unfinished_requests_count + 1
  BY DEF Enqueue
<1>2. SqOk(sq') /\ \A r : Queued(sq', r) = Queued(ring, r) + (IF r = q THEN 1 ELSE 0)
  BY <1>1, FilledOk
<1>3. waiting' \subseteq Requests /\ IsFiniteSet(waiting') /\ Cardinality(waiting') = Cardinality(waiting) + 1
  BY <1>1, FS_AddElement DEF RingInv
<1>4. ASSUME NEW r \in Requests
      PROVE  Queued(sq', r) + in_kernel'[r] + ToReap(cq', poll', r) = IF r \in waiting' THEN 1 ELSE 0
  <2>1. Queued(sq, r) + in_kernel[r] + ToReap(cq, poll, r) = IF r \in waiting THEN 1 ELSE 0
    BY DEF RingInv, OneEach
  <2>2. /\ Queued(sq, r) \in Nat /\ Queued(ring, r) \in Nat /\ ToReap(cq, poll, r) \in Nat
        /\ in_kernel[r] \in Nat /\ in_kernel'[r] \in Nat
    BY QueuedIsNat, ToReapIsNat DEF RingInv
  <2>3. Queued(ring, r) + in_kernel'[r] = Queued(sq, r) + in_kernel[r]
    OBVIOUS
  <2>4. Queued(sq', r) = Queued(ring, r) + (IF r = q THEN 1 ELSE 0)
    BY <1>2
  <2>5. ToReap(cq', poll', r) = ToReap(cq, poll, r)
    BY <1>1
  <2>6. CASE r = q
    <3>1. r \in waiting' /\ r \notin waiting
      BY <1>1, <2>6
    <3>2. Queued(sq', r) = Queued(ring, r) + 1
      BY <2>4, <2>6
    <3>3. QED
      BY <2>1, <2>2, <2>3, <2>5, <3>1, <3>2
  <2>7. CASE r # q
    <3>1. r \in waiting' <=> r \in waiting
      BY <1>1, <2>7
    <3>2. QED
      BY <2>1, <2>2, <2>3, <2>4, <2>5, <2>7, <3>1
  <2>8. QED
    BY <2>6, <2>7
<1>5. OneEach'
  BY <1>4 DEF OneEach
<1>6. CqOk(cq', poll')
  BY <1>1 DEF RingInv
<1>7. Cardinality(waiting) \in Nat
  BY FS_CardinalityType DEF RingInv
<1>8. CountIsExact'
  BY <1>1, <1>3, <1>7 DEF RingInv, CountIsExact
<1>9. QED
  BY <1>2, <1>3, <1>5, <1>6, <1>8 DEF RingInv

(* A submission alone: what it leaves of the ring and what it makes the    *)
(* kernel's add up to the same.                                            *)
LEMMA SubmissionOk ==
  ASSUME RingInv, NEW n \in Takes, KernelTakes(n), sq' = Submitted(n), waiting' = waiting,
         unfinished_requests_count' = unfinished_requests_count,
         CqOk(cq', poll'), poll'.pc = "resumed" <=> poll.pc = "resumed",
         \A r : ToReap(cq', poll', r) = ToReap(cq, poll, r)
  PROVE  RingInv'
<1>1. /\ SqOk(sq') /\ in_kernel' \in [Requests -> Nat]
      /\ \A r \in Requests : Queued(sq', r) + in_kernel'[r] = Queued(sq, r) + in_kernel[r]
  BY TakenOk DEF RingInv
<1>2. OneEach'
  BY <1>1 DEF RingInv, OneEach
<1>3. CountIsExact'
  BY DEF RingInv, CountIsExact
<1>4. QED
  BY <1>1, <1>2, <1>3 DEF RingInv

LEMMA SubmitRequestStep ==
  ASSUME RingInv, NEW q \in Requests, SubmitRequest(q)
  PROVE  RingInv'
<1>1. CASE HasRoom(sq) /\ Enqueue(sq, q) /\ UNCHANGED in_kernel
  <2>1. /\ q \notin waiting /\ UNCHANGED <<cq, poll>> /\ in_kernel' = in_kernel
        /\ SqOk(sq) /\ in_kernel' \in [Requests -> Nat]
    BY <1>1 DEF SubmitRequest, RingInv
  <2>2. \A r \in Requests : Queued(sq, r) + in_kernel'[r] = Queued(sq, r) + in_kernel[r]
    BY <2>1
  <2>3. QED
    BY <1>1, <2>1, <2>2, EnqueueOk
<1>2. ASSUME NEW n \in Takes, KernelTakes(n), HasRoom(Submitted(n)), Enqueue(Submitted(n), q)
      PROVE  RingInv'
  <2>1. q \notin waiting /\ UNCHANGED <<cq, poll>>
    BY DEF SubmitRequest
  <2>2. /\ SqOk(Submitted(n)) /\ in_kernel' \in [Requests -> Nat]
        /\ \A r \in Requests : Queued(Submitted(n), r) + in_kernel'[r] = Queued(sq, r) + in_kernel[r]
    BY <1>2, TakenOk DEF RingInv
  <2>3. QED
    BY <1>2, <2>1, <2>2, EnqueueOk
<1>3. ASSUME NEW n \in Takes, KernelTakes(n), sq' = Submitted(n), UNCHANGED <<waiting, counterVars>>
      PROVE  RingInv'
  <2>1. /\ cq' = cq /\ poll' = poll /\ waiting' = waiting
        /\ unfinished_requests_count' = unfinished_requests_count
    BY <1>3 DEF SubmitRequest, counterVars
  <2>2. CqOk(cq', poll') /\ \A r : ToReap(cq', poll', r) = ToReap(cq, poll, r)
    BY <2>1 DEF RingInv
  <2>3. QED
    BY <1>3, <2>1, <2>2, SubmissionOk
<1>4. QED
  BY <1>1, <1>2, <1>3 DEF SubmitRequest

(* The kernel's operation becomes an entry to reap.                        *)
LEMMA CompleteStep ==
  ASSUME RingInv, NEW q \in Requests, Complete(q)
  PROVE  RingInv'
<1>1. /\ in_kernel[q] > 0 /\ in_kernel' = [in_kernel EXCEPT ![q] = @ - 1]
      /\ sq' = sq /\ waiting' = waiting /\ poll' = poll
      /\ unfinished_requests_count' = unfinished_requests_count
  BY DEF Complete, counterVars
<1>2. CqOk(cq', poll) /\ \A r : ToReap(cq', poll, r) = ToReap(cq, poll, r) + (IF r = q THEN 1 ELSE 0)
  <2>1. /\ CqOk(cq, poll) /\ Minus(cq.tail, cq.head) < CqEntries
        /\ cq' = [cq EXCEPT !.cqes[cq.tail % CqEntries] = q, !.tail = Plus(@, 1)]
    BY DEF RingInv, Complete
  <2>2. \A grown :
          grown = [cq EXCEPT !.cqes[cq.tail % CqEntries] = q, !.tail = Plus(@, 1)]
            => /\ CqOk(grown, poll)
               /\ \A r : ToReap(grown, poll, r) = ToReap(cq, poll, r) + (IF r = q THEN 1 ELSE 0)
    BY <2>1, PostedOk, Zenon
  <2>3. QED
    BY <2>1, <2>2, Zenon
<1>3. in_kernel' \in [Requests -> Nat]
  BY <1>1 DEF RingInv
<1>4. ASSUME NEW r \in Requests
      PROVE  Queued(sq', r) + in_kernel'[r] + ToReap(cq', poll', r) = IF r \in waiting' THEN 1 ELSE 0
  <2>1. Queued(sq, r) + in_kernel[r] + ToReap(cq, poll, r) = IF r \in waiting THEN 1 ELSE 0
    BY DEF RingInv, OneEach
  <2>2. Queued(sq, r) \in Nat /\ ToReap(cq, poll, r) \in Nat /\ in_kernel[r] \in Nat
    BY QueuedIsNat, ToReapIsNat DEF RingInv
  <2>3. in_kernel'[r] = IF r = q THEN in_kernel[r] - 1 ELSE in_kernel[r]
    BY <1>1 DEF RingInv
  <2>4. ToReap(cq', poll', r) = ToReap(cq, poll, r) + (IF r = q THEN 1 ELSE 0)
    BY <1>1, <1>2
  <2>5. Queued(sq', r) = Queued(sq, r)
    BY <1>1
  <2>6. Queued(sq', r) + in_kernel'[r] + ToReap(cq', poll', r)
          = Queued(sq, r) + in_kernel[r] + ToReap(cq, poll, r)
    <3>1. CASE r = q
      BY <2>2, <2>3, <2>4, <2>5, <3>1
    <3>2. CASE r # q
      BY <2>2, <2>3, <2>4, <2>5, <3>2
    <3>3. QED
      BY <3>1, <3>2
  <2>7. QED
    BY <1>1, <2>1, <2>6, Zenon
<1>5. QED
  BY <1>1, <1>2, <1>3, <1>4 DEF RingInv, OneEach, CountIsExact

LEMMA BeginPollStep ==
  ASSUME RingInv, BeginPoll
  PROVE  RingInv'
<1>1. /\ sq' = sq /\ cq' = cq /\ in_kernel' = in_kernel /\ waiting' = waiting
      /\ unfinished_requests_count' = unfinished_requests_count
      /\ poll.pc = "out" /\ poll' = [pc |-> "reaping", head |-> cq.head, count |-> 0]
  BY DEF BeginPoll, ringVars, counterVars
<1>2. CqOk(cq, poll') /\ \A r : ToReap(cq, poll', r) = ToReap(cq, poll, r)
  BY <1>1, BegunOk DEF RingInv
<1>3. poll'.pc = "reaping"
  BY <1>1
<1>4. QED
  BY <1>1, <1>2, <1>3 DEF RingInv, OneEach, CountIsExact

(* The entry at hand is the one place of its request, so that somebody     *)
(* waits for it.                                                           *)
LEMMA ResumeStep ==
  ASSUME RingInv, Resume
  PROVE  RingInv'
<1> PICK q : q = cq.cqes[poll.head % CqEntries]
  OBVIOUS
<1>1. /\ sq' = sq /\ cq' = cq /\ in_kernel' = in_kernel /\ waiting' = waiting \ {q}
      /\ unfinished_requests_count' = unfinished_requests_count
      /\ poll.pc = "reaping" /\ poll.head # cq.tail /\ poll' = [poll EXCEPT !.pc = "resumed"]
  BY DEF Resume, ringVars, counterVars
<1>2. /\ CqOk(cq, poll') /\ q \in Requests
      /\ \A r : ToReap(cq, poll, r) = ToReap(cq, poll', r) + (IF r = q THEN 1 ELSE 0)
  BY <1>1, ResumedOk DEF RingInv
<1>3. poll'.pc = "resumed"
  BY <1>1 DEF RingInv, CqOk
<1>4. ASSUME NEW r \in Requests
      PROVE  /\ Queued(sq, r) + in_kernel[r] + ToReap(cq, poll', r) = IF r \in waiting \ {q} THEN 1 ELSE 0
             /\ r = q => r \in waiting
  <2>1. Queued(sq, r) + in_kernel[r] + ToReap(cq, poll, r) = IF r \in waiting THEN 1 ELSE 0
    BY DEF RingInv, OneEach
  <2>2. Queued(sq, r) \in Nat /\ ToReap(cq, poll', r) \in Nat /\ in_kernel[r] \in Nat
    BY <1>2, QueuedIsNat, ToReapIsNat DEF RingInv
  <2>3. ToReap(cq, poll, r) = ToReap(cq, poll', r) + (IF r = q THEN 1 ELSE 0)
    BY <1>2
  <2>4. CASE r = q
    BY <2>1, <2>2, <2>3, <2>4
  <2>5. CASE r # q
    <3>1. r \in waiting \ {q} <=> r \in waiting
      BY <2>5
    <3>2. QED
      BY <2>1, <2>2, <2>3, <2>5, <3>1
  <2>6. QED
    BY <2>4, <2>5
<1>5. OneEach'
  BY <1>1, <1>4 DEF OneEach
<1>6. /\ waiting' \subseteq Requests /\ IsFiniteSet(waiting')
      /\ Cardinality(waiting') = Cardinality(waiting) - 1
  <2>1. waiting \subseteq Requests /\ IsFiniteSet(waiting)
    BY DEF RingInv
  <2>2. q \in waiting
    BY <1>2, <1>4
  <2>3. IsFiniteSet(waiting \ {q}) /\ Cardinality(waiting \ {q}) = Cardinality(waiting) - 1
    BY <2>1, <2>2, FS_RemoveElement
  <2>4. QED
    BY <1>1, <2>1, <2>3
<1>7. CountIsExact'
  <2>1. Cardinality(waiting) \in Nat
    BY FS_CardinalityType DEF RingInv
  <2>2. QED
    BY <1>1, <1>3, <1>6, <2>1 DEF RingInv, CountIsExact
<1>8. QED
  BY <1>1, <1>2, <1>5, <1>6, <1>7 DEF RingInv

LEMMA ResumeReturnsStep ==
  ASSUME RingInv, ResumeReturns
  PROVE  RingInv'
<1>1. /\ sq' = sq /\ cq' = cq /\ in_kernel' = in_kernel /\ waiting' = waiting
      /\ unfinished_requests_count' = unfinished_requests_count - 1
      /\ poll.pc = "resumed"
      /\ poll' = [pc |-> "reaping", head |-> Plus(poll.head, 1), count |-> poll.count + 1]
  BY DEF ResumeReturns, ringVars
<1>2. CqOk(cq, poll') /\ \A r : ToReap(cq, poll', r) = ToReap(cq, poll, r)
  BY <1>1, ReturnedOk DEF RingInv
<1>3. poll'.pc = "reaping"
  BY <1>1
<1>4. Cardinality(waiting) \in Nat
  BY FS_CardinalityType DEF RingInv
<1>5. CountIsExact'
  BY <1>1, <1>3, <1>4 DEF RingInv, CountIsExact
<1>6. QED
  BY <1>1, <1>2, <1>5 DEF RingInv, OneEach

LEMMA EndPollStep ==
  ASSUME RingInv, EndPoll
  PROVE  RingInv'
<1>1. /\ poll.pc = "reaping" /\ poll.head = cq.tail /\ poll' = OutOfPoll
      /\ cq' = [cq EXCEPT !.head = Plus(@, poll.count)]
      /\ waiting' = waiting /\ unfinished_requests_count' = unfinished_requests_count
      /\ \/ \E n \in Takes : sq' = Submitted(n) /\ KernelTakes(n)
         \/ sq' = sq /\ in_kernel' = in_kernel
  BY DEF EndPoll, FlushRequests
<1>2. CqOk(cq', poll') /\ \A r : ToReap(cq', poll', r) = ToReap(cq, poll, r)
  <2>1. CqOk(cq', OutOfPoll) /\ \A r : ToReap(cq, poll, r) = 0 /\ ToReap(cq', OutOfPoll, r) = 0
    BY <1>1, EndedOk DEF RingInv
  <2>2. QED
    BY <1>1, <2>1
<1>3. poll'.pc = "out"
  BY <1>1 DEF OutOfPoll
<1>4. CASE \E n \in Takes : sq' = Submitted(n) /\ KernelTakes(n)
  BY <1>1, <1>2, <1>3, <1>4, SubmissionOk
<1>5. CASE sq' = sq /\ in_kernel' = in_kernel
  BY <1>1, <1>2, <1>3, <1>5 DEF RingInv, OneEach, CountIsExact
<1>6. QED
  BY <1>1, <1>4, <1>5

LEMMA CloseStep ==
  ASSUME RingInv, Close
  PROVE  RingInv'
<1>1. /\ cq' = cq /\ poll' = poll /\ waiting' = waiting
      /\ unfinished_requests_count' = unfinished_requests_count
      /\ \E n \in Takes : sq' = Submitted(n) /\ KernelTakes(n)
  BY DEF Close, counterVars
<1>2. CqOk(cq', poll') /\ \A r : ToReap(cq', poll', r) = ToReap(cq, poll, r)
  BY <1>1 DEF RingInv
<1>3. QED
  BY <1>1, <1>2, SubmissionOk

(* A new ring.                                                             *)
LEMMA NewRing ==
  ASSUME sq = NewSq, cq = NewCq, poll = OutOfPoll, waiting = {},
         in_kernel = [r \in Requests |-> 0], unfinished_requests_count = 0
  PROVE  RingInv
<1>1. SqOk(sq) /\ CqOk(cq, poll) /\ \A r : Queued(sq, r) = 0 /\ ToReap(cq, poll, r) = 0
  BY NothingQueued
<1>2. OneEach
  BY <1>1 DEF OneEach
<1>3. IsFiniteSet(waiting) /\ Cardinality(waiting) = 0 /\ poll.pc = "out"
  BY FS_EmptySet DEF OutOfPoll
<1>4. CountIsExact
  BY <1>3 DEF CountIsExact
<1>5. QED
  BY <1>1, <1>2, <1>3, <1>4 DEF RingInv

LEMMA RestartStep ==
  ASSUME Restart
  PROVE  RingInv'
<1>1. /\ sq' = NewSq /\ cq' = NewCq /\ poll' = OutOfPoll /\ waiting' = {}
      /\ in_kernel' = [r \in Requests |-> 0] /\ unfinished_requests_count' = 0
  BY DEF Restart
<1>2. SqOk(sq') /\ CqOk(cq', poll') /\ \A r : Queued(sq', r) = 0 /\ ToReap(cq', poll', r) = 0
  BY <1>1, NothingQueued
<1>3. OneEach'
  BY <1>1, <1>2 DEF OneEach
<1>4. IsFiniteSet(waiting') /\ Cardinality(waiting') = 0 /\ poll'.pc = "out"
  BY <1>1, FS_EmptySet DEF OutOfPoll
<1>5. CountIsExact'
  BY <1>1, <1>4 DEF CountIsExact
<1>6. QED
  BY <1>1, <1>2, <1>3, <1>4, <1>5 DEF RingInv

LEMMA RingStep ==
  ASSUME RingInv, [Next]_vars
  PROVE  RingInv'
<1>1. CASE \E r \in Requests : SubmitRequest(r) \/ Complete(r)
  BY <1>1, SubmitRequestStep, CompleteStep
<1>2. CASE BeginPoll
  BY <1>2, BeginPollStep
<1>3. CASE Resume
  BY <1>3, ResumeStep
<1>4. CASE ResumeReturns
  BY <1>4, ResumeReturnsStep
<1>5. CASE EndPoll
  BY <1>5, EndPollStep
<1>6. CASE Close
  BY <1>6, CloseStep
<1>7. CASE Restart
  BY <1>7, RestartStep
<1>8. CASE UNCHANGED vars
  <2>1. /\ sq' = sq /\ cq' = cq /\ in_kernel' = in_kernel /\ waiting' = waiting /\ poll' = poll
        /\ unfinished_requests_count' = unfinished_requests_count
    BY <1>8 DEF vars, ringVars, counterVars
  <2>2. QED
    BY <2>1 DEF RingInv, OneEach, CountIsExact
<1>9. QED
  BY <1>1, <1>2, <1>3, <1>4, <1>5, <1>6, <1>7, <1>8 DEF Next

(* A request somebody waits for is in exactly one place on its way through *)
(* the rings, one nobody waits for is nowhere, and the count callers poll  *)
(* to zero is exact: SubmitRequest, handle_completions and the kernel in   *)
(* any order, whatever part of a batch the kernel takes, for rings of any  *)
(* size that divides the counters' range.                                  *)
THEOREM EachRequestOnceCorrect == Spec => []EachRequestOnce
<1>1. Init => RingInv
  BY NewRing DEF Init
<1>2. RingInv /\ [Next]_vars => RingInv'
  BY RingStep
<1>3. RingInv => EachRequestOnce
  BY RingInvMeans
<1>4. QED
  BY <1>1, <1>2, <1>3, PTL DEF Spec
===============================================================================
